SPECIFICATION FairSpec
CONSTANTS
  NumMPEs = 2
  MAX_VERTS = 2
  Formats = {"XYZWUVN", "XYZC"}
  Buffers = {b1}
  GcBuffer = gcbuf
  Counts = {7}
  MixedFormats = FALSE
  NoPacket = NoPacket
INVARIANTS TaskAccounting CopiesToIdleMPE LoaderMatchesPacket BitfieldCoversReaders InBounds
PROPERTIES NoOverwrite FinishMeansIdle CallsReturn ImplementsFairService
