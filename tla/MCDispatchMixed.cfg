SPECIFICATION Spec
CONSTANTS
  NumMPEs = 2
  MAX_VERTS = 3
  Formats = {"XYZWUVN", "XYZC"}
  Buffers = {b1}
  GcBuffer = gcbuf
  Counts = {9}
  MixedFormats = TRUE
  NoPacket = NoPacket
INVARIANT InBounds
