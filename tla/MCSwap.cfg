SPECIFICATION FairSpec
CONSTANTS
  BufferCounts = {2, 3}
  DrawModes = {"FRONT", "BACK"}
  NoBuffer = NoBuffer
INVARIANTS NoTearing
PROPERTIES ImplementsFrames FrameFinished CallsReturn
