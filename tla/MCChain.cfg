SPECIFICATION FairSpec
CONSTANTS
  Start = 1
  NumMPRs = 2
  Height = 3
  QueueLen = 2
  MaxStrays = 1
  MaxEarly = 1
  Modes <- AllModes
  NoBuffer = NoBuffer
INVARIANTS NoDeadlock SyncMeansDone DrawnWhereMeant NoTearing ConvertsFinishedFrame FrameConverted CommandsArriveWhole OnlyOwnMPEsRun
PROPERTIES ImplementsFrames CallsReturn
