CONSTANTS
  HeadSize = 2
  TailSize = 2
  MaxBody = 2
  MaxFrames = 3
  MaxChunk = 6
SPECIFICATION FairSpec
INVARIANTS
  TypeOK
  FramesAreHandled
PROPERTIES
  DecodeReturns
