CONSTANTS
  Streams <- ShortStreams
  HeaderSize = 2
  MaxPayload = 4
  MaxInput = 5
  ReadBudget = 3
  RecvChunk = 4
SPECIFICATION Spec
INVARIANTS
  BufferIsTheRest
  InputBounded
  NoFrameStranded
  NoMessageDropped
  ErrorIsDeserved
PROPERTIES
  FramesHandedOver
CHECK_DEADLOCK FALSE
