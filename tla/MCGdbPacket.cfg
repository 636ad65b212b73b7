CONSTANTS
  IO_BUFFER_SIZE = 5
  Lines <- MCLines

SPECIFICATION PacketSpec

INVARIANTS
  PacketTypeOK
  DeliversOnlyFrames
  MisreadOnlyAfterColon

PROPERTY EveryFrameAnswered
