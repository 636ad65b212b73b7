CONSTANTS
  Eips       <- MCEips
  Values     <- MCValues
  Addresses  <- MCAddresses
  Mapped     <- MCMapped
  Exceptions <- MCExceptions

SPECIFICATION StubFairSpec

INVARIANTS
  StubTypeOK
  DebuggerSeesProgram
  OnlyOneFrameTalks
  StepIsOneInstruction

PROPERTY StopsAndAccessesAreAnswered
