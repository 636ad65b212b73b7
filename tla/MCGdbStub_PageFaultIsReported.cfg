CONSTANTS
  Eips       <- MCEips
  Values     <- MCValues
  Addresses  <- MCAddresses
  Mapped     <- MCMapped
  Exceptions <- MCExceptions

SPECIFICATION StubFairSpec

INVARIANT PageFaultIsReported
