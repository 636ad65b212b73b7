CONSTANTS
  BootRegs   <- MCBootRegs
  PfbBoots   <- MCPfbBoots
  Straps     <- MCStraps
  BiosClocks <- MCBiosClocks
  PmcEnables <- MCPmcEnables
  IntrEnables <- MCIntrEnables
  USE_VIRTUAL_PCI = FALSE
  Buses <- MCBuses
  Signals = {"SIGINT", "SIGTERM"}

SPECIFICATION NvplayFairSpec

INVARIANTS
  NvplayTypeOK
  LeakOnlyAtCut
  StaleOnlyAtCut
  AccessMapped
  KilledOnlyByReentry
  FailedInitLeavesChip

PROPERTIES
  MainSettles
  SignalEnds
  ImplementsLifecycle
