CONSTANTS
  BootRegs   <- MCBootRegs
  PfbBoots   <- MCPfbBoots
  Straps     <- MCStraps
  BiosClocks <- MCBiosClocks
  PmcEnables = {0}
  IntrEnables = {0}
  USE_VIRTUAL_PCI = TRUE
  Buses <- NoDevices
  Signals = {"SIGINT", "SIGTERM"}

SPECIFICATION NvplaySpec

INVARIANT CaughtSignalExits
