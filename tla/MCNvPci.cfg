CONSTANTS
  USE_VIRTUAL_PCI = FALSE
  Buses <- MCBuses

SPECIFICATION PciFairSpec

INVARIANTS
  PciTypeOK
  DetectsFirstEntry
  BarsOfFoundUnlessAliased
