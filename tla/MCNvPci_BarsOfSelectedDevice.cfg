CONSTANTS
  USE_VIRTUAL_PCI = FALSE
  Buses <- MCBuses

SPECIFICATION PciSpec

INVARIANT BarsOfSelectedDevice
