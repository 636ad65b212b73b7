CONSTANTS
  USE_VIRTUAL_PCI = TRUE
  Buses <- NoDevices

SPECIFICATION PciSpec

INVARIANT VirtualDeviceIsNv3
