CONSTANTS
  USE_VIRTUAL_PCI = FALSE
  Bar0 = 224
  Bar1 = 225
  Addresses <- MCAddresses
  Values <- MCValues
  AllOnes = 1

SPECIFICATION IoSpec

INVARIANT IoTypeOK

PROPERTY ImplementsFlatSpace
