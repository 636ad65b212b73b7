CONSTANTS
  BootRegs   <- MCBootRegs
  PfbBoots   <- MCPfbBoots
  Straps     <- MCStraps
  BiosClocks <- MCBiosClocks
  PmcEnables <- MCPmcEnables
  IntrEnables <- MCIntrEnables

SPECIFICATION Nv3FairSpec

INVARIANTS
  Nv3TypeOK
  ShadowsAgree
  ClockSafe
  DefaultModeFits

PROPERTIES
  ReclocksGradually
  EndsAtBase
