SPECIFICATION Spec
CONSTANTS
  BankSize = 8192
  Registers = {0, 1, 2, 3}
  Start <- KonamiStart
  End <- KonamiEnd
  Initial <- KonamiInitial
  Selects <- SCCSelects
  HasSCC = TRUE
  Size = 49152
  Addrs <- SCCAddrs
  Values = {0, 5, 63, 69}
INVARIANTS
  BanksInv
