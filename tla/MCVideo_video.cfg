CONSTANTS
  FrameLines = 4
  ShortLines = 2
  TallLines = 3
  SplitRegs = {7, 23}
  Starts <- MCStarts
  CtrlBytes <- MCCtrl
  DataBytes <- MCData
  BiosAddrs <- MCAddrs
  RegWrites <- MCRegWrites
  Blocks <- MCBlocks
SPECIFICATION MCSpec
INVARIANTS
  AddressAgrees
  PortsInOrder
  TransferPlace
  LinesAreHonest
PROPERTIES
  CommandDraws
CHECK_DEADLOCK FALSE
