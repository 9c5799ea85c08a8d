SPECIFICATION GameSpec
CONSTANTS
  ann = ann  bob = bob
  Net = Net  Nothing = Nothing
  Size <- MCSize
  MaxDepth = 3
  Bots = {1, 2, 3}
  Clients = {ann, bob}
  Requested <- MCRequested
  MaxClicks <- MCMaxClicks
  Leavers = {ann}
INVARIANTS ViewsCatchUp
PROPERTIES OwnSeatPlayed TurnsCapture BotsMove
CHECK_DEADLOCK FALSE
