SPECIFICATION FairSpec
CONSTANTS
  a = a
  b = b
  Keymaps = {a, b}
  NoKeymap = NoKeymap
  DefaultMap = a
  HelperGroups <- MCGroups
  ListedGroups <- MCListed
  MaxAttempts = 1
  MaxWire = 4
  MaxMoves = 1
  MaxEdits = 1
  MaxForeign = 1
  MaxRefusals = 2
  MaxMissed = 1
  MaxDrops = 1
  MaxTotal = 2
INVARIANTS GateIsHonest GateAnswersTheKeymap DrainsAreForeseen
PROPERTIES ComesToRest
CHECK_DEADLOCK FALSE
