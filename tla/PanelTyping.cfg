SPECIFICATION TypingSpec
CONSTANTS
  us = us
  ru = ru
  Keymaps = {us, ru}
  NoKeymap = NoKeymap
  Caps <- MCCaps
  Clicked = {"shift", "altgr", "ctrl"}
  MaxConfigures = 2
  MaxGestures = 3
  MaxForeign = 1
  MaxDrops = 1
INVARIANTS NothingIsStuck LocksAreHeld
PROPERTIES KeysAreTypedAsDrawn
CHECK_DEADLOCK FALSE
