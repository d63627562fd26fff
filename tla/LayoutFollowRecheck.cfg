SPECIFICATION FollowFairSpec
CONSTANTS
  k1 = k1
  k2 = k2
  button = button
  Safe = {k1, k2}
  Others = {button}
  NoDevice = NoDevice
  LayoutCount = 2
  QuietTicks = 1
  EchoTicks = 1
  QuiesceTicks = 1
  WindowTicks = 3
  Order <- MCOrder
  SlowSeat = TRUE
  MaxToggles = 1
  MaxBursts = 1
  MaxClicks = 0
  MaxDrops = 0
  MaxEvents = 2
PROPERTIES LoneToggleIsFollowed
CHECK_DEADLOCK FALSE
