SPECIFICATION FollowFairSpec
CONSTANTS
  k1 = k1
  k2 = k2
  button = button
  Safe = {k1, k2}
  Others = {button}
  NoDevice = NoDevice
  LayoutCount = 2
  QuietTicks = 1
  EchoTicks = 2
  QuiesceTicks = 2
  WindowTicks = 5
  Order <- MCOrder
  SlowSeat = FALSE
  MaxToggles = 2
  MaxBursts = 1
  MaxClicks = 1
  MaxDrops = 1
  MaxEvents = 2
PROPERTIES LoneMoveIsTheUsers ChurnIsNotFollowed AgreedSeatIsFollowed LoneToggleIsFollowed
CHECK_DEADLOCK FALSE
