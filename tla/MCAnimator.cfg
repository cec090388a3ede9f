SPECIFICATION Spec
CONSTANTS
  Modes = {0, 1, 7}
  ModeCount = 3
  Values = {0, 1}
  DefaultMode = 0
  DefaultValue = 1
  MaxDelay = 4
  MaxOrders = 3
  Leds = {1, 2}
INVARIANTS
  ShownStripExists
  EffectsFindTheirOwn
  BothTheSame
PROPERTIES
  LastOrdersShown
