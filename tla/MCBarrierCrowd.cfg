CONSTANTS
  Horse = {h1, h2, h3}
  n = 2
  Laps = {1}
  Replacements = 0
SPECIFICATION BarrierFairSpec
PROPERTY HorsesFinish
CHECK_DEADLOCK FALSE
