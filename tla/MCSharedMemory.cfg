\* The race stops at its end; SavagesEat and RaceEnds say that nothing stops before.
CONSTANTS
  Savage = {s1, s2, s3, s4}
  M = 3
  Horse = {h1, h2, h3}
  n = 3
  Laps = {2}
  Replacements = 1
SPECIFICATION MCSpec
INVARIANT FirstLapTogether
PROPERTIES PotChanges SavagesEat RaceEnds
CHECK_DEADLOCK FALSE
