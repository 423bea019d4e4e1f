CONSTANT N = 4
SPECIFICATION FairSpec
INVARIANTS NeighboursDoNotEat NoDeadlock
PROPERTY NoStarvation
