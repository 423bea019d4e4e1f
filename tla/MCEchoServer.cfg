\* Three connections for a table of two.  The server stops when it has exited, and
\* may wait for ever after SIGINT; the players stop when one of them quits.
SPECIFICATION MCSpec
CONSTANTS
  Conn = {k1, k2, k3}
  NoConn = NoConn
  Unborn = Unborn
  MAXCLIENTS = 2
  MaxRead = 1
  Kid = {d1, d2, d3}
  children = 4
INVARIANTS TableExact ReportComplete NoZombieForgotten OneBall
PROPERTIES ZombiesReaped BallGoesRound
CHECK_DEADLOCK FALSE
