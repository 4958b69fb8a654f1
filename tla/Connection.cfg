\* Two components, a budget of two attempts, one disconnect, one unsafe window.
SPECIFICATION FairSpec
CONSTANTS
  w1 = w1
  Components = 2
  Waiters <- MCWaiters
  MaxAttempts = 2
  MaxSockets = 3
  MaxFaults = 3
  MaxDisconnects = 1
  MaxAlive = 2
  MaxWindows = 1
INVARIANTS OneOfEach ReadyMeansRestored DisconnectIsFinal
PROPERTIES NobodyForgotten ComesBack
\* A connection that was closed or given up rests.
CHECK_DEADLOCK FALSE
