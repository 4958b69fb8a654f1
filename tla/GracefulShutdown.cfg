SPECIFICATION FairSpec
CONSTANTS
  Services <- Both
  Messages <- Work
  Home <- HomeOfWork
  Kind <- KindOfWork
  MaxFaults = 1
INVARIANTS DrainsInOrder LostHasCause
PROPERTY ShutdownEnds
\* Everything is shut down in the end.
CHECK_DEADLOCK FALSE
