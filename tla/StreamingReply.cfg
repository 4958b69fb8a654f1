\* One call of three chunks with room for two, and up to three faults.
SPECIFICATION FairSpec
CONSTANTS
  Calls = {c1}
  Last = 2
  MaxBuffered = 2
  MaxTotal = 2
  MaxFaults = 3
INVARIANTS StreamIsFaithful BuffersAccounted
PROPERTIES NoticeFollowsRequest FirstOutcomeStands CallReleases
\* A call may be over and the connection closed.
CHECK_DEADLOCK FALSE
