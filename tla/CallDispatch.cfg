SPECIFICATION FairSpec
CONSTANTS
  None = None
  First = First
  anna = anna
  Request = {q1, q2, q3}
  Commissioner = {anna}
  Staff = {anna}
  Reach <- Voters
CHECK_DEADLOCK FALSE
INVARIANTS
  TypeOK
  UndisturbedCallIsKept
  BusyOnlyWhileCalled
PROPERTY
  EveryVoterIsAnswered
