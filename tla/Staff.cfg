SPECIFICATION MCSpec
CONSTANTS
  None = None
  ask = ask
  askAgain = askAgain
  approve = approve
  add = add
  clone = clone
  q1 = q1
  q2 = q2
  anna = anna
  p1 = p1
  e1 = e1
  e2 = e2
  Request = {ask, askAgain, approve, add, clone, q1, q2}
  User = {anna}
  Person = {p1, p2}
  Election = {e1, e2}
  MaxCommissions = 4
  MaxMembers = 5
SYMMETRY StaffSymmetry
INVARIANTS
  TypeOK
  PresidentSitsOnIt
  HeadlessOnPurpose
  GroupsAgree
  VotesAreKept
  SecondLoginHasCause
PROPERTY
  PresidentKeepsRole
CHECK_DEADLOCK FALSE
