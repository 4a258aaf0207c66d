SPECIFICATION Spec
CONSTANTS
  None = None
  anna = anna
  luca = luca
  e1 = e1
  e2 = e2
  a1 = a1
  a2 = a2
  l1 = l1
  again = again
  c1 = c1
  c2 = c2
  Request = {q1, q2, q3}
  Person = {anna}
  Election = {e1, e2}
  Row = {a1, a2}
  InitialRoll = {a1, a2}
  Officer = {c2}
  RemoteOfficer = {c2}
  PublicElection = {}
  SampledElection = {e1, e2}
  AutoElection = {}
  SpidElection = {e1}
  SpidUser = {anna}
  BlankRow = {}
  UploadFile = {}
  Otp = {x, y}
  PersonOf <- DayPersonOf
  ElectionOf <- DayElectionOf
  Commission <- JointCommission
SYMMETRY DaySymmetry
CHECK_DEADLOCK FALSE
INVARIANTS
  TypeOK
  OneBallotPerVoter
  NoticesFindTheirTicket
  
