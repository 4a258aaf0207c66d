SPECIFICATION Spec
CONSTANTS
  None = None
  anna = anna
  luca = luca
  e1 = e1
  e2 = e2
  a1 = a1
  a2 = a2
  l1 = l1
  again = again
  c1 = c1
  c2 = c2
  Request = {q1, q2, q3, q4}
  Person = {anna, luca}
  Election = {e1}
  Row = {a1, again, l1}
  InitialRoll = {a1}
  Officer = {c1}
  RemoteOfficer = {}
  PublicElection = {e1}
  SampledElection = {}
  AutoElection = {}
  SpidElection = {e1}
  SpidUser = {anna}
  BlankRow = {a1}
  UploadFile <- RollFiles
  Otp = {x}
  PersonOf <- RollPersonOf
  ElectionOf <- RollElectionOf
  Commission <- RollCommission
SYMMETRY RollSymmetry
CHECK_DEADLOCK FALSE
INVARIANTS
  RecordedVoteWasCast
  SecondBallotNeedsRemoval
