SPECIFICATION Spec
CONSTANTS
  Request = {r1, r2}
  Dashboard = {d1}
  Operator = {o1}
  MaxCrashes = 1
  Null = Null
  NoOne = NoOne
  h1 = h1
  h2 = h2
  h3 = h3
  h4 = h4
  e1 = e1
  e2 = e2
  e3 = e3
  ada = ada
  bob = bob
  eve = eve
  north = north
  south = south
  blank = blank
  spoil = spoil
  Name = {ada, bob, eve, north, south, blank, spoil}
  Blank = blank
  Spoil = spoil
  Hash = {h1, h2}
  Election = {e1}
  Contest = {e1}
  Parties = {}
  PartyElections = {}
  ElectionOf <- VotersElectionOf
  Bundle <- VotersBundle
  Selections <- VotersSelections
  VotesAllowed <- VotersAllowed
  Ballots <- VotersBallots
SYMMETRY VoterSymmetry
INVARIANTS
  TypeOK
  OneBallotPerTicket
  AcceptedIsStored
  RecordedIsStored
  OneTornBallotPerCrash
  UncountedWasInFlight
  AcceptedIsCounted
  SealedAfterClose
