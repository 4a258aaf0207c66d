SPECIFICATION Spec
CONSTANTS
  t1 = t1
  t2 = t2
  t3 = t3
  e1 = e1
  e2 = e2
  ada = ada
  bob = bob
  own = own
  other = other
  Ticket = {t1, t2, t3}
  ElectionOf <- BoxElectionOf
  Name = {ada, bob}
  Ballots <- BoxBallots
  Protector = {own, other}
  Own = own
  Secret <- FiveCharacters
  Asked = {0, 1, 2, 3, 5}
  MaxCalls = 4
INVARIANTS
  TypeOK
  TalliesAgree
  AllGuardiansNeeded
PROPERTIES
  ContractHolds
