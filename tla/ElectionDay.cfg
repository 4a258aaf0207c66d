SPECIFICATION Spec
CONSTANTS
  None = None
  NoGroup = NoGroup
  e1 = e1
  e2 = e2
  e3 = e3
  g = g
  h = h
  Election = {e1, e2, e3}
  Days = 2
  Control = {p1}
  Patch = {u1}
  Edited = {e1}
  Load = {l1, l2}
  Tallying = {t1}
  GroupOf <- GroupGroupOf
  FirstDay <- GroupFirstDay
  LastDay <- GroupLastDay
  Presides <- GroupPresides
SYMMETRY RequestSymmetry
INVARIANTS
  TypeOK
  TicketedIsLoaded
  WholeGroupLoaded
  SealedMeansOver
