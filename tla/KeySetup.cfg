SPECIFICATION Spec
CONSTANTS
  None = None
  Request = {q1, q2}
  k1 = k1
  k2 = k2
  Key = {k1, k2, k3}
  Otp = {o1, o2}
  FirstES = k1
  FirstVS = k2
  Upload = {k2}
  Slice = {1, 2}
  MaxRestarts = 3
SYMMETRY RequestSymmetry
INVARIANTS
  TypeOK
  SecondDownloadOverlapped
  GuardianKeysOpen
  LoadedKeyStays
