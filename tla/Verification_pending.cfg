\* The same instance: whether a new code leaves older ones pending.
CONSTANTS
  mail = mail
  sam = sam
  tom = tom
  eve = eve
  p = p
  q = q
  k1 = k1
  k2 = k2
  Subjects = {mail, sam, tom, eve}
  Kind <- Kinds
  Claims = {p, q}
  None = None
  Elsewhere = Elsewhere
  Calls = {k1, k2}
  MaxAttempts = 1
  MaxCodes = 2
SPECIFICATION Spec
INVARIANT OnePending
SYMMETRY Alike
CHECK_DEADLOCK FALSE
