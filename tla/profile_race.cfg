\* Two handlers at a time; every call may fail, the process may crash.
SPECIFICATION Spec
CONSTANTS
  u1 = u1
  u2 = u2
  n1 = n1
  n2 = n2
  User = {u1, u2}
  Worker = {w1, w2}
  Node = {s1}
  Nickname = {n1, n2}
  Phone = {p1}
  Description = {}
  FileId = {a1}
  Null = Null
  Empty = Empty
  First <- TwoFirst
  Failures = TRUE
  Beside = FALSE
SYMMETRY Symmetry
INVARIANTS
  TypeOK
  AckedSurvives
  SuccessMeansIndexed
  NoDanglingAvatar
  OneOwner
