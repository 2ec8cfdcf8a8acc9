\* Two setters of different fields of one user; nothing fails.
SPECIFICATION Spec
CONSTANTS
  u1 = u1
  u2 = u2
  n1 = n1
  n2 = n2
  User = {u1}
  Worker = {w1, w2}
  Node = {s1}
  Nickname = {n1, n2}
  Phone = {}
  Description = {d1}
  FileId = {a1}
  Null = Null
  Empty = Empty
  First <- OneFirst
  Failures = FALSE
  Beside = TRUE
SYMMETRY Symmetry
INVARIANT AckedSurvives
