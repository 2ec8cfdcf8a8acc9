\* Two handlers at a time; MySQL and SMS may fail, the process may crash.
SPECIFICATION Spec
CONSTANTS
  UserId = {u1, u2, u3}
  SessionId = {s1, s2, s3}
  CodeId = {c1}
  Nickname <- Nicknames
  Password <- Passwords
  Phone <- Phones
  Code = {k1}
  Worker = {w1, w2}
  Null = Null
  Failures = TRUE
SYMMETRY Symmetry
INVARIANTS
  TypeOK
  OneAccount
  StoredAreWellFormed
  
  
