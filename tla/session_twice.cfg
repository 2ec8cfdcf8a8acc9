\* Two logins of one user at a time; nothing fails.
SPECIFICATION Spec
CONSTANTS
  UserId = {u1, u2}
  SessionId = {s1, s2}
  CodeId = {c1}
  Nickname <- OneNickname
  Password <- OnePassword
  Phone <- OnePhone
  Code = {k1}
  Worker = {w1, w2}
  Null = Null
  Failures = FALSE
SYMMETRY Symmetry
INVARIANTS
  OneLogin
