------------------------------ MODULE MCUserSession ----------------------------
(* UserSession with names, passwords and numbers at the edges of the checks.  *)
EXTENDS UserSession, TLC

Times(n, c) == [i \in 1 .. n |-> c]

Short == Times(21, 98)   \* the longest nickname
Long == Times(22, 98)    \* one byte too long
Six == Times(6, 98)      \* the shortest password
Wrong == Times(5, 98)    \* one byte too short
Mobile == <<49, 51>> \o Times(9, 48)
Cut == <<49, 51>> \o Times(8, 48)    \* one digit short
Over == <<49, 51>> \o Times(10, 48)  \* one digit too many

Nicknames == {Short, Long}
Passwords == {Six, Wrong}
Phones == {Mobile, Cut}
OddPhones == {Cut, Over}

OneNickname == {Short}
OnePassword == {Six}
OnePhone == {Mobile}

Symmetry == Permutations(UserId) \cup Permutations(SessionId) \cup Permutations(Worker)
================================================================================
