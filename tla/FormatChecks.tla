------------------------------ MODULE FormatChecks ------------------------------
(******************************************************************************)
(* nickname_check, password_check and phone_check of user_server.hpp.  A      *)
(* std::string is a sequence of chars, a char its code.                       *)
(******************************************************************************)
EXTENDS Integers, Sequences

Char == -128 .. 127

\* operator[]: the character at size() is NUL, what follows is not to be read.
At(s, i) == IF i < Len(s) THEN s[i + 1] ELSE 0

Digit == 48 .. 57
Lower == 97 .. 122
Upper == 65 .. 90
Dash == 45
Underscore == 95

--------------------------------------------------------------------------------

nickname_check(s) == Len(s) < 22

\* Each range without its ends; `== '_' && < '-'' holds of no character.
PasswordChar == 98 .. 121 \cup 66 .. 89 \cup 49 .. 56

\* Faulty: five characters are enough.
password_checkFive(s) ==
  /\ Len(s) \in 5 .. 15
  /\ \A i \in 1 .. Len(s) : s[i] \in PasswordChar

password_check(s) ==
  /\ Len(s) \in 6 .. 15
  /\ \A i \in 1 .. Len(s) : s[i] \in PasswordChar

\* What phone_check wants at index i.
PhoneChar(i) == IF i = 0 THEN {49} ELSE IF i = 1 THEN 51 .. 57 ELSE Digit

\* The size is not compared with 11, before or after.
phone_check(s) == Len(s) >= 1 /\ \A i \in 0 .. 10 : At(s, i) \in PhoneChar(i)

\* The indices phone_check reads: it returns at the first character it refuses.
PhoneReads(s) ==
  {i \in 0 .. 10 : Len(s) >= 1 /\ \A j \in 0 .. i - 1 : At(s, j) \in PhoneChar(j)}

--------------------------------------------------------------------------------
(* What the comments ask for (user_server.hpp:60, 66, 147)                    *)

\* "长度限制 6 - 15 之间": letters, digits, '-' and '_'
IsPassword(s) ==
  Len(s) \in 6 .. 15 /\ \A i \in 1 .. Len(s) : s[i] \in Lower \cup Upper \cup Digit \cup {Dash, Underscore}

\* "必须是 1 开始, 第二位 3-9 之间, 后面 9 个数字字符"
IsPhone(s) ==
  /\ Len(s) = 11
  /\ s[1] = 49
  /\ s[2] \in 51 .. 57
  /\ \A i \in 3 .. 11 : s[i] \in Digit

================================================================================
