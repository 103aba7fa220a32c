------------------------------- MODULE Digits -------------------------------
(***************************************************************************)
(* Numbers as digits, the lowest first: what the code does with shifts and *)
(* masks.  base is the power of two that it shifts by.                     *)
(***************************************************************************)
EXTENDS Integers

(* What is left of n after each of so many shifts to the right. *)
Shifts(n, base, count) ==
  LET rest[i \in 0 .. count] == IF i = 0 THEN n ELSE rest[i - 1] \div base
  IN  rest

DigitsOf(n, base, count) ==
  [i \in 1 .. count |-> Shifts(n, base, count)[i - 1] % base]

(* The number shifted to the left and each digit put below it, from the highest. *)
FromDigits(digits, base, count) ==
  LET above[i \in 0 .. count] ==
        IF i = 0 THEN 0 ELSE digits[count + 1 - i] + base * above[i - 1]
  IN  above[count]

(* How many numbers so many digits have: 1 shifted to the left. *)
Power(base, count) ==
  LET power[i \in 0 .. count] == IF i = 0 THEN 1 ELSE base * power[i - 1]
  IN  power[count]
=============================================================================
