-------------------------------- MODULE CInt --------------------------------
(***************************************************************************)
(* The int of the generated C, which positions, sizes, lengths and results *)
(* are kept in, and the casts into it from wider unsigned types.           *)
(***************************************************************************)
EXTENDS Integers

CONSTANT IntMax         \* INT_MAX

ASSUME IntAssumption == IntMax \in Nat \ {0}

NULL == 0

(* The cast (int)n of an unsigned n: the low bits, read as two's complement. *)
int(n) ==
  LET low == n % (2 * (IntMax + 1))
  IN  IF low <= IntMax THEN low ELSE low - 2 * (IntMax + 1)
=============================================================================
