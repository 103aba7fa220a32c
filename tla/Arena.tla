------------------------------- MODULE Arena -------------------------------
(***************************************************************************)
(* What a workspace promises to the code that allocates from it: a block   *)
(* it hands out lies inside the workspace and shares no byte with another  *)
(* block in use, and a request is turned down only when less than the      *)
(* request and its worst padding is left above the blocks in use.  It says *)
(* nothing of headers, positions or the order of addresses.                *)
(***************************************************************************)
EXTENDS Integers

CONSTANTS Sizes,      \* the sizes callers ask for
          Padding     \* the most an alignment can cost

VARIABLES lo, hi,     \* the bytes that can be handed out are lo .. hi - 1
          granted,    \* the blocks in use
          ret         \* the last request and the address it got, 0 for none

arenaVars == <<lo, hi, granted, ret>>

Overlap(a, b) == a.addr < b.addr + b.size /\ b.addr < a.addr + a.size

Fits(b) == lo <= b.addr /\ b.addr + b.size <= hi

Init == lo \in Nat /\ hi \in Nat /\ granted = {} /\ ret.addr = 0

(* The caller brings memory for a new message, which is its first block. *)
Reset ==
  /\ lo' \in Nat /\ hi' \in Nat
  /\ \/ granted' = {} /\ ret'.addr = 0
     \/ granted' = {ret'} /\ lo' <= ret'.addr /\ ret'.addr + ret'.size <= hi'

Grant ==
  /\ ret'.size \in Sizes /\ ret'.addr # 0
  /\ Fits(ret') /\ \A b \in granted : ~ Overlap(ret', b)
  /\ granted' = granted \cup {ret'}
  /\ UNCHANGED <<lo, hi>>

Refuse ==
  /\ ret'.size \in Sizes /\ ret'.addr = 0
  /\ \E top \in {lo} \cup {b.addr + b.size : b \in granted} :
        /\ \A b \in granted : b.addr + b.size <= top
        /\ hi < top + ret'.size + Padding
  /\ UNCHANGED <<lo, hi, granted>>

Next == Reset \/ Grant \/ Refuse

Spec == Init /\ [][Next]_arenaVars
=============================================================================
