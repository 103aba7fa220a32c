---------------------------- MODULE SortMessages ----------------------------
(***************************************************************************)
(* sort_messages_by_usage for the messages of one file or of one message.  *)
(* They are numbered as they stand in the file.  The list is built with    *)
(* the users first and is reversed in the end, so that what is declared    *)
(* first stands last in it.                                                *)
(***************************************************************************)
EXTENDS Integers, SequencesExt, FiniteSetsExt

VARIABLES count,            \* the messages are 1 .. count
          uses,             \* <<u, t>>: t is among the used_types of u
          reversed_sorted   \* reversed_sorted_messages

sorting == <<count, uses, reversed_sorted>>

SortInit(n, used) == count = n /\ uses = used /\ reversed_sorted = <<>>

(* Mutant: the message goes behind the first message that uses it. *)
insert_index_first(message) ==
  LET users == {i \in DOMAIN reversed_sorted : <<reversed_sorted[i], message>> \in uses}
  IN  IF users = {} THEN 0 ELSE Min(users)

(* How many messages stay before it: up to the last one that uses it. *)
insert_index(message) ==
  LET users == {i \in DOMAIN reversed_sorted : <<reversed_sorted[i], message>> \in uses}
  IN  IF users = {} THEN 0 ELSE Max(users)

InsertMessage ==
  /\ Len(reversed_sorted) < count
  /\ LET message == Len(reversed_sorted) + 1
     IN  reversed_sorted' = InsertAt(reversed_sorted, insert_index(message) + 1, message)
  /\ UNCHANGED <<count, uses>>

Sorted == Len(reversed_sorted) = count
-----------------------------------------------------------------------------
(* What the order in the file gives: a message that u uses will be declared
   before u when it stands behind u in the file, or when no message before u
   uses u. *)
Guaranteed(u, t) == u < t \/ \A earlier \in 1 .. u - 1 : <<earlier, u>> \notin uses

(* The order of the declarations is right for every use that the order in the
   file guarantees, however the others are connected, in cycles too. *)
DeclaredFirst ==
  \A i, j \in DOMAIN reversed_sorted :
    LET u == reversed_sorted[i]  t == reversed_sorted[j]
    IN  u # t /\ <<u, t>> \in uses /\ Guaranteed(u, t) => i < j
=============================================================================
