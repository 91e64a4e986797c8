----------------------------- MODULE IDAllocator -----------------------------
(***************************************************************************)
(* What a user of Lacewing's IDPool may rely on (IDPool.h, lines 35-36):   *)
(* "ensures no duplicate IDs and lowest available ID numbers used first".  *)
(* The state is only the set of IDs that are lent out.  The relay server   *)
(* keeps two pools, one for clients and one for channels, and RelayServer  *)
(* uses this specification of them.                                        *)
(***************************************************************************)
EXTENDS Naturals, FiniteSets

CONSTANT Limit          \* how many IDs may be lent at once

VARIABLE lent           \* the IDs that are lent out

IDs == 0 .. (Limit - 1)

(* id is the lowest ID that is not in S. *)
IsLowestFree(id, S) == id \notin S /\ \A lower \in 0 .. (id - 1) : lower \in S

Init == lent = {}

Lend == \E id \in IDs : IsLowestFree(id, lent) /\ lent' = lent \cup {id}

TakeBack == \E id \in lent : lent' = lent \ {id}

Next == Lend \/ TakeBack

Spec == Init /\ [][Next]_lent
=============================================================================
