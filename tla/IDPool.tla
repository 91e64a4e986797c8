------------------------------- MODULE IDPool -------------------------------
(***************************************************************************)
(* The pool of 16-bit IDs of Lacewing/IDPool.h.  borrow() and returnID()   *)
(* each run under the pool's write lock, so each is one action.  Limit     *)
(* stands for the code's 0xFFFE.                                           *)
(*                                                                         *)
(* inUse is not a member of the class: it is the set of IDs that callers   *)
(* (relayserver::client and relayserver::channel objects) hold, between    *)
(* the constructor that borrows one and the destructor that returns it.    *)
(***************************************************************************)
EXTENDS Integers, FiniteSets, FiniteSetsExt

CONSTANTS Limit,        \* the largest borrowedCount that borrow() accepts
          MaxRefusals   \* bound on how far borrowedCount runs past Limit

ASSUME PoolAssumption == Limit \in Nat \ {0} /\ MaxRefusals \in Nat

VARIABLES releasedIDs,   \* IDs below nextID that came back
          nextID,        \* the next ID that was never lent since the reset
          borrowedCount, \* the code's own count of borrowed IDs
          inUse          \* the IDs callers hold

poolVars == <<releasedIDs, nextID, borrowedCount, inUse>>

PoolInit == /\ releasedIDs = {}
            /\ nextID = 0
            /\ borrowedCount = 0
            /\ inUse = {}

(***************************************************************************)
(* Plausible faults of borrow() and returnID(), used to show that the      *)
(* properties below depend on the code.                                    *)
(***************************************************************************)

(* Hand out the released ID at the back of the sorted set. *)
borrowReleased_Highest ==
    /\ borrowedCount < Limit
    /\ releasedIDs # {}
    /\ borrowedCount' = borrowedCount + 1
    /\ inUse' = inUse \cup {Max(releasedIDs)}
    /\ releasedIDs' = releasedIDs \ {Max(releasedIDs)}
    /\ UNCHANGED nextID

(* Prefer a fresh ID to a released one. *)
borrowNext_IgnoresReleased ==
    /\ borrowedCount < Limit
    /\ borrowedCount' = borrowedCount + 1
    /\ inUse' = inUse \cup {nextID}
    /\ nextID' = nextID + 1
    /\ UNCHANGED releasedIDs

(* Test the count before it is lowered, one too early. *)
returnID_EarlyReset(id) ==
    /\ id \in inUse
    /\ inUse' = inUse \ {id}
    /\ borrowedCount' = borrowedCount - 1
    /\ IF borrowedCount - 1 <= 1
       THEN releasedIDs' = {} /\ nextID' = 0
       ELSE IF nextID = id + 1
            THEN nextID' = nextID - 1 /\ UNCHANGED releasedIDs
            ELSE releasedIDs' = releasedIDs \cup {id} /\ UNCHANGED nextID

(***************************************************************************)
(* The operations.                                                         *)
(***************************************************************************)

(* borrow() with an ID to reuse: the front of the sorted set. *)
borrowReleased ==
    /\ borrowedCount < Limit
    /\ releasedIDs # {}
    /\ borrowedCount' = borrowedCount + 1
    /\ inUse' = inUse \cup {Min(releasedIDs)}
    /\ releasedIDs' = releasedIDs \ {Min(releasedIDs)}
    /\ UNCHANGED nextID

(* borrow() with nothing to reuse: nextID++. *)
borrowNext ==
    /\ borrowedCount < Limit
    /\ releasedIDs = {}
    /\ borrowedCount' = borrowedCount + 1
    /\ inUse' = inUse \cup {nextID}
    /\ nextID' = nextID + 1
    /\ UNCHANGED releasedIDs

(* borrow() throws.  The count is raised before it is tested and nothing   *)
(* lowers it again.                                                        *)
borrowThrows ==
    /\ borrowedCount >= Limit
    /\ borrowedCount < Limit + MaxRefusals
    /\ borrowedCount' = borrowedCount + 1
    /\ UNCHANGED <<releasedIDs, nextID, inUse>>

(* returnID(id), called by the destructor of the object that holds id. *)
returnID(id) ==
    /\ id \in inUse
    /\ inUse' = inUse \ {id}
    /\ borrowedCount' = borrowedCount - 1
    /\ IF borrowedCount - 1 = 0
       THEN releasedIDs' = {} /\ nextID' = 0
       ELSE IF nextID = id + 1
            THEN nextID' = nextID - 1 /\ UNCHANGED releasedIDs
            ELSE releasedIDs' = releasedIDs \cup {id} /\ UNCHANGED nextID

PoolNext == \/ borrowReleased
            \/ borrowNext
            \/ borrowThrows
            \/ \E id \in inUse : returnID(id)

PoolSpec == PoolInit /\ [][PoolNext]_poolVars

(***************************************************************************)
(* Properties.                                                             *)
(***************************************************************************)

(* borrow() returns a 16-bit ID that is never 0xFFFF, which the UDP        *)
(* receive handler treats as "no client" and ~channel as "already          *)
(* released": with Limit = 0xFFFE every ID is at most 0xFFFD, and nextID   *)
(* cannot wrap around.                                                     *)
PoolTypeOK == /\ releasedIDs \subseteq 0 .. (Limit - 1)
              /\ inUse \subseteq 0 .. (Limit - 1)
              /\ nextID \in 0 .. Limit
              /\ borrowedCount \in Nat

(* Every ID below nextID is either held by a caller or waiting in          *)
(* releasedIDs, never both: no ID is lent twice and none is lost, whatever *)
(* the order in which borrowed IDs come back and whether the rollback of   *)
(* nextID or the reset happened in between.                                *)
PoolPartition == /\ releasedIDs \cup inUse = 0 .. (nextID - 1)
                 /\ releasedIDs \cap inUse = {}

(* The pool implements the allocator of IDAllocator: borrow() lends the    *)
(* lowest ID nobody holds, also after rollbacks, resets and refusals.      *)
Allocator == INSTANCE IDAllocator WITH lent <- inUse
LendsLowestFree == Allocator!Spec
=============================================================================
