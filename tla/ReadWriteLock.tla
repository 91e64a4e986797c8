--------------------------- MODULE ReadWriteLock ---------------------------
(***************************************************************************)
(* The read-write lock of Lacewing/ReadWriteLock.cc, which every relay     *)
(* object has.  A thread holds it through handles (readlock, writelock),   *)
(* any number at once: one locks the mutex, the rest are nested in it and  *)
(* do nothing.  Whether a handle is nested is decided by a list of the     *)
(* threads that hold the lock.                                             *)
(*                                                                         *)
(* Opening takes three steps (the test for nesting, the mutex, the         *)
(* bookkeeping) and so does closing (the list, the count, the mutex); the  *)
(* list is used under a spin lock, so each use of it is atomic.            *)
(*                                                                         *)
(* Callers end scopes inside out: a handle is closed after those nested in *)
(* it.  They do not open a write lock under a read lock of their own: the  *)
(* debug build refuses it, since it waits for itself.                      *)
(***************************************************************************)
EXTENDS Integers, FiniteSets

CONSTANTS Threads,
          Handles     \* bound: the handles a thread has on the lock at once

Modes == {"read", "write"}

VARIABLES
    handle,     \* handle[t][h]: one of t's handles
    holders,    \* the list, as pairs of a thread and a mode
    readers, writers,
    fatal       \* was LacewingFatalErrorMsgBox called?

vars == <<handle, holders, readers, writers, fatal>>

(***************************************************************************)
(* A handle is "closed" (or not constructed), "nested", "waiting" for the  *)
(* mutex, "entered" (it has the mutex, and is not on the list), "held",    *)
(* "leaving" (off the list, still counted) or "uncounted".                 *)
(***************************************************************************)
Closed == [mode |-> "read", state |-> "closed"]

(* Fault: the mutex is unlocked before the count is lowered. *)
Locking_UnlocksFirst == {"entered", "held"}

(* The states in which a handle has the mutex locked. *)
Locking == {"entered", "held", "leaving", "uncounted"}

Init == /\ handle = [t \in Threads |-> [h \in Handles |-> Closed]]
        /\ holders = {}
        /\ readers = 0
        /\ writers = 0
        /\ fatal = FALSE

(* std::shared_timed_mutex: who has it locked in one of the modes S. *)
Locked(S) == \E t \in Threads, h \in Handles :
                handle[t][h].state \in Locking /\ handle[t][h].mode \in S

(* Thread t is not inside a call on the lock. *)
Free(t) == \A h \in Handles : handle[t][h].state \in {"closed", "nested", "held"}

Set(t, h, mode, state) ==
    handle' = [handle EXCEPT ![t][h] = [mode |-> mode, state |-> state]]

(* Fault: a read lock is not looked for. *)
Covered_WriteOnly(t, mode) == <<t, "write">> \in holders

(* checkHoldsWrite(false), and for a read lock also checkHoldsRead(false). *)
Covered(t, mode) == \/ <<t, "write">> \in holders
                    \/ mode = "read" /\ <<t, "read">> \in holders

(* openReadLock and openWriteLock, to where they wait. *)
Open(t, h, mode) ==
    /\ Free(t)
    /\ handle[t][h].state = "closed"
    /\ mode = "write" => <<t, "read">> \notin holders
    /\ Set(t, h, mode, IF Covered(t, mode) THEN "nested" ELSE "waiting")
    /\ UNCHANGED <<holders, readers, writers, fatal>>

(* Fault: a write lock's locker is a shared_lock too. *)
Excludes_Shared(mode) == {"write"}

(* A readlock's locker is a shared_lock, a writelock's is a unique_lock. *)
Excludes(mode) == IF mode = "read" THEN {"write"} ELSE Modes

(* rl.locker.lock(), wl.locker.lock() *)
Acquire(t, h) ==
    LET mode == handle[t][h].mode
    IN  /\ handle[t][h].state = "waiting"
        /\ ~Locked(Excludes(mode))
        /\ Set(t, h, mode, "entered")
        /\ UNCHANGED <<holders, readers, writers, fatal>>

Count(mode, n) ==
    /\ readers' = IF mode = "read" THEN readers + n ELSE readers
    /\ writers' = IF mode = "write" THEN writers + n ELSE writers

(* The rest of openReadLock and openWriteLock. *)
Enter(t, h) ==
    LET mode == handle[t][h].mode
    IN  /\ handle[t][h].state = "entered"
        /\ fatal' = (fatal \/ writers > 0 \/ (mode = "write" /\ readers > 0))
        /\ Count(mode, 1)
        /\ holders' = holders \cup {<<t, mode>>}
        /\ Set(t, h, mode, "held")

(* Fault: the thread stays on the list. *)
Unlisted_Not(t, mode) == UNCHANGED <<holders, fatal>>

(* closeReadLock and closeWriteLock: their tests, and the list. *)
Unlisted(t, mode) ==
    /\ fatal' = (fatal \/ <<t, mode>> \notin holders
                       \/ (mode = "read" /\ (readers = 0 \/ writers > 0))
                       \/ (mode = "write" /\ (writers # 1 \/ readers > 0)))
    /\ holders' = holders \ {<<t, mode>>}

Close(t, h) ==
    /\ Free(t)
    /\ handle[t][h].state = "held"
    /\ \A g \in Handles : handle[t][g].state # "nested"
    /\ Unlisted(t, handle[t][h].mode)
    /\ Set(t, h, handle[t][h].mode, "leaving")
    /\ UNCHANGED <<readers, writers>>

(* --readers, --writers *)
Uncount(t, h) ==
    /\ handle[t][h].state = "leaving"
    /\ Count(handle[t][h].mode, -1)
    /\ Set(t, h, handle[t][h].mode, "uncounted")
    /\ UNCHANGED <<holders, fatal>>

(* rl.locker.unlock(), wl.locker.unlock() *)
Release(t, h) ==
    /\ handle[t][h].state = "uncounted"
    /\ handle' = [handle EXCEPT ![t][h] = Closed]
    /\ UNCHANGED <<holders, readers, writers, fatal>>

(* Fault: locked is not looked at. *)
CloseNested_Unchecked(t, h) ==
    /\ Free(t)
    /\ handle[t][h].state = "nested"
    /\ Unlisted(t, handle[t][h].mode)
    /\ Count(handle[t][h].mode, -1)
    /\ handle' = [handle EXCEPT ![t][h] = Closed]

(* The destructor of a nested handle: locked is false.  (Before that,      *)
(* writelock::unlock returns and readlock::unlock throws.)                 *)
CloseNested(t, h) ==
    /\ Free(t)
    /\ handle[t][h].state = "nested"
    /\ handle' = [handle EXCEPT ![t][h] = Closed]
    /\ UNCHANGED <<holders, readers, writers, fatal>>

Next ==
    \E t \in Threads, h \in Handles :
        \/ \E mode \in Modes : Open(t, h, mode)
        \/ Acquire(t, h) \/ Enter(t, h)
        \/ Close(t, h) \/ Uncount(t, h) \/ Release(t, h)
        \/ CloseNested(t, h)

Spec == Init /\ [][Next]_vars

-----------------------------------------------------------------------------
(***************************************************************************)
(* Properties.                                                             *)
(***************************************************************************)

(* Handles, the list and the counts keep their types. *)
TypeOK ==
    /\ handle \in [Threads -> [Handles ->
          [mode : Modes,
           state : {"closed", "nested", "waiting", "entered", "held", "leaving", "uncounted"}]]]
    /\ holders \subseteq Threads \X Modes
    /\ readers \in 0 .. Cardinality(Threads) /\ writers \in 0 .. Cardinality(Threads)
    /\ fatal \in BOOLEAN

(* The caller believes that it may use what the lock protects. *)
Believes(t, mode) ==
    \E h \in Handles : handle[t][h].state \in {"held", "nested"} /\ handle[t][h].mode = mode

(* While a thread has a write handle, nested or not, no other thread has a *)
(* handle of either mode.                                                  *)
Exclusion ==
    \A t, u \in Threads :
        t # u /\ Believes(t, "write") => \A m \in Modes : ~Believes(u, m)

(* A thread that waits for the mutex does not hold it: a handle opened     *)
(* inside another never waits, even with a writer waiting in between.      *)
NeverWaitsForItself ==
    \A t \in Threads, h \in Handles :
        handle[t][h].state = "waiting" => \A g \in Handles : handle[t][g].state \notin Locking

(* No call of LacewingFatalErrorMsgBox is reached: a thread that gets the  *)
(* mutex meets no count of another's, and closes what it opened.           *)
NeverFatal == ~fatal

(* The destructor's test: when every handle is closed nothing is counted   *)
(* or listed.                                                              *)
NothingLeaks ==
    (\A t \in Threads, h \in Handles : handle[t][h] = Closed)
    => readers = 0 /\ writers = 0 /\ holders = {}
=============================================================================
