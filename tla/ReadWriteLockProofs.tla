------------------------ MODULE ReadWriteLockProofs ------------------------
(***************************************************************************)
(* That the handles of ReadWriteLock exclude each other and that no thread *)
(* waits for itself, for any number of threads and handles.                *)
(***************************************************************************)
EXTENDS ReadWriteLock, FiniteSetTheorems, TLAPS

HandleType ==
    handle \in [Threads -> [Handles ->
          [mode : Modes,
           state : {"closed", "nested", "waiting", "entered", "held", "leaving", "uncounted"}]]]

Idle == {"closed", "nested"}

(* What the mutex gives: a writer that has it locked is alone. *)
MutexInv ==
    \A t, u \in Threads, g, h \in Handles :
        /\ handle[t][g].state \in Locking
        /\ handle[t][g].mode = "write"
        /\ handle[u][h].state \in Locking
        => t = u /\ g = h

HeldFor(t, h, m) == handle[t][h].state = "held" /\ handle[t][h].mode = m

(* The list is of the handles that are held. *)
ListInv ==
    \A t \in Threads, m \in Modes :
        <<t, m>> \in holders <=> \E h \in Handles : HeldFor(t, h, m)

(* A thread has one handle that is neither closed nor nested, at most. *)
OneInv ==
    \A t \in Threads, g, h \in Handles :
        handle[t][g].state \notin Idle /\ handle[t][h].state \notin Idle => g = h

(* A nested handle is inside one that is held, for writing if it is itself. *)
NestInv ==
    \A t \in Threads, h \in Handles :
        handle[t][h].state = "nested" =>
            \E g \in Handles : /\ handle[t][g].state = "held"
                               /\ handle[t][h].mode = "write" => handle[t][g].mode = "write"

LockInv == HandleType /\ MutexInv /\ ListInv /\ OneInv /\ NestInv

-----------------------------------------------------------------------------

LEMMA InitLock == Init => LockInv
BY DEF Init, LockInv, HandleType, MutexInv, ListInv, OneInv, NestInv, HeldFor, Closed, Modes, Idle, Locking

(* What Set and the assignments of Closed make of the handles. *)
Becomes(t, h, mode, state) ==
    /\ handle'[t][h] = [mode |-> mode, state |-> state]
    /\ \A u \in Threads, g \in Handles : u # t \/ g # h => handle'[u][g] = handle[u][g]

LEMMA SetBecomes ==
    ASSUME HandleType, NEW t \in Threads, NEW h \in Handles, NEW mode \in Modes,
           NEW state \in {"closed", "nested", "waiting", "entered", "held", "leaving", "uncounted"},
           handle' = [handle EXCEPT ![t][h] = [mode |-> mode, state |-> state]]
    PROVE  HandleType' /\ Becomes(t, h, mode, state)
BY DEF HandleType, Becomes

LEMMA HandleFields ==
    ASSUME HandleType, NEW t \in Threads, NEW h \in Handles
    PROVE  handle[t][h].mode \in Modes
BY DEF HandleType

(* Opening a handle, to where it is nested or waits. *)
LEMMA OpenKeeps ==
    ASSUME LockInv, NEW t \in Threads, NEW h \in Handles, NEW mode \in Modes, Open(t, h, mode)
    PROVE  LockInv'
<1> DEFINE new == IF Covered(t, mode) THEN "nested" ELSE "waiting"
<1>1. new \in {"nested", "waiting"}
  OBVIOUS
<1>2. HandleType' /\ Becomes(t, h, mode, new)
  BY SetBecomes DEF LockInv, Open, Set
<1>3. holders' = holders /\ handle[t][h].state = "closed" /\ Free(t)
  BY DEF Open
<1>4. MutexInv'
  BY <1>1, <1>2 DEF LockInv, MutexInv, Becomes, Locking
<1>5. ListInv'
  <2>1. \A u \in Threads, g \in Handles, m \in Modes : HeldFor(u, g, m)' <=> HeldFor(u, g, m)
    BY <1>1, <1>2, <1>3 DEF Becomes, HeldFor
  <2> QED BY <1>3, <2>1 DEF LockInv, ListInv
<1>6. OneInv'
  <2>1. CASE new = "nested"
    BY <1>2, <2>1 DEF LockInv, OneInv, Becomes, Idle
  <2>2. CASE new = "waiting"
    <3>1. ~Covered(t, mode) /\ (mode = "write" => <<t, "read">> \notin holders)
      BY <2>2 DEF Open
    <3>2. \A g \in Handles : handle[t][g].state # "held"
      BY <3>1, HandleFields DEF Covered, LockInv, ListInv, HeldFor, Modes
    <3>3. \A g \in Handles : handle[t][g].state \in Idle
      BY <1>3, <3>2 DEF Free, Idle
    <3> QED BY <1>2, <3>3 DEF LockInv, OneInv, Becomes
  <2> QED BY <1>1, <2>1, <2>2
<1>7. NestInv'
  <2>1. \A u \in Threads, k \in Handles : u # t \/ k # h =>
           (handle'[u][k].state = "nested" =>
              \E g \in Handles : /\ handle'[u][g].state = "held"
                                 /\ handle'[u][k].mode = "write" => handle'[u][g].mode = "write")
    BY <1>2, <1>3 DEF LockInv, NestInv, Becomes
  <2>2. ASSUME new = "nested"
        PROVE  \E g \in Handles : /\ handle'[t][g].state = "held"
                                  /\ handle'[t][h].mode = "write" => handle'[t][g].mode = "write"
    <3>1. Covered(t, mode)
      BY <2>2
    <3>2. \E g \in Handles : /\ handle[t][g].state = "held"
                             /\ mode = "write" => handle[t][g].mode = "write"
      BY <3>1 DEF Covered, LockInv, ListInv, HeldFor, Modes
    <3> QED BY <1>2, <1>3, <3>2 DEF Becomes
  <2>3. new # "nested" => handle'[t][h].state # "nested"
    BY <1>2 DEF Becomes
  <2> HIDE DEF new
  <2> QED BY <2>1, <2>2, <2>3 DEF NestInv
<1> QED BY <1>2, <1>4, <1>5, <1>6, <1>7 DEF LockInv

(* A handle moves on with its mode: the mutex is not had by more, and the  *)
(* list follows.                                                           *)
LEMMA MoveKeeps ==
    ASSUME LockInv, NEW t \in Threads, NEW h \in Handles,
           NEW new \in {"closed", "entered", "held", "leaving", "uncounted"},
           NEW mode \in Modes,
           handle[t][h].state \notin Idle \/ new = "closed",
           new = "closed" \/ mode = handle[t][h].mode,
           handle' = [handle EXCEPT ![t][h] = [mode |-> mode, state |-> new]],
           \* from waiting, the mutex was to be had
           handle[t][h].state = "waiting" =>
               ~Locked(Excludes(handle[t][h].mode)),
           handle[t][h].state = "held" =>
               /\ \A g \in Handles : handle[t][g].state # "nested"
               /\ holders' = holders \ {<<t, handle[t][h].mode>>}
               /\ new # "held",
           handle[t][h].state # "held" =>
               holders' = IF new = "held" THEN holders \cup {<<t, mode>>} ELSE holders,
           handle[t][h].state \in Locking \cup {"waiting"} \/ new = "closed"
    PROVE  LockInv'
<1>1. HandleType' /\ Becomes(t, h, mode, new)
  BY SetBecomes DEF LockInv
<1>2. handle[t][h].mode \in Modes
  BY HandleFields DEF LockInv
<1>3. MutexInv'
  <2>1. CASE handle[t][h].state = "waiting"
    <3>1. ~Locked(Excludes(handle[t][h].mode)) \/ new = "closed"
      BY <2>1
    <3>2. CASE new = "closed"
      BY <1>1, <3>2 DEF LockInv, MutexInv, Becomes, Locking
    <3>3. CASE new # "closed" /\ ~Locked(Excludes(mode))
      <4>1. \A u \in Threads, g \in Handles :
               handle[u][g].state \in Locking => handle[u][g].mode \notin Excludes(mode)
        BY <3>3 DEF Locked
      <4>2. \A u \in Threads, g \in Handles :
               handle[u][g].state \in Locking => mode = "read" /\ handle[u][g].mode = "read"
        BY <4>1, HandleFields DEF Excludes, Modes, LockInv
      <4> QED BY <1>1, <4>2 DEF LockInv, MutexInv, Becomes
    <3> QED BY <3>1, <3>2, <3>3
  <2>2. CASE handle[t][h].state # "waiting"
    BY <1>1, <2>2 DEF LockInv, MutexInv, Becomes, Locking
  <2> QED BY <2>1, <2>2
<1>4. OneInv'
  BY <1>1 DEF LockInv, OneInv, Becomes, Idle
<1>5. ListInv'
  <2>1. \A u \in Threads, g \in Handles, m \in Modes : u # t \/ g # h =>
           (HeldFor(u, g, m)' <=> HeldFor(u, g, m))
    BY <1>1 DEF Becomes, HeldFor
  <2>2. \A m \in Modes : HeldFor(t, h, m)' <=> (new = "held" /\ mode = m)
    BY <1>1 DEF Becomes, HeldFor
  <2>3. CASE handle[t][h].state = "held"
    <3>1. \A g \in Handles, m \in Modes :
             HeldFor(t, g, m) => g = h /\ m = handle[t][h].mode
      BY <2>3 DEF LockInv, OneInv, Idle, HeldFor
    <3>2. HeldFor(t, h, handle[t][h].mode)
      BY <2>3 DEF HeldFor
    <3>3. holders' = holders \ {<<t, handle[t][h].mode>>} /\ new # "held"
      BY <2>3
    <3>4. ASSUME NEW m \in Modes
          PROVE  <<t, m>> \in holders' <=> \E g \in Handles : HeldFor(t, g, m)'
      <4>1. \A g \in Handles : ~HeldFor(t, g, m)'
        <5>1. CASE m = handle[t][h].mode
          BY <2>1, <2>2, <3>1, <3>3, <5>1
        <5>2. CASE m # handle[t][h].mode
          BY <2>1, <2>2, <3>1, <3>3, <5>2
        <5> QED BY <5>1, <5>2
      <4>2. <<t, m>> \notin holders'
        BY <3>1, <3>3 DEF LockInv, ListInv
      <4> QED BY <4>1, <4>2
    <3>5. ASSUME NEW u \in Threads, u # t, NEW m \in Modes
          PROVE  <<u, m>> \in holders' <=> \E g \in Handles : HeldFor(u, g, m)'
      BY <2>1, <3>3, <3>5 DEF LockInv, ListInv
    <3> QED BY <3>4, <3>5 DEF ListInv
  <2>4. CASE handle[t][h].state # "held"
    <3>1. \A m \in Modes : ~HeldFor(t, h, m)
      BY <2>4 DEF HeldFor
    <3>2. holders' = IF new = "held" THEN holders \cup {<<t, mode>>} ELSE holders
      BY <2>4
    <3>3. ASSUME NEW u \in Threads, NEW m \in Modes, ~(new = "held" /\ u = t /\ m = mode)
          PROVE  <<u, m>> \in holders' <=> \E g \in Handles : HeldFor(u, g, m)'
      <4>1. \A g \in Handles : HeldFor(u, g, m)' <=> HeldFor(u, g, m)
        BY <2>1, <2>2, <3>1, <3>3
      <4>2. <<u, m>> \in holders' <=> <<u, m>> \in holders
        BY <3>2, <3>3
      <4> QED BY <4>1, <4>2 DEF LockInv, ListInv
    <3>4. ASSUME new = "held"
          PROVE  <<t, mode>> \in holders' /\ HeldFor(t, h, mode)'
      BY <2>2, <3>2, <3>4
    <3> QED BY <3>3, <3>4 DEF ListInv
  <2> QED BY <2>3, <2>4
<1>6. NestInv'
  <2>1. CASE handle[t][h].state = "held"
    BY <1>1, <2>1 DEF LockInv, NestInv, Becomes
  <2>2. CASE handle[t][h].state # "held"
    BY <1>1, <2>2 DEF LockInv, NestInv, Becomes
  <2> QED BY <2>1, <2>2
<1> QED BY <1>1, <1>3, <1>4, <1>5, <1>6 DEF LockInv

LEMMA NextLock == LockInv /\ [Next]_vars => LockInv'
<1> SUFFICES ASSUME LockInv, [Next]_vars PROVE LockInv'
  OBVIOUS
<1>1. ASSUME NEW t \in Threads, NEW h \in Handles, NEW mode \in Modes, Open(t, h, mode)
      PROVE  LockInv'
  BY <1>1, OpenKeeps
<1>2. ASSUME NEW t \in Threads, NEW h \in Handles, Acquire(t, h)
      PROVE  LockInv'
  <2>1. handle[t][h].mode \in Modes
    BY HandleFields DEF LockInv
  <2> QED BY <1>2, <2>1, MoveKeeps DEF Acquire, Set, Idle
<1>3. ASSUME NEW t \in Threads, NEW h \in Handles, Enter(t, h)
      PROVE  LockInv'
  <2>1. handle[t][h].mode \in Modes
    BY HandleFields DEF LockInv
  <2> QED BY <1>3, <2>1, MoveKeeps DEF Enter, Set, Idle, Locking
<1>4. ASSUME NEW t \in Threads, NEW h \in Handles, Close(t, h)
      PROVE  LockInv'
  <2>1. handle[t][h].mode \in Modes
    BY HandleFields DEF LockInv
  <2> QED BY <1>4, <2>1, MoveKeeps DEF Close, Unlisted, Set, Idle, Locking
<1>5. ASSUME NEW t \in Threads, NEW h \in Handles, Uncount(t, h)
      PROVE  LockInv'
  <2>1. handle[t][h].mode \in Modes
    BY HandleFields DEF LockInv
  <2> QED BY <1>5, <2>1, MoveKeeps DEF Uncount, Set, Idle, Locking
<1>6. ASSUME NEW t \in Threads, NEW h \in Handles, Release(t, h) \/ CloseNested(t, h)
      PROVE  LockInv'
  <2>1. "read" \in Modes
    BY DEF Modes
  <2> QED BY <1>6, <2>1, MoveKeeps DEF Release, CloseNested, Closed
<1>7. ASSUME UNCHANGED vars
      PROVE  LockInv'
  BY <1>7 DEF vars, LockInv, HandleType, MutexInv, ListInv, HeldFor, OneInv, NestInv
<1> QED BY <1>1, <1>2, <1>3, <1>4, <1>5, <1>6, <1>7 DEF Next

LEMMA LockHolds == Spec => []LockInv
BY InitLock, NextLock, PTL DEF Spec

(* While a thread has a write handle, nested or not, no other has a handle *)
(* of either mode: a nested handle is inside a held one, and the mutex     *)
(* keeps held ones apart.                                                  *)
THEOREM ExclusionHolds == Spec => []Exclusion
<1>1. LockInv => Exclusion
  <2> SUFFICES ASSUME LockInv, NEW t \in Threads, NEW u \in Threads, t # u,
                      Believes(t, "write"), NEW m \in Modes, Believes(u, m)
               PROVE  FALSE
    BY DEF Exclusion
  <2>1. PICK g \in Handles : handle[t][g].state = "held" /\ handle[t][g].mode = "write"
    BY DEF Believes, LockInv, NestInv
  <2>2. PICK h \in Handles : handle[u][h].state = "held"
    BY DEF Believes, LockInv, NestInv
  <2> QED BY <2>1, <2>2 DEF LockInv, MutexInv, Locking
<1> QED BY <1>1, LockHolds, PTL

(* A thread that waits for the mutex does not hold it. *)
THEOREM NoSelfWait == Spec => []NeverWaitsForItself
<1>1. LockInv => NeverWaitsForItself
  BY DEF LockInv, OneInv, NeverWaitsForItself, Locking, Idle
<1> QED BY <1>1, LockHolds, PTL

-----------------------------------------------------------------------------
(***************************************************************************)
(* The counts.                                                             *)
(***************************************************************************)

CountedFor(t, h, m) == handle[t][h].state \in {"held", "leaving"} /\ handle[t][h].mode = m

Counted(m) == {t \in Threads : \E h \in Handles : CountedFor(t, h, m)}

(* The counts are of the threads with a held handle of each mode. *)
CountInv ==
    /\ readers = Cardinality(Counted("read"))
    /\ writers = Cardinality(Counted("write"))
    /\ fatal = FALSE

LEMMA CountedSize ==
    ASSUME IsFiniteSet(Threads), NEW m \in Modes
    PROVE  /\ IsFiniteSet(Counted(m)) /\ Cardinality(Counted(m)) \in Nat
           /\ Cardinality(Counted(m)) = 0 <=> Counted(m) = {}
<1>1. Counted(m) \subseteq Threads
  BY DEF Counted
<1> QED BY <1>1, FS_Subset, FS_CardinalityType, FS_EmptySet

(* A handle that has the mutex for writing leaves no other counted; one    *)
(* that has it for reading leaves no writer counted.                       *)
LEMMA CountedApart ==
    ASSUME LockInv, NEW t \in Threads, NEW h \in Handles, handle[t][h].state \in Locking
    PROVE  /\ handle[t][h].mode = "read" => Counted("write") = {}
           /\ handle[t][h].mode = "write" =>
                Counted("read") = {} /\ Counted("write") \subseteq {t}
<1>1. ASSUME NEW u \in Threads, NEW g \in Handles, NEW m \in Modes, CountedFor(u, g, m),
             m = "write" \/ handle[t][h].mode = "write"
      PROVE  u = t /\ handle[t][h].mode = m
  BY <1>1 DEF LockInv, MutexInv, CountedFor, Locking
<1>2. ASSUME handle[t][h].mode = "read"
      PROVE  Counted("write") = {}
  BY <1>1, <1>2 DEF Counted, Modes
<1>3. ASSUME handle[t][h].mode = "write"
      PROVE  Counted("read") = {} /\ Counted("write") \subseteq {t}
  BY <1>1, <1>3 DEF Counted, Modes
<1> QED BY <1>2, <1>3

(* A handle's move, and what it does to what is counted. *)
LEMMA CountedAfter ==
    ASSUME NEW t \in Threads, NEW h \in Handles, NEW mode, NEW new, Becomes(t, h, mode, new)
    PROVE  /\ \A u \in Threads, g \in Handles, m \in Modes : u # t \/ g # h =>
                 (CountedFor(u, g, m)' <=> CountedFor(u, g, m))
           /\ \A m \in Modes : CountedFor(t, h, m)' <=> new \in {"held", "leaving"} /\ mode = m
BY DEF Becomes, CountedFor

LEMMA CountedSame ==
    ASSUME \A u \in Threads, g \in Handles, m \in Modes : CountedFor(u, g, m)' <=> CountedFor(u, g, m)
    PROVE  Counted("read")' = Counted("read") /\ Counted("write")' = Counted("write")
BY DEF Counted, Modes

LEMMA QuietCount ==
    ASSUME CountInv, UNCHANGED <<readers, writers, fatal>>,
           \A u \in Threads, g \in Handles, m \in Modes : CountedFor(u, g, m)' <=> CountedFor(u, g, m)
    PROVE  CountInv'
BY CountedSame DEF CountInv

LEMMA NextCount ==
    ASSUME IsFiniteSet(Threads)
    PROVE  LockInv /\ CountInv /\ [Next]_vars => CountInv'
<1> SUFFICES ASSUME LockInv, CountInv, [Next]_vars PROVE CountInv'
  OBVIOUS
<1>1. ASSUME NEW t \in Threads, NEW h \in Handles, NEW mode \in Modes,
             \/ Open(t, h, mode)
             \/ mode = handle[t][h].mode /\ Acquire(t, h)
             \/ mode = "read" /\ (Release(t, h) \/ CloseNested(t, h))
      PROVE  CountInv'
  <2>1. PICK new \in {"closed", "nested", "waiting", "entered"} :
           handle' = [handle EXCEPT ![t][h] = [mode |-> mode, state |-> new]]
    BY <1>1 DEF Open, Acquire, Release, CloseNested, Set, Closed
  <2>2. handle[t][h].state \notin {"held", "leaving"} /\ UNCHANGED <<readers, writers, fatal>>
    BY <1>1 DEF Open, Acquire, Release, CloseNested
  <2>3. \A m \in Modes : ~CountedFor(t, h, m)
    BY <2>2 DEF CountedFor
  <2>4. Becomes(t, h, mode, new)
    BY <2>1, SetBecomes DEF LockInv
  <2>5. \A u \in Threads, g \in Handles, m \in Modes : CountedFor(u, g, m)' <=> CountedFor(u, g, m)
    BY <2>3, <2>4, CountedAfter
  <2> QED BY <2>2, <2>5, QuietCount
<1>2. ASSUME NEW t \in Threads, NEW h \in Handles, Close(t, h)
      PROVE  CountInv'
  <2>0. PICK mode \in Modes : mode = handle[t][h].mode
    BY HandleFields DEF LockInv
  <2>1. mode \in Modes /\ handle[t][h].state = "held" /\ handle[t][h].mode = mode
    BY <1>2, <2>0 DEF Close
  <2>a. Becomes(t, h, mode, "leaving")
    BY <1>2, <2>1, SetBecomes DEF Close, Set, LockInv
  <2>2. \A u \in Threads, g \in Handles, m \in Modes : CountedFor(u, g, m)' <=> CountedFor(u, g, m)
    BY <2>1, <2>a, CountedAfter DEF CountedFor
  <2>3. t \in Counted(mode) /\ <<t, mode>> \in holders
    BY <2>1 DEF Counted, CountedFor, LockInv, ListInv, HeldFor
  <2>4. ~fatal'
    <3>1. CASE mode = "read"
      <4>1. writers = 0 /\ readers # 0
        BY <2>1, <2>3, <3>1, CountedApart, CountedSize, FS_EmptySet DEF CountInv, Locking, Modes
      <4>2. ~(mode = "write") /\ ~(readers = 0 \/ writers > 0)
        BY <3>1, <4>1
      <4> QED BY <1>2, <2>1, <2>3, <4>2, Zenon DEF Close, Unlisted, CountInv
    <3>2. CASE mode = "write"
      <4>1. Counted("read") = {} /\ Counted("write") = {t}
        BY <2>1, <2>3, <3>2, CountedApart DEF Locking
      <4>2. writers = 1 /\ readers = 0
        BY <4>1, FS_EmptySet, FS_Singleton DEF CountInv
      <4>3. ~(mode = "read") /\ ~(writers # 1 \/ readers > 0)
        BY <3>2, <4>2
      <4> QED BY <1>2, <2>1, <2>3, <4>3, Zenon DEF Close, Unlisted, CountInv
    <3> QED BY <2>1, <3>1, <3>2 DEF Modes
  <2>5. fatal' = FALSE
    BY <1>2, <2>4 DEF Close, Unlisted
  <2> QED BY <1>2, <2>2, <2>5, CountedSame DEF Close, CountInv
<1>3. ASSUME NEW t \in Threads, NEW h \in Handles, Enter(t, h)
      PROVE  CountInv'
  <2>0. PICK mode \in Modes : mode = handle[t][h].mode
    BY HandleFields DEF LockInv
  <2>1. mode \in Modes /\ handle[t][h].state = "entered" /\ handle[t][h].mode = mode
    BY <1>3, <2>0 DEF Enter
  <2>a. Becomes(t, h, mode, "held")
    BY <1>3, <2>1, SetBecomes DEF Enter, Set, LockInv
  <2>2. \A m \in Modes, g \in Handles : ~CountedFor(t, g, m)
    BY <2>1 DEF LockInv, OneInv, Idle, CountedFor
  <2>3. \A m \in Modes : Counted(m)' = IF m = mode THEN Counted(m) \cup {t} ELSE Counted(m)
    <3> SUFFICES ASSUME NEW m \in Modes, NEW u \in Threads
                 PROVE  u \in Counted(m)' <=> u \in Counted(m) \/ (m = mode /\ u = t)
      BY DEF Counted
    <3>1. \A g \in Handles : u # t \/ g # h => (CountedFor(u, g, m)' <=> CountedFor(u, g, m))
      BY <2>a, CountedAfter
    <3>2. CountedFor(t, h, m)' <=> mode = m
      BY <2>a, CountedAfter
    <3> QED BY <2>2, <3>1, <3>2 DEF Counted
  <2>4. t \notin Counted(mode)
    BY <2>1, <2>2 DEF Counted
  <2>5. Cardinality(Counted(mode)') = Cardinality(Counted(mode)) + 1
    BY <2>1, <2>3, <2>4, CountedSize, FS_AddElement
  <2>6. ~fatal'
    <3>1. writers = 0
      <4>1. Counted("write") = {}
        BY <2>1, <2>2, CountedApart DEF Locking, Counted, Modes
      <4> QED BY <4>1, FS_EmptySet DEF CountInv
    <3>2. mode = "write" => readers = 0
      BY <2>1, CountedApart, FS_EmptySet DEF Locking, CountInv
    <3>3. ~(writers > 0) /\ ~(mode = "write" /\ readers > 0)
      BY <3>1, <3>2
    <3> QED BY <1>3, <2>1, <3>3, Zenon DEF Enter, CountInv
  <2>7. fatal' = FALSE
    BY <1>3, <2>6 DEF Enter
  <2>8. CASE mode = "read"
    BY <1>3, <2>1, <2>3, <2>5, <2>7, <2>8 DEF Enter, Count, CountInv, Modes
  <2>9. CASE mode = "write"
    BY <1>3, <2>1, <2>3, <2>5, <2>7, <2>9 DEF Enter, Count, CountInv, Modes
  <2> QED BY <2>1, <2>8, <2>9 DEF Modes
<1>4. ASSUME NEW t \in Threads, NEW h \in Handles, Uncount(t, h)
      PROVE  CountInv'
  <2>0. PICK mode \in Modes : mode = handle[t][h].mode
    BY HandleFields DEF LockInv
  <2>1. mode \in Modes /\ handle[t][h].state = "leaving" /\ handle[t][h].mode = mode
    BY <1>4, <2>0 DEF Uncount
  <2>a. Becomes(t, h, mode, "uncounted")
    BY <1>4, <2>1, SetBecomes DEF Uncount, Set, LockInv
  <2>2. \A m \in Modes, g \in Handles : CountedFor(t, g, m) => g = h /\ m = mode
    BY <2>1 DEF LockInv, OneInv, Idle, CountedFor
  <2>3. \A m \in Modes : Counted(m)' = IF m = mode THEN Counted(m) \ {t} ELSE Counted(m)
    <3> SUFFICES ASSUME NEW m \in Modes, NEW u \in Threads
                 PROVE  u \in Counted(m)' <=> u \in Counted(m) /\ ~(m = mode /\ u = t)
      BY DEF Counted
    <3>1. \A g \in Handles : u # t \/ g # h => (CountedFor(u, g, m)' <=> CountedFor(u, g, m))
      BY <2>a, CountedAfter
    <3>2. ~CountedFor(t, h, m)'
      BY <2>a, CountedAfter
    <3> QED BY <2>2, <3>1, <3>2 DEF Counted
  <2>4. t \in Counted(mode)
    BY <2>1 DEF Counted, CountedFor
  <2>5. Cardinality(Counted(mode)') = Cardinality(Counted(mode)) - 1
    BY <2>1, <2>3, <2>4, CountedSize, FS_RemoveElement
  <2>6. CASE mode = "read"
    BY <1>4, <2>1, <2>3, <2>5, <2>6 DEF Uncount, Count, CountInv, Modes
  <2>7. CASE mode = "write"
    BY <1>4, <2>1, <2>3, <2>5, <2>7 DEF Uncount, Count, CountInv, Modes
  <2> QED BY <2>1, <2>6, <2>7 DEF Modes
<1>5. ASSUME UNCHANGED vars
      PROVE  CountInv'
  BY <1>5, QuietCount DEF vars, CountedFor
<1>6. "read" \in Modes /\ \A t \in Threads, h \in Handles : handle[t][h].mode \in Modes
  BY HandleFields DEF Modes, LockInv
<1> QED BY <1>1, <1>2, <1>3, <1>4, <1>5, <1>6 DEF Next

LEMMA CountHolds ==
    ASSUME IsFiniteSet(Threads)
    PROVE  Spec => []CountInv
<1>1. Init => CountInv
  <2>1. ASSUME Init PROVE Counted("read") = {} /\ Counted("write") = {}
    BY <2>1 DEF Init, Counted, CountedFor, Closed
  <2> QED BY <2>1, FS_EmptySet DEF Init, CountInv
<1> QED BY <1>1, LockHolds, NextCount, PTL DEF Spec

(* No call of LacewingFatalErrorMsgBox is reached, however many threads    *)
(* use the lock: the counts are of the handles that have the mutex.        *)
THEOREM FatalNever ==
    ASSUME IsFiniteSet(Threads)
    PROVE  Spec => []NeverFatal
<1>1. CountInv => NeverFatal
  BY DEF CountInv, NeverFatal
<1> QED BY <1>1, CountHolds, PTL

(* Only threads are on the list, each for a mode. *)
ListType == holders \subseteq Threads \X Modes

LEMMA ListTyped == Spec => []ListType
<1>1. Init => ListType
  BY DEF Init, ListType
<1>2. LockInv /\ ListType /\ [Next]_vars => ListType'
  <2> SUFFICES ASSUME LockInv, ListType, [Next]_vars PROVE ListType'
    OBVIOUS
  <2>1. ASSUME NEW t \in Threads, NEW h \in Handles, Enter(t, h)
        PROVE  ListType'
    BY <2>1, HandleFields DEF Enter, ListType, LockInv
  <2>2. ASSUME NEW t \in Threads, NEW h \in Handles, Close(t, h)
        PROVE  ListType'
    BY <2>2 DEF Close, Unlisted, ListType
  <2>3. ASSUME UNCHANGED holders
        PROVE  ListType'
    BY <2>3 DEF ListType
  <2> QED BY <2>1, <2>2, <2>3 DEF Next, vars, Open, Acquire, Uncount, Release, CloseNested
<1> QED BY <1>1, <1>2, LockHolds, PTL DEF Spec

(* When every handle is closed nothing is counted or listed, as the        *)
(* destructor of the lock demands: each count and each place on the list   *)
(* belongs to a handle that is still open.                                 *)
THEOREM NothingLeaksHolds ==
    ASSUME IsFiniteSet(Threads)
    PROVE  Spec => []NothingLeaks
<1>1. LockInv /\ CountInv /\ ListType => NothingLeaks
  <2> SUFFICES ASSUME LockInv, CountInv, ListType,
                      \A t \in Threads, h \in Handles : handle[t][h] = Closed
               PROVE  readers = 0 /\ writers = 0 /\ holders = {}
    BY DEF NothingLeaks
  <2>1. Counted("read") = {} /\ Counted("write") = {}
    BY DEF Counted, CountedFor, Closed
  <2>2. holders = {}
    BY DEF LockInv, ListInv, ListType, HeldFor, Closed
  <2> QED BY <2>1, <2>2, FS_EmptySet DEF CountInv
<1> QED BY <1>1, LockHolds, CountHolds, ListTyped, PTL

(* A count never exceeds the number of threads: a thread counts once,      *)
(* however many handles it opens.                                          *)
THEOREM CountsBounded ==
    ASSUME IsFiniteSet(Threads)
    PROVE  Spec => []TypeOK
<1>1. ASSUME LockInv, CountInv, ListType
      PROVE  TypeOK
  <2>1. ASSUME NEW m \in Modes
        PROVE  Cardinality(Counted(m)) \in 0 .. Cardinality(Threads)
    <3>1. Counted(m) \subseteq Threads
      BY DEF Counted
    <3> QED BY <3>1, FS_Subset, FS_CardinalityType
  <2>2. readers \in 0 .. Cardinality(Threads) /\ writers \in 0 .. Cardinality(Threads)
    BY <1>1, <2>1 DEF CountInv, Modes
  <2> QED BY <1>1, <2>2 DEF TypeOK, LockInv, HandleType, ListType, CountInv
<1> QED BY <1>1, LockHolds, CountHolds, ListTyped, PTL
=============================================================================
