-------------------------- MODULE PingTimerProofs --------------------------
(***************************************************************************)
(* Theorems about PingTimer, for every period, keep-alive, inactivity      *)
(* limit and set of clients, when the pump's thread does not stall.        *)
(***************************************************************************)
EXTENDS PingTimer, TLAPS

ClientRecord ==
    [stream : {"open", "closing", "gone"}, tcp : Nat, udp : Nat, active : Nat,
     ponged : BOOLEAN, reading : BOOLEAN, chatty : BOOLEAN, asked : BOOLEAN,
     askedAt : Nat, tries : Nat]

(* The time since the last tick ran: a tick that is due counts as a whole  *)
(* period.                                                                 *)
Elapsed == IF posted > 0 THEN Period ELSE expiry

(* A client whose pong is missing was asked for it, no later than at the   *)
(* last tick.                                                              *)
Asked(k, since) == k.stream # "gone" /\ ~k.ponged => k.asked /\ k.askedAt >= since

(* A client that is not waited for was heard of within a period of the     *)
(* last tick, one that is within two.                                      *)
Heard(k, since) ==
    /\ k.stream = "open" /\ k.ponged => k.tcp < Period + since
    /\ k.stream = "open" => k.tcp < 2 * Period + since
    /\ k.stream = "closing" /\ k.reading => k.tcp < 3 * Period

TimeInv ==
    /\ expiry \in 0 .. Period - 1
    /\ posted \in {0, 1}
    /\ posted = 1 => expiry = 0
    /\ client \in [Clients -> ClientRecord]

AskedInv == TimeInv /\ \A c \in Clients : Asked(client[c], Elapsed)

(* While a client that reads is closing no tick is due: its writes end     *)
(* first.                                                                  *)
HeardInv ==
    /\ TimeInv
    /\ \A c \in Clients :
          /\ Heard(client[c], Elapsed)
          /\ client[c].stream = "closing" /\ client[c].reading => posted = 0

-----------------------------------------------------------------------------
(***************************************************************************)
(* What each step makes of one client.                                     *)
(***************************************************************************)

LEMMA UpToType ==
    ASSUME NEW n \in Nat, NEW cap \in Nat
    PROVE  /\ UpTo(n, cap) \in Nat
           /\ UpTo(n, cap) <= n + 1
           /\ n >= cap \/ UpTo(n, cap) = n + 1
           /\ n < cap \/ UpTo(n, cap) = cap
  BY DEF UpTo

LEMMA RecordTypes ==
    /\ NewClient \in ClientRecord
    /\ Gone \in ClientRecord
    /\ Gone.stream = "gone" /\ Gone.reading
    /\ NewClient.ponged /\ NewClient.tcp = 0 /\ NewClient.stream = "open" /\ NewClient.reading
  BY DEF NewClient, Gone, ClientRecord

LEMMA OlderFacts ==
    ASSUME NEW k \in ClientRecord
    PROVE  /\ Older(k) \in ClientRecord
           /\ Older(k).stream = k.stream /\ Older(k).ponged = k.ponged
           /\ Older(k).asked = k.asked /\ Older(k).reading = k.reading
           /\ Older(k).tcp <= k.tcp + 1
           /\ k.askedAt >= Period \/ Older(k).askedAt = k.askedAt + 1
           /\ k.askedAt < Period \/ Older(k).askedAt = Period
<1> DEFINE tcp == UpTo(k.tcp, 4 * Period)
           udp == UpTo(k.udp, UdpRouter)
           act == UpTo(k.active, MaxInactivity + 4 * Period)
           ask == UpTo(k.askedAt, Period)
<1>1. 4 * Period \in Nat /\ UdpRouter \in Nat /\ MaxInactivity + 4 * Period \in Nat /\ Period \in Nat
  BY TimerAssumption DEF UdpRouter
<1>2. k.tcp \in Nat /\ k.udp \in Nat /\ k.active \in Nat /\ k.askedAt \in Nat
  BY DEF ClientRecord
<1>3. /\ tcp \in Nat /\ udp \in Nat /\ act \in Nat /\ ask \in Nat
      /\ tcp <= k.tcp + 1
      /\ k.askedAt >= Period \/ ask = k.askedAt + 1
      /\ k.askedAt < Period \/ ask = Period
  BY <1>1, <1>2, UpToType
<1>4. Older(k) = [k EXCEPT !.tcp = tcp, !.udp = udp, !.active = act, !.askedAt = ask]
  BY DEF Older
<1> HIDE DEF tcp, udp, act, ask
<1>5. QED
  BY <1>3, <1>4 DEF ClientRecord

(* The outcomes of a tick: dropped, kicked, heard of within the period,   *)
(* or pinged on TCP.                                                       *)
LEMMA TickedCases ==
    ASSUME NEW k \in ClientRecord
    PROVE  /\ Ticked(k) \in ClientRecord
           /\ \/ Ticked(k) = Gone /\ ~k.ponged /\ k.tcp >= Period
              \/ /\ Ticked(k).stream = "closing" /\ Ticked(k).tcp = k.tcp
                 /\ Ticked(k).reading = k.reading
                 /\ Ticked(k).asked = k.asked /\ Ticked(k).askedAt = k.askedAt
                 /\ Ticked(k).ponged = (k.ponged \/ k.tcp < Period)
              \/ /\ Ticked(k).stream = k.stream /\ Ticked(k).tcp = k.tcp
                 /\ Ticked(k).reading = k.reading
                 /\ Ticked(k).ponged /\ k.tcp < Period
              \/ /\ Ticked(k).stream = k.stream /\ Ticked(k).tcp = k.tcp
                 /\ Ticked(k).reading = k.reading
                 /\ k.ponged /\ ~Ticked(k).ponged
                 /\ Ticked(k).asked /\ Ticked(k).askedAt = 0
<1> DEFINE onTcp == k.tcp >= Period
           heard == [k EXCEPT !.ponged = @ \/ k.tcp < Period]
           tries == IF k.udp >= UdpKeepAlive THEN UpTo(k.tries, 3) ELSE k.tries
           pinged == [heard EXCEPT !.ponged = @ /\ ~onTcp,
                                   !.asked = @ \/ onTcp,
                                   !.askedAt = IF onTcp THEN 0 ELSE @,
                                   !.tries = tries]
<1>1. /\ k.tcp \in Nat /\ k.tries \in Nat /\ k.ponged \in BOOLEAN /\ k.asked \in BOOLEAN
      /\ Period \in Nat
  BY TimerAssumption DEF ClientRecord
<1>2. tries \in Nat
  BY <1>1, UpToType
<1>3. heard \in ClientRecord /\ heard.tries = k.tries
  BY <1>1 DEF ClientRecord
<1>4. CASE LeftAlone(k)
  <2>1. Ticked(k) = heard /\ k.tcp < Period
    BY <1>4 DEF Ticked, LeftAlone
  <2>2. QED
    BY <2>1, <1>1, <1>3 DEF ClientRecord
<1>5. CASE ~LeftAlone(k) /\ Inactive(k)
  <2>1. Ticked(k) = [heard EXCEPT !.stream = "closing"]
    BY <1>5 DEF Ticked
  <2>2. QED
    BY <2>1, <1>1 DEF ClientRecord
<1>6. CASE ~LeftAlone(k) /\ ~Inactive(k) /\ Unresponsive(k)
  <2>1. Ticked(k) = Gone
    BY <1>6 DEF Ticked
  <2>2. QED
    BY <2>1, <1>6, RecordTypes DEF Unresponsive
<1>7. CASE ~LeftAlone(k) /\ ~Inactive(k) /\ ~Unresponsive(k)
  <2>1. Ticked(k) = pinged
    BY <1>7, <1>3 DEF Ticked
  <2>2. k.ponged \/ k.tcp < Period
    BY <1>7, <1>1 DEF Unresponsive
  <2> HIDE DEF tries
  <2>3. /\ pinged \in ClientRecord
        /\ pinged.stream = k.stream /\ pinged.tcp = k.tcp /\ pinged.reading = k.reading
        /\ ~onTcp => pinged.ponged
        /\ onTcp => ~pinged.ponged /\ pinged.asked /\ pinged.askedAt = 0
    BY <1>1, <1>2, <2>2 DEF ClientRecord
  <2>4. onTcp => k.ponged
    BY <2>2, <1>1
  <2>5. ~onTcp => k.tcp < Period
    BY <1>1
  <2> HIDE DEF pinged, onTcp, heard
  <2>6. QED
    BY <2>1, <2>3, <2>4, <2>5, Zenon
<1>8. QED
  BY <1>4, <1>5, <1>6, <1>7

-----------------------------------------------------------------------------
(***************************************************************************)
(* The clock and the types.                                                *)
(***************************************************************************)

(* Time passes for all clients at once, and only between ticks. *)
LEMMA AdvanceElapsed ==
    ASSUME ~Stalls, TimeInv, Advance
    PROVE  /\ expiry' \in 0 .. Period - 1 /\ posted' \in {0, 1}
           /\ posted' = 1 => expiry' = 0
           /\ posted = 0 /\ Elapsed \in Nat /\ Elapsed' = Elapsed + 1 /\ Elapsed' <= Period
<1>1. /\ Period \in Nat /\ Period > 0 /\ expiry \in 0 .. Period - 1 /\ posted = 0
      /\ expiry' = IF expiry + 1 = Period THEN 0 ELSE expiry + 1
      /\ posted' = IF expiry' = 0 THEN 1 ELSE 0
  BY TimerAssumption DEF TimeInv, Advance, Expiry
<1>2. CASE expiry + 1 = Period
  BY <1>1, <1>2 DEF Elapsed
<1>3. CASE expiry + 1 # Period
  BY <1>1, <1>3 DEF Elapsed
<1>4. QED
  BY <1>2, <1>3

LEMMA TickElapsed ==
    ASSUME TimeInv, pingtimertick
    PROVE  /\ expiry' \in 0 .. Period - 1
           /\ posted = 1 /\ posted' = 0 /\ Elapsed = Period /\ Elapsed' = 0
  BY TimerAssumption DEF TimeInv, pingtimertick, Elapsed

(* A client's own step replaces its record, and no time passes. *)
Own(c) == Connect(c) \/ Pong(c) \/ StopReading(c) \/ Disconnect(c)
            \/ \E blasted, activity \in BOOLEAN : Message(c, blasted, activity)

LEMMA OwnStep ==
    ASSUME TimeInv, NEW c \in Clients, Own(c)
    PROVE  /\ expiry' = expiry /\ posted' = posted /\ Elapsed' = Elapsed
           /\ client' \in [Clients -> ClientRecord]
           /\ \A d \in Clients \ {c} : client'[d] = client[d]
           /\ \/ client'[c] = NewClient \/ client'[c] = Gone
              \/ /\ client'[c].stream = client[c].stream
                 /\ client'[c].tcp \in {0, client[c].tcp}
                 /\ client'[c].reading => client[c].reading
                 /\ \/ client'[c].ponged
                    \/ /\ ~client[c].ponged
                       /\ client'[c].asked = client[c].asked
                       /\ client'[c].askedAt = client[c].askedAt
                 /\ client'[c].ponged = client[c].ponged \/ client'[c].tcp = 0
<1> USE DEF TimeInv
<1>1. client[c] \in ClientRecord
  OBVIOUS
<1>2. CASE Connect(c)
  BY <1>1, <1>2, RecordTypes DEF Connect, Elapsed
<1>3. CASE Disconnect(c)
  BY <1>1, <1>3, RecordTypes DEF Disconnect, Elapsed
<1>4. CASE Pong(c)
  BY <1>1, <1>4 DEF Pong, Elapsed, ClientRecord
<1>5. CASE StopReading(c)
  BY <1>1, <1>5 DEF StopReading, Elapsed, ClientRecord
<1>6. CASE \E blasted, activity \in BOOLEAN : Message(c, blasted, activity)
  <2>1. PICK blasted \in BOOLEAN, activity \in BOOLEAN : Message(c, blasted, activity)
    BY <1>6
  <2> DEFINE k == client[c]
             r == [k EXCEPT !.udp = IF blasted THEN 0 ELSE k.udp,
                            !.tries = IF blasted THEN 0 ELSE k.tries,
                            !.tcp = IF blasted THEN k.tcp ELSE 0,
                            !.active = IF activity THEN 0 ELSE k.active,
                            !.chatty = ~activity /\ (k.chatty \/ ~blasted)]
  <2>2. /\ expiry' = expiry /\ posted' = posted /\ Elapsed' = Elapsed
        /\ client' = [client EXCEPT ![c] = r]
    BY <2>1 DEF Message, Elapsed
  <2>3. /\ r \in ClientRecord
        /\ r.stream = k.stream /\ r.reading = k.reading /\ r.ponged = k.ponged
        /\ r.asked = k.asked /\ r.askedAt = k.askedAt /\ r.tcp \in {0, k.tcp}
    BY <1>1 DEF ClientRecord
  <2> HIDE DEF r
  <2>4. /\ client' \in [Clients -> ClientRecord] /\ client'[c] = r
        /\ \A d \in Clients \ {c} : client'[d] = client[d]
    BY <2>2, <2>3
  <2>5. k.ponged \in BOOLEAN
    BY <1>1 DEF ClientRecord
  <2>6. QED
    BY <2>2, <2>3, <2>4, <2>5
<1>7. QED
  BY <1>2, <1>3, <1>4, <1>5, <1>6 DEF Own

-----------------------------------------------------------------------------
(***************************************************************************)
(* A client has time to answer.                                            *)
(***************************************************************************)

LEMMA AskedInvariant ==
    ASSUME ~Stalls
    PROVE  Spec => []AskedInv
<1>1. Init => AskedInv
  BY TimerAssumption, RecordTypes DEF Init, AskedInv, TimeInv, Asked
<1>2. AskedInv /\ [Next]_vars => AskedInv'
  <2> SUFFICES ASSUME AskedInv, [Next]_vars
               PROVE  AskedInv'
    OBVIOUS
  <2>1. TimeInv /\ \A c \in Clients : Asked(client[c], Elapsed) /\ client[c] \in ClientRecord
    BY DEF AskedInv, TimeInv
  <2>2. CASE Advance
    <3>1. client' \in [Clients -> ClientRecord]
      BY <2>1, <2>2, OlderFacts DEF Advance, TimeInv, Connected
    <3>2. ASSUME NEW c \in Clients
          PROVE  Asked(client'[c], Elapsed')
      <4>1. CASE c \in Connected
        <5>1. client'[c] = Older(client[c])
          BY <2>2, <4>1 DEF Advance
        <5>2. client[c].askedAt \in Nat /\ Period \in Nat
          BY <2>1, TimerAssumption DEF ClientRecord
        <5>3. QED
          BY <2>1, <2>2, <5>1, <5>2, AdvanceElapsed, OlderFacts DEF Asked
      <4>2. CASE c \notin Connected
        BY <2>2, <4>2 DEF Advance, Asked, Connected
      <4>3. QED
        BY <4>1, <4>2
    <3>3. QED
      BY <2>1, <2>2, <3>1, <3>2, AdvanceElapsed DEF AskedInv, TimeInv
  <2>3. CASE pingtimertick
    <3>1. client' \in [Clients -> ClientRecord]
      BY <2>1, <2>3, TickedCases DEF pingtimertick, TimeInv
    <3>2. ASSUME NEW c \in Clients
          PROVE  Asked(client'[c], 0)
      <4>1. CASE c \in Connected
        <5>1. client'[c] = Ticked(client[c])
          BY <2>3, <4>1 DEF pingtimertick
        <5>2. client[c].askedAt \in Nat /\ Period \in Nat
          BY <2>1, TimerAssumption DEF ClientRecord
        <5>3. ~client[c].ponged => client[c].asked
          BY <2>1, <4>1 DEF Asked, Connected
        <5>4. Ticked(client[c]) \in ClientRecord
          BY <2>1, TickedCases
        <5>5. QED
          BY <2>1, <5>1, <5>2, <5>3, <5>4, TickedCases, RecordTypes DEF Asked, ClientRecord
      <4>2. CASE c \notin Connected
        BY <2>3, <4>2 DEF pingtimertick, Asked, Connected
      <4>3. QED
        BY <4>1, <4>2
    <3>3. QED
      BY <2>1, <2>3, <3>1, <3>2, TickElapsed DEF AskedInv, TimeInv
  <2>4. ASSUME NEW c \in Clients, Own(c)
        PROVE  AskedInv'
    <3>1. /\ TimeInv'
          /\ \A d \in Clients \ {c} : client'[d] = client[d]
          /\ Elapsed' = Elapsed
      BY <2>1, <2>4, OwnStep DEF TimeInv
    <3>2. Asked(client'[c], Elapsed)
      BY <2>1, <2>4, OwnStep, RecordTypes DEF Asked
    <3>3. QED
      BY <2>1, <3>1, <3>2 DEF AskedInv
  <2>5. CASE UNCHANGED vars
    BY <2>1, <2>5 DEF vars, AskedInv, TimeInv, Elapsed
  <2>6. QED
    BY <2>2, <2>3, <2>4, <2>5 DEF Next, Own
<1>3. QED
  BY <1>1, <1>2, PTL DEF Spec

(* When ticks do not pile up, a client that a tick drops was pinged a      *)
(* whole period before and has not answered, whatever the period.          *)
THEOREM GraceHolds ==
    ASSUME ~Stalls
    PROVE  Spec => GraceGiven
<1> DEFINE Drops(c) == posted' < posted /\ client[c].stream = "open" /\ client'[c].stream = "gone"
           Fair(c) == client[c].asked /\ client[c].askedAt >= Period
<1>1. AskedInv /\ [Next]_vars => [\A c \in Clients : Drops(c) => Fair(c)]_vars
  <2> SUFFICES ASSUME AskedInv, Next, NEW c \in Clients, Drops(c)
               PROVE  Fair(c)
    BY DEF vars
  <2>1. TimeInv /\ Asked(client[c], Elapsed) /\ client[c] \in ClientRecord
    BY DEF AskedInv, TimeInv
  <2>2. posted \in Int /\ posted' < posted
    BY <2>1 DEF TimeInv
  <2>3. ~Advance
    BY <2>1, <2>2, AdvanceElapsed
  <2>4. ASSUME NEW d \in Clients, Own(d)
        PROVE  FALSE
    BY <2>1, <2>2, <2>4, OwnStep
  <2>5. pingtimertick
    BY <2>3, <2>4 DEF Next, Own
  <2>6. client'[c] = Ticked(client[c]) /\ Elapsed = Period
    BY <2>1, <2>5, TickElapsed DEF pingtimertick, Connected
  <2>7. ~client[c].ponged
    BY <2>1, <2>6, TickedCases
  <2>8. QED
    BY <2>1, <2>6, <2>7 DEF Asked
<1>2. QED
  BY <1>1, AskedInvariant, PTL DEF Spec, GraceGiven

-----------------------------------------------------------------------------
(***************************************************************************)
(* A silent client goes.                                                   *)
(***************************************************************************)

LEMMA HeardInvariant ==
    ASSUME ~Stalls
    PROVE  Spec => []HeardInv
<1>1. Init => HeardInv
  BY TimerAssumption, RecordTypes DEF Init, HeardInv, TimeInv, Heard
<1>2. HeardInv /\ [Next]_vars => HeardInv'
  <2> SUFFICES ASSUME HeardInv, [Next]_vars
               PROVE  HeardInv'
    OBVIOUS
  <2>1. /\ TimeInv
        /\ \A c \in Clients :
              /\ Heard(client[c], Elapsed) /\ client[c] \in ClientRecord
              /\ client[c].tcp \in Nat
              /\ client[c].stream = "closing" /\ client[c].reading => posted = 0
    BY DEF HeardInv, TimeInv, ClientRecord
  <2>2. Period \in Nat /\ Period > 0
    BY TimerAssumption
  <2>3. CASE Advance
    <3>1. client' \in [Clients -> ClientRecord]
      BY <2>1, <2>3, OlderFacts DEF Advance, TimeInv, Connected
    <3>2. ASSUME NEW c \in Clients
          PROVE  /\ Heard(client'[c], Elapsed')
                 /\ ~(client'[c].stream = "closing" /\ client'[c].reading)
      <4>1. ~(client[c].stream = "closing" /\ client[c].reading)
        BY <2>1, <2>3 DEF Advance
      <4>2. CASE c \in Connected
        <5>1. client'[c] = Older(client[c])
          BY <2>3, <4>2 DEF Advance
        <5>2. Older(client[c]).tcp \in Nat
          BY <2>1, OlderFacts DEF ClientRecord
        <5>3. QED
          BY <2>1, <2>2, <2>3, <4>1, <5>1, <5>2, AdvanceElapsed, OlderFacts DEF Heard
      <4>3. CASE c \notin Connected
        BY <2>1, <2>3, <4>3 DEF Advance, Heard, Connected
      <4>4. QED
        BY <4>2, <4>3
    <3>3. QED
      BY <2>1, <2>3, <3>1, <3>2, AdvanceElapsed DEF HeardInv, TimeInv
  <2>4. CASE pingtimertick
    <3>1. client' \in [Clients -> ClientRecord]
      BY <2>1, <2>4, TickedCases DEF pingtimertick, TimeInv
    <3>2. ASSUME NEW c \in Clients
          PROVE  Heard(client'[c], 0)
      <4>1. CASE c \in Connected
        <5>1. client'[c] = Ticked(client[c])
          BY <2>4, <4>1 DEF pingtimertick
        <5>2. /\ Heard(client[c], Period)
              /\ client[c].stream = "open" \/ (client[c].stream = "closing" /\ ~client[c].reading)
          BY <2>1, <2>4, <4>1, TickElapsed DEF Connected, ClientRecord
        <5>3. client[c].stream = "open"
              => client[c].tcp < 3 * Period /\ (client[c].ponged => client[c].tcp < 2 * Period)
          BY <2>1, <2>2, <5>2 DEF Heard
        <5>4. QED
          BY <2>1, <2>2, <5>1, <5>2, <5>3, TickedCases, RecordTypes DEF Heard
      <4>2. CASE c \notin Connected
        BY <2>1, <2>4, <4>2 DEF pingtimertick, Heard, Connected
      <4>3. QED
        BY <4>1, <4>2
    <3>3. QED
      BY <2>1, <2>4, <3>1, <3>2, TickElapsed DEF HeardInv, TimeInv
  <2>5. ASSUME NEW c \in Clients, Own(c)
        PROVE  HeardInv'
    <3>1. /\ TimeInv'
          /\ \A d \in Clients \ {c} : client'[d] = client[d]
          /\ Elapsed' = Elapsed /\ posted' = posted
      BY <2>1, <2>5, OwnStep DEF TimeInv
    <3>2. Elapsed \in Nat
      BY <2>1, <2>2 DEF Elapsed, TimeInv
    <3>3. /\ Heard(client'[c], Elapsed)
          /\ client'[c].stream = "closing" /\ client'[c].reading => posted = 0
      BY <2>1, <2>2, <2>5, <3>2, OwnStep, RecordTypes DEF Heard
    <3>4. QED
      BY <2>1, <3>1, <3>3 DEF HeardInv
  <2>6. CASE UNCHANGED vars
    BY <2>1, <2>6 DEF vars, HeardInv, TimeInv, Elapsed
  <2>7. QED
    BY <2>3, <2>4, <2>5, <2>6 DEF Next, Own
<1>3. QED
  BY <1>1, <1>2, PTL DEF Spec

(* When ticks do not pile up, no client that reads stays connected for     *)
(* three periods without a word on TCP.                                    *)
THEOREM SilenceEnds ==
    ASSUME ~Stalls
    PROVE  Spec => []SilentIsDropped
<1>1. HeardInv => SilentIsDropped
  <2> SUFFICES ASSUME HeardInv, NEW c \in Connected,
                      client[c].reading
               PROVE  client[c].tcp < 3 * Period
    BY DEF SilentIsDropped
  <2>1. /\ c \in Clients /\ client[c] \in ClientRecord /\ client[c].tcp \in Nat
        /\ client[c].stream \in {"open", "closing"}
        /\ Heard(client[c], Elapsed)
    BY DEF HeardInv, TimeInv, ClientRecord, Connected
  <2>2. Period \in Nat /\ Elapsed \in Nat /\ Elapsed <= Period
    BY TimerAssumption DEF HeardInv, TimeInv, Elapsed
  <2>3. QED
    BY <2>1, <2>2 DEF Heard
<1>2. QED
  BY <1>1, HeardInvariant, PTL

-----------------------------------------------------------------------------
(***************************************************************************)
(* UDP, and activity.                                                      *)
(***************************************************************************)

LEMMA OlderClocks ==
    ASSUME NEW k \in ClientRecord
    PROVE  /\ Older(k).udp <= k.udp + 1 /\ Older(k).active <= k.active + 1
           /\ Older(k).tries = k.tries /\ Older(k).chatty = k.chatty
           /\ k.tcp >= 4 * Period \/ Older(k).tcp = k.tcp + 1
           /\ k.tcp < 4 * Period \/ Older(k).tcp = 4 * Period
<1> DEFINE tcp == UpTo(k.tcp, 4 * Period)
           udp == UpTo(k.udp, UdpRouter)
           act == UpTo(k.active, MaxInactivity + 4 * Period)
           ask == UpTo(k.askedAt, Period)
<1>1. 4 * Period \in Nat /\ UdpRouter \in Nat /\ MaxInactivity + 4 * Period \in Nat /\ Period \in Nat
  BY TimerAssumption DEF UdpRouter
<1>2. k.tcp \in Nat /\ k.udp \in Nat /\ k.active \in Nat /\ k.askedAt \in Nat
  BY DEF ClientRecord
<1>3. /\ udp <= k.udp + 1 /\ act <= k.active + 1
      /\ k.tcp >= 4 * Period \/ tcp = k.tcp + 1
      /\ k.tcp < 4 * Period \/ tcp = 4 * Period
  BY <1>1, <1>2, UpToType
<1>4. Older(k) = [k EXCEPT !.tcp = tcp, !.udp = udp, !.active = act, !.askedAt = ask]
  BY DEF Older
<1> HIDE DEF tcp, udp, act, ask
<1> QED BY <1>3, <1>4 DEF ClientRecord

(* A tick leaves the clocks alone.  A client that stays open was left      *)
(* alone, or was active enough to be pinged.                               *)
LEMMA TickedFields ==
    ASSUME NEW k \in ClientRecord
    PROVE  \/ Ticked(k) = Gone
           \/ /\ Ticked(k).udp = k.udp /\ Ticked(k).tcp = k.tcp /\ Ticked(k).active = k.active
              /\ Ticked(k).chatty = k.chatty /\ Ticked(k).reading = k.reading
              /\ \/ /\ LeftAlone(k)
                    /\ Ticked(k).stream = k.stream
                    /\ Ticked(k).asked = k.asked /\ Ticked(k).tries = k.tries
                 \/ Ticked(k).stream = "closing" /\ ~LeftAlone(k) /\ Inactive(k)
                 \/ /\ ~LeftAlone(k) /\ ~Inactive(k)
                    /\ Ticked(k).stream = k.stream
                    /\ Ticked(k).tries =
                          IF k.udp >= UdpKeepAlive THEN UpTo(k.tries, 3) ELSE k.tries
<1> DEFINE onTcp == k.tcp >= Period
           heard == [k EXCEPT !.ponged = @ \/ k.tcp < Period]
           tries == IF k.udp >= UdpKeepAlive THEN UpTo(k.tries, 3) ELSE k.tries
           pinged == [heard EXCEPT !.ponged = @ /\ ~onTcp,
                                   !.asked = @ \/ onTcp,
                                   !.askedAt = IF onTcp THEN 0 ELSE @,
                                   !.tries = tries]
<1>1. heard.tries = k.tries
  BY DEF ClientRecord
<1>2. CASE LeftAlone(k)
  <2>1. Ticked(k) = heard
    BY <1>2 DEF Ticked
  <2> QED BY <1>2, <2>1 DEF ClientRecord
<1>3. CASE ~LeftAlone(k) /\ Inactive(k)
  <2>1. Ticked(k) = [heard EXCEPT !.stream = "closing"]
    BY <1>3 DEF Ticked
  <2> QED BY <1>3, <2>1 DEF ClientRecord
<1>4. CASE ~LeftAlone(k) /\ ~Inactive(k) /\ Unresponsive(k)
  BY <1>4 DEF Ticked
<1>5. CASE ~LeftAlone(k) /\ ~Inactive(k) /\ ~Unresponsive(k)
  <2>1. Ticked(k) = pinged
    BY <1>1, <1>5 DEF Ticked
  <2> HIDE DEF tries, onTcp
  <2>2. /\ pinged.udp = k.udp /\ pinged.tcp = k.tcp /\ pinged.active = k.active
        /\ pinged.chatty = k.chatty /\ pinged.reading = k.reading /\ pinged.stream = k.stream
        /\ pinged.tries = tries
    BY DEF ClientRecord
  <2> USE DEF tries
  <2> HIDE DEF pinged
  <2> QED BY <1>5, <2>1, <2>2
<1> QED BY <1>2, <1>3, <1>4, <1>5

(* What a client's own step does to it. *)
LEMMA OwnFields ==
    ASSUME TimeInv, NEW c \in Clients, Own(c), NEW k, k = client[c], NEW m, m = client'[c]
    PROVE  \/ m = NewClient \/ m = Gone
           \/ /\ m.stream = k.stream
              /\ m.reading => k.reading
              /\ \/ m.udp = k.udp /\ m.tries = k.tries
                 \/ m.udp = 0 /\ m.tries = 0
              /\ \/ m.active = 0 /\ m.tcp \in Nat
                 \/ m.chatty
                 \/ ~m.asked /\ k.asked /\ m.active = k.active /\ m.chatty = k.chatty
                 \/ /\ m.active = k.active /\ m.chatty = k.chatty
                    /\ m.tcp = k.tcp /\ m.asked = k.asked
<1>1. client \in [Clients -> ClientRecord] /\ k \in ClientRecord
  BY DEF TimeInv
<1>2. CASE Connect(c) \/ Disconnect(c)
  BY <1>1, <1>2 DEF Connect, Disconnect
<1>3. CASE Pong(c)
  BY <1>1, <1>3 DEF Pong, ClientRecord
<1>4. CASE StopReading(c)
  BY <1>1, <1>4 DEF StopReading, ClientRecord
<1>5. ASSUME NEW blasted \in BOOLEAN, NEW activity \in BOOLEAN, Message(c, blasted, activity)
      PROVE  /\ m.stream = k.stream /\ m.reading = k.reading /\ m.asked = k.asked
             /\ m.udp = (IF blasted THEN 0 ELSE k.udp)
             /\ m.tries = (IF blasted THEN 0 ELSE k.tries)
             /\ m.tcp = (IF blasted THEN k.tcp ELSE 0)
             /\ m.active = (IF activity THEN 0 ELSE k.active)
             /\ m.chatty = (~activity /\ (k.chatty \/ ~blasted))
  BY <1>1, <1>5 DEF Message, ClientRecord
<1>6. CASE \E blasted, activity \in BOOLEAN : Message(c, blasted, activity)
  <2>1. PICK blasted \in BOOLEAN, activity \in BOOLEAN : Message(c, blasted, activity)
    BY <1>6
  <2>2. k.chatty \in BOOLEAN /\ k.tcp \in Nat
    BY <1>1 DEF ClientRecord
  <2>3. /\ m.stream = k.stream /\ m.reading = k.reading /\ m.asked = k.asked
        /\ m.udp = (IF blasted THEN 0 ELSE k.udp)
        /\ m.tries = (IF blasted THEN 0 ELSE k.tries)
        /\ m.tcp = (IF blasted THEN k.tcp ELSE 0)
        /\ m.active = (IF activity THEN 0 ELSE k.active)
        /\ m.chatty = (~activity /\ (k.chatty \/ ~blasted))
    BY <1>5, <2>1
  <2>4. \/ m.udp = k.udp /\ m.tries = k.tries
        \/ m.udp = 0 /\ m.tries = 0
    BY <2>3
  <2>5. CASE activity
    <3>1. m.active = 0 /\ m.tcp \in Nat
      BY <2>2, <2>3, <2>5
    <3> QED BY <2>3, <2>4, <3>1
  <2>6. CASE ~activity /\ (k.chatty \/ ~blasted)
    <3>1. m.chatty
      BY <2>3, <2>6
    <3> QED BY <2>3, <2>4, <3>1
  <2>7. CASE ~activity /\ ~k.chatty /\ blasted
    <3>1. m.active = k.active /\ m.tcp = k.tcp
      BY <2>3, <2>7
    <3>2. m.chatty = FALSE /\ k.chatty = FALSE
      BY <2>2, <2>3, <2>7
    <3> QED BY <2>3, <2>4, <3>1, <3>2
  <2> QED BY <2>5, <2>6, <2>7
<1> QED BY <1>2, <1>3, <1>4, <1>6 DEF Own

(* The pings sent since the last datagram are as many as the time it is    *)
(* past its keep-alive has periods.                                        *)
Tried(k, since) ==
    k.stream = "open" =>
        \/ k.tries >= 3
        \/ k.tries = 2 /\ k.udp < UdpKeepAlive + 2 * Period + since
        \/ k.tries = 1 /\ k.udp < UdpKeepAlive + Period + since
        \/ k.tries = 0 /\ k.udp < UdpKeepAlive + since

(* A client whose TCP messages are pongs and activity.  An unanswered ping *)
(* means that it said nothing on TCP since the last tick, or nothing but   *)
(* activity; one that a tick left alone past the limit was not pinged      *)
(* then, so that it has no pong left to send.                              *)
Lapsing(k, since) ==
    /\ k.stream = "open" /\ ~k.chatty =>
          /\ k.asked => k.tcp >= since \/ k.tcp >= k.active
          /\ \/ k.active <= MaxInactivity + since
             \/ k.active <= MaxInactivity + Period + since /\ ~k.asked /\ k.tcp >= since
    /\ k.stream = "closing" /\ k.reading /\ ~k.chatty => k.active <= MaxInactivity + 2 * Period

ClocksInv == \A c \in Clients : Tried(client[c], Elapsed) /\ Lapsing(client[c], Elapsed)

LEMMA ClocksStep ==
    ASSUME ~Stalls, UdpKeepAlive > 0, MaxInactivity >= Period
    PROVE  HeardInv /\ ClocksInv /\ [Next]_vars => ClocksInv'
<1> SUFFICES ASSUME HeardInv, ClocksInv, [Next]_vars PROVE ClocksInv'
  OBVIOUS
<1>1. /\ TimeInv
      /\ \A c \in Clients :
            /\ client[c] \in ClientRecord
            /\ Tried(client[c], Elapsed) /\ Lapsing(client[c], Elapsed)
            /\ client[c].stream = "closing" /\ client[c].reading => posted = 0
  BY DEF HeardInv, TimeInv, ClocksInv
<1>2. Period \in Nat /\ Period > 0 /\ UdpKeepAlive \in Nat /\ MaxInactivity \in Nat
  BY TimerAssumption
<1>3. Elapsed \in Nat /\ Elapsed <= Period
  BY <1>1, <1>2 DEF Elapsed, TimeInv
<1>4. \A k \in ClientRecord : /\ k.tcp \in Nat /\ k.udp \in Nat /\ k.active \in Nat /\ k.tries \in Nat
                              /\ k.chatty \in BOOLEAN /\ k.asked \in BOOLEAN
  BY DEF ClientRecord
<1>5. \A since \in Nat : /\ Tried(NewClient, since) /\ Lapsing(NewClient, since)
                         /\ Tried(Gone, since) /\ Lapsing(Gone, since)
  BY <1>2 DEF Tried, Lapsing, NewClient, Gone
<1>6. CASE Advance
  <2>1. posted = 0 /\ Elapsed' = Elapsed + 1 /\ Elapsed' <= Period
    BY <1>1, <1>6, AdvanceElapsed
  <2>2. ASSUME NEW c \in Clients
        PROVE  Tried(client'[c], Elapsed') /\ Lapsing(client'[c], Elapsed')
    <3>1. CASE c \in Connected
      <4>1. PICK k \in ClientRecord : k = client[c]
        BY <1>1
      <4>2. PICK m \in ClientRecord : m = Older(k)
        BY OlderFacts
      <4>3. client'[c] = m /\ ~(k.stream = "closing" /\ k.reading)
        BY <1>6, <3>1, <4>1, <4>2 DEF Advance
      <4>4. /\ m.stream = k.stream /\ m.reading = k.reading /\ m.asked = k.asked
            /\ m.chatty = k.chatty /\ m.tries = k.tries
            /\ m.udp <= k.udp + 1 /\ m.active <= k.active + 1
            /\ k.tcp >= 4 * Period \/ m.tcp = k.tcp + 1
            /\ k.tcp < 4 * Period \/ m.tcp = 4 * Period
        BY <4>2, OlderFacts, OlderClocks
      <4>5. Tried(k, Elapsed) /\ Lapsing(k, Elapsed)
        BY <1>1, <4>1
      <4>6. Tried(m, Elapsed + 1)
        BY <1>2, <1>3, <1>4, <4>4, <4>5 DEF Tried
      <4>7. Lapsing(m, Elapsed + 1)
        BY <1>2, <1>3, <1>4, <2>1, <4>3, <4>4, <4>5 DEF Lapsing
      <4> QED BY <2>1, <4>3, <4>6, <4>7
    <3>2. CASE c \notin Connected
      BY <1>6, <3>2 DEF Advance, Connected, Tried, Lapsing
    <3> QED BY <3>1, <3>2
  <2> QED BY <2>2 DEF ClocksInv
<1>7. CASE pingtimertick
  <2>1. posted = 1 /\ Elapsed = Period /\ Elapsed' = 0
    BY <1>1, <1>7, TickElapsed
  <2>2. ASSUME NEW c \in Clients
        PROVE  Tried(client'[c], 0) /\ Lapsing(client'[c], 0)
    <3>1. CASE c \in Connected
      <4>1. PICK k \in ClientRecord : k = client[c]
        BY <1>1
      <4>2. PICK m \in ClientRecord : m = Ticked(k)
        BY TickedCases
      <4>3. client'[c] = m /\ ~(k.stream = "closing" /\ k.reading)
        BY <1>1, <1>7, <2>1, <3>1, <4>1, <4>2 DEF pingtimertick
      <4>4. Tried(k, Period) /\ Lapsing(k, Period)
        BY <1>1, <2>1, <4>1
      <4>5. CASE m = Gone
        BY <1>5, <4>3, <4>5
      <4>6. CASE m # Gone
        <5>1. /\ m.udp = k.udp /\ m.tcp = k.tcp /\ m.active = k.active
              /\ m.chatty = k.chatty /\ m.reading = k.reading
              /\ \/ /\ LeftAlone(k)
                    /\ m.stream = k.stream /\ m.asked = k.asked /\ m.tries = k.tries
                 \/ m.stream = "closing" /\ ~LeftAlone(k) /\ Inactive(k)
                 \/ /\ ~LeftAlone(k) /\ ~Inactive(k) /\ m.stream = k.stream
                    /\ m.tries = IF k.udp >= UdpKeepAlive THEN UpTo(k.tries, 3) ELSE k.tries
          BY <4>2, <4>6, TickedFields
        <5>2. Tried(m, 0)
          BY <1>2, <1>4, <4>4, <5>1 DEF Tried, LeftAlone, UpTo
        <5>3. Lapsing(m, 0)
          <6>1. k.stream \in {"open", "closing", "gone"} /\ k.stream # "gone"
            BY <3>1, <4>1 DEF Connected, ClientRecord
          <6> QED BY <1>2, <1>4, <4>3, <4>4, <5>1, <6>1 DEF Lapsing, LeftAlone, Inactive
        <5> QED BY <4>3, <5>2, <5>3
      <4> QED BY <4>5, <4>6
    <3>2. CASE c \notin Connected
      BY <1>7, <3>2 DEF pingtimertick, Connected, Tried, Lapsing
    <3> QED BY <3>1, <3>2
  <2> QED BY <2>1, <2>2 DEF ClocksInv
<1>8. ASSUME NEW c \in Clients, Own(c)
      PROVE  ClocksInv'
  <2>1. Elapsed' = Elapsed /\ \A d \in Clients \ {c} : client'[d] = client[d]
    BY <1>1, <1>8, OwnStep
  <2>2. PICK k \in ClientRecord : k = client[c]
    BY <1>1
  <2>3. PICK m : m = client'[c]
    OBVIOUS
  <2>4. Tried(k, Elapsed) /\ Lapsing(k, Elapsed)
    BY <1>1, <2>2
  <2>5. CASE m = NewClient \/ m = Gone
    BY <1>1, <1>3, <1>5, <2>1, <2>3, <2>5 DEF ClocksInv
  <2>6. CASE m # NewClient /\ m # Gone
    <3>1. /\ m.stream = k.stream
          /\ m.reading => k.reading
          /\ \/ m.udp = k.udp /\ m.tries = k.tries
             \/ m.udp = 0 /\ m.tries = 0
          /\ \/ m.active = 0 /\ m.tcp \in Nat
             \/ m.chatty
             \/ ~m.asked /\ k.asked /\ m.active = k.active /\ m.chatty = k.chatty
             \/ /\ m.active = k.active /\ m.chatty = k.chatty
                /\ m.tcp = k.tcp /\ m.asked = k.asked
      BY <1>1, <1>8, <2>2, <2>3, <2>6, OwnFields
    <3>2. Tried(m, Elapsed)
      BY <1>2, <1>3, <1>4, <2>4, <3>1 DEF Tried
    <3>3. Lapsing(m, Elapsed)
      BY <1>2, <1>3, <1>4, <2>4, <3>1 DEF Lapsing
    <3> QED BY <1>1, <2>1, <2>3, <3>2, <3>3 DEF ClocksInv
  <2> QED BY <2>5, <2>6
<1>9. CASE UNCHANGED vars
  BY <1>1, <1>9 DEF vars, ClocksInv, Elapsed
<1> QED BY <1>6, <1>7, <1>8, <1>9 DEF Next, Own

LEMMA ClocksInvariant ==
    ASSUME ~Stalls, UdpKeepAlive > 0, MaxInactivity >= Period
    PROVE  Spec => []ClocksInv
<1>1. Init => ClocksInv
  BY RecordTypes DEF Init, ClocksInv, Tried, Lapsing
<1>2. HeardInv /\ ClocksInv /\ [Next]_vars => ClocksInv'
  BY ClocksStep
<1> QED BY <1>1, <1>2, HeardInvariant, PTL DEF Spec

(* When ticks do not pile up, a client that sends nothing but pongs is     *)
(* kicked within two periods of the inactivity limit, which is no less     *)
(* than a period (600000 and 5000 in the code).                            *)
THEOREM InactivityEnds ==
    ASSUME ~Stalls, UdpKeepAlive > 0, MaxInactivity >= Period
    PROVE  Spec => []InactiveIsDropped
<1>1. HeardInv /\ ClocksInv => InactiveIsDropped
  <2> SUFFICES ASSUME HeardInv, ClocksInv, NEW c \in Connected, client[c].reading, ~client[c].chatty
               PROVE  client[c].active < MaxInactivity + 2 * Period + 1
    BY DEF InactiveIsDropped
  <2>1. /\ c \in Clients /\ client[c] \in ClientRecord /\ client[c].active \in Nat
        /\ client[c].stream \in {"open", "closing"}
        /\ Lapsing(client[c], Elapsed)
    BY DEF HeardInv, TimeInv, ClientRecord, Connected, ClocksInv
  <2>2. Period \in Nat /\ MaxInactivity \in Nat /\ Elapsed \in Nat /\ Elapsed <= Period
    BY TimerAssumption DEF HeardInv, TimeInv, Elapsed
  <2> QED BY <2>1, <2>2 DEF Lapsing
<1> QED BY <1>1, HeardInvariant, ClocksInvariant, PTL

(* When ticks do not pile up, a client that is connected when a router     *)
(* could forget its UDP flow was sent three datagrams since its last.      *)
THEOREM UdpStaysAlive ==
    ASSUME ~Stalls, UdpKeepAlive > 0, MaxInactivity >= Period
    PROVE  Spec => []UdpKeptAlive
<1>1. HeardInv /\ ClocksInv => UdpKeptAlive
  <2> SUFFICES ASSUME HeardInv, ClocksInv, NEW c \in Connected, client[c].stream = "open",
                      client[c].udp >= UdpRouter
               PROVE  client[c].tries >= 3
    BY DEF UdpKeptAlive
  <2>1. /\ c \in Clients /\ client[c] \in ClientRecord /\ client[c].udp \in Nat /\ client[c].tries \in Nat
        /\ Tried(client[c], Elapsed)
    BY DEF HeardInv, TimeInv, ClientRecord, Connected, ClocksInv
  <2>2. Period \in Nat /\ UdpKeepAlive \in Nat /\ Elapsed \in Nat /\ Elapsed <= Period
    BY TimerAssumption DEF HeardInv, TimeInv, Elapsed
  <2> QED BY <2>1, <2>2 DEF Tried, UdpRouter
<1> QED BY <1>1, HeardInvariant, ClocksInvariant, PTL
=============================================================================
