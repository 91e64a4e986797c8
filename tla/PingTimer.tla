----------------------------- MODULE PingTimer -----------------------------
(***************************************************************************)
(* How the relay server finds the clients it should drop: pingtimertick()  *)
(* of Lacewing/RelayServer.cc, the timer that drives it, the messages that *)
(* reset a client's clocks and the two ways its stream is closed.          *)
(*                                                                         *)
(* Time is counted in units of tcpPingMS / Period.  A client keeps, in     *)
(* place of the instants of its last messages, the time since each, up to  *)
(* a cap beyond every bound it is compared with.  The timer posts a tick   *)
(* to the event pump at every expiry, whether or not the pump has run the  *)
(* one before.                                                             *)
(***************************************************************************)
EXTENDS Integers

CONSTANTS
    Clients,
    Period,         \* tcpPingMS
    UdpKeepAlive,   \* udpKeepAliveMS
    MaxInactivity,  \* maxInactivityMS
    MaxPosted,      \* bound: ticks waiting in the pump's queue
    Stalls          \* can the pump's thread be busy while time passes?

ASSUME TimerAssumption ==
    /\ Period \in Nat \ {0} /\ UdpKeepAlive \in Nat /\ MaxInactivity \in Nat
    /\ MaxPosted \in Nat \ {0}
    /\ Stalls \in BOOLEAN

\* When a router forgets a UDP flow: the 30000 that udpKeepAliveMS is taken from.
UdpRouter == UdpKeepAlive + 3 * Period

VARIABLES
    expiry,     \* time since the timer last expired
    posted,     \* ticks in the pump's queue
    client

vars == <<expiry, posted, client>>

(***************************************************************************)
(* A client's stream is "open"; "closing", a close(lw_false) that awaits   *)
(* the pending writes; or "gone", its disconnect handler run.              *)
(***************************************************************************)
NewClient == [stream  |-> "open",
              tcp     |-> 0,      \* since lasttcpmessagetime
              udp     |-> 0,      \* since lastudpmessagetime
              active  |-> 0,      \* since lastchannelorpeermessagetime
              ponged  |-> TRUE,   \* pongedOnTCP
              reading |-> TRUE,   \* does it still read what it is sent?
              chatty  |-> FALSE,  \* TCP messages, unasked, since its last activity?
              asked   |-> FALSE,  \* was it sent a ping on TCP that it has not answered?
              askedAt |-> 0,      \* since that ping
              tries   |-> 0]      \* pings sent on UDP since its last datagram

Gone == [NewClient EXCEPT !.stream = "gone"]

Connected == {c \in Clients : client[c].stream # "gone"}

UpTo(n, cap) == IF n < cap THEN n + 1 ELSE cap

Older(k) ==
    [k EXCEPT !.tcp = UpTo(@, 4 * Period), !.udp = UpTo(@, UdpRouter),
              !.active = UpTo(@, MaxInactivity + 4 * Period), !.askedAt = UpTo(@, Period)]

Init == /\ expiry = 0
        /\ posted = 0
        /\ client = [c \in Clients |-> Gone]

(***************************************************************************)
(* The clients.                                                            *)
(***************************************************************************)

(* client::client *)
Connect(c) ==
    /\ client[c].stream = "gone"
    /\ client' = [client EXCEPT ![c] = NewClient]
    /\ UNCHANGED <<expiry, posted>>

(* client_messagehandler, to the clocks: a message that is activity (to a  *)
(* peer, to a channel with others on it, to the server's handler) or one   *)
(* that is not.  A closing stream's reads are shut; UDP is not.            *)
Message(c, blasted, activity) ==
    /\ client[c].stream = "open" \/ (blasted /\ client[c].stream = "closing")
    /\ client' = [client EXCEPT ![c].udp = IF blasted THEN 0 ELSE @,
                                ![c].tries = IF blasted THEN 0 ELSE @,
                                ![c].tcp = IF blasted THEN @ ELSE 0,
                                ![c].active = IF activity THEN 0 ELSE @,
                                ![c].chatty = ~activity /\ (@ \/ ~blasted)]
    /\ UNCHANGED <<expiry, posted>>

(* The answer to a ping on TCP, which is a message too. *)
Pong(c) ==
    /\ client[c].stream = "open" /\ client[c].asked /\ client[c].reading
    /\ client' = [client EXCEPT ![c].ponged = TRUE, ![c].asked = FALSE, ![c].tcp = 0]
    /\ UNCHANGED <<expiry, posted>>

(* External: the client reads no more, and writes to it never finish. *)
StopReading(c) ==
    /\ c \in Connected /\ client[c].reading
    /\ client' = [client EXCEPT ![c].reading = FALSE]
    /\ UNCHANGED <<expiry, posted>>

(* The client closes, or the writes that a closing stream waits for end. *)
Disconnect(c) ==
    /\ client[c].stream = "open" \/ (client[c].stream = "closing" /\ client[c].reading)
    /\ client' = [client EXCEPT ![c] = Gone]
    /\ UNCHANGED <<expiry, posted>>

(***************************************************************************)
(* The clock, and the timer on it.  Time passes when the pump has nothing  *)
(* left to do, unless it can stall, and writes to a client that reads take *)
(* no time.                                                                *)
(***************************************************************************)
\* Fault: two ticks at every expiry.
Expiry_Twice == posted' = posted + 2

\* timer_thread
Expiry == posted' = posted + 1

Advance ==
    /\ Stalls \/ posted = 0
    /\ \A c \in Clients : client[c].stream = "closing" => ~client[c].reading
    /\ expiry' = IF expiry + 1 = Period THEN 0 ELSE expiry + 1
    /\ IF expiry' = 0 THEN posted < MaxPosted /\ Expiry ELSE UNCHANGED posted
    /\ client' = [c \in Clients |-> IF c \in Connected THEN Older(client[c]) ELSE client[c]]

(***************************************************************************)
(* pingtimertick, client by client.                                        *)
(***************************************************************************)

(* Fault: only TCP is looked at. *)
LeftAlone_ByTcp(k) == k.tcp < Period

(* Heard from lately, both on TCP and on UDP. *)
LeftAlone(k) == k.tcp < Period /\ k.udp < UdpKeepAlive

(* Fault: any message is activity. *)
Inactive_AnyMessage(k) == k.tcp > MaxInactivity

Inactive(k) == k.active > MaxInactivity

(* Faults: a client gets no time to answer; it gets any time. *)
Unresponsive_AtOnce(k) == k.tcp >= Period
Unresponsive_Never(k) == FALSE

(* A message in the last Period stands for the pong. *)
Unresponsive(k) == ~k.ponged /\ k.tcp >= Period

(* close(lw_false) for the inactive, close(lw_true) for the unresponsive,  *)
(* and a ping on TCP, on UDP or on both for the rest.                      *)
Ticked(k) ==
    LET heard == [k EXCEPT !.ponged = @ \/ k.tcp < Period]
    IN  CASE LeftAlone(k) -> heard
          [] ~LeftAlone(k) /\ Inactive(k) -> [heard EXCEPT !.stream = "closing"]
          [] ~LeftAlone(k) /\ ~Inactive(k) /\ Unresponsive(k) -> Gone
          [] OTHER ->
               LET onTcp == k.tcp >= Period
               IN  [heard EXCEPT !.ponged = @ /\ ~onTcp,
                                 !.asked = @ \/ onTcp,
                                 !.askedAt = IF onTcp THEN 0 ELSE @,
                                 !.tries = IF k.udp >= UdpKeepAlive THEN UpTo(@, 3) ELSE @]

pingtimertick ==
    /\ posted > 0
    /\ posted' = posted - 1
    /\ client' = [c \in Clients |-> IF c \in Connected THEN Ticked(client[c]) ELSE client[c]]
    /\ UNCHANGED expiry

Next ==
    \/ \E c \in Clients :
          \/ Connect(c) \/ Pong(c) \/ StopReading(c) \/ Disconnect(c)
          \/ \E blasted, activity \in BOOLEAN : Message(c, blasted, activity)
    \/ Advance
    \/ pingtimertick

Spec == Init /\ [][Next]_vars

-----------------------------------------------------------------------------
(***************************************************************************)
(* Properties.                                                             *)
(***************************************************************************)

(* The clocks and the pump's queue stay in their ranges. *)
TypeOK ==
    /\ expiry \in 0 .. Period - 1
    /\ posted \in 0 .. MaxPosted
    /\ client \in [Clients ->
          [stream : {"open", "closing", "gone"},
           tcp : 0 .. 4 * Period, udp : 0 .. UdpRouter, active : 0 .. MaxInactivity + 4 * Period,
           ponged : BOOLEAN, reading : BOOLEAN, chatty : BOOLEAN, asked : BOOLEAN,
           askedAt : 0 .. Period, tries : 0 .. 3]]

(* "If client still hasn't responded after another tcpPingMS": a client    *)
(* that a tick drops at once was pinged, has not answered, and had a whole *)
(* ping period to do it in.                                                *)
GraceGiven ==
    [][\A c \in Clients :
          posted' < posted /\ client[c].stream = "open" /\ client'[c].stream = "gone"
          => client[c].asked /\ client[c].askedAt >= Period]_vars

(* A client that says nothing on TCP is pinged within two periods and is   *)
(* dropped at the tick after, so none stays connected for three; if it is  *)
(* kicked for inactivity instead, that holds as long as it reads.          *)
SilentIsDropped == \A c \in Connected : client[c].reading => client[c].tcp < 3 * Period

(* A client whose only TCP messages are pongs is kicked: a pong buys it    *)
(* one tick past maxInactivityMS and no more.                              *)
InactiveIsDropped ==
    \A c \in Connected :
        client[c].reading /\ ~client[c].chatty
        => client[c].active < MaxInactivity + 2 * Period + 1

(* "Three UDP messages will be sent before routers are likely to close     *)
(* connection": by the time a UDP flow could be forgotten, a client that   *)
(* is still connected was sent three.                                      *)
UdpKeptAlive ==
    \A c \in Connected :
        client[c].stream = "open" /\ client[c].udp >= UdpRouter => client[c].tries >= 3
=============================================================================
