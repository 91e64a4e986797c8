----------------------------- MODULE RelayClient -----------------------------
(***************************************************************************)
(* The relay client, Lacewing/RelayClient.cc: connecting, the UDP          *)
(* handshake, the lists of channels and peers it keeps from the server's   *)
(* messages, and disconnecting, over the parts of src/windows it stands    *)
(* on (client.c, udp.c, timer.c).                                          *)
(*                                                                         *)
(* A relay client outlives its connections.  Each connection has a stream  *)
(* socket of its own, numbered here in the order initsocket makes them;    *)
(* the UDP socket, the timer, the frame reader and the lists are shared.   *)
(* What an ended connection left in the event pump, in the network or in   *)
(* the reader meets the next one: crossed records that it did.             *)
(***************************************************************************)
EXTENDS Integers, Sequences, FiniteSets

CONSTANTS
    Channels,
    Peers,
    Names,       \* of peers
    None,
    MaxSockets,  \* bound: sockets a client makes in its life
    MaxInbox,    \* bound: TCP messages on their way on one socket
    MaxTicks     \* bound: timer completions waiting in the event pump

ASSUME ClientAssumption ==
    /\ MaxSockets \in Nat \ {0}
    /\ MaxInbox \in Nat
    /\ MaxTicks \in Nat
    /\ None \notin Nat

Sockets == 1 .. MaxSockets

VARIABLES
    \* relayclientinternal
    socket,     \* the current stream socket
    leaving,    \* how far a call of disconnect() is: "no", "stopped", "closed", "replaced"
    connected,
    id,         \* None for 0xffff; the server's ID of the client on socket s is s
    named,      \* has the server approved a name?
    channels,   \* what the messages said: a sequence of [id, peers], peers a map to names
    udp,        \* the socket whose connection the UDP socket was hosted for
    ticking,    \* is udphellotimer started?
    partial,    \* the socket that part of a message in the FrameReader came from
    \* the streams and the event pump
    state,      \* "none", "idle", "stuck", "connecting", "failed", "open", "closed"
    chunk,      \* the messages of the data being processed that are still to be handled
    chunkOf,    \* the socket it came from
    responding, \* how far a connect response is: "no", "hosted", "greeted"
    ticks,      \* timer completions posted
    answers,    \* UDP welcomes posted, by the connection they answer
    \* the server and the network
    session,    \* "none", "accepted", "asked", "approved", "denied"
    asks,       \* unanswered requests
    truth,      \* the channels the server has the client on, mapped to the peers on them
    inbox,      \* messages sent on a socket and not yet received
    hello,      \* is a UDP hello on its way from the port that is hosted?
    welcome,    \* is a UDP welcome on its way to it?
    \* history
    crossed,    \* has anything of another connection reached the client?
    crashed     \* why the pump's thread ended: "no", "not hosting" UDP, a null "address"

clientVars == <<connected, id, named, channels>>
udpVars == <<udp, ticking, ticks, answers>>
streamVars == <<socket, leaving, state>>
chunkVars == <<chunk, chunkOf, responding, partial>>
serverVars == <<session, asks, truth, inbox>>
networkVars == <<hello, welcome>>
historyVars == <<crossed, crashed>>

vars == <<clientVars, udpVars, streamVars, chunkVars, serverVars, networkVars, historyVars>>

NoMap == [x \in {} |-> x]

With(f, x, y) == [z \in DOMAIN f \cup {x} |-> IF z = x THEN y ELSE f[z]]

Without(f, x) == [z \in DOMAIN f \ {x} |-> f[z]]

PeerMaps == UNION {[P -> Names] : P \in SUBSET Peers}

Init ==
    /\ socket = 1 /\ leaving = "no"
    /\ state = [s \in Sockets |-> IF s = 1 THEN "idle" ELSE "none"]
    /\ connected = FALSE /\ id = None /\ named = FALSE /\ channels = <<>>
    /\ udp = None /\ ticking = FALSE /\ ticks = 0 /\ answers = {}
    /\ chunk = <<>> /\ chunkOf = 1 /\ responding = "no" /\ partial = None
    /\ session = [s \in Sockets |-> "none"]
    /\ asks = [s \in Sockets |-> {}]
    /\ truth = [s \in Sockets |-> NoMap]
    /\ inbox = [s \in Sockets |-> <<>>]
    /\ hello = FALSE /\ welcome = FALSE
    /\ crossed = FALSE /\ crashed = "no"

(* The event pump runs one completion at a time, to its end. *)
PumpFree == chunk = <<>> /\ crashed = "no"

(* disconnect() has the client's lock from the close of the socket to its  *)
(* end.                                                                    *)
Unlocked == leaving \in {"no", "stopped"}

(* The close hook has run for s. *)
Left(s) == s # socket \/ leaving = "closed"

(* A socket has a server_address() from its first connect on. *)
HasAddress(s) == state[s] \in {"connecting", "failed", "open", "closed"}

(***************************************************************************)
(* Connecting: lw_client_connect_addr.                                     *)
(***************************************************************************)

Connect ==
    /\ Unlocked
    /\ socket < MaxSockets
    /\ state[socket] \in {"idle", "failed"}
    /\ state' = [state EXCEPT ![socket] = "connecting"]
    /\ UNCHANGED <<socket, leaving, clientVars, udpVars, chunkVars, serverVars, networkVars, historyVars>>

(* The address does not resolve, or the socket cannot be made or bound:    *)
(* reported, but connecting stays set.                                     *)
ConnectRefused ==
    /\ Unlocked
    /\ socket < MaxSockets
    /\ state[socket] \in {"idle", "failed"}
    /\ state' = [state EXCEPT ![socket] = "stuck"]
    /\ UNCHANGED <<socket, leaving, clientVars, udpVars, chunkVars, serverVars, networkVars, historyVars>>

(* The completion of ConnectEx, with an error. *)
ConnectFailed(s) ==
    /\ PumpFree
    /\ state[s] = "connecting"
    /\ state' = [state EXCEPT ![s] = "failed"]
    /\ UNCHANGED <<socket, leaving, clientVars, udpVars, chunkVars, serverVars, networkVars, historyVars>>

(* And without: handlerconnect.  The connect request is written to the     *)
(* current socket, which disconnect() may have replaced since: then it is  *)
(* lost, or the second one there, which the server ignores.                *)
handlerconnect(s) ==
    /\ PumpFree
    /\ state[s] = "connecting"
    /\ state' = [state EXCEPT ![s] = "open"]
    /\ session' = [session EXCEPT ![s] = IF s = socket THEN "asked" ELSE "accepted"]
    /\ crossed' = (crossed \/ Left(s))
    /\ UNCHANGED <<socket, leaving, clientVars, udpVars, chunkVars, asks, truth, inbox, networkVars, crashed>>

(***************************************************************************)
(* Disconnecting.                                                          *)
(***************************************************************************)

(* Fault: the name is kept. *)
clear_KeepsName ==
    /\ channels' = <<>>
    /\ id' = None
    /\ connected' = FALSE
    /\ UNCHANGED named

(* Fault: connected is left as it is. *)
clear_KeepsConnected ==
    /\ channels' = <<>>
    /\ id' = None
    /\ named' = FALSE
    /\ UNCHANGED connected

clear ==
    /\ channels' = <<>>
    /\ id' = None
    /\ connected' = FALSE
    /\ named' = FALSE

(* The closed socket, unless a ConnectEx is pending on it, which            *)
(* lw_stream_close does not know of.                                       *)
Ended(s) == [state EXCEPT ![s] = IF @ = "connecting" THEN @ ELSE "closed"]

(* The new socket. *)
initsocket(was) ==
    /\ socket' = socket + 1
    /\ state' = [was EXCEPT ![socket + 1] = "idle"]

(* udphellotimer->stop().  A tick that has been posted is not withdrawn. *)
StopHello == ticking' = FALSE

(* Fault: the timer is left to disconnect(), which has stopped it. *)
handlerdisconnect_KeepsTimer == clear /\ UNCHANGED ticking

(* The close hook, for whichever socket closes, up to the new socket.      *)
(* Everything is marked readonly for the application's handler, then       *)
(* cleared.                                                                *)
handlerdisconnect == StopHello /\ clear

(* What the server does on a closed socket the client never learns.  (That *)
(* it still knows the client, and may answer its hellos, is kept.)         *)
Unheard(s) ==
    /\ inbox' = [inbox EXCEPT ![s] = <<>>]
    /\ asks' = [asks EXCEPT ![s] = {}]
    /\ truth' = [truth EXCEPT ![s] = NoMap]
    /\ UNCHANGED session

(* relayclient::disconnect(), from a handler or another thread, in the      *)
(* steps between which the pump's thread runs: what it does without the    *)
(* lock; then, with it, the close hook, the socket that takes the place of *)
(* the closed one, and UDP.  Bound: one such call at a time, with a socket *)
(* left for it.                                                            *)
disconnect ==
    /\ leaving = "no"
    /\ socket < MaxSockets
    /\ leaving' = "stopped"
    /\ connected' = FALSE
    /\ StopHello
    /\ UNCHANGED <<socket, state, id, named, channels, udp, ticks, answers, chunkVars, serverVars,
                   networkVars, historyVars>>

disconnect_Closes ==
    /\ leaving = "stopped"
    /\ leaving' = "closed"
    /\ handlerdisconnect
    /\ state' = Ended(socket)
    /\ Unheard(socket)
    /\ UNCHANGED <<socket, udp, ticks, answers, chunkVars, networkVars, historyVars>>

disconnect_Replaces ==
    /\ leaving = "closed"
    /\ leaving' = "replaced"
    /\ initsocket(state)
    /\ UNCHANGED <<clientVars, udpVars, chunkVars, serverVars, networkVars, historyVars>>

disconnect_Unhosts ==
    /\ leaving = "replaced"
    /\ leaving' = "no"
    /\ udp' = None
    /\ hello' = FALSE /\ welcome' = FALSE
    /\ UNCHANGED <<socket, state, clientVars, ticking, ticks, answers, chunkVars, serverVars,
                   historyVars>>

Disconnecting == disconnect_Closes \/ disconnect_Replaces \/ disconnect_Unhosts

(* The server or the network ends the connection.  UDP stays hosted. *)
ConnectionEnds(s) ==
    /\ PumpFree
    /\ Unlocked
    /\ state[s] = "open"
    /\ socket + (IF leaving = "no" THEN 0 ELSE 1) < MaxSockets
    /\ handlerdisconnect
    /\ initsocket(Ended(s))
    /\ Unheard(s)
    /\ crossed' = (crossed \/ Left(s))
    /\ UNCHANGED <<leaving, udp, ticks, answers, chunkVars, networkVars, crashed>>

(***************************************************************************)
(* The server, from the client's side: RelayServer.cc.                     *)
(***************************************************************************)

CanSend(s) == session[s] = "approved" /\ state[s] = "open" /\ Len(inbox[s]) < MaxInbox

Send(s, m) == inbox' = [inbox EXCEPT ![s] = Append(@, m)]

(* connect_response *)
ServerApprove(s) ==
    /\ session[s] = "asked"
    /\ state[s] = "open"
    /\ Len(inbox[s]) < MaxInbox
    /\ session' = [session EXCEPT ![s] = "approved"]
    /\ Send(s, [type |-> "approved"])
    /\ UNCHANGED <<streamVars, clientVars, udpVars, chunkVars, asks, truth, networkVars, historyVars>>

(* The denial changes nothing in the client; the server disconnects it. *)
ServerDeny(s) ==
    /\ session[s] = "asked"
    /\ state[s] = "open"
    /\ session' = [session EXCEPT ![s] = "denied"]
    /\ UNCHANGED <<streamVars, clientVars, udpVars, chunkVars, asks, truth, inbox, networkVars,
                   historyVars>>

ServerName(s) ==
    /\ CanSend(s)
    /\ "name" \in asks[s]
    /\ asks' = [asks EXCEPT ![s] = @ \ {"name"}]
    /\ Send(s, [type |-> "named"])
    /\ UNCHANGED <<streamVars, clientVars, udpVars, chunkVars, session, truth, networkVars,
                   historyVars>>

(* The join response lists the peers on the channel. *)
ServerJoin(s, c, peers) ==
    /\ CanSend(s)
    /\ c \in asks[s] \ DOMAIN truth[s]
    /\ asks' = [asks EXCEPT ![s] = @ \ {c}]
    /\ truth' = [truth EXCEPT ![s] = With(@, c, peers)]
    /\ Send(s, [type |-> "joined", channel |-> c, peers |-> peers])
    /\ UNCHANGED <<streamVars, clientVars, udpVars, chunkVars, session, networkVars, historyVars>>

(* A request is denied, which changes nothing in the client. *)
ServerRefuse(s, what) ==
    /\ session[s] = "approved"
    /\ what \in asks[s]
    /\ asks' = [asks EXCEPT ![s] = @ \ {what}]
    /\ UNCHANGED <<streamVars, clientVars, udpVars, chunkVars, session, truth, inbox, networkVars,
                   historyVars>>

(* The client asked to leave, or the channel was closed. *)
ServerLeave(s, c) ==
    /\ CanSend(s)
    /\ c \in DOMAIN truth[s]
    /\ truth' = [truth EXCEPT ![s] = Without(@, c)]
    /\ Send(s, [type |-> "left", channel |-> c])
    /\ UNCHANGED <<streamVars, clientVars, udpVars, chunkVars, session, asks, networkVars, historyVars>>

(* A peer joins the channel, or changes its name. *)
ServerPeer(s, c, p, n) ==
    /\ CanSend(s)
    /\ c \in DOMAIN truth[s]
    /\ p \in DOMAIN truth[s][c] => truth[s][c][p] # n
    /\ truth' = [truth EXCEPT ![s][c] = With(@, p, n)]
    /\ Send(s, [type |-> "peer", channel |-> c, peer |-> p, name |-> n])
    /\ UNCHANGED <<streamVars, clientVars, udpVars, chunkVars, session, asks, networkVars, historyVars>>

ServerPeerLeaves(s, c, p) ==
    /\ CanSend(s)
    /\ c \in DOMAIN truth[s]
    /\ p \in DOMAIN truth[s][c]
    /\ truth' = [truth EXCEPT ![s][c] = Without(@, p)]
    /\ Send(s, [type |-> "gone", channel |-> c, peer |-> p])
    /\ UNCHANGED <<streamVars, clientVars, udpVars, chunkVars, session, asks, networkVars, historyVars>>

(***************************************************************************)
(* Requests.  The application makes them once connected, although nothing  *)
(* here but join's test for a name asks for that.                          *)
(***************************************************************************)

Ask(what) == asks' = [asks EXCEPT ![socket] = @ \cup {what}]

name ==
    /\ Unlocked
    /\ connected
    /\ state[socket] = "open"
    /\ Ask("name")
    /\ UNCHANGED <<streamVars, clientVars, udpVars, chunkVars, session, truth, inbox, networkVars,
                   historyVars>>

join(c) ==
    /\ Unlocked
    /\ connected
    /\ named
    /\ state[socket] = "open"
    /\ Ask(c)
    /\ UNCHANGED <<streamVars, clientVars, udpVars, chunkVars, session, truth, inbox, networkVars,
                   historyVars>>

(***************************************************************************)
(* Messages on TCP.                                                        *)
(***************************************************************************)

(* handlerreceive: data from s holds k whole messages and, if part, a      *)
(* piece of another.  The reader is not reset between connections: after   *)
(* a piece left by another socket, what it makes of the data is not what   *)
(* was sent, and is not modelled further.                                  *)
handlerreceive(s, k, part) ==
    /\ PumpFree
    /\ state[s] = "open"
    /\ k <= Len(inbox[s]) /\ (part => k < Len(inbox[s])) /\ (k > 0 \/ part)
    /\ inbox' = [inbox EXCEPT ![s] = SubSeq(@, k + 1, Len(@))]
    /\ chunkOf' = s
    /\ partial' = IF part THEN s ELSE None
    /\ IF partial \in {s, None}
       THEN /\ chunk' = SubSeq(inbox[s], 1, k)
            /\ UNCHANGED crossed
       ELSE /\ UNCHANGED chunk
            /\ crossed' = TRUE
    /\ UNCHANGED <<streamVars, clientVars, udpVars, responding, session, asks, truth, networkVars,
                   crashed>>

(* The first channel with an ID, as findchannelbyid has it. *)
IsChannel(i, c) ==
    /\ i \in DOMAIN channels
    /\ channels[i].id = c
    /\ \A j \in 1 .. (i - 1) : channels[j].id # c

Known(c) == \E i \in DOMAIN channels : channels[i].id = c

(* Whether another message, or an application thread, got there first is   *)
(* for the handlers below to find out.                                     *)
Handling(type) ==
    /\ crashed = "no"
    /\ chunk # <<>>
    /\ Head(chunk).type = type
    /\ crossed' = (crossed \/ Left(chunkOf))
    /\ UNCHANGED <<chunkOf, partial, streamVars, answers, ticks, serverVars>>

NextMessage(type) ==
    /\ Handling(type)
    /\ chunk' = Tail(chunk)
    /\ UNCHANGED responding

(* udp->host, which may find no socket or port: nothing on its way to or   *)
(* from an earlier port arrives.                                           *)
HostUdp(s) == udp' \in {s, None} /\ hello' = FALSE /\ welcome' = FALSE

(* udphellotick: throws if UDP is not hosted, and sends to the address of  *)
(* the current socket.  The server knows no client by the ID 0xffff.       *)
SayHello ==
    IF udp # None /\ HasAddress(socket)
    THEN hello' = (hello \/ id # None) /\ UNCHANGED crashed
    ELSE /\ crashed' = IF udp = None THEN "not hosting" ELSE "address"
         /\ UNCHANGED hello

(* A connect response takes no lock, and disconnect() may go on between its *)
(* steps.  UDP is hosted anew,                                             *)
ConnectResponse ==
    /\ responding = "no"
    /\ Handling("approved")
    /\ id' = chunkOf
    /\ IF HasAddress(socket)
       THEN responding' = "hosted" /\ HostUdp(chunkOf) /\ UNCHANGED crashed
       ELSE crashed' = "address" /\ UNCHANGED <<responding, udp, networkVars>>
    /\ UNCHANGED <<connected, named, channels, ticking, chunk>>

(* a hello is sent,                                                        *)
ConnectResponse_SaysHello ==
    /\ responding = "hosted"
    /\ Handling("approved")
    /\ responding' = "greeted"
    /\ SayHello
    /\ UNCHANGED <<clientVars, udp, ticking, chunk, welcome>>

(* Fault: one hello is sent, and never again. *)
StartHello_Never == UNCHANGED ticking

StartHello == ticking' = TRUE

(* and the timer is started.                                               *)
ConnectResponse_StartsTimer ==
    /\ responding = "greeted"
    /\ Handling("approved")
    /\ responding' = "no"
    /\ StartHello
    /\ chunk' = Tail(chunk)
    /\ UNCHANGED <<clientVars, udp, networkVars, crashed>>

NameResponse ==
    /\ NextMessage("named")
    /\ named' = TRUE
    /\ UNCHANGED <<connected, id, channels, udp, ticking, networkVars, crashed>>

JoinResponse ==
    /\ Unlocked
    /\ NextMessage("joined")
    /\ channels' = Append(channels, [id |-> Head(chunk).channel, peers |-> Head(chunk).peers])
    /\ UNCHANGED <<connected, id, named, udp, ticking, networkVars, crashed>>

(* Fault: the channel is left on the list. *)
LeaveResponse_KeepsChannel ==
    /\ NextMessage("left")
    /\ UNCHANGED <<clientVars, udp, ticking, networkVars, crashed>>

(* An unknown channel is an error. *)
LeaveResponse ==
    /\ Unlocked
    /\ NextMessage("left")
    /\ IF connected /\ Known(Head(chunk).channel)
       THEN \E i \in DOMAIN channels :
                /\ IsChannel(i, Head(chunk).channel)
                /\ channels' = SubSeq(channels, 1, i - 1) \o SubSeq(channels, i + 1, Len(channels))
       ELSE UNCHANGED channels
    /\ UNCHANGED <<connected, id, named, udp, ticking, networkVars, crashed>>

(* The peers of the channel a message names become f of what they were. *)
ChangePeers(f(_)) ==
    IF Known(Head(chunk).channel)
    THEN \E i \in DOMAIN channels :
             /\ IsChannel(i, Head(chunk).channel)
             /\ channels' = [channels EXCEPT ![i].peers = f(@)]
    ELSE UNCHANGED channels

(* lw_sv_cmp is true of equal names: the name that is set is the old one. *)
Renamed(old, new) == IF old = new THEN new ELSE old

PeerIs(peers, p, n) ==
    IF p \in DOMAIN peers THEN With(peers, p, Renamed(peers[p], n)) ELSE With(peers, p, n)

PeerMessage ==
    /\ Unlocked
    /\ NextMessage("peer")
    /\ LET Is(peers) == PeerIs(peers, Head(chunk).peer, Head(chunk).name) IN ChangePeers(Is)
    /\ UNCHANGED <<connected, id, named, udp, ticking, networkVars, crashed>>

(* Without flags and name: the peer has left. *)
PeerGone ==
    /\ Unlocked
    /\ NextMessage("gone")
    /\ LET Gone(peers) == IF connected THEN Without(peers, Head(chunk).peer) ELSE peers
       IN  ChangePeers(Gone)
    /\ UNCHANGED <<connected, id, named, udp, ticking, networkVars, crashed>>

messagehandler ==
    \/ ConnectResponse
    \/ ConnectResponse_SaysHello
    \/ ConnectResponse_StartsTimer
    \/ NameResponse
    \/ JoinResponse
    \/ LeaveResponse
    \/ PeerMessage
    \/ PeerGone

(***************************************************************************)
(* The UDP handshake.  Datagrams are lost, duplicated and delayed.         *)
(***************************************************************************)

TimerFires ==
    /\ ticking
    /\ ticks < MaxTicks
    /\ ticks' = ticks + 1
    /\ UNCHANGED <<udp, ticking, answers, streamVars, clientVars, chunkVars, serverVars, networkVars,
                   historyVars>>

udphellotick ==
    /\ PumpFree
    /\ ticks > 0
    /\ ticks' = ticks - 1
    /\ SayHello
    /\ UNCHANGED <<udp, ticking, answers, streamVars, clientVars, chunkVars, serverVars, welcome,
                   crossed>>

(* The server answers every hello of a client it has approved, to the port *)
(* that it came from.                                                      *)
HelloArrives ==
    /\ hello
    /\ ~welcome
    /\ welcome' = TRUE
    /\ UNCHANGED <<streamVars, clientVars, udpVars, chunkVars, serverVars, hello, historyVars>>

WelcomeArrives ==
    /\ welcome
    /\ udp \notin answers
    /\ answers' = answers \cup {udp}
    /\ UNCHANGED <<udp, ticking, ticks, streamVars, clientVars, chunkVars, serverVars, networkVars,
                   historyVars>>

LoseHello ==
    /\ hello
    /\ hello' = FALSE
    /\ UNCHANGED <<streamVars, clientVars, udpVars, chunkVars, serverVars, welcome, historyVars>>

LoseWelcome ==
    /\ welcome
    /\ welcome' = FALSE
    /\ UNCHANGED <<streamVars, clientVars, udpVars, chunkVars, serverVars, hello, historyVars>>

(* Case 10 of messagehandler, for a completion that may be older than the  *)
(* connection, or than unhost.                                             *)
UdpWelcome(s) ==
    /\ PumpFree
    /\ s \in answers
    /\ answers' = answers \ {s}
    /\ StopHello
    /\ connected' = TRUE
    /\ crossed' = (crossed \/ id # s)
    /\ UNCHANGED <<udp, ticks, id, named, channels, streamVars, chunkVars, serverVars, networkVars,
                   crashed>>

(***************************************************************************)
(* The specification.                                                      *)
(***************************************************************************)

Next ==
    \/ Connect
    \/ ConnectRefused
    \/ disconnect
    \/ Disconnecting
    \/ name
    \/ \E c \in Channels : join(c)
    \/ \E s \in Sockets :
        \/ ConnectFailed(s)
        \/ handlerconnect(s)
        \/ ConnectionEnds(s)
        \/ ServerApprove(s)
        \/ ServerDeny(s)
        \/ ServerName(s)
        \/ \E c \in Channels, peers \in PeerMaps : ServerJoin(s, c, peers)
        \/ \E what \in Channels \cup {"name"} : ServerRefuse(s, what)
        \/ \E c \in Channels : ServerLeave(s, c)
        \/ \E c \in Channels, p \in Peers, n \in Names : ServerPeer(s, c, p, n)
        \/ \E c \in Channels, p \in Peers : ServerPeerLeaves(s, c, p)
        \/ \E k \in 0 .. MaxInbox, part \in BOOLEAN : handlerreceive(s, k, part)
        \/ UdpWelcome(s)
    \/ messagehandler
    \/ TimerFires
    \/ udphellotick
    \/ HelloArrives
    \/ WelcomeArrives
    \/ LoseHello
    \/ LoseWelcome

Spec == Init /\ [][Next]_vars

(* Handlers and disconnect() go on; a started timer fires; the pump gets   *)
(* to every completion that was posted; and of the datagrams that keep     *)
(* being sent, one arrives.                                                *)
Fairness ==
    /\ WF_vars(messagehandler)
    /\ WF_vars(Disconnecting)
    /\ WF_vars(TimerFires)
    /\ SF_vars(udphellotick)
    /\ SF_vars(HelloArrives)
    /\ SF_vars(WelcomeArrives)
    /\ \A s \in Sockets : SF_vars(UdpWelcome(s))

FairSpec == Spec /\ Fairness

(***************************************************************************)
(* Properties.                                                             *)
(***************************************************************************)

(* Each variable holds what the code's types allow; the current socket     *)
(* has been made, is the newest, and was not closed.                       *)
TypeOK ==
    /\ socket \in Sockets
    /\ state \in [Sockets -> {"none", "idle", "stuck", "connecting", "failed", "open", "closed"}]
    /\ leaving \in {"no", "stopped", "closed", "replaced"}
    /\ state[socket] # "none" /\ (state[socket] = "closed" => leaving = "closed")
    /\ \A s \in Sockets : s > socket => state[s] = "none"
    /\ connected \in BOOLEAN /\ id \in Sockets \cup {None} /\ named \in BOOLEAN
    /\ channels \in Seq([id : Channels, peers : PeerMaps])
    /\ udp \in Sockets \cup {None} /\ ticking \in BOOLEAN /\ ticks \in 0 .. MaxTicks
    /\ partial \in Sockets \cup {None} /\ chunkOf \in Sockets
    /\ responding \in {"no", "hosted", "greeted"}
    /\ session \in [Sockets -> {"none", "accepted", "asked", "approved", "denied"}]
    /\ asks \in [Sockets -> SUBSET (Channels \cup {"name"})]
    /\ \A s \in Sockets : Len(inbox[s]) <= MaxInbox
    /\ answers \subseteq Sockets /\ hello \in BOOLEAN /\ welcome \in BOOLEAN
    /\ crossed \in BOOLEAN /\ crashed \in {"no", "not hosting", "address"}

(* Once every message is handled, the client's channels and their peers    *)
(* are those the server has it on: nothing forgotten, kept or listed       *)
(* twice, in whatever pieces the messages came.  (A disconnect() underway   *)
(* has messages that end something ignored before it clears the lists.)    *)
CatchesUp ==
    connected /\ leaving = "no" /\ ~crossed /\ crashed = "no"
    /\ chunk = <<>> /\ inbox[socket] = <<>> =>
        /\ {channels[i].id : i \in DOMAIN channels} = DOMAIN truth[socket]
        /\ Len(channels) = Cardinality(DOMAIN truth[socket])
        /\ \A i \in DOMAIN channels :
              DOMAIN channels[i].peers = DOMAIN truth[socket][channels[i].id]

(* And the peers have the names the server last said ("peer is changing    *)
(* their name", RelayClient.cc line 1098).                                 *)
NamesFollow ==
    connected /\ leaving = "no" /\ ~crossed /\ crashed = "no"
    /\ chunk = <<>> /\ inbox[socket] = <<>> =>
        \A i \in DOMAIN channels : channels[i].peers = truth[socket][channels[i].id]

(* A client that says it is connected has an open socket, on which the     *)
(* server approved it under the ID it goes by.                             *)
ConnectedIsApproved ==
    connected /\ ~crossed =>
        /\ state[socket] = "open"
        /\ session[socket] = "approved"
        /\ id = socket

(* A socket that is not connected finds nothing left of the one before.    *)
FreshSocketIsBlank ==
    state[socket] # "open" /\ ~crossed =>
        ~connected /\ id = None /\ ~named /\ channels = <<>> /\ ~ticking

(* The timer runs only while UDP is hosted, although a connect response,   *)
(* which starts both, takes no lock, and disconnect() ends the one before  *)
(* it has the lock and the other last: a response that falls in between is *)
(* overtaken by the close hook, unless it was of a socket already left.    *)
HelloHasSocket == ticking /\ ~crossed => udp # None

(* A tick that was posted before the timer was stopped finds UDP hosted    *)
(* ("udphellotick() called, but not hosting UDP" is thrown otherwise,      *)
(* RelayClient.cc line 1247).                                              *)
TickFindsUdp == crashed # "not hosting"

(* An approved client gets connected, for all the datagrams that are lost, *)
(* unless the connection ends first.                                       *)
HandshakeEnds == (id # None) ~> (connected \/ id = None \/ crossed \/ crashed # "no")
=============================================================================
