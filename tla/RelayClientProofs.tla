-------------------------- MODULE RelayClientProofs --------------------------
(***************************************************************************)
(* Theorems about RelayClient, for any channels, peers and names and every *)
(* number of connections, messages and ticks.                              *)
(***************************************************************************)
EXTENDS RelayClient, FiniteSetTheorems, TLAPS

States == {"none", "idle", "stuck", "connecting", "failed", "open", "closed"}

Attached(s) == state[s] = "open" /\ session[s] = "approved"

(* Messages are on their way, or being handled, only on sockets that are   *)
(* open and approved, or left; a disconnect moves on to a socket never used *)
(* before, which nobody connects before it is over; a connect response is  *)
(* the message being handled until its last step.                          *)
StreamInv ==
    /\ socket \in Sockets
    /\ state \in [Sockets -> States]
    /\ leaving \in {"no", "stopped", "closed", "replaced"}
    /\ state[socket] # "none"
    /\ session = [s \in Sockets |-> session[s]]
    /\ inbox = [s \in Sockets |-> inbox[s]]
    /\ \A s \in Sockets : s > socket => state[s] = "none"
    /\ \A s \in Sockets : inbox[s] # <<>> => Attached(s)
    /\ chunkOf \in Sockets
    /\ chunk # <<>> => chunkOf <= socket /\ session[chunkOf] = "approved"
    /\ chunk # <<>> /\ ~Left(chunkOf) => Attached(socket)
    /\ leaving \in {"stopped", "closed"} => socket < MaxSockets
    /\ leaving = "replaced" => state[socket] = "idle"
    /\ responding \in {"no", "hosted", "greeted"}
    /\ responding # "no" => chunk # <<>> /\ Head(chunk).type = "approved"

(* A client with an ID has it from the current socket, which is approved.  *)
LinkInv ==
    ~crossed =>
        /\ id # None => id = socket /\ Attached(socket)
        /\ connected => id = socket
        /\ leaving = "closed" => state[socket] # "open"
        /\ FreshSocketIsBlank

(* Requests and answers that leave the client alone, but for its inbox. *)
ServerStep ==
    \/ name
    \/ \E c \in Channels : join(c)
    \/ \E s \in Sockets :
        \/ ServerApprove(s)
        \/ ServerDeny(s)
        \/ ServerName(s)
        \/ \E c \in Channels, peers \in PeerMaps : ServerJoin(s, c, peers)
        \/ \E what \in Channels \cup {"name"} : ServerRefuse(s, what)
        \/ \E c \in Channels : ServerLeave(s, c)
        \/ \E c \in Channels, p \in Peers, n \in Names : ServerPeer(s, c, p, n)
        \/ \E c \in Channels, p \in Peers : ServerPeerLeaves(s, c, p)

(* Steps of the timer and of datagrams, none of which runs a handler. *)
DatagramStep ==
    TimerFires \/ udphellotick \/ HelloArrives \/ WelcomeArrives \/ LoseHello \/ LoseWelcome

(* What a server step does: the client keeps its state, and the server's   *)
(* view of s changes for the better or, before it is approved, at all.     *)
LEMMA ServerSteps ==
    ASSUME StreamInv, ServerStep
    PROVE  /\ UNCHANGED <<streamVars, clientVars, udp, ticking, chunkVars, crossed>>
           /\ \A s \in Sockets : Attached(s) => Attached(s)'
           /\ \A s \in Sockets : session[s] = "approved" => session'[s] = "approved"
           /\ session' = [s \in Sockets |-> session'[s]]
           /\ inbox' = [s \in Sockets |-> inbox'[s]]
           /\ \A s \in Sockets : inbox'[s] # <<>> => Attached(s)'
<1> USE DEF StreamInv, Attached, streamVars, clientVars, udpVars, chunkVars, historyVars
<1>1. CASE name \/ \E c \in Channels : join(c)
  BY <1>1 DEF name, join
<1>2. ASSUME NEW s \in Sockets, ServerApprove(s)
      PROVE  /\ UNCHANGED <<streamVars, clientVars, udp, ticking, chunkVars, crossed>>
             /\ \A t \in Sockets : Attached(t) => Attached(t)'
             /\ \A t \in Sockets : session[t] = "approved" => session'[t] = "approved"
             /\ session' = [t \in Sockets |-> session'[t]]
             /\ inbox' = [t \in Sockets |-> inbox'[t]]
             /\ \A t \in Sockets : inbox'[t] # <<>> => Attached(t)'
  BY <1>2 DEF ServerApprove, Send
<1>3. ASSUME NEW s \in Sockets, ServerDeny(s)
      PROVE  /\ UNCHANGED <<streamVars, clientVars, udp, ticking, chunkVars, crossed>>
             /\ \A t \in Sockets : Attached(t) => Attached(t)'
             /\ \A t \in Sockets : session[t] = "approved" => session'[t] = "approved"
             /\ session' = [t \in Sockets |-> session'[t]]
             /\ inbox' = [t \in Sockets |-> inbox'[t]]
             /\ \A t \in Sockets : inbox'[t] # <<>> => Attached(t)'
  BY <1>3 DEF ServerDeny
<1>4. ASSUME NEW s \in Sockets, NEW what, ServerRefuse(s, what)
      PROVE  UNCHANGED <<streamVars, clientVars, udp, ticking, chunkVars, crossed, session, inbox>>
  BY <1>4 DEF ServerRefuse
<1>5. ASSUME NEW s \in Sockets, NEW m, CanSend(s), Send(s, m), UNCHANGED <<state, session>>
      PROVE  /\ \A t \in Sockets : Attached(t) => Attached(t)'
             /\ session' = [t \in Sockets |-> session'[t]]
             /\ inbox' = [t \in Sockets |-> inbox'[t]]
             /\ \A t \in Sockets : inbox'[t] # <<>> => Attached(t)'
  BY <1>5 DEF CanSend, Send
<1>6. ASSUME NEW s \in Sockets,
             \/ ServerName(s)
             \/ \E c \in Channels, peers \in PeerMaps : ServerJoin(s, c, peers)
             \/ \E c \in Channels : ServerLeave(s, c)
             \/ \E c \in Channels, p \in Peers, n \in Names : ServerPeer(s, c, p, n)
             \/ \E c \in Channels, p \in Peers : ServerPeerLeaves(s, c, p)
      PROVE  /\ UNCHANGED <<streamVars, clientVars, udp, ticking, chunkVars, crossed>>
             /\ CanSend(s) /\ UNCHANGED session /\ \E m : Send(s, m)
  BY <1>6 DEF ServerName, ServerJoin, ServerLeave, ServerPeer, ServerPeerLeaves
<1>7. QED
  BY <1>1, <1>2, <1>3, <1>4, <1>5, <1>6 DEF ServerStep

(* What a step of the server leaves alone, in full.                        *)
LEMMA ServerSpares ==
    ASSUME ServerStep
    PROVE  UNCHANGED <<clientVars, udpVars, chunkVars, networkVars, historyVars>>
<1>1. ASSUME name \/ \E c \in Channels : join(c)
      PROVE  UNCHANGED <<clientVars, udpVars, chunkVars, networkVars, historyVars>>
  BY <1>1 DEF name, join
<1>2. ASSUME NEW s \in Sockets,
             \/ ServerApprove(s) \/ ServerDeny(s) \/ ServerName(s)
             \/ \E what \in Channels \cup {"name"} : ServerRefuse(s, what)
      PROVE  UNCHANGED <<clientVars, udpVars, chunkVars, networkVars, historyVars>>
  BY <1>2 DEF ServerApprove, ServerDeny, ServerName, ServerRefuse
<1>3. ASSUME NEW s \in Sockets,
             \/ \E c \in Channels, peers \in PeerMaps : ServerJoin(s, c, peers)
             \/ \E c \in Channels : ServerLeave(s, c)
      PROVE  UNCHANGED <<clientVars, udpVars, chunkVars, networkVars, historyVars>>
  BY <1>3 DEF ServerJoin, ServerLeave
<1>4. ASSUME NEW s \in Sockets,
             \/ \E c \in Channels, p \in Peers, n \in Names : ServerPeer(s, c, p, n)
             \/ \E c \in Channels, p \in Peers : ServerPeerLeaves(s, c, p)
      PROVE  UNCHANGED <<clientVars, udpVars, chunkVars, networkVars, historyVars>>
  BY <1>4 DEF ServerPeer, ServerPeerLeaves
<1> QED
  BY <1>1, <1>2, <1>3, <1>4 DEF ServerStep

(* What a datagram step does not do. *)
LEMMA DatagramSteps ==
    ASSUME DatagramStep
    PROVE  UNCHANGED <<streamVars, clientVars, udp, ticking, chunkVars, session, inbox, crossed>>
  BY DEF DatagramStep, TimerFires, udphellotick, HelloArrives, WelcomeArrives, LoseHello,
         LoseWelcome, streamVars, clientVars, udpVars, chunkVars, serverVars, networkVars,
         historyVars

(* What a message, or a step of one, does to everything but the lists.     *)
LEMMA MessageSteps ==
    ASSUME StreamInv, messagehandler
    PROVE  /\ chunk # <<>>
           /\ UNCHANGED <<streamVars, connected, chunkOf, session, inbox>>
           /\ crossed' = (crossed \/ Left(chunkOf))
           /\ Left(chunkOf)' = Left(chunkOf)
           /\ id' = id \/ id' = chunkOf
           /\ \/ UNCHANGED <<chunk, responding>> /\ crashed' # "no"
              \/ /\ chunk' = chunk /\ responding' \in {"hosted", "greeted"}
                 /\ Head(chunk).type = "approved"
              \/ responding' = "no"
<1>1. CASE ConnectResponse
  BY <1>1 DEF ConnectResponse, Handling, streamVars, serverVars, Left
<1>2. CASE ConnectResponse_SaysHello
  BY <1>2 DEF ConnectResponse_SaysHello, Handling, clientVars, streamVars, serverVars, Left
<1>3. CASE ConnectResponse_StartsTimer
  BY <1>3 DEF ConnectResponse_StartsTimer, Handling, clientVars, streamVars, serverVars, Left
<1>4. CASE NameResponse \/ JoinResponse \/ LeaveResponse \/ PeerMessage \/ PeerGone
  BY <1>4 DEF NameResponse, JoinResponse, LeaveResponse, PeerMessage, PeerGone, NextMessage,
              Handling, StreamInv, streamVars, serverVars, Left
<1>5. QED
  BY <1>1, <1>2, <1>3, <1>4 DEF messagehandler

(* What a message does to the timer and to UDP: a hello was sent only from *)
(* a port, and the timer is started after a hello.                         *)
LEMMA ResponseSteps ==
    ASSUME StreamInv, messagehandler
    PROVE  \/ /\ UNCHANGED <<ticking, udp>>
              /\ responding' = "greeted" => udp # None \/ crashed' # "no"
           \/ /\ ticking' = ticking /\ responding' # "greeted"
              /\ Head(chunk).type = "approved"
           \/ udp' = udp /\ responding = "greeted" /\ crashed = "no" /\ responding' = "no"
<1>1. CASE ConnectResponse
  BY <1>1 DEF ConnectResponse, Handling
<1>2. CASE ConnectResponse_SaysHello
  BY <1>2 DEF ConnectResponse_SaysHello, SayHello
<1>3. CASE ConnectResponse_StartsTimer
  BY <1>3 DEF ConnectResponse_StartsTimer, Handling
<1>4. CASE NameResponse \/ JoinResponse \/ LeaveResponse \/ PeerMessage \/ PeerGone
  BY <1>4 DEF NameResponse, JoinResponse, LeaveResponse, PeerMessage, PeerGone, NextMessage,
              Handling, StreamInv
<1>5. QED
  BY <1>1, <1>2, <1>3, <1>4 DEF messagehandler

(* The close hook runs for s. *)
Closes(s) ==
    \/ ConnectionEnds(s)
    \/ s = socket /\ disconnect_Closes

(* What a close does, for each way of closing.                             *)
LEMMA CloseSteps ==
    ASSUME NEW s \in Sockets, StreamInv, Closes(s)
    PROVE  /\ StreamInv'
           /\ id' = None /\ ~connected' /\ ~named' /\ channels' = <<>> /\ ~ticking'
           /\ Unheard(s) /\ UNCHANGED <<udp, chunkVars>>
           /\ \A t \in Sockets : t # s => state'[t] = state[t] \/ t > socket
           /\ \/ leaving' = "closed"
              \/ chunk = <<>> /\ leaving' = leaving
           /\ leaving' = "closed" => state'[socket'] # "open"
<1>1. /\ id' = None /\ ~connected' /\ ~named' /\ channels' = <<>> /\ ~ticking'
      /\ Unheard(s) /\ UNCHANGED <<udp, chunkVars>>
  BY DEF Closes, ConnectionEnds, disconnect_Closes, handlerdisconnect, clear, StopHello
<1>2. state[s] # "none" /\ s <= socket
  BY DEF Closes, ConnectionEnds, StreamInv, Sockets
<1>3. /\ Ended(s) \in [Sockets -> States]
      /\ Ended(s)[s] \in {"connecting", "closed"}
      /\ \A t \in Sockets : t # s => Ended(s)[t] = state[t]
  BY DEF Ended, StreamInv, States
<1>4. /\ inbox' = [t \in Sockets |-> inbox'[t]] /\ session' = session
      /\ \A t \in Sockets : inbox'[t] # <<>> => t # s /\ inbox[t] # <<>>
  BY <1>1 DEF Unheard, StreamInv
<1>5. CASE ConnectionEnds(s)
  <2>1. /\ socket' = socket + 1 /\ socket' \in Sockets /\ chunk = <<>>
        /\ leaving' = leaving /\ leaving \in {"no", "stopped"}
        /\ leaving = "stopped" => socket' < MaxSockets
        /\ state' = [Ended(s) EXCEPT ![socket + 1] = "idle"]
    BY <1>5, ClientAssumption
    DEF ConnectionEnds, initsocket, Sockets, StreamInv, PumpFree, Unlocked
  <2>2. /\ state' \in [Sockets -> States] /\ state'[socket'] = "idle"
        /\ \A t \in Sockets : t # s /\ t # socket' => state'[t] = state[t]
    BY <1>3, <2>1 DEF States
  <2>3. \A t \in Sockets : t # s => state'[t] = state[t] \/ t > socket
    BY <2>1, <2>2 DEF StreamInv, Sockets
  <2>4. \A t \in Sockets : t > socket' => t > socket /\ t # socket' /\ t # s
    BY <1>2, <2>1 DEF Sockets, StreamInv
  <2>5. inbox[socket'] = <<>>
    BY <2>1 DEF StreamInv, Attached, Sockets
  <2>6. \A t \in Sockets : inbox'[t] # <<>> => Attached(t)'
    BY <1>4, <2>2, <2>5 DEF StreamInv, Attached
  <2>7. StreamInv'
    BY <1>1, <1>4, <2>1, <2>2, <2>4, <2>6 DEF StreamInv, chunkVars
  <2> QED BY <1>1, <2>1, <2>3, <2>7
<1>6. CASE s = socket /\ disconnect_Closes
  <2>1. /\ socket' = socket /\ state' = Ended(s) /\ leaving = "stopped" /\ leaving' = "closed"
    BY <1>6 DEF disconnect_Closes
  <2>2. \A t \in Sockets : inbox'[t] # <<>> => Attached(t)'
    BY <1>3, <1>4, <2>1 DEF StreamInv, Attached
  <2>3. \A t \in Sockets : t > socket => t # s
    BY <1>2 DEF StreamInv, Sockets
  <2>4. Left(chunkOf)'
    BY <2>1 DEF Left
  <2>5. StreamInv'
    BY <1>1, <1>2, <1>3, <1>4, <1>6, <2>1, <2>2, <2>3, <2>4 DEF StreamInv, chunkVars
  <2>6. state'[socket'] # "open" /\ \A t \in Sockets : t # s => state'[t] = state[t]
    BY <1>3, <1>6, <2>1
  <2> QED BY <1>1, <2>1, <2>5, <2>6
<1> QED
  BY <1>5, <1>6 DEF Closes

(* The socket that takes the place of the one disconnect() closed.         *)
LEMMA ReplaceSteps ==
    ASSUME StreamInv, disconnect_Replaces
    PROVE  /\ StreamInv'
           /\ socket' = socket + 1 /\ socket' \in Sockets /\ state[socket'] = "none"
           /\ state'[socket'] = "idle"
           /\ \A t \in Sockets : state'[t] = state[t] \/ t > socket
           /\ chunk # <<>> => chunkOf # socket'
<1>1. /\ socket' = socket + 1 /\ socket' \in Sockets /\ socket' > socket
      /\ state' = [state EXCEPT ![socket + 1] = "idle"]
      /\ leaving = "closed" /\ leaving' = "replaced"
      /\ UNCHANGED <<chunkVars, session, inbox>>
  BY ClientAssumption DEF disconnect_Replaces, initsocket, StreamInv, Sockets, serverVars
<1>2. /\ state[socket'] = "none" /\ state' \in [Sockets -> States] /\ state'[socket'] = "idle"
      /\ \A t \in Sockets : t # socket' => state'[t] = state[t]
  BY <1>1 DEF StreamInv, States
<1>3. \A t \in Sockets : t > socket' => t > socket /\ t # socket'
  BY <1>1 DEF StreamInv, Sockets
<1>4. inbox[socket'] = <<>>
  BY <1>1, <1>2 DEF StreamInv, Attached
<1>5. \A t \in Sockets : inbox'[t] # <<>> => Attached(t)'
  BY <1>1, <1>2, <1>4 DEF StreamInv, Attached
<1>6. chunk # <<>> => chunkOf < socket'
  BY <1>1 DEF StreamInv, Sockets
<1>7. chunk # <<>> => chunkOf <= socket' /\ chunkOf # socket'
  BY <1>1, <1>6 DEF StreamInv, Sockets
<1>8. chunk' # <<>> => chunkOf' <= socket' /\ Left(chunkOf)'
  BY <1>1, <1>7 DEF Left, chunkVars
<1>9. StreamInv'
  BY <1>1, <1>2, <1>3, <1>5, <1>8 DEF StreamInv, chunkVars
<1> QED
  BY <1>1, <1>2, <1>3, <1>7, <1>9 DEF Sockets, StreamInv

(* Messages are only where sockets are open and approved.                  *)
LEMMA StreamsHold == Spec => []StreamInv
<1>1. Init => StreamInv
  BY ClientAssumption DEF Init, StreamInv, States, Sockets
<1>2. StreamInv /\ [Next]_vars => StreamInv'
  <2> SUFFICES ASSUME StreamInv, [Next]_vars
               PROVE  StreamInv'
    OBVIOUS
  <2>1. CASE Connect \/ ConnectRefused
    BY <2>1 DEF Connect, ConnectRefused, Unlocked, StreamInv, Attached, States, Left, chunkVars,
                serverVars
  <2>2. ASSUME NEW s \in Sockets, ConnectFailed(s)
        PROVE  StreamInv'
    BY <2>2 DEF ConnectFailed, PumpFree, StreamInv, Attached, States, chunkVars, serverVars
  <2>3. ASSUME NEW s \in Sockets, handlerconnect(s)
        PROVE  StreamInv'
    BY <2>3 DEF handlerconnect, PumpFree, StreamInv, Attached, States, chunkVars
  <2>4. ASSUME NEW s \in Sockets, Closes(s)
        PROVE  StreamInv'
    BY <2>4, CloseSteps
  <2>4a. CASE disconnect_Closes \/ \E s \in Sockets : ConnectionEnds(s)
    BY <2>4, <2>4a DEF Closes, StreamInv
  <2>5. CASE disconnect \/ disconnect_Unhosts
    BY <2>5 DEF disconnect, disconnect_Unhosts, StreamInv, Attached, Left, chunkVars, serverVars
  <2>5a. CASE disconnect_Replaces
    BY <2>5a, ReplaceSteps
  <2>6. CASE ServerStep
    BY <2>6, ServerSteps DEF StreamInv, streamVars, chunkVars, Attached, Left
  <2>7. CASE DatagramStep
    BY <2>7, DatagramSteps DEF StreamInv, streamVars, chunkVars, Attached, Left
  <2>8. ASSUME NEW s \in Sockets, NEW k \in 0 .. MaxInbox, NEW part \in BOOLEAN,
               handlerreceive(s, k, part)
        PROVE  StreamInv'
    <3>1. inbox[s] # <<>>
      BY <2>8 DEF handlerreceive
    <3>2. Attached(s) /\ s <= socket
      BY <3>1 DEF StreamInv, Attached, Sockets
    <3>3. /\ UNCHANGED <<socket, leaving, state, session, responding>>
          /\ chunk = <<>> /\ chunkOf' = s
          /\ inbox' = [t \in Sockets |-> inbox'[t]]
          /\ \A t \in Sockets : t # s => inbox'[t] = inbox[t]
      BY <2>8 DEF handlerreceive, PumpFree, StreamInv, streamVars
    <3>4. QED
      BY <3>2, <3>3 DEF StreamInv, Attached, Left
  <2>9. CASE messagehandler
    BY <2>9, MessageSteps DEF StreamInv, streamVars, Attached
  <2>10. ASSUME NEW s \in Sockets, UdpWelcome(s)
         PROVE  StreamInv'
    BY <2>10 DEF UdpWelcome, StreamInv, Attached, Left, streamVars, chunkVars, serverVars
  <2>11. CASE UNCHANGED vars
    BY <2>11 DEF vars, StreamInv, Attached, Left, streamVars, chunkVars, serverVars
  <2>12. QED
    BY <2>1, <2>2, <2>3, <2>4a, <2>5, <2>5a, <2>6, <2>7, <2>8, <2>9, <2>10, <2>11
    DEF Next, ServerStep, DatagramStep, Disconnecting
<1>3. QED
  BY <1>1, <1>2, PTL DEF Spec

(* An identifier is of the current socket.                                 *)
LEMMA LinkHolds == Spec => []LinkInv
<1>1. Init => LinkInv
  BY DEF Init, LinkInv, FreshSocketIsBlank
<1>2. StreamInv /\ LinkInv /\ [Next]_vars => LinkInv'
  <2> SUFFICES ASSUME StreamInv, LinkInv, [Next]_vars, ~crossed'
               PROVE  /\ id' # None => id' = socket' /\ Attached(socket)'
                      /\ connected' => id' = socket'
                      /\ leaving' = "closed" => state'[socket'] # "open"
                      /\ FreshSocketIsBlank'
    BY DEF LinkInv
  <2> USE DEF LinkInv, FreshSocketIsBlank
  <2>1. CASE Connect \/ ConnectRefused
    BY <2>1 DEF Connect, ConnectRefused, Unlocked, StreamInv, clientVars, udpVars, historyVars
  <2>2. ASSUME NEW s \in Sockets, ConnectFailed(s)
        PROVE  LinkInv'
    <3>1. UNCHANGED <<socket, leaving, session, clientVars, ticking, crossed>>
      BY <2>2 DEF ConnectFailed, udpVars, serverVars, historyVars
    <3>2. (state[socket] = "open") = (state'[socket] = "open")
      BY <2>2 DEF ConnectFailed, StreamInv
    <3>3. QED
      BY <3>1, <3>2 DEF Attached, clientVars
  <2>3. ASSUME NEW s \in Sockets, handlerconnect(s)
        PROVE  LinkInv'
    <3>1. s = socket /\ leaving # "closed" /\ leaving' = leaving
      BY <2>3 DEF handlerconnect, Left
    <3>2. ~connected /\ id = None
      BY <2>3, <3>1 DEF handlerconnect
    <3>3. state'[socket'] = "open"
      BY <2>3, <3>1 DEF handlerconnect, StreamInv
    <3>4. QED
      BY <2>3, <3>1, <3>2, <3>3 DEF handlerconnect, clientVars
  <2>4. ASSUME NEW s \in Sockets, Closes(s)
        PROVE  LinkInv'
    BY <2>4, CloseSteps, ClientAssumption DEF Closes, ConnectionEnds, disconnect_Closes
  <2>4a. CASE disconnect_Closes \/ \E s \in Sockets : ConnectionEnds(s)
    BY <2>4, <2>4a DEF Closes, StreamInv
  <2>5. CASE disconnect
    BY <2>5 DEF disconnect, StopHello, Attached, serverVars, historyVars
  <2>5a. CASE disconnect_Replaces
    <3>1. /\ leaving = "closed" /\ leaving' = "replaced" /\ ~crossed
          /\ UNCHANGED <<clientVars, ticking>>
      BY <2>5a DEF disconnect_Replaces, udpVars, historyVars
    <3>2. ~connected /\ id = None /\ ~named /\ channels = <<>> /\ ~ticking
      BY <3>1
    <3> QED
      BY <3>1, <3>2 DEF clientVars
  <2>5b. CASE disconnect_Unhosts
    BY <2>5b DEF disconnect_Unhosts, Attached, clientVars, serverVars, historyVars
  <2>6. CASE ServerStep
    BY <2>6, ServerSteps DEF StreamInv, streamVars, clientVars
  <2>7. CASE DatagramStep
    BY <2>7, DatagramSteps DEF streamVars, clientVars, Attached
  <2>8. ASSUME NEW s \in Sockets, NEW k \in 0 .. MaxInbox, NEW part \in BOOLEAN,
               handlerreceive(s, k, part)
        PROVE  LinkInv'
    BY <2>8 DEF handlerreceive, streamVars, clientVars, udpVars, Attached
  <2>9. CASE messagehandler
    <3>1. /\ ~crossed /\ ~Left(chunkOf) /\ chunk # <<>>
          /\ UNCHANGED <<connected, socket, leaving, state, session>>
      BY <2>9, MessageSteps DEF streamVars
    <3>2. chunkOf = socket /\ Attached(socket)
      BY <3>1 DEF StreamInv, Left
    <3>3. id' = id \/ id' = socket
      BY <2>9, <3>2, MessageSteps
    <3>4. QED
      BY <3>1, <3>2, <3>3 DEF Attached
  <2>10. ASSUME NEW s \in Sockets, UdpWelcome(s)
         PROVE  LinkInv'
    <3>1. id = s /\ ~crossed
      BY <2>10 DEF UdpWelcome
    <3>2. s # None
      BY ClientAssumption DEF Sockets
    <3>3. id = socket /\ Attached(socket)
      BY <3>1, <3>2
    <3>4. UNCHANGED <<id, socket, leaving, state, session>>
      BY <2>10 DEF UdpWelcome, streamVars, serverVars
    <3>5. QED
      BY <3>1, <3>3, <3>4 DEF Attached
  <2>11. CASE UNCHANGED vars
    BY <2>11 DEF vars, streamVars, clientVars, udpVars, serverVars, historyVars, Attached
  <2>12. QED
    BY <2>1, <2>2, <2>3, <2>4a, <2>5, <2>5a, <2>5b, <2>6, <2>7, <2>8, <2>9, <2>10, <2>11
    DEF Next, ServerStep, DatagramStep, Disconnecting
<1>3. QED
  BY <1>1, <1>2, StreamsHold, PTL DEF Spec

(* However connections, messages, datagrams and ticks interleave, a client *)
(* that says it is connected has an open socket on which the server        *)
(* approved it, unless something of another connection reached it.         *)
THEOREM ConnectedHolds == Spec => []ConnectedIsApproved
<1>1. StreamInv /\ LinkInv => ConnectedIsApproved
  BY ClientAssumption DEF StreamInv, LinkInv, ConnectedIsApproved, Attached, Sockets
<1>2. QED
  BY <1>1, StreamsHold, LinkHolds, PTL

(* And a socket that is not connected starts from a blank client: the      *)
(* disconnect handler undoes everything the messages of a connection did.  *)
THEOREM FreshHolds == Spec => []FreshSocketIsBlank
<1>1. LinkInv => FreshSocketIsBlank
  BY DEF LinkInv, FreshSocketIsBlank
<1>2. QED
  BY <1>1, LinkHolds, PTL

(***************************************************************************)
(* What the lists say.  A message changes what a list of channels says;    *)
(* the messages the client has yet to handle lead from what its own list   *)
(* says to what the server's does.  Names are left out: see NamesFollow.   *)
(***************************************************************************)
(* What a list of channels says: the channels, and the peers on each.      *)
View == [ids : SUBSET Channels, on : SUBSET (Channels \X Peers)]

(* The client's entry for a channel, and the messages it may be sent.      *)
Entry == [id : Channels, peers : PeerMaps]

Message ==
    [type : {"approved", "named"}] \cup [type : {"joined"}, channel : Channels, peers : PeerMaps]
    \cup [type : {"left"}, channel : Channels]
    \cup [type : {"peer"}, channel : Channels, peer : Peers, name : Names]
    \cup [type : {"gone"}, channel : Channels, peer : Peers]

(* A message takes a list from v to w. *)
Changes(m, v, w) ==
    \/ m.type \in {"approved", "named"} /\ w = v
    \/ /\ m.type = "joined" /\ m.channel \notin v.ids
       /\ w.ids = v.ids \cup {m.channel}
       /\ w.on = v.on \cup ({m.channel} \X DOMAIN m.peers)
    \/ /\ m.type = "left"
       /\ w.ids = v.ids \ {m.channel}
       /\ w.on = v.on \ ({m.channel} \X Peers)
    \/ /\ m.type = "peer" /\ m.channel \in v.ids
       /\ w.ids = v.ids
       /\ w.on = v.on \cup {<<m.channel, m.peer>>}
    \/ /\ m.type = "gone"
       /\ w.ids = v.ids
       /\ w.on = v.on \ {<<m.channel, m.peer>>}

(* The messages of s, one after another, take a list from v to w. *)
Lead(s, v, w) ==
    \E h \in [0 .. Len(s) -> View] :
        /\ h[0] = v /\ h[Len(s)] = w
        /\ \A i \in 1 .. Len(s) : Changes(s[i], h[i - 1], h[i])

(* No messages lead nowhere.                                               *)
LEMMA LeadNowhere ==
    ASSUME NEW v \in View, NEW w
    PROVE  Lead(<<>>, v, w) <=> w = v
<1>1. Len(<<>>) = 0 /\ 1 .. 0 = {} /\ 0 .. 0 = {0}
  OBVIOUS
<1>2. ASSUME Lead(<<>>, v, w)
      PROVE  w = v
  BY <1>1, <1>2 DEF Lead
<1>3. Lead(<<>>, v, v)
  <2> DEFINE h == [i \in 0 .. 0 |-> v]
  <2>1. h \in [0 .. 0 -> View] /\ h[0] = v
    BY <1>1
  <2> HIDE DEF h
  <2> QED BY <1>1, <2>1 DEF Lead
<1> QED BY <1>2, <1>3

(* One message more leads one change further.                              *)
LEMMA LeadFurther ==
    ASSUME NEW S, NEW s \in Seq(S), NEW m \in S, NEW u, NEW v, NEW w \in View,
           Lead(s, u, v), Changes(m, v, w)
    PROVE  Lead(Append(s, m), u, w)
<1>1. PICK h \in [0 .. Len(s) -> View] :
          /\ h[0] = u /\ h[Len(s)] = v
          /\ \A i \in 1 .. Len(s) : Changes(s[i], h[i - 1], h[i])
  BY DEF Lead
<1> DEFINE t == Append(s, m)
           g == [i \in 0 .. Len(t) |-> IF i <= Len(s) THEN h[i] ELSE w]
<1>2. /\ Len(s) \in Nat /\ Len(t) = Len(s) + 1 /\ t[Len(s) + 1] = m
      /\ \A i \in 1 .. Len(s) : t[i] = s[i]
  OBVIOUS
<1> HIDE DEF t
<1>3. g \in [0 .. Len(t) -> View] /\ g[0] = u /\ g[Len(t)] = w
  BY <1>1, <1>2
<1>4. ASSUME NEW i \in 1 .. Len(t)
      PROVE  Changes(t[i], g[i - 1], g[i])
  <2>1. CASE i \in 1 .. Len(s)
    <3>1. g[i] = h[i] /\ g[i - 1] = h[i - 1] /\ t[i] = s[i]
      BY <1>2, <2>1
    <3> QED BY <1>1, <2>1, <3>1
  <2>2. CASE i = Len(s) + 1
    <3>1. g[i] = w /\ g[i - 1] = h[Len(s)] /\ t[i] = m
      BY <1>2, <2>2
    <3> QED BY <1>1, <3>1
  <2> QED BY <1>2, <2>1, <2>2
<1> HIDE DEF g
<1> QED BY <1>3, <1>4 DEF Lead, t

(* The first message makes the first change, the others the rest.          *)
LEMMA LeadFirst ==
    ASSUME NEW S, NEW s \in Seq(S), s # <<>>, NEW u, NEW w, Lead(s, u, w)
    PROVE  \E v \in View : Changes(Head(s), u, v) /\ Lead(Tail(s), v, w)
<1>1. PICK h \in [0 .. Len(s) -> View] :
          /\ h[0] = u /\ h[Len(s)] = w
          /\ \A i \in 1 .. Len(s) : Changes(s[i], h[i - 1], h[i])
  BY DEF Lead
<1> DEFINE t == Tail(s)
           g == [i \in 0 .. Len(t) |-> h[i + 1]]
<1>2. /\ Len(s) \in Nat \ {0} /\ Len(t) = Len(s) - 1 /\ Head(s) = s[1]
      /\ \A i \in 1 .. Len(t) : t[i] = s[i + 1]
  OBVIOUS
<1> HIDE DEF t
<1>3. g \in [0 .. Len(t) -> View] /\ g[0] = h[1] /\ g[Len(t)] = w
  BY <1>1, <1>2
<1>4. ASSUME NEW i \in 1 .. Len(t)
      PROVE  Changes(t[i], g[i - 1], g[i])
  <2>1. g[i] = h[i + 1] /\ g[i - 1] = h[i] /\ t[i] = s[i + 1] /\ i + 1 \in 1 .. Len(s)
    BY <1>2
  <2>2. Changes(s[i + 1], h[(i + 1) - 1], h[i + 1])
    BY <1>1, <2>1
  <2>3. (i + 1) - 1 = i
    BY <1>2
  <2> QED BY <2>1, <2>2, <2>3
<1>5. 1 \in 1 .. Len(s) /\ 1 \in 0 .. Len(s)
  BY <1>2
<1>6. h[1] \in View /\ Changes(Head(s), u, h[1])
  BY <1>1, <1>2, <1>5
<1> HIDE DEF g
<1>7. Lead(t, h[1], w)
  BY <1>3, <1>4 DEF Lead
<1> QED BY <1>6, <1>7 DEF t

(* The lists of the client, and of the server. *)
Listed ==
    [ids |-> {channels[i].id : i \in DOMAIN channels},
     on |-> {x \in Channels \X Peers :
                \E i \in DOMAIN channels : channels[i].id = x[1] /\ x[2] \in DOMAIN channels[i].peers}]

Roster(r) ==
    [ids |-> DOMAIN r,
     on |-> {x \in Channels \X Peers : x[1] \in DOMAIN r /\ x[2] \in DOMAIN r[x[1]]}]

(* The lists a server may have a client on.                                *)
Rosters == UNION {[C -> PeerMaps] : C \in SUBSET Channels}

(* No channel is listed twice.                                             *)
Distinct == \A i, j \in DOMAIN channels : channels[i].id = channels[j].id => i = j

(* Maps of peers, and of channels, told by their domains and values.       *)
LEMMA Maps ==
    /\ \A f \in PeerMaps : DOMAIN f \in SUBSET Peers /\ f = [x \in DOMAIN f |-> f[x]]
          /\ \A x \in DOMAIN f : f[x] \in Names
    /\ \A f : DOMAIN f \in SUBSET Peers /\ f = [x \in DOMAIN f |-> f[x]]
          /\ (\A x \in DOMAIN f : f[x] \in Names) => f \in PeerMaps
    /\ \A f \in Rosters : DOMAIN f \in SUBSET Channels /\ f = [x \in DOMAIN f |-> f[x]]
          /\ \A x \in DOMAIN f : f[x] \in PeerMaps
    /\ \A f : DOMAIN f \in SUBSET Channels /\ f = [x \in DOMAIN f |-> f[x]]
          /\ (\A x \in DOMAIN f : f[x] \in PeerMaps) => f \in Rosters
<1>1. ASSUME NEW f \in PeerMaps
      PROVE  /\ DOMAIN f \in SUBSET Peers /\ f = [x \in DOMAIN f |-> f[x]]
             /\ \A x \in DOMAIN f : f[x] \in Names
  <2>1. PICK P \in SUBSET Peers : f \in [P -> Names]
    BY DEF PeerMaps
  <2> QED BY <2>1
<1>2. ASSUME NEW f, DOMAIN f \in SUBSET Peers, f = [x \in DOMAIN f |-> f[x]],
             \A x \in DOMAIN f : f[x] \in Names
      PROVE  f \in PeerMaps
  <2>1. f \in [DOMAIN f -> Names]
    BY <1>2
  <2> QED BY <1>2, <2>1 DEF PeerMaps
<1>3. ASSUME NEW f \in Rosters
      PROVE  /\ DOMAIN f \in SUBSET Channels /\ f = [x \in DOMAIN f |-> f[x]]
             /\ \A x \in DOMAIN f : f[x] \in PeerMaps
  <2>1. PICK P \in SUBSET Channels : f \in [P -> PeerMaps]
    BY DEF Rosters
  <2> QED BY <2>1
<1>4. ASSUME NEW f, DOMAIN f \in SUBSET Channels, f = [x \in DOMAIN f |-> f[x]],
             \A x \in DOMAIN f : f[x] \in PeerMaps
      PROVE  f \in Rosters
  <2>1. f \in [DOMAIN f -> PeerMaps]
    BY <1>4
  <2> QED BY <1>4, <2>1 DEF Rosters
<1> QED BY <1>1, <1>2, <1>3, <1>4

(* With and Without keep to such maps.                                     *)
LEMMA MapChanges ==
    /\ \A f \in PeerMaps, p \in Peers, n \in Names : With(f, p, n) \in PeerMaps
    /\ \A f \in PeerMaps, p \in Peers : Without(f, p) \in PeerMaps
    /\ \A f \in Rosters, c \in Channels, q \in PeerMaps : With(f, c, q) \in Rosters
    /\ \A f \in Rosters, c \in Channels : Without(f, c) \in Rosters
<1>1. ASSUME NEW f \in PeerMaps, NEW p \in Peers, NEW n \in Names
      PROVE  With(f, p, n) \in PeerMaps
  <2> DEFINE g == With(f, p, n)
  <2>1. DOMAIN g \in SUBSET Peers /\ g = [x \in DOMAIN g |-> g[x]] /\ \A x \in DOMAIN g : g[x] \in Names
    BY Maps DEF With
  <2> HIDE DEF g
  <2> QED BY <2>1, Maps DEF g
<1>2. ASSUME NEW f \in PeerMaps, NEW p \in Peers
      PROVE  Without(f, p) \in PeerMaps
  <2> DEFINE g == Without(f, p)
  <2>1. DOMAIN g \in SUBSET Peers /\ g = [x \in DOMAIN g |-> g[x]] /\ \A x \in DOMAIN g : g[x] \in Names
    BY Maps DEF Without
  <2> HIDE DEF g
  <2> QED BY <2>1, Maps DEF g
<1>3. ASSUME NEW f \in Rosters, NEW c \in Channels, NEW q \in PeerMaps
      PROVE  With(f, c, q) \in Rosters
  <2> DEFINE g == With(f, c, q)
  <2>1. /\ DOMAIN g \in SUBSET Channels /\ g = [x \in DOMAIN g |-> g[x]]
        /\ \A x \in DOMAIN g : g[x] \in PeerMaps
    BY Maps DEF With
  <2> HIDE DEF g
  <2> QED BY <2>1, Maps DEF g
<1>4. ASSUME NEW f \in Rosters, NEW c \in Channels
      PROVE  Without(f, c) \in Rosters
  <2> DEFINE g == Without(f, c)
  <2>1. /\ DOMAIN g \in SUBSET Channels /\ g = [x \in DOMAIN g |-> g[x]]
        /\ \A x \in DOMAIN g : g[x] \in PeerMaps
    BY Maps DEF Without
  <2> HIDE DEF g
  <2> QED BY <2>1, Maps DEF g
<1> QED BY <1>1, <1>2, <1>3, <1>4

(* What the server tells of its roster. *)
LEMMA RosterIsView ==
    /\ \A r \in Rosters : Roster(r) \in View
    /\ Roster(NoMap) = [ids |-> {}, on |-> {}] /\ NoMap \in Rosters
<1>1. ASSUME NEW r \in Rosters
      PROVE  Roster(r) \in View
  BY Maps DEF Roster, View
<1>2. DOMAIN NoMap = {} /\ NoMap = [x \in DOMAIN NoMap |-> NoMap[x]]
  BY DEF NoMap
<1>3. NoMap \in Rosters
  BY <1>2, Maps
<1>4. Roster(NoMap) = [ids |-> {}, on |-> {}]
  BY <1>2 DEF Roster
<1> QED BY <1>1, <1>3, <1>4

(* A join, on the server's side.                                           *)
LEMMA RosterGains ==
    ASSUME NEW r \in Rosters, NEW c \in Channels \ DOMAIN r, NEW q \in PeerMaps,
           NEW m, m.type = "joined", m.channel = c, m.peers = q
    PROVE  Changes(m, Roster(r), Roster(With(r, c, q)))
<1> DEFINE t == With(r, c, q)
<1>1. DOMAIN t = DOMAIN r \cup {c} /\ t[c] = q /\ \A x \in DOMAIN r : t[x] = r[x]
  BY DEF With
<1>2. DOMAIN q \subseteq Peers /\ DOMAIN r \subseteq Channels
  BY Maps
<1> HIDE DEF t
<1>3. Roster(t).ids = Roster(r).ids \cup {c} /\ c \notin Roster(r).ids
  BY <1>1 DEF Roster
<1>4. Roster(t).on = Roster(r).on \cup ({c} \X DOMAIN q)
  BY <1>1, <1>2 DEF Roster
<1> QED BY <1>3, <1>4 DEF Changes, t

(* A leave, on the server's side.                                          *)
LEMMA RosterLoses ==
    ASSUME NEW r \in Rosters, NEW c \in DOMAIN r, NEW m, m.type = "left", m.channel = c
    PROVE  Changes(m, Roster(r), Roster(Without(r, c)))
<1> DEFINE t == Without(r, c)
<1>1. DOMAIN t = DOMAIN r \ {c} /\ \A x \in DOMAIN r \ {c} : t[x] = r[x]
  BY DEF Without
<1>2. DOMAIN r \subseteq Channels
  BY Maps
<1> HIDE DEF t
<1>3. Roster(t).ids = Roster(r).ids \ {c}
  BY <1>1 DEF Roster
<1>4. Roster(t).on = Roster(r).on \ ({c} \X Peers)
  BY <1>1, <1>2 DEF Roster
<1> QED BY <1>3, <1>4 DEF Changes, t

(* The server's lists with the peers of channel c become q.                *)
Turn(r, c, q) == [r EXCEPT ![c] = q]

(* The peers of one channel change.                                        *)
LEMMA RosterTurns ==
    ASSUME NEW r \in Rosters, NEW c \in DOMAIN r, NEW q \in PeerMaps
    PROVE  /\ Turn(r, c, q) \in Rosters
           /\ Roster(Turn(r, c, q)).ids = Roster(r).ids /\ c \in Roster(r).ids
           /\ \A p \in Peers : DOMAIN q = DOMAIN r[c] \cup {p} =>
                 Roster(Turn(r, c, q)).on = Roster(r).on \cup {<<c, p>>}
           /\ \A p \in Peers : DOMAIN q = DOMAIN r[c] \ {p} =>
                 Roster(Turn(r, c, q)).on = Roster(r).on \ {<<c, p>>}
<1> DEFINE t == Turn(r, c, q)
<1>0. PICK C \in SUBSET Channels : r \in [C -> PeerMaps]
  BY DEF Rosters
<1>1. DOMAIN t = DOMAIN r /\ t[c] = q /\ \A x \in DOMAIN r \ {c} : t[x] = r[x]
  BY <1>0 DEF Turn
<1>2. DOMAIN q \subseteq Peers /\ DOMAIN r \subseteq Channels
  BY <1>0, Maps
<1>3. t \in Rosters
  BY <1>0 DEF Rosters, Turn
<1> HIDE DEF t
<1>4. Roster(t).ids = Roster(r).ids /\ c \in Roster(r).ids
  BY <1>1 DEF Roster
<1>5. ASSUME NEW p \in Peers, DOMAIN q = DOMAIN r[c] \cup {p}
      PROVE  Roster(t).on = Roster(r).on \cup {<<c, p>>}
  BY <1>1, <1>2, <1>5 DEF Roster
<1>6. ASSUME NEW p \in Peers, DOMAIN q = DOMAIN r[c] \ {p}
      PROVE  Roster(t).on = Roster(r).on \ {<<c, p>>}
  BY <1>1, <1>2, <1>6 DEF Roster
<1> QED BY <1>3, <1>4, <1>5, <1>6 DEF t

(* What the client makes of a message it is told.                          *)
LEMMA EntryFacts ==
    ASSUME NEW s \in Seq(Entry)
    PROVE  \A i \in DOMAIN s : /\ s[i] \in Entry /\ s[i].id \in Channels
                                /\ s[i].peers \in PeerMaps /\ DOMAIN s[i].peers \subseteq Peers
<1> SUFFICES ASSUME NEW i \in DOMAIN s
             PROVE  /\ s[i] \in Entry /\ s[i].id \in Channels
                    /\ s[i].peers \in PeerMaps /\ DOMAIN s[i].peers \subseteq Peers
  OBVIOUS
<1>1. s[i] \in Entry
  OBVIOUS
<1>2. s[i].id \in Channels /\ s[i].peers \in PeerMaps
  BY <1>1 DEF Entry
<1> QED BY <1>1, <1>2, Maps

(* The same for any list of entries.                                       *)
ListOf(s) ==
    [ids |-> {s[i].id : i \in DOMAIN s},
     on |-> {x \in Channels \X Peers : \E i \in DOMAIN s : s[i].id = x[1] /\ x[2] \in DOMAIN s[i].peers}]

(* What a list says.                                                       *)
LEMMA ListIsView ==
    ASSUME NEW s \in Seq(Entry)
    PROVE  ListOf(s) \in View
<1>1. ListOf(s).ids \in SUBSET Channels
  BY EntryFacts DEF ListOf
<1>2. ListOf(s).on \in SUBSET (Channels \X Peers)
  BY DEF ListOf
<1> QED BY <1>1, <1>2 DEF View, ListOf

(* And what the client's says.                                             *)
LEMMA ListedIsView ==
    /\ channels \in Seq(Entry) => Listed \in View
    /\ channels' \in Seq(Entry) => Listed' \in View
<1>1. Listed = ListOf(channels) /\ Listed' = ListOf(channels')
  BY DEF Listed, ListOf
<1> QED BY <1>1, ListIsView

(* A list with entry i taken out.                                          *)
Cut(s, i) == SubSeq(s, 1, i - 1) \o SubSeq(s, i + 1, Len(s))

(* A list without entry i.                                                 *)
LEMMA Removal ==
    ASSUME NEW s \in Seq(Entry), NEW i \in 1 .. Len(s)
    PROVE  /\ Cut(s, i) \in Seq(Entry) /\ Len(Cut(s, i)) = Len(s) - 1
           /\ \A j \in 1 .. Len(s) - 1 : Cut(s, i)[j] = s[IF j < i THEN j ELSE j + 1]
<1> DEFINE N == Len(s)
           t == Cut(s, i)
           a == SubSeq(s, 1, i - 1)
           b == SubSeq(s, i + 1, N)
<1>1. N \in Nat /\ i \in Nat /\ 1 <= i /\ i <= N
  OBVIOUS
<1>2. a \in Seq(Entry) /\ Len(a) = i - 1 /\ \A j \in 1 .. i - 1 : a[j] = s[j]
  BY <1>1
<1>3. b \in Seq(Entry) /\ Len(b) = N - i
  BY <1>1
<1>4. \A j \in 1 .. N - i : b[j] = s[j + i]
  BY <1>1
<1>5. t = a \o b
  BY DEF Cut
<1> HIDE DEF a, b, N, t
<1>6. ASSUME NEW u \in Seq(Entry), NEW v \in Seq(Entry)
      PROVE  /\ u \o v \in Seq(Entry) /\ Len(u \o v) = Len(u) + Len(v)
             /\ \A j \in 1 .. Len(u) : (u \o v)[j] = u[j]
             /\ \A j \in 1 .. Len(v) : (u \o v)[Len(u) + j] = v[j]
  OBVIOUS
<1>7. /\ t \in Seq(Entry) /\ Len(t) = (i - 1) + (N - i)
      /\ \A j \in 1 .. i - 1 : t[j] = a[j]
      /\ \A j \in 1 .. N - i : t[(i - 1) + j] = b[j]
  <2>1. /\ a \o b \in Seq(Entry) /\ Len(a \o b) = Len(a) + Len(b)
        /\ \A j \in 1 .. Len(a) : (a \o b)[j] = a[j]
        /\ \A j \in 1 .. Len(b) : (a \o b)[Len(a) + j] = b[j]
    BY <1>2, <1>3, <1>6
  <2> QED BY <1>2, <1>3, <1>5, <2>1
<1>8. ASSUME NEW j \in 1 .. N - 1
      PROVE  t[j] = s[IF j < i THEN j ELSE j + 1]
  <2>1. CASE j < i
    <3>1. j \in 1 .. i - 1
      BY <1>1, <2>1
    <3> QED BY <1>2, <1>7, <2>1, <3>1
  <2>2. CASE ~(j < i)
    <3> DEFINE k == j - (i - 1)
    <3>1. k \in 1 .. N - i /\ (i - 1) + k = j /\ k + i = j + 1
      BY <1>1, <2>2
    <3> HIDE DEF k
    <3> QED BY <1>4, <1>7, <2>2, <3>1
  <2> QED BY <2>1, <2>2
<1>9. (i - 1) + (N - i) = N - 1
  BY <1>1
<1> QED BY <1>7, <1>8, <1>9 DEF N, t

(* A view is known by its parts. *)
LEMMA SameView ==
    ASSUME NEW v \in View, NEW w \in View, v.ids = w.ids, v.on = w.on
    PROVE  v = w
BY DEF View

(* A join, on the client's side.                                           *)
LEMMA ClientJoins ==
    ASSUME channels \in Seq(Entry), Distinct, NEW v \in View,
           NEW c \in Channels, NEW q \in PeerMaps, c \notin Listed.ids,
           channels' = Append(channels, [id |-> c, peers |-> q]),
           v.ids = Listed.ids \cup {c}, v.on = Listed.on \cup ({c} \X DOMAIN q)
    PROVE  channels' \in Seq(Entry) /\ Distinct' /\ Listed' = v
<1> DEFINE e == [id |-> c, peers |-> q]
           N == Len(channels)
<1>1. e \in Entry /\ e.id = c /\ e.peers = q /\ DOMAIN q \subseteq Peers
  BY Maps DEF Entry
<1> HIDE DEF e
<1>2. /\ channels' \in Seq(Entry) /\ N \in Nat /\ Len(channels') = N + 1 /\ channels'[N + 1] = e
      /\ \A i \in 1 .. N : channels'[i] = channels[i]
      /\ DOMAIN channels = 1 .. N /\ DOMAIN channels' = 1 .. N + 1
  BY <1>1 DEF e
<1> HIDE DEF N
<1>3. \A i \in 1 .. N + 1 : i \in 1 .. N \/ i = N + 1
  BY <1>2
<1>4. \A i \in 1 .. N : i \in 1 .. N + 1 /\ i # N + 1
  BY <1>2
<1>5. \A i \in 1 .. N : channels[i].id # c
  BY <1>2 DEF Listed
<1>6. Distinct'
  BY <1>1, <1>2, <1>3, <1>5 DEF Distinct
<1>7. N + 1 \in 1 .. N + 1
  BY <1>2
<1>8. Listed'.ids = v.ids
  BY <1>1, <1>2, <1>3, <1>4, <1>7 DEF Listed
<1>9. Listed'.on = v.on
  BY <1>1, <1>2, <1>3, <1>4, <1>7 DEF Listed
<1>10. Listed' \in View
  BY <1>2, ListedIsView
<1> QED BY <1>2, <1>6, <1>8, <1>9, <1>10, SameView

(* A leave, on the client's side.                                          *)
LEMMA ClientLeaves ==
    ASSUME channels \in Seq(Entry), Distinct, NEW v \in View,
           NEW i \in DOMAIN channels,
           channels' = SubSeq(channels, 1, i - 1) \o SubSeq(channels, i + 1, Len(channels)),
           v.ids = Listed.ids \ {channels[i].id}, v.on = Listed.on \ ({channels[i].id} \X Peers)
    PROVE  channels' \in Seq(Entry) /\ Distinct' /\ Listed' = v
<1> DEFINE N == Len(channels)
           c == channels[i].id
<1>1. N \in Nat /\ i \in 1 .. N /\ DOMAIN channels = 1 .. N
  OBVIOUS
<1>2. /\ channels' \in Seq(Entry) /\ Len(channels') = N - 1
      /\ \A j \in 1 .. N - 1 : channels'[j] = channels[IF j < i THEN j ELSE j + 1]
  <2>1. channels' = Cut(channels, i)
    BY DEF Cut
  <2>2. i \in 1 .. Len(channels)
    OBVIOUS
  <2>3. /\ Cut(channels, i) \in Seq(Entry) /\ Len(Cut(channels, i)) = N - 1
        /\ \A j \in 1 .. N - 1 : Cut(channels, i)[j] = channels[IF j < i THEN j ELSE j + 1]
    BY <2>2, Removal
  <2> HIDE DEF N
  <2> QED BY <2>1, <2>3
<1>3. DOMAIN channels' = 1 .. N - 1
  BY <1>2
<1> HIDE DEF N
<1> DEFINE at(j) == IF j < i THEN j ELSE j + 1
<1>4. /\ \A j \in 1 .. N - 1 : at(j) \in 1 .. N /\ at(j) # i
      /\ \A j, k \in 1 .. N - 1 : at(j) = at(k) => j = k
  BY <1>1
<1>5. \A k \in 1 .. N : k # i => \E j \in 1 .. N - 1 : at(j) = k
  <2> TAKE k \in 1 .. N
  <2> HAVE k # i
  <2>1. CASE k < i
    BY <1>1, <2>1
  <2>2. CASE k > i
    <3>1. k - 1 \in 1 .. N - 1 /\ at(k - 1) = k
      BY <1>1, <2>2
    <3> QED BY <3>1
  <2> QED BY <1>1, <2>1, <2>2
<1>6. \A j \in 1 .. N - 1 : channels'[j] = channels[at(j)]
  BY <1>2
<1> HIDE DEF at
<1>7. \A k \in 1 .. N : k # i => channels[k].id # c
  BY <1>1 DEF Distinct
<1>8. Distinct'
  <2>1. ASSUME NEW j \in 1 .. N - 1, NEW k \in 1 .. N - 1, channels'[j].id = channels'[k].id
        PROVE  j = k
    <3>1. channels[at(j)].id = channels[at(k)].id /\ at(j) \in 1 .. N /\ at(k) \in 1 .. N
      BY <1>4, <1>6, <2>1
    <3>2. at(j) = at(k)
      BY <1>1, <3>1 DEF Distinct
    <3> QED BY <1>4, <3>2
  <2> QED BY <1>3, <2>1 DEF Distinct
<1>9. Listed'.ids = v.ids
  <2>1. Listed'.ids = {channels'[j].id : j \in 1 .. N - 1}
    BY <1>3 DEF Listed
  <2>2. v.ids = {channels[k].id : k \in 1 .. N} \ {c}
    BY <1>1 DEF Listed
  <2> HIDE DEF c
  <2>3. ASSUME NEW x \in Listed'.ids
        PROVE  x \in v.ids
    <3>1. PICK j \in 1 .. N - 1 : x = channels'[j].id
      BY <2>1
    <3>2. at(j) \in 1 .. N /\ at(j) # i /\ x = channels[at(j)].id
      BY <1>4, <1>6, <3>1
    <3> QED BY <1>7, <2>2, <3>2
  <2>4. ASSUME NEW x \in v.ids
        PROVE  x \in Listed'.ids
    <3>1. PICK k \in 1 .. N : x = channels[k].id /\ x # c
      BY <2>2
    <3>2. k # i
      BY <3>1 DEF c
    <3>3. PICK j \in 1 .. N - 1 : at(j) = k
      BY <1>5, <3>2
    <3> QED BY <1>6, <2>1, <3>1, <3>3
  <2> QED BY <2>3, <2>4
<1>10. Listed'.on = v.on
  <2>1. \A x : x \in Listed'.on <=> /\ x \in Channels \X Peers
                                    /\ \E j \in 1 .. N - 1 : /\ channels'[j].id = x[1]
                                                             /\ x[2] \in DOMAIN channels'[j].peers
    BY <1>3 DEF Listed
  <2>2. \A x : x \in v.on <=> /\ x \in Channels \X Peers
                              /\ \E k \in 1 .. N : channels[k].id = x[1] /\ x[2] \in DOMAIN channels[k].peers
                              /\ x[1] # c
    BY <1>1 DEF Listed
  <2> HIDE DEF c
  <2>3. ASSUME NEW x \in Listed'.on
        PROVE  x \in v.on
    <3>1. PICK j \in 1 .. N - 1 : channels'[j].id = x[1] /\ x[2] \in DOMAIN channels'[j].peers
      BY <2>1
    <3>2. /\ at(j) \in 1 .. N /\ at(j) # i /\ channels[at(j)].id = x[1]
          /\ x[2] \in DOMAIN channels[at(j)].peers
      BY <1>4, <1>6, <3>1
    <3> QED BY <1>7, <2>1, <2>2, <3>2
  <2>4. ASSUME NEW x \in v.on
        PROVE  x \in Listed'.on
    <3>1. PICK k \in 1 .. N : channels[k].id = x[1] /\ x[2] \in DOMAIN channels[k].peers
      BY <2>2
    <3>2. k # i /\ x \in Channels \X Peers
      BY <2>2, <3>1 DEF c
    <3>3. PICK j \in 1 .. N - 1 : at(j) = k
      BY <1>5, <3>2
    <3>4. channels'[j] = channels[k]
      BY <1>6, <3>3
    <3>5. channels'[j].id = x[1] /\ x[2] \in DOMAIN channels'[j].peers
      BY <3>1, <3>4
    <3> QED BY <2>1, <3>2, <3>5
  <2> QED BY <2>3, <2>4
<1>11. Listed' \in View
  BY <1>2, ListedIsView
<1> QED BY <1>2, <1>8, <1>9, <1>10, <1>11, SameView

(* The peers of entry i become q. *)
Repeopled(i, q) == channels' = [channels EXCEPT ![i].peers = q]

(* A change among the peers of a channel, on the client's side.            *)
LEMMA ClientTurns ==
    ASSUME channels \in Seq(Entry), Distinct, NEW v \in View,
           NEW i \in DOMAIN channels, NEW q \in PeerMaps, NEW p \in Peers,
           Repeopled(i, q), v.ids = Listed.ids,
           \/ /\ DOMAIN q = DOMAIN channels[i].peers \cup {p}
              /\ v.on = Listed.on \cup {<<channels[i].id, p>>}
           \/ /\ DOMAIN q = DOMAIN channels[i].peers \ {p}
              /\ v.on = Listed.on \ {<<channels[i].id, p>>}
    PROVE  channels' \in Seq(Entry) /\ Distinct' /\ Listed' = v
<1> DEFINE c == channels[i].id
           e == [channels[i] EXCEPT !.peers = q]
<1>1. channels[i] \in Entry /\ e \in Entry /\ e.id = c /\ e.peers = q /\ c \in Channels
  <2>1. channels[i] \in Entry /\ c \in Channels
    BY EntryFacts
  <2> HIDE DEF c
  <2> DEFINE d == channels[i]
  <2>2. d.id = c /\ d \in Entry
    BY <2>1 DEF c
  <2> HIDE DEF d
  <2>3. [d EXCEPT !.peers = q] \in Entry /\ [d EXCEPT !.peers = q].id = d.id
        /\ [d EXCEPT !.peers = q].peers = q
    BY <2>2 DEF Entry
  <2> QED BY <2>1, <2>2, <2>3 DEF d
<1> HIDE DEF e
<1>2. /\ channels' \in Seq(Entry) /\ DOMAIN channels' = DOMAIN channels
      /\ channels'[i] = e
      /\ \A j \in DOMAIN channels : j # i => channels'[j] = channels[j]
  <2>1. channels' = [channels EXCEPT ![i] = e]
    BY DEF e, Repeopled
  <2> QED BY <1>1, <2>1
<1>3. \A j \in DOMAIN channels : channels'[j].id = channels[j].id
  BY <1>1, <1>2
<1>4. Distinct'
  BY <1>2, <1>3 DEF Distinct
<1>5. Listed'.ids = v.ids
  <2>1. Listed'.ids = {channels'[j].id : j \in DOMAIN channels}
    BY <1>2 DEF Listed
  <2>2. Listed.ids = {channels[j].id : j \in DOMAIN channels}
    BY DEF Listed
  <2> QED BY <1>3, <2>1, <2>2
<1>6. \A j \in DOMAIN channels : j # i => channels[j].id # c
  BY DEF Distinct
<1>7. /\ \A x : x \in Listed'.on <=> /\ x \in Channels \X Peers
                                     /\ \E j \in DOMAIN channels : /\ channels'[j].id = x[1]
                                                                   /\ x[2] \in DOMAIN channels'[j].peers
      /\ \A x : x \in Listed.on <=> /\ x \in Channels \X Peers
                                    /\ \E j \in DOMAIN channels : /\ channels[j].id = x[1]
                                                                  /\ x[2] \in DOMAIN channels[j].peers
  BY <1>2 DEF Listed
<1> HIDE DEF c
<1>8. ASSUME NEW x, x[1] # c
      PROVE  x \in Listed'.on <=> x \in Listed.on
  <2>1. ASSUME NEW j \in DOMAIN channels
        PROVE  /\ channels'[j].id = x[1] /\ x[2] \in DOMAIN channels'[j].peers
               <=> channels[j].id = x[1] /\ x[2] \in DOMAIN channels[j].peers
    <3>1. CASE j = i
      BY <1>3, <1>8, <3>1 DEF c
    <3>2. CASE j # i
      BY <1>2, <3>2
    <3> QED BY <3>1, <3>2
  <2> QED BY <1>7, <2>1
<1>9. ASSUME NEW x, x[1] = c
      PROVE  /\ x \in Listed'.on <=> x \in Channels \X Peers /\ x[2] \in DOMAIN q
             /\ x \in Listed.on <=> x \in Channels \X Peers /\ x[2] \in DOMAIN channels[i].peers
  <2>1. ASSUME NEW j \in DOMAIN channels
        PROVE  channels'[j].id = x[1] <=> j = i
    BY <1>3, <1>6, <1>9 DEF c
  <2>2. ASSUME NEW j \in DOMAIN channels
        PROVE  channels[j].id = x[1] <=> j = i
    BY <1>6, <1>9 DEF c
  <2>3. channels'[i].peers = q
    BY <1>1, <1>2
  <2>4. x \in Listed'.on <=> x \in Channels \X Peers /\ x[2] \in DOMAIN q
    BY <1>7, <2>1, <2>3
  <2>5. x \in Listed.on <=> x \in Channels \X Peers /\ x[2] \in DOMAIN channels[i].peers
    BY <1>7, <2>2
  <2> QED BY <2>4, <2>5
<1>10. Listed'.on = v.on
  <2>1. CASE DOMAIN q = DOMAIN channels[i].peers \cup {p} /\ v.on = Listed.on \cup {<<c, p>>}
    <3>1. ASSUME NEW x
          PROVE  x \in Listed'.on <=> x \in v.on
      <4>1. CASE x[1] # c
        BY <1>8, <2>1, <4>1
      <4>2. CASE x[1] = c /\ x \in Channels \X Peers
        <5>1. x = <<x[1], x[2]>>
          BY <4>2
        <5>2. x \in {<<c, p>>} <=> x[2] = p
          BY <4>2, <5>1
        <5> QED BY <1>9, <2>1, <4>2, <5>2
      <4>3. CASE x[1] = c /\ x \notin Channels \X Peers
        BY <1>1, <1>9, <2>1, <4>3
      <4> QED BY <4>1, <4>2, <4>3
    <3> QED BY <3>1
  <2>2. CASE DOMAIN q = DOMAIN channels[i].peers \ {p} /\ v.on = Listed.on \ {<<c, p>>}
    <3>1. ASSUME NEW x
          PROVE  x \in Listed'.on <=> x \in v.on
      <4>1. CASE x[1] # c
        BY <1>8, <2>2, <4>1
      <4>2. CASE x[1] = c /\ x \in Channels \X Peers
        <5>1. x = <<x[1], x[2]>>
          BY <4>2
        <5>2. x \in {<<c, p>>} <=> x[2] = p
          BY <4>2, <5>1
        <5> QED BY <1>9, <2>2, <4>2, <5>2
      <4>3. CASE x[1] = c /\ x \notin Channels \X Peers
        BY <1>1, <1>9, <2>2, <4>3
      <4> QED BY <4>1, <4>2, <4>3
    <3> QED BY <3>1
  <2> QED BY <2>1, <2>2 DEF c
<1>11. Listed' \in View
  BY <1>2, ListedIsView
<1> QED BY <1>2, <1>4, <1>5, <1>10, <1>11, SameView

(***************************************************************************)
(* The server's side: each of its answers is one message that says what it *)
(* did to its own lists.                                                   *)
(***************************************************************************)
(* Types, and what is known only of sockets that are open. *)
ListTypes ==
    /\ channels \in Seq(Entry)
    /\ chunk \in Seq(Message)
    /\ truth \in [Sockets -> Rosters]
    /\ asks = [s \in Sockets |-> asks[s]]
    /\ \A s \in Sockets : inbox[s] \in Seq(Message)
    /\ \A s \in Sockets : asks[s] # {} => state[s] = "open"
    /\ \A s \in Sockets : truth[s] # NoMap => Attached(s)

(* A message m goes to the client on s as its lists there become r. *)
Delivers(s, m, r) ==
    /\ inbox' = [inbox EXCEPT ![s] = Append(@, m)]
    /\ truth' = [truth EXCEPT ![s] = r]
    /\ Attached(s)'
    /\ m \in Message /\ r \in Rosters
    /\ Changes(m, Roster(truth[s]), Roster(r))
    /\ m.type = "approved" => session[s] # "approved"
    /\ m.type = "approved" \/ asks[s] # {} \/ truth[s] # NoMap

(* The messages, and the fields of each type.                              *)
LEMMA MessageFacts ==
    /\ [type |-> "approved"] \in Message /\ [type |-> "named"] \in Message
    /\ \A c \in Channels, q \in PeerMaps : [type |-> "joined", channel |-> c, peers |-> q] \in Message
    /\ \A c \in Channels : [type |-> "left", channel |-> c] \in Message
    /\ \A c \in Channels, p \in Peers, n \in Names :
          [type |-> "peer", channel |-> c, peer |-> p, name |-> n] \in Message
    /\ \A c \in Channels, p \in Peers : [type |-> "gone", channel |-> c, peer |-> p] \in Message
    /\ \A m \in Message :
          /\ m.type = "joined" => m.channel \in Channels /\ m.peers \in PeerMaps
          /\ m.type = "left" => m.channel \in Channels
          /\ m.type = "peer" => m.channel \in Channels /\ m.peer \in Peers /\ m.name \in Names
          /\ m.type = "gone" => m.channel \in Channels /\ m.peer \in Peers
  BY DEF Message

(* Each kind of answer. *)
LEMMA Deliveries ==
    ASSUME StreamInv, ListTypes, NEW s \in Sockets
    PROVE  /\ ServerApprove(s) \/ ServerName(s) => \E m : Delivers(s, m, truth[s])
           /\ \A c \in Channels, q \in PeerMaps : ServerJoin(s, c, q) => \E m, r : Delivers(s, m, r)
           /\ \A c \in Channels : ServerLeave(s, c) => \E m, r : Delivers(s, m, r)
           /\ \A c \in Channels, p \in Peers, n \in Names :
                 ServerPeer(s, c, p, n) => \E m, r : Delivers(s, m, r)
           /\ \A c \in Channels, p \in Peers :
                 ServerPeerLeaves(s, c, p) => \E m, r : Delivers(s, m, r)
<1> DEFINE r0 == truth[s]
<1>1. r0 \in Rosters /\ truth = [truth EXCEPT ![s] = r0]
  BY DEF ListTypes
<1>2. DOMAIN r0 \subseteq Channels /\ \A c \in DOMAIN r0 : r0[c] \in PeerMaps
  BY <1>1, Maps
<1> HIDE DEF r0
<1>3. ASSUME ServerApprove(s)
      PROVE  Delivers(s, [type |-> "approved"], r0)
  <2>1. truth' = truth /\ session[s] # "approved"
    BY <1>3 DEF ServerApprove
  <2>2. Attached(s)'
    BY <1>3 DEF ServerApprove, streamVars, StreamInv, Attached
  <2>3. inbox' = [inbox EXCEPT ![s] = Append(@, [type |-> "approved"])]
    BY <1>3 DEF ServerApprove, Send
  <2>4. Changes([type |-> "approved"], Roster(truth[s]), Roster(r0))
    BY DEF Changes, r0
  <2> QED
    BY <1>1, <2>1, <2>2, <2>3, <2>4, MessageFacts DEF Delivers
<1>4. ASSUME ServerName(s)
      PROVE  Delivers(s, [type |-> "named"], r0)
  <2>1. truth' = truth /\ asks[s] # {}
    BY <1>4 DEF ServerName
  <2>2. Attached(s)'
    BY <1>4 DEF ServerName, CanSend, streamVars, Attached
  <2>3. inbox' = [inbox EXCEPT ![s] = Append(@, [type |-> "named"])]
    BY <1>4 DEF ServerName, Send
  <2>4. Changes([type |-> "named"], Roster(truth[s]), Roster(r0))
    BY DEF Changes, r0
  <2> QED
    BY <1>1, <2>1, <2>2, <2>3, <2>4, MessageFacts DEF Delivers
<1>5. ASSUME NEW c \in Channels, NEW q \in PeerMaps, ServerJoin(s, c, q)
      PROVE  \E m, r : Delivers(s, m, r)
  <2> DEFINE m == [type |-> "joined", channel |-> c, peers |-> q]
             r == With(r0, c, q)
  <2>1. /\ c \notin DOMAIN r0 /\ asks[s] # {}
        /\ truth' = [truth EXCEPT ![s] = r]
        /\ inbox' = [inbox EXCEPT ![s] = Append(@, m)]
    BY <1>5 DEF ServerJoin, Send, r0
  <2>2. Attached(s)'
    BY <1>5 DEF ServerJoin, CanSend, streamVars, Attached
  <2>3. r \in Rosters
    BY <1>1, MapChanges
  <2>4. m \in Message /\ m.type = "joined" /\ m.channel = c /\ m.peers = q
    BY MessageFacts
  <2> HIDE DEF m
  <2>5. Changes(m, Roster(r0), Roster(r))
    BY <1>1, <2>1, <2>4, RosterGains
  <2> HIDE DEF r
  <2> QED
    BY <2>1, <2>2, <2>3, <2>4, <2>5 DEF Delivers, r0
<1>6. ASSUME NEW c \in Channels, ServerLeave(s, c)
      PROVE  \E m, r : Delivers(s, m, r)
  <2> DEFINE m == [type |-> "left", channel |-> c]
             r == Without(r0, c)
  <2>1. /\ c \in DOMAIN r0
        /\ truth' = [truth EXCEPT ![s] = r]
        /\ inbox' = [inbox EXCEPT ![s] = Append(@, m)]
    BY <1>6 DEF ServerLeave, Send, r0
  <2>2. Attached(s)'
    BY <1>6 DEF ServerLeave, CanSend, streamVars, Attached
  <2>3. r \in Rosters
    BY <1>1, MapChanges
  <2>4. m \in Message /\ m.type = "left" /\ m.channel = c
    BY MessageFacts
  <2> HIDE DEF m
  <2>5. Changes(m, Roster(r0), Roster(r))
    BY <1>1, <2>1, <2>4, RosterLoses
  <2>6. r0 # NoMap
    BY <2>1 DEF NoMap
  <2> HIDE DEF r
  <2> QED
    BY <2>1, <2>2, <2>3, <2>4, <2>5, <2>6 DEF Delivers, r0
<1>7. ASSUME NEW c \in Channels, NEW p \in Peers, NEW n \in Names, ServerPeer(s, c, p, n)
      PROVE  \E m, r : Delivers(s, m, r)
  <2> DEFINE m == [type |-> "peer", channel |-> c, peer |-> p, name |-> n]
             q == With(r0[c], p, n)
             r == Turn(r0, c, q)
  <2>1. c \in DOMAIN r0
    BY <1>7 DEF ServerPeer, r0
  <2>9. inbox' = [inbox EXCEPT ![s] = Append(@, m)]
    BY <1>7 DEF ServerPeer, Send
  <2>10. truth' = [truth EXCEPT ![s] = r]
    BY <1>7 DEF ServerPeer, r0, Turn
  <2>2. Attached(s)'
    BY <1>7 DEF ServerPeer, CanSend, streamVars, Attached
  <2>3. q \in PeerMaps /\ DOMAIN q = DOMAIN r0[c] \cup {p}
    BY <1>2, <2>1, MapChanges DEF With
  <2>4. /\ m \in Message
        /\ m.type = "peer" /\ m.channel = c /\ m.peer = p
    BY MessageFacts
  <2> HIDE DEF m, q
  <2>12. c \in DOMAIN r0 /\ q \in PeerMaps
    BY <2>1, <2>3
  <2>13. /\ r \in Rosters /\ Roster(r).ids = Roster(r0).ids /\ c \in Roster(r0).ids
         /\ \A x \in Peers : DOMAIN q = DOMAIN r0[c] \cup {x} =>
               Roster(r).on = Roster(r0).on \cup {<<c, x>>}
         /\ \A x \in Peers : DOMAIN q = DOMAIN r0[c] \ {x} =>
               Roster(r).on = Roster(r0).on \ {<<c, x>>}
    BY <1>1, <2>12, RosterTurns
  <2>5. /\ r \in Rosters
        /\ Roster(r).ids = Roster(r0).ids /\ c \in Roster(r0).ids
        /\ Roster(r).on = Roster(r0).on \cup {<<c, p>>}
    BY <2>3, <2>13
  <2>6. r0 # NoMap
    BY <2>1 DEF NoMap
  <2> HIDE DEF r
  <2>7. Changes(m, Roster(r0), Roster(r))
    BY <2>4, <2>5 DEF Changes
  <2> QED
    BY <2>9, <2>10, <2>2, <2>4, <2>5, <2>6, <2>7 DEF Delivers, r0
<1>8. ASSUME NEW c \in Channels, NEW p \in Peers, ServerPeerLeaves(s, c, p)
      PROVE  \E m, r : Delivers(s, m, r)
  <2> DEFINE m == [type |-> "gone", channel |-> c, peer |-> p]
             q == Without(r0[c], p)
             r == Turn(r0, c, q)
  <2>1. c \in DOMAIN r0
    BY <1>8 DEF ServerPeerLeaves, r0
  <2>9. inbox' = [inbox EXCEPT ![s] = Append(@, m)]
    BY <1>8 DEF ServerPeerLeaves, Send
  <2>10. truth' = [truth EXCEPT ![s] = r]
    BY <1>8 DEF ServerPeerLeaves, r0, Turn
  <2>2. Attached(s)'
    BY <1>8 DEF ServerPeerLeaves, CanSend, streamVars, Attached
  <2>3. q \in PeerMaps /\ DOMAIN q = DOMAIN r0[c] \ {p}
    BY <1>2, <2>1, MapChanges DEF Without
  <2>4. /\ m \in Message
        /\ m.type = "gone" /\ m.channel = c /\ m.peer = p
    BY MessageFacts
  <2> HIDE DEF m, q
  <2>12. c \in DOMAIN r0 /\ q \in PeerMaps
    BY <2>1, <2>3
  <2>13. /\ r \in Rosters /\ Roster(r).ids = Roster(r0).ids /\ c \in Roster(r0).ids
         /\ \A x \in Peers : DOMAIN q = DOMAIN r0[c] \cup {x} =>
               Roster(r).on = Roster(r0).on \cup {<<c, x>>}
         /\ \A x \in Peers : DOMAIN q = DOMAIN r0[c] \ {x} =>
               Roster(r).on = Roster(r0).on \ {<<c, x>>}
    BY <1>1, <2>12, RosterTurns
  <2>5. /\ r \in Rosters
        /\ Roster(r).ids = Roster(r0).ids
        /\ Roster(r).on = Roster(r0).on \ {<<c, p>>}
    BY <2>3, <2>13
  <2>6. r0 # NoMap
    BY <2>1 DEF NoMap
  <2> HIDE DEF r
  <2>7. Changes(m, Roster(r0), Roster(r))
    BY <2>4, <2>5 DEF Changes
  <2> QED
    BY <2>9, <2>10, <2>2, <2>4, <2>5, <2>6, <2>7 DEF Delivers, r0
<1> QED
  BY <1>3, <1>4, <1>5, <1>6, <1>7, <1>8 DEF r0

(* A step of the server either sends nothing, or one message. *)
LEMMA ServerSends ==
    ASSUME StreamInv, ListTypes, ServerStep
    PROVE  \/ UNCHANGED <<inbox, truth>>
           \/ \E s \in Sockets : \E m, r : Delivers(s, m, r)
<1>1. ASSUME name \/ \E c \in Channels : join(c)
      PROVE  UNCHANGED <<inbox, truth>>
  BY <1>1 DEF name, join
<1>2. ASSUME NEW s \in Sockets, ServerDeny(s) \/ \E what \in Channels \cup {"name"} : ServerRefuse(s, what)
      PROVE  UNCHANGED <<inbox, truth>>
  BY <1>2 DEF ServerDeny, ServerRefuse
<1> QED
  BY <1>1, <1>2, Deliveries DEF ServerStep

(***************************************************************************)
(* The client's side: each handler does to the client's list what its      *)
(* message says.                                                           *)
(***************************************************************************)
(* What a handler does to the list: by the type of the message.            *)
HandlesJoined(m) == channels' = Append(channels, [id |-> m.channel, peers |-> m.peers])

HandlesLeft(m) ==
    IF connected /\ Known(m.channel)
    THEN \E i \in DOMAIN channels : channels[i].id = m.channel /\ channels' = Cut(channels, i)
    ELSE channels' = channels

HandlesPeer(m) ==
    IF Known(m.channel)
    THEN \E i \in DOMAIN channels : \E q \in PeerMaps :
            /\ channels[i].id = m.channel
            /\ DOMAIN q = DOMAIN channels[i].peers \cup {m.peer}
            /\ Repeopled(i, q)
    ELSE channels' = channels

HandlesGone(m) ==
    IF Known(m.channel)
    THEN \E i \in DOMAIN channels : \E q \in PeerMaps :
            /\ channels[i].id = m.channel
            /\ DOMAIN q = DOMAIN channels[i].peers \ (IF connected THEN {m.peer} ELSE {})
            /\ Repeopled(i, q)
    ELSE channels' = channels

(* Each handler, told by the message it takes from the chunk.              *)
LEMMA Handled ==
    ASSUME ListTypes, messagehandler
    PROVE  /\ chunk # <<>> /\ Head(chunk) \in Message
           /\ \/ chunk' = Tail(chunk)
              \/ chunk' = chunk /\ channels' = channels /\ ticking' = ticking
           /\ \/ Head(chunk).type \in {"approved", "named"} /\ channels' = channels
              \/ Head(chunk).type = "joined" /\ HandlesJoined(Head(chunk))
              \/ Head(chunk).type = "left" /\ HandlesLeft(Head(chunk))
              \/ Head(chunk).type = "peer" /\ HandlesPeer(Head(chunk))
              \/ Head(chunk).type = "gone" /\ HandlesGone(Head(chunk))
<1> DEFINE m == Head(chunk)
<1>1. /\ chunk # <<>>
      /\ \/ chunk' = Tail(chunk)
         \/ chunk' = chunk /\ channels' = channels /\ ticking' = ticking
  BY DEF messagehandler, ConnectResponse, ConnectResponse_SaysHello, ConnectResponse_StartsTimer,
         NameResponse, JoinResponse, LeaveResponse, PeerMessage, PeerGone, NextMessage, Handling,
         clientVars
<1>2. m \in Message /\ channels \in Seq(Entry)
  BY <1>1 DEF ListTypes
<1>3. CASE ConnectResponse \/ ConnectResponse_SaysHello \/ ConnectResponse_StartsTimer \/ NameResponse
  BY <1>1, <1>2, <1>3 DEF ConnectResponse, ConnectResponse_SaysHello, ConnectResponse_StartsTimer,
                          NameResponse, NextMessage, Handling, clientVars
<1>4. CASE JoinResponse
  BY <1>1, <1>2, <1>4 DEF JoinResponse, NextMessage, Handling, HandlesJoined
<1>5. CASE LeaveResponse
  <2>1. HandlesLeft(m)
    BY <1>5 DEF LeaveResponse, HandlesLeft, IsChannel, Cut
  <2> QED BY <1>1, <1>2, <1>5, <2>1 DEF LeaveResponse, NextMessage, Handling
<1>6. CASE PeerMessage
  <2>1. m.type = "peer" /\ m.peer \in Peers /\ m.name \in Names
    BY <1>2, <1>6, MessageFacts DEF PeerMessage, NextMessage, Handling
  <2>2. ASSUME Known(m.channel)
        PROVE  \E i \in DOMAIN channels : /\ channels[i].id = m.channel
                  /\ channels' = [channels EXCEPT ![i].peers = PeerIs(@, m.peer, m.name)]
    BY <1>6, <2>2 DEF PeerMessage, ChangePeers, IsChannel
  <2>3. ASSUME Known(m.channel)
        PROVE  HandlesPeer(m)
    <3>1. PICK i \in DOMAIN channels : /\ channels[i].id = m.channel
             /\ channels' = [channels EXCEPT ![i].peers = PeerIs(@, m.peer, m.name)]
      BY <2>2, <2>3
    <3> DEFINE f == channels[i].peers
               q == PeerIs(f, m.peer, m.name)
    <3>2. f \in PeerMaps
      BY <1>2, EntryFacts
    <3>3. Repeopled(i, q)
      BY <3>1 DEF Repeopled
    <3> HIDE DEF f
    <3>4. f \in PeerMaps /\ m.peer \in DOMAIN f => f[m.peer] \in Names
      BY Maps
    <3>4b. m.peer \in DOMAIN f => Renamed(f[m.peer], m.name) \in Names
      BY <2>1, <3>2, <3>4 DEF Renamed
    <3>5. q \in PeerMaps /\ DOMAIN q = DOMAIN f \cup {m.peer}
      BY <2>1, <3>2, <3>4b, MapChanges DEF PeerIs, With
    <3> QED BY <2>3, <3>1, <3>3, <3>5 DEF HandlesPeer, f
  <2>4. ASSUME ~Known(m.channel)
        PROVE  HandlesPeer(m)
    BY <1>6, <2>4 DEF PeerMessage, ChangePeers, HandlesPeer
  <2> QED BY <1>1, <1>2, <2>1, <2>3, <2>4
<1>7. CASE PeerGone
  <2>1. m.type = "gone" /\ m.peer \in Peers
    BY <1>2, <1>7, MessageFacts DEF PeerGone, NextMessage, Handling
  <2>2. ASSUME Known(m.channel)
        PROVE  \E i \in DOMAIN channels : /\ channels[i].id = m.channel
                  /\ channels' = [channels EXCEPT ![i].peers = IF connected THEN Without(@, m.peer) ELSE @]
    BY <1>7, <2>2 DEF PeerGone, ChangePeers, IsChannel
  <2>3. ASSUME Known(m.channel)
        PROVE  HandlesGone(m)
    <3>1. PICK i \in DOMAIN channels : /\ channels[i].id = m.channel
             /\ channels' = [channels EXCEPT ![i].peers = IF connected THEN Without(@, m.peer) ELSE @]
      BY <2>2, <2>3
    <3> DEFINE f == channels[i].peers
               q == IF connected THEN Without(f, m.peer) ELSE f
    <3>2. f \in PeerMaps
      BY <1>2, EntryFacts
    <3>3. Repeopled(i, q)
      BY <3>1 DEF Repeopled
    <3> HIDE DEF f
    <3>5. q \in PeerMaps /\ DOMAIN q = DOMAIN f \ (IF connected THEN {m.peer} ELSE {})
      BY <2>1, <3>2, MapChanges DEF Without
    <3> QED BY <2>3, <3>1, <3>3, <3>5 DEF HandlesGone, f
  <2>4. ASSUME ~Known(m.channel)
        PROVE  HandlesGone(m)
    BY <1>7, <2>4 DEF PeerGone, ChangePeers, HandlesGone
  <2> QED BY <1>1, <1>2, <2>1, <2>3, <2>4
<1> QED
  BY <1>3, <1>4, <1>5, <1>6, <1>7 DEF messagehandler

(* The handlers keep the types of the list and the chunk.                  *)
LEMMA HandledTypes ==
    ASSUME ListTypes, messagehandler
    PROVE  channels' \in Seq(Entry) /\ chunk' \in Seq(Message)
<1> DEFINE m == Head(chunk)
<1>1. chunk \in Seq(Message) /\ channels \in Seq(Entry) /\ m \in Message
  BY Handled DEF ListTypes
<1>2. chunk' \in Seq(Message)
  <2>1. chunk # <<>> /\ (chunk' = chunk \/ chunk' = Tail(chunk))
    BY Handled
  <2> QED BY <1>1, <2>1
<1>3. ASSUME m.type = "joined", HandlesJoined(m)
      PROVE  channels' \in Seq(Entry)
  <2> DEFINE e == [id |-> m.channel, peers |-> m.peers]
  <2>1. e \in Entry
    BY <1>1, <1>3, MessageFacts DEF Entry
  <2> HIDE DEF e
  <2>2. channels' = Append(channels, e)
    BY <1>3 DEF HandlesJoined, e
  <2> QED BY <1>1, <2>1, <2>2
<1>4. ASSUME HandlesLeft(m)
      PROVE  channels' \in Seq(Entry)
  BY <1>1, <1>4, Removal DEF HandlesLeft
<1>5. ASSUME NEW i \in DOMAIN channels, NEW q \in PeerMaps, Repeopled(i, q)
      PROVE  channels' \in Seq(Entry)
  <2> DEFINE e == [channels[i] EXCEPT !.peers = q]
  <2>1. e \in Entry
    BY <1>1, EntryFacts DEF Entry
  <2>2. channels' = [channels EXCEPT ![i] = e]
    BY <1>5 DEF Repeopled
  <2> HIDE DEF e
  <2> QED BY <1>1, <2>1, <2>2
<1>6. ASSUME HandlesPeer(m) \/ HandlesGone(m)
      PROVE  channels' \in Seq(Entry)
  BY <1>1, <1>5, <1>6 DEF HandlesPeer, HandlesGone
<1> QED
  BY <1>1, <1>2, <1>3, <1>4, <1>6, Handled

(* The message at the head of the chunk takes the list where it says.      *)
LEMMA HandledChanges ==
    ASSUME ListTypes, messagehandler, Distinct, NEW v \in View,
           Changes(Head(chunk), Listed, v), connected \/ Head(chunk).type = "approved"
    PROVE  Distinct' /\ Listed' = v
<1> DEFINE m == Head(chunk)
<1>1. channels \in Seq(Entry) /\ m \in Message /\ Listed \in View
  BY Handled, ListedIsView DEF ListTypes
<1>2. ASSUME channels' = channels
      PROVE  Distinct' /\ Listed' = Listed
  BY <1>2 DEF Distinct, Listed
<1>3. CASE m.type \in {"approved", "named"}
  <2>1. v = Listed /\ channels' = channels
    BY <1>3, Handled DEF Changes
  <2> QED BY <2>1, <1>2
<1>4. CASE m.type = "joined"
  <2>1. /\ m.channel \in Channels /\ m.peers \in PeerMaps
        /\ channels' = Append(channels, [id |-> m.channel, peers |-> m.peers])
    BY <1>1, <1>4, MessageFacts, Handled DEF HandlesJoined
  <2>2. /\ m.channel \notin Listed.ids
        /\ v.ids = Listed.ids \cup {m.channel}
        /\ v.on = Listed.on \cup ({m.channel} \X DOMAIN m.peers)
    BY <1>4 DEF Changes
  <2> QED BY <1>1, <2>1, <2>2, ClientJoins
<1>5. CASE m.type = "left"
  <2>1. connected /\ HandlesLeft(m) /\ m.channel \in Channels
    BY <1>1, <1>5, Handled, MessageFacts
  <2>2. v.ids = Listed.ids \ {m.channel} /\ v.on = Listed.on \ ({m.channel} \X Peers)
    BY <1>5 DEF Changes
  <2>3. CASE Known(m.channel)
    <3>1. PICK i \in DOMAIN channels : channels[i].id = m.channel /\ channels' = Cut(channels, i)
      BY <2>1, <2>3 DEF HandlesLeft
    <3> QED BY <1>1, <2>2, <3>1, ClientLeaves DEF Cut
  <2>4. CASE ~Known(m.channel)
    <3>1. channels' = channels
      BY <2>1, <2>4 DEF HandlesLeft
    <3>2. v.ids = Listed.ids /\ v.on = Listed.on
      BY <2>2, <2>4 DEF Known, Listed
    <3> QED BY <1>1, <1>2, <3>1, <3>2, SameView
  <2> QED BY <2>3, <2>4
<1>6. CASE m.type = "peer"
  <2>1. HandlesPeer(m) /\ m.peer \in Peers
    BY <1>1, <1>6, Handled, MessageFacts
  <2>2. /\ v.ids = Listed.ids /\ v.on = Listed.on \cup {<<m.channel, m.peer>>}
        /\ m.channel \in Listed.ids
    BY <1>6 DEF Changes
  <2>3. Known(m.channel)
    BY <2>2 DEF Known, Listed
  <2>4. PICK i \in DOMAIN channels : \E q \in PeerMaps :
            /\ channels[i].id = m.channel
            /\ DOMAIN q = DOMAIN channels[i].peers \cup {m.peer}
            /\ Repeopled(i, q)
    BY <2>1, <2>3 DEF HandlesPeer
  <2>5. PICK q \in PeerMaps :
            /\ channels[i].id = m.channel
            /\ DOMAIN q = DOMAIN channels[i].peers \cup {m.peer}
            /\ Repeopled(i, q)
    BY <2>4
  <2> QED BY <1>1, <2>1, <2>2, <2>5, ClientTurns
<1>7. CASE m.type = "gone"
  <2>1. HandlesGone(m) /\ m.peer \in Peers /\ m.channel \in Channels /\ connected
    BY <1>1, <1>7, Handled, MessageFacts
  <2>2. v.ids = Listed.ids /\ v.on = Listed.on \ {<<m.channel, m.peer>>}
    BY <1>7 DEF Changes
  <2>3. CASE Known(m.channel)
    <3>1. PICK i \in DOMAIN channels : \E q \in PeerMaps :
              /\ channels[i].id = m.channel
              /\ DOMAIN q = DOMAIN channels[i].peers \ {m.peer}
              /\ Repeopled(i, q)
      BY <2>1, <2>3 DEF HandlesGone
    <3>2. PICK q \in PeerMaps :
              /\ channels[i].id = m.channel
              /\ DOMAIN q = DOMAIN channels[i].peers \ {m.peer}
              /\ Repeopled(i, q)
      BY <3>1
    <3> QED BY <1>1, <2>1, <2>2, <3>2, ClientTurns
  <2>4. CASE ~Known(m.channel)
    <3>1. channels' = channels
      BY <2>1, <2>4 DEF HandlesGone
    <3>2. v.ids = Listed.ids /\ v.on = Listed.on
      BY <2>2, <2>4 DEF Known, Listed
    <3> QED BY <1>1, <1>2, <3>1, <3>2, SameView
  <2> QED BY <2>3, <2>4
<1> QED
  BY <1>3, <1>4, <1>5, <1>6, <1>7, Handled

(* The types, and what closed sockets have not.                            *)
LEMMA ListTypesHold == Spec => []ListTypes
<1>1. Init => ListTypes
  BY RosterIsView DEF Init, ListTypes
<1>2. StreamInv /\ ListTypes /\ [Next]_vars => ListTypes'
  <2> SUFFICES ASSUME StreamInv, ListTypes, [Next]_vars
               PROVE  ListTypes'
    OBVIOUS
  <2>1. ASSUME UNCHANGED <<channels, chunk, truth, asks, inbox>>,
               \A s \in Sockets : /\ state[s] = "open" => state'[s] = "open"
                                  /\ Attached(s) => Attached(s)'
        PROVE  ListTypes'
    BY <2>1 DEF ListTypes
  <2>2. CASE Connect \/ ConnectRefused
    BY <2>1, <2>2 DEF Connect, ConnectRefused, Attached, StreamInv, clientVars, chunkVars, serverVars
  <2>3. ASSUME NEW s \in Sockets, ConnectFailed(s)
        PROVE  ListTypes'
    BY <2>1, <2>3 DEF ConnectFailed, Attached, StreamInv, clientVars, chunkVars, serverVars
  <2>4. ASSUME NEW s \in Sockets, handlerconnect(s)
        PROVE  ListTypes'
    BY <2>1, <2>4 DEF handlerconnect, Attached, StreamInv, clientVars, chunkVars
  <2>5. ASSUME NEW s \in Sockets, Closes(s)
        PROVE  ListTypes'
    <3>1. /\ channels' = <<>> /\ chunk' = chunk
          /\ \A t \in Sockets : t # s => state'[t] = state[t] \/ t > socket
      BY <2>5, CloseSteps DEF chunkVars
    <3>2. /\ inbox' = [inbox EXCEPT ![s] = <<>>]
          /\ asks' = [asks EXCEPT ![s] = {}]
          /\ truth' = [truth EXCEPT ![s] = NoMap]
          /\ session' = session
      BY <2>5, CloseSteps DEF Unheard
    <3>3. \A t \in Sockets : t > socket => asks[t] = {} /\ truth[t] = NoMap
      BY DEF StreamInv, ListTypes, Attached
    <3>4. truth' \in [Sockets -> Rosters] /\ asks' = [t \in Sockets |-> asks'[t]]
      BY <3>2, RosterIsView DEF ListTypes
    <3>5. \A t \in Sockets : inbox'[t] \in Seq(Message)
      <4>1. <<>> \in Seq(Message)
        OBVIOUS
      <4> QED BY <3>2, <4>1 DEF ListTypes, StreamInv
    <3>6. \A t \in Sockets : asks'[t] # {} => asks[t] # {} /\ t # s
      BY <3>2 DEF ListTypes
    <3>7. \A t \in Sockets : truth'[t] # NoMap => truth[t] # NoMap /\ t # s
      BY <3>2 DEF ListTypes
    <3>8. \A t \in Sockets : asks'[t] # {} => state'[t] = "open"
      BY <3>1, <3>3, <3>6 DEF ListTypes
    <3>9. \A t \in Sockets : truth'[t] # NoMap => Attached(t)'
      BY <3>1, <3>2, <3>3, <3>7 DEF ListTypes, Attached
    <3>10. channels' \in Seq(Entry) /\ chunk' \in Seq(Message)
      BY <3>1 DEF ListTypes
    <3> QED
      BY <3>4, <3>5, <3>8, <3>9, <3>10 DEF ListTypes
  <2>6. CASE disconnect_Closes \/ \E s \in Sockets : ConnectionEnds(s)
    BY <2>5, <2>6 DEF Closes, StreamInv
  <2>7. CASE disconnect \/ disconnect_Unhosts
    BY <2>1, <2>7 DEF disconnect, disconnect_Unhosts, Attached, clientVars, chunkVars, serverVars
  <2>7a. CASE disconnect_Replaces
    <3>1. \A t \in Sockets : state[t] = "open" => state'[t] = "open"
      BY <2>7a, ReplaceSteps DEF StreamInv
    <3> QED
      BY <2>1, <2>7a, <3>1 DEF disconnect_Replaces, Attached, clientVars, chunkVars, serverVars
  <2>8. CASE ServerStep
    <3>1. channels' = channels /\ chunk' = chunk
      BY <2>8, ServerSteps DEF clientVars, chunkVars
    <3>2. \A s \in Sockets : Attached(s) => Attached(s)'
      BY <2>8, ServerSteps
    <3>3. state' = state
      BY <2>8, ServerSteps DEF streamVars
    <3>4. /\ asks' = [s \in Sockets |-> asks'[s]]
          /\ \A s \in Sockets : asks'[s] # {} => state'[s] = "open"
      <4>1. CASE name \/ \E c \in Channels : join(c)
        BY <3>3, <4>1 DEF name, join, Ask, ListTypes, StreamInv
      <4>2. ASSUME NEW s \in Sockets, NEW a \in SUBSET asks[s], asks' = [asks EXCEPT ![s] = a]
            PROVE  /\ asks' = [t \in Sockets |-> asks'[t]]
                   /\ \A t \in Sockets : asks'[t] # {} => state'[t] = "open"
        BY <3>3, <4>2 DEF ListTypes
      <4>3. ASSUME UNCHANGED asks
            PROVE  /\ asks' = [t \in Sockets |-> asks'[t]]
                   /\ \A t \in Sockets : asks'[t] # {} => state'[t] = "open"
        BY <3>3, <4>3 DEF ListTypes
      <4>4. ASSUME NEW s \in Sockets,
                   \/ ServerName(s)
                   \/ \E c \in Channels, peers \in PeerMaps : ServerJoin(s, c, peers)
                   \/ \E what \in Channels \cup {"name"} : ServerRefuse(s, what)
            PROVE  \E a \in SUBSET asks[s] : asks' = [asks EXCEPT ![s] = a]
        BY <4>4 DEF ServerName, ServerJoin, ServerRefuse
      <4>5. ASSUME NEW s \in Sockets,
                   \/ ServerApprove(s) \/ ServerDeny(s)
                   \/ \E c \in Channels : ServerLeave(s, c)
                   \/ \E c \in Channels, p \in Peers, n \in Names : ServerPeer(s, c, p, n)
                   \/ \E c \in Channels, p \in Peers : ServerPeerLeaves(s, c, p)
            PROVE  UNCHANGED asks
        BY <4>5 DEF ServerApprove, ServerDeny, ServerLeave, ServerPeer, ServerPeerLeaves
      <4> QED
        BY <2>8, <4>1, <4>2, <4>3, <4>4, <4>5 DEF ServerStep
    <3>5. /\ truth' \in [Sockets -> Rosters]
          /\ \A s \in Sockets : inbox'[s] \in Seq(Message)
          /\ \A s \in Sockets : truth'[s] # NoMap => Attached(s)'
      <4>1. CASE UNCHANGED <<inbox, truth>>
        BY <3>2, <4>1 DEF ListTypes
      <4>2. ASSUME NEW s \in Sockets, NEW m, NEW r, Delivers(s, m, r)
            PROVE  /\ truth' \in [Sockets -> Rosters]
                   /\ \A t \in Sockets : inbox'[t] \in Seq(Message)
                   /\ \A t \in Sockets : truth'[t] # NoMap => Attached(t)'
        <5>1. /\ r \in Rosters /\ m \in Message /\ Attached(s)'
              /\ truth' = [truth EXCEPT ![s] = r]
              /\ inbox' = [inbox EXCEPT ![s] = Append(@, m)]
          BY <4>2 DEF Delivers
        <5>2. truth' \in [Sockets -> Rosters]
          BY <5>1 DEF ListTypes
        <5>3. \A t \in Sockets : truth'[t] # NoMap => Attached(t)'
          BY <3>2, <5>1 DEF ListTypes
        <5>4. Append(inbox[s], m) \in Seq(Message)
          BY <5>1 DEF ListTypes
        <5>5. \A t \in Sockets : inbox'[t] = IF t = s THEN Append(inbox[s], m) ELSE inbox[t]
          BY <5>1 DEF StreamInv
        <5>6. \A t \in Sockets : inbox'[t] \in Seq(Message)
          BY <5>4, <5>5 DEF ListTypes
        <5> QED
          BY <5>2, <5>3, <5>6
      <4> QED
        BY <2>8, <4>1, <4>2, ServerSends
    <3> QED
      BY <3>1, <3>4, <3>5 DEF ListTypes
  <2>9. CASE DatagramStep
    <3>1. UNCHANGED <<asks, truth>>
      BY <2>9 DEF DatagramStep, TimerFires, udphellotick, HelloArrives, WelcomeArrives, LoseHello,
                  LoseWelcome, serverVars
    <3> QED
      BY <2>1, <2>9, <3>1, DatagramSteps DEF streamVars, clientVars, chunkVars, Attached
  <2>10. ASSUME NEW s \in Sockets, NEW k \in 0 .. MaxInbox, NEW part \in BOOLEAN,
                handlerreceive(s, k, part)
         PROVE  ListTypes'
    <3>1. /\ UNCHANGED <<channels, truth, asks, state, session>>
          /\ inbox' = [inbox EXCEPT ![s] = SubSeq(@, k + 1, Len(@))]
          /\ chunk' = chunk \/ chunk' = SubSeq(inbox[s], 1, k)
          /\ k <= Len(inbox[s])
      BY <2>10 DEF handlerreceive, streamVars, clientVars
    <3>2. inbox[s] \in Seq(Message) /\ k \in Nat
      BY DEF ListTypes
    <3>3. /\ SubSeq(inbox[s], k + 1, Len(inbox[s])) \in Seq(Message)
          /\ SubSeq(inbox[s], 1, k) \in Seq(Message)
      BY <3>1, <3>2
    <3>4. \A t \in Sockets : inbox'[t] \in Seq(Message)
      BY <3>1, <3>3 DEF ListTypes, StreamInv
    <3>5. chunk' \in Seq(Message)
      BY <3>1, <3>3 DEF ListTypes
    <3> QED
      BY <3>1, <3>4, <3>5 DEF ListTypes, Attached
  <2>11. CASE messagehandler
    <3>1. UNCHANGED <<socket, state, session, inbox, truth, asks>>
      BY <2>11 DEF messagehandler, ConnectResponse, ConnectResponse_SaysHello,
                   ConnectResponse_StartsTimer, NameResponse, JoinResponse, LeaveResponse,
                   PeerMessage, PeerGone, NextMessage, Handling, streamVars, serverVars
    <3>2. channels' \in Seq(Entry) /\ chunk' \in Seq(Message)
      BY <2>11, HandledTypes
    <3> QED
      BY <3>1, <3>2 DEF ListTypes, Attached
  <2>12. ASSUME NEW s \in Sockets, UdpWelcome(s)
         PROVE  ListTypes'
    BY <2>1, <2>12 DEF UdpWelcome, streamVars, chunkVars, serverVars, Attached
  <2>13. CASE UNCHANGED vars
    BY <2>1, <2>13 DEF vars, streamVars, clientVars, chunkVars, serverVars, Attached
  <2> QED
    BY <2>2, <2>3, <2>4, <2>6, <2>7, <2>7a, <2>8, <2>9, <2>10, <2>11, <2>12, <2>13
    DEF Next, ServerStep, DatagramStep, Disconnecting
<1> QED
  BY <1>1, <1>2, StreamsHold, PTL DEF Spec

(***************************************************************************)
(* The hello timer.                                                        *)
(***************************************************************************)
Approvals(q) == {i \in DOMAIN q : q[i].type = "approved"}

(* The server approves a connection once.                                  *)
ApprovalInv ==
    /\ \A s \in Sockets : \A i, j \in Approvals(inbox[s]) : i = j
    /\ \A i, j \in Approvals(chunk) : i = j
    /\ Approvals(chunk) # {} => Approvals(inbox[chunkOf]) = {}

(* Where the approvals are in a sequence that is cut, or gets longer.      *)
LEMMA ApprovalFacts ==
    ASSUME NEW q \in Seq(Message), \A i, j \in Approvals(q) : i = j
    PROVE  /\ \A k \in 0 .. Len(q) :
                /\ \A i, j \in Approvals(SubSeq(q, 1, k)) : i = j
                /\ \A i, j \in Approvals(SubSeq(q, k + 1, Len(q))) : i = j
                /\ Approvals(SubSeq(q, 1, k)) # {} => Approvals(SubSeq(q, k + 1, Len(q))) = {}
                /\ Approvals(q) = {} => Approvals(SubSeq(q, 1, k)) = {}
                /\ Approvals(q) = {} => Approvals(SubSeq(q, k + 1, Len(q))) = {}
           /\ \A m \in Message : m.type # "approved" =>
                /\ \A i, j \in Approvals(Append(q, m)) : i = j
                /\ Approvals(q) = {} => Approvals(Append(q, m)) = {}
           /\ q # <<>> =>
                /\ \A i, j \in Approvals(Tail(q)) : i = j
                /\ Approvals(Tail(q)) # {} => Approvals(q) # {}
                /\ Head(q).type = "approved" => 1 \in Approvals(q) /\ Approvals(Tail(q)) = {}
<1>1. ASSUME NEW k \in 0 .. Len(q)
      PROVE  /\ \A i \in Approvals(SubSeq(q, 1, k)) : i \in Approvals(q) /\ i <= k
             /\ \A i \in Approvals(SubSeq(q, k + 1, Len(q))) : k + i \in Approvals(q) /\ i > 0 /\ i \in Int
  <2>1. k \in Nat /\ Len(q) \in Nat /\ k <= Len(q)
    OBVIOUS
  <2>2. ASSUME NEW i \in Approvals(SubSeq(q, 1, k))
        PROVE  i \in Approvals(q) /\ i <= k
    BY <2>1 DEF Approvals
  <2>3. ASSUME NEW i \in Approvals(SubSeq(q, k + 1, Len(q)))
        PROVE  k + i \in Approvals(q) /\ i > 0 /\ i \in Int
    <3> DEFINE b == SubSeq(q, k + 1, Len(q))
    <3>1. /\ DOMAIN b = 1 .. Len(q) - k
          /\ \A j \in 1 .. Len(q) - k : b[j] = q[k + j]
      BY <2>1
    <3> HIDE DEF b
    <3>2. i \in 1 .. Len(q) - k /\ b[i].type = "approved"
      BY <3>1 DEF Approvals, b
    <3> QED BY <2>1, <3>1, <3>2 DEF Approvals
  <2> QED BY <2>2, <2>3
<1>2. ASSUME NEW k \in 0 .. Len(q)
      PROVE  /\ \A i, j \in Approvals(SubSeq(q, 1, k)) : i = j
             /\ \A i, j \in Approvals(SubSeq(q, k + 1, Len(q))) : i = j
             /\ Approvals(SubSeq(q, 1, k)) # {} => Approvals(SubSeq(q, k + 1, Len(q))) = {}
             /\ Approvals(q) = {} => Approvals(SubSeq(q, 1, k)) = {}
             /\ Approvals(q) = {} => Approvals(SubSeq(q, k + 1, Len(q))) = {}
  <2>1. \A i, j \in Approvals(SubSeq(q, 1, k)) : i = j
    BY <1>1
  <2>2. ASSUME NEW i \in Approvals(SubSeq(q, k + 1, Len(q))), NEW j \in Approvals(SubSeq(q, k + 1, Len(q)))
        PROVE  i = j
    <3>1. k + i = k + j /\ i \in Int /\ j \in Int /\ k \in Int
      BY <1>1
    <3> QED BY <3>1
  <2>3. ASSUME NEW i \in Approvals(SubSeq(q, 1, k)), NEW j \in Approvals(SubSeq(q, k + 1, Len(q)))
        PROVE  FALSE
    <3>1. i = k + j /\ i <= k /\ j > 0 /\ j \in Int /\ k \in Int
      BY <1>1
    <3> QED BY <3>1
  <2> QED BY <1>1, <2>1, <2>2, <2>3
<1>3. ASSUME NEW m \in Message, m.type # "approved"
      PROVE  Approvals(Append(q, m)) = Approvals(q)
  BY <1>3 DEF Approvals
<1>4. ASSUME q # <<>>
      PROVE  /\ \A i \in Approvals(Tail(q)) : i + 1 \in Approvals(q) /\ i > 0 /\ i \in Int
             /\ Head(q).type = "approved" => 1 \in Approvals(q)
  BY <1>4 DEF Approvals
<1>5. ASSUME q # <<>>
      PROVE  /\ \A i, j \in Approvals(Tail(q)) : i = j
             /\ Approvals(Tail(q)) # {} => Approvals(q) # {}
             /\ Head(q).type = "approved" => 1 \in Approvals(q) /\ Approvals(Tail(q)) = {}
  <2>1. ASSUME NEW i \in Approvals(Tail(q)), NEW j \in Approvals(Tail(q))
        PROVE  i = j
    <3>1. i + 1 = j + 1 /\ i \in Int /\ j \in Int
      BY <1>4, <1>5
    <3> QED BY <3>1
  <2>2. ASSUME Head(q).type = "approved", NEW i \in Approvals(Tail(q))
        PROVE  FALSE
    <3>1. i + 1 = 1 /\ i > 0 /\ i \in Int
      BY <1>4, <1>5, <2>2
    <3> QED BY <3>1
  <2> QED BY <1>4, <1>5, <2>1, <2>2
<1> QED
  BY <1>2, <1>3, <1>5

(* What the server sends is at most the one approval.                      *)
LEMMA ApprovalsAfterSend ==
    ASSUME StreamInv, ListTypes, ApprovalInv, ServerStep
    PROVE  /\ ApprovalInv'
           /\ \A s \in Sockets : session[s] = "approved" /\ Approvals(inbox[s]) = {}
                                => Approvals(inbox'[s]) = {}
<1>1. UNCHANGED <<chunk, chunkOf>>
  BY ServerSteps DEF chunkVars
<1>2. CASE UNCHANGED inbox
  BY <1>1, <1>2 DEF ApprovalInv
<1>3. ASSUME NEW s \in Sockets, NEW m, NEW r, Delivers(s, m, r)
      PROVE  /\ ApprovalInv'
             /\ \A t \in Sockets : session[t] = "approved" /\ Approvals(inbox[t]) = {}
                                  => Approvals(inbox'[t]) = {}
  <2> DEFINE q == inbox[s]
  <2>1. /\ q \in Seq(Message) /\ m \in Message /\ \A i, j \in Approvals(q) : i = j
        /\ m.type = "approved" => session[s] # "approved"
        /\ inbox'[s] = Append(q, m) /\ \A t \in Sockets : t # s => inbox'[t] = inbox[t]
    BY <1>3 DEF Delivers, ListTypes, ApprovalInv, StreamInv
  <2>2. CASE m.type = "approved"
    <3>1. inbox[s] = <<>> /\ (chunk # <<>> => chunkOf # s)
      BY <2>1, <2>2 DEF StreamInv, Attached
    <3>2. \A i, j \in Approvals(Append(q, m)) : i = j
      <4>1. DOMAIN Append(<<>>, m) = {1}
        OBVIOUS
      <4> QED BY <3>1, <4>1 DEF Approvals
    <3>3. Approvals(chunk) # {} => chunkOf # s
      BY <3>1 DEF Approvals
    <3>4. \A t \in Sockets : \A i, j \in Approvals(inbox'[t]) : i = j
      BY <2>1, <3>2 DEF ApprovalInv
    <3>5. Approvals(chunk) # {} => Approvals(inbox'[chunkOf]) = {}
      <4>1. chunkOf \in Sockets
        BY DEF StreamInv
      <4> QED BY <2>1, <3>3, <4>1 DEF ApprovalInv
    <3>6. ApprovalInv'
      <4> HIDE DEF q
      <4> QED BY <1>1, <3>4, <3>5 DEF ApprovalInv
    <3> QED BY <2>1, <2>2, <3>6
  <2>3. CASE m.type # "approved"
    <3>1. /\ \A i, j \in Approvals(Append(q, m)) : i = j
          /\ Approvals(q) = {} => Approvals(Append(q, m)) = {}
      BY <2>1, <2>3, ApprovalFacts
    <3>2. \A t \in Sockets : /\ \A i, j \in Approvals(inbox'[t]) : i = j
                             /\ Approvals(inbox[t]) = {} => Approvals(inbox'[t]) = {}
      BY <2>1, <3>1 DEF ApprovalInv
    <3>3. ApprovalInv'
      BY <1>1, <3>2 DEF ApprovalInv, StreamInv
    <3> QED BY <3>2, <3>3
  <2> QED BY <2>2, <2>3
<1> QED
  BY <1>2, <1>3, ServerSends

(* What is received is moved to the chunk.                                 *)
LEMMA ApprovalsAfterReceive ==
    ASSUME StreamInv, ListTypes, ApprovalInv, NEW s \in Sockets, NEW k \in 0 .. MaxInbox,
           NEW part \in BOOLEAN, handlerreceive(s, k, part)
    PROVE  /\ ApprovalInv'
           /\ Approvals(inbox[socket]) = {} =>
                /\ Approvals(inbox'[socket]) = {}
                /\ s = socket => Approvals(chunk') = {}
<1> DEFINE q == inbox[s]
<1>0. /\ chunkOf' = s /\ k <= Len(inbox[s])
      /\ chunk' = <<>> \/ chunk' = SubSeq(inbox[s], 1, k)
      /\ inbox' = [inbox EXCEPT ![s] = SubSeq(@, k + 1, Len(@))]
  BY DEF handlerreceive, PumpFree
<1>1. /\ q \in Seq(Message) /\ \A i, j \in Approvals(q) : i = j
      /\ k \in 0 .. Len(q) /\ chunkOf' = s
      /\ chunk' = <<>> \/ chunk' = SubSeq(q, 1, k)
      /\ inbox'[s] = SubSeq(q, k + 1, Len(q)) /\ \A t \in Sockets : t # s => inbox'[t] = inbox[t]
  <2>1. q \in Seq(Message) /\ \A i, j \in Approvals(q) : i = j
    BY DEF ListTypes, ApprovalInv
  <2>2. k \in 0 .. Len(q)
    BY <1>0, <2>1, ClientAssumption
  <2>3. inbox'[s] = SubSeq(q, k + 1, Len(q)) /\ \A t \in Sockets : t # s => inbox'[t] = inbox[t]
    BY <1>0 DEF StreamInv
  <2> QED BY <1>0, <2>1, <2>2, <2>3
<1>2. /\ \A i, j \in Approvals(SubSeq(q, 1, k)) : i = j
      /\ \A i, j \in Approvals(SubSeq(q, k + 1, Len(q))) : i = j
      /\ Approvals(SubSeq(q, 1, k)) # {} => Approvals(SubSeq(q, k + 1, Len(q))) = {}
      /\ Approvals(q) = {} => Approvals(SubSeq(q, 1, k)) = {}
      /\ Approvals(q) = {} => Approvals(SubSeq(q, k + 1, Len(q))) = {}
  BY <1>1, ApprovalFacts
<1>3. Approvals(<<>>) = {}
  BY DEF Approvals
<1>4. ApprovalInv'
  BY <1>1, <1>2, <1>3 DEF ApprovalInv
<1> QED
  BY <1>1, <1>2, <1>3, <1>4 DEF StreamInv

(* And is taken from it.                                                   *)
LEMMA ApprovalsAfterMessage ==
    ASSUME StreamInv, ListTypes, ApprovalInv, messagehandler
    PROVE  /\ ApprovalInv'
           /\ Approvals(chunk') # {} => Approvals(chunk) # {}
           /\ ticking' # ticking => Approvals(chunk') = {} /\ Approvals(inbox'[chunkOf]) = {}
           /\ Head(chunk).type = "approved" => Approvals(chunk) # {}
<1>1. /\ chunk \in Seq(Message) /\ chunk # <<>> /\ \A i, j \in Approvals(chunk) : i = j
      /\ chunkOf' = chunkOf /\ inbox' = inbox
      /\ \/ chunk' = Tail(chunk)
         \/ chunk' = chunk /\ ticking' = ticking
  BY Handled, MessageSteps DEF ListTypes, ApprovalInv
<1>2. /\ \A i, j \in Approvals(Tail(chunk)) : i = j
      /\ Approvals(Tail(chunk)) # {} => Approvals(chunk) # {}
      /\ Head(chunk).type = "approved" => 1 \in Approvals(chunk) /\ Approvals(Tail(chunk)) = {}
  BY <1>1, ApprovalFacts
<1>3. ApprovalInv'
  BY <1>1, <1>2 DEF ApprovalInv
<1>4. ticking' # ticking => Head(chunk).type = "approved"
  BY DEF messagehandler, ConnectResponse, ConnectResponse_SaysHello, ConnectResponse_StartsTimer,
         NameResponse, JoinResponse, LeaveResponse, PeerMessage, PeerGone, Handling
<1>5. Head(chunk).type = "approved" => Approvals(inbox[chunkOf]) = {}
  BY <1>2 DEF ApprovalInv
<1> QED
  BY <1>1, <1>2, <1>3, <1>4, <1>5

(* No connection is approved again.                                        *)
LEMMA ApprovalsHold == Spec => []ApprovalInv
<1>1. Init => ApprovalInv
  <2>1. Approvals(<<>>) = {}
    BY DEF Approvals
  <2> QED BY <2>1 DEF Init, ApprovalInv
<1>2. StreamInv /\ ListTypes /\ ApprovalInv /\ [Next]_vars => ApprovalInv'
  <2> SUFFICES ASSUME StreamInv, ListTypes, ApprovalInv, [Next]_vars
               PROVE  ApprovalInv'
    OBVIOUS
  <2>1. ASSUME UNCHANGED <<chunk, chunkOf, inbox>>
        PROVE  ApprovalInv'
    BY <2>1 DEF ApprovalInv
  <2>2. CASE Connect \/ ConnectRefused \/ disconnect \/ disconnect_Replaces \/ disconnect_Unhosts
    BY <2>1, <2>2 DEF Connect, ConnectRefused, disconnect, disconnect_Replaces, disconnect_Unhosts,
                      chunkVars, serverVars
  <2>3. ASSUME NEW s \in Sockets, ConnectFailed(s) \/ handlerconnect(s) \/ UdpWelcome(s)
        PROVE  ApprovalInv'
    BY <2>1, <2>3 DEF ConnectFailed, handlerconnect, UdpWelcome, chunkVars, serverVars
  <2>4. ASSUME NEW s \in Sockets, Closes(s)
        PROVE  ApprovalInv'
    <3>1. UNCHANGED <<chunk, chunkOf>> /\ inbox' = [inbox EXCEPT ![s] = <<>>]
      BY <2>4, CloseSteps DEF chunkVars, Unheard
    <3>2. Approvals(<<>>) = {}
      BY DEF Approvals
    <3>3. \A t \in Sockets : inbox'[t] = inbox[t] \/ inbox'[t] = <<>>
      BY <3>1 DEF StreamInv
    <3> QED BY <3>1, <3>2, <3>3 DEF ApprovalInv, StreamInv
  <2>5. CASE disconnect_Closes \/ \E s \in Sockets : ConnectionEnds(s)
    BY <2>4, <2>5 DEF Closes, StreamInv
  <2>6. CASE ServerStep
    BY <2>6, ApprovalsAfterSend
  <2>7. CASE DatagramStep
    BY <2>1, <2>7, DatagramSteps DEF chunkVars
  <2>8. ASSUME NEW s \in Sockets, NEW k \in 0 .. MaxInbox, NEW part \in BOOLEAN,
               handlerreceive(s, k, part)
        PROVE  ApprovalInv'
    BY <2>8, ApprovalsAfterReceive
  <2>9. CASE messagehandler
    BY <2>9, ApprovalsAfterMessage
  <2>10. CASE UNCHANGED vars
    BY <2>1, <2>10 DEF vars, chunkVars, serverVars
  <2> QED
    BY <2>2, <2>3, <2>5, <2>6, <2>7, <2>8, <2>9, <2>10
    DEF Next, ServerStep, DatagramStep, Disconnecting
<1>3. QED
  BY <1>1, <1>2, StreamsHold, ListTypesHold, PTL DEF Spec

(* While the timer runs the current socket has had its only approval, and  *)
(* disconnect() has not come to its close; and a connect response that is  *)
(* about to start it has a port, or is of a socket left.                   *)
HelloInv ==
    ~crossed =>
        /\ ticking => /\ udp # None /\ Unlocked /\ Attached(socket)
                      /\ Approvals(inbox[socket]) = {}
                      /\ chunkOf = socket => Approvals(chunk) = {}
        /\ responding = "greeted" /\ crashed = "no" /\ ~Left(chunkOf) => udp # None

(* The hello timer runs only while UDP is hosted, however the steps of     *)
(* disconnect() and of a connect response interleave, unless something of  *)
(* another connection reached the client.                                  *)
THEOREM HelloHolds == Spec => []HelloHasSocket
<1>1. Init => HelloInv
  BY DEF Init, HelloInv
<1>2. StreamInv /\ ListTypes /\ ApprovalInv /\ HelloInv /\ [Next]_vars => HelloInv'
  <2> SUFFICES ASSUME StreamInv, ListTypes, ApprovalInv, HelloInv, [Next]_vars, ~crossed'
               PROVE  /\ ticking' => /\ udp' # None /\ Unlocked' /\ Attached(socket)'
                                     /\ Approvals(inbox'[socket']) = {}
                                     /\ chunkOf' = socket' => Approvals(chunk') = {}
                      /\ responding' = "greeted" /\ crashed' = "no" /\ ~Left(chunkOf)' => udp' # None
    BY DEF HelloInv
  <2> USE DEF HelloInv
  <2>1. ASSUME UNCHANGED <<ticking, udp, socket, leaving, responding, chunk, chunkOf, inbox>>,
               Attached(socket) => Attached(socket)',
               crossed => crossed', crashed # "no" => crashed' # "no"
        PROVE  HelloInv'
    BY <2>1 DEF Unlocked, Left
  <2>2. CASE Connect \/ ConnectRefused
    <3>1. Attached(socket) => Attached(socket)'
      BY <2>2 DEF Connect, ConnectRefused, Attached
    <3> QED BY <2>1, <2>2, <3>1 DEF Connect, ConnectRefused, udpVars, chunkVars, serverVars, historyVars
  <2>3. ASSUME NEW s \in Sockets, ConnectFailed(s) \/ handlerconnect(s)
        PROVE  HelloInv'
    <3>1. Attached(socket) => Attached(socket)'
      BY <2>3 DEF ConnectFailed, handlerconnect, Attached, StreamInv, serverVars
    <3> QED BY <2>1, <2>3, <3>1 DEF ConnectFailed, handlerconnect, udpVars, chunkVars, serverVars,
                                    historyVars
  <2>4. ASSUME NEW s \in Sockets, Closes(s)
        PROVE  HelloInv'
    <3>1. StreamInv' /\ ~ticking' /\ chunk' = chunk
      BY <2>4, CloseSteps DEF chunkVars
    <3>2. CASE leaving' = "closed"
      BY <3>1, <3>2 DEF Left
    <3>3. CASE chunk = <<>>
      BY <3>1, <3>3 DEF StreamInv
    <3> QED BY <2>4, <3>2, <3>3, CloseSteps
  <2>4a. CASE disconnect_Closes \/ \E s \in Sockets : ConnectionEnds(s)
    BY <2>4, <2>4a DEF Closes, StreamInv
  <2>5. CASE disconnect
    BY <2>5 DEF disconnect, StopHello, Left, chunkVars, historyVars
  <2>6. CASE disconnect_Replaces
    <3>1. /\ leaving = "closed" /\ UNCHANGED <<ticking, chunk, chunkOf, responding, crossed>>
      BY <2>6 DEF disconnect_Replaces, udpVars, chunkVars, historyVars
    <3>2. ~ticking'
      BY <3>1 DEF Unlocked
    <3>3. responding' = "greeted" => Left(chunkOf)'
      BY <2>6, <3>1, ReplaceSteps DEF StreamInv, Left
    <3> QED BY <3>2, <3>3
  <2>7. CASE disconnect_Unhosts
    <3>1. /\ leaving = "replaced" /\ leaving' = "no"
          /\ UNCHANGED <<socket, state, ticking, chunkOf, responding, crossed>>
      BY <2>7 DEF disconnect_Unhosts, chunkVars, historyVars
    <3>2. ~ticking'
      BY <3>1 DEF Unlocked
    <3>3. responding' = "greeted" => Left(chunkOf)
      BY <3>1 DEF StreamInv, Attached
    <3> QED BY <3>1, <3>2, <3>3 DEF Left
  <2>8. CASE ServerStep
    <3>1. UNCHANGED crashed
      BY <2>8, ServerSpares DEF historyVars
    <3>2. UNCHANGED <<socket, leaving, ticking, udp, responding, chunk, chunkOf, crossed>>
      BY <2>8, ServerSteps DEF streamVars, chunkVars
    <3>3. \A s \in Sockets : Attached(s) => Attached(s)'
      BY <2>8, ServerSteps
    <3>4. \A s \in Sockets : session[s] = "approved" /\ Approvals(inbox[s]) = {}
                            => Approvals(inbox'[s]) = {}
      BY <2>8, ApprovalsAfterSend
    <3>5. ticking => Approvals(inbox'[socket]) = {} /\ Attached(socket)'
      BY <3>2, <3>3, <3>4 DEF StreamInv, Attached
    <3> QED BY <3>1, <3>2, <3>5 DEF Unlocked, Left
  <2>9. CASE DatagramStep
    <3>1. crashed # "no" => crashed' # "no"
      BY <2>9 DEF DatagramStep, TimerFires, udphellotick, PumpFree, HelloArrives, WelcomeArrives,
                  LoseHello, LoseWelcome, historyVars
    <3> QED BY <2>1, <2>9, <3>1, DatagramSteps DEF streamVars, chunkVars, Attached
  <2>10. ASSUME NEW s \in Sockets, NEW k \in 0 .. MaxInbox, NEW part \in BOOLEAN,
                handlerreceive(s, k, part)
         PROVE  HelloInv'
    <3>1. responding' = "no"
      BY <2>10 DEF handlerreceive, PumpFree, StreamInv
    <3>2. UNCHANGED <<ticking, udp, leaving, socket, state, session>> /\ chunkOf' = s /\ ~crossed
      BY <2>10 DEF handlerreceive, udpVars, streamVars
    <3>3. Approvals(inbox[socket]) = {} =>
             /\ Approvals(inbox'[socket]) = {}
             /\ s = socket => Approvals(chunk') = {}
      BY <2>10, ApprovalsAfterReceive
    <3> QED
      BY <3>1, <3>2, <3>3 DEF Unlocked, Attached
  <2>11. CASE messagehandler
    <3>1. /\ ~crossed /\ ~Left(chunkOf) /\ ~Left(chunkOf)' /\ chunk # <<>> /\ leaving' = leaving
      BY <2>11, MessageSteps DEF streamVars
    <3>2. Unlocked
      <4>1. leaving # "replaced"
        BY <3>1 DEF StreamInv, Attached
      <4> QED BY <3>1, <4>1 DEF Left, Unlocked, StreamInv
    <3>3. Unlocked'
      BY <3>1, <3>2 DEF Unlocked
    <3>4. /\ chunkOf = socket /\ chunkOf' = socket' /\ socket' = socket
          /\ Attached(socket)' /\ inbox' = inbox
      BY <2>11, <3>1, MessageSteps DEF StreamInv, Attached, Left, streamVars
    <3>5. /\ Approvals(chunk') # {} => Approvals(chunk) # {}
          /\ ticking' # ticking => Approvals(chunk') = {} /\ Approvals(inbox'[chunkOf]) = {}
          /\ Head(chunk).type = "approved" => Approvals(chunk) # {}
      BY <2>11, ApprovalsAfterMessage
    <3>6. ticking' => Approvals(chunk') = {} /\ Approvals(inbox'[socket']) = {}
      BY <3>1, <3>4, <3>5
    <3>7. ticking /\ ticking' = ticking => udp' = udp \/ udp' # None
      BY <2>11, <3>1, <3>4, <3>5, ResponseSteps
    <3>8. ticking' # ticking => udp' # None
      BY <2>11, <3>1, ResponseSteps
    <3>9. responding' = "greeted" /\ crashed' = "no" => udp' # None
      BY <2>11, <3>1, ResponseSteps
    <3> QED
      BY <3>1, <3>3, <3>4, <3>6, <3>7, <3>8, <3>9
  <2>12. ASSUME NEW s \in Sockets, UdpWelcome(s)
         PROVE  HelloInv'
    BY <2>12 DEF UdpWelcome, StopHello, Left, streamVars, chunkVars
  <2>13. CASE UNCHANGED vars
    BY <2>1, <2>13 DEF vars, udpVars, streamVars, chunkVars, serverVars, historyVars, Attached
  <2> QED
    BY <2>2, <2>3, <2>4a, <2>5, <2>6, <2>7, <2>8, <2>9, <2>10, <2>11, <2>12, <2>13
    DEF Next, ServerStep, DatagramStep, Disconnecting
<1>3. HelloInv => HelloHasSocket
  BY DEF HelloInv, HelloHasSocket
<1>4. QED
  BY <1>1, <1>2, <1>3, StreamsHold, ListTypesHold, ApprovalsHold, PTL DEF Spec

(***************************************************************************)
(* The lists agree.                                                        *)
(***************************************************************************)
(* The messages of the current connection that are still to be handled.    *)
Pending == IF chunkOf = socket THEN chunk \o inbox[socket] ELSE inbox[socket]

(* They lead from the client's lists to the server's; and before it is     *)
(* connected a client has asked for nothing, and is on no channel.  That   *)
(* is lost between the two steps of disconnect() that make the client say  *)
(* it is not connected and that clear it, and is found with a new socket.  *)
ListsInv ==
    ~crossed /\ crashed = "no" /\ leaving \in {"no", "replaced"} =>
        /\ Distinct
        /\ Lead(Pending, Listed, Roster(truth[socket]))
        /\ ~connected => /\ asks[socket] = {} /\ truth[socket] = NoMap
                         /\ \A i \in DOMAIN Pending : Pending[i].type = "approved"

(* Pending messages are messages; the first is the first of the chunk.     *)
LEMMA PendingIsMessages ==
    ASSUME StreamInv, ListTypes
    PROVE  /\ Pending \in Seq(Message) /\ inbox[socket] \in Seq(Message) /\ chunk \in Seq(Message)
           /\ chunk = <<>> => Pending = inbox[socket]
           /\ chunk # <<>> /\ chunkOf = socket =>
                /\ Pending # <<>> /\ Head(Pending) = Head(chunk)
                /\ Tail(Pending) = Tail(chunk) \o inbox[socket]
<1>1. chunk \in Seq(Message) /\ inbox[socket] \in Seq(Message)
  BY DEF StreamInv, ListTypes
<1>2. ASSUME NEW u \in Seq(Message), NEW w \in Seq(Message)
      PROVE  /\ u \o w \in Seq(Message)
             /\ u = <<>> => u \o w = w
             /\ u # <<>> => u \o w # <<>> /\ Head(u \o w) = Head(u) /\ Tail(u \o w) = Tail(u) \o w
  <2>1. u \o w \in Seq(Message) /\ (u = <<>> => u \o w = w)
    OBVIOUS
  <2>2. u # <<>> => u \o w # <<>> /\ Head(u \o w) = Head(u)
    OBVIOUS
  <2>3. ASSUME u # <<>>
        PROVE  Tail(u \o w) = Tail(u) \o w
    BY <2>3
  <2> QED BY <2>1, <2>2, <2>3
<1>3. /\ chunk \o inbox[socket] \in Seq(Message)
      /\ chunk = <<>> => chunk \o inbox[socket] = inbox[socket]
      /\ chunk # <<>> => /\ chunk \o inbox[socket] # <<>>
                         /\ Head(chunk \o inbox[socket]) = Head(chunk)
                         /\ Tail(chunk \o inbox[socket]) = Tail(chunk) \o inbox[socket]
  BY <1>1, <1>2
<1> QED
  BY <1>1, <1>3 DEF Pending

(* An empty list says nothing.                                             *)
LEMMA NothingListed ==
    /\ channels = <<>> => Distinct /\ Listed = [ids |-> {}, on |-> {}]
    /\ channels' = <<>> => Distinct' /\ Listed' = [ids |-> {}, on |-> {}]
<1>1. DOMAIN <<>> = {}
  OBVIOUS
<1>2. ListOf(<<>>).ids = {} /\ ListOf(<<>>).on = {}
  BY <1>1 DEF ListOf
<1>3. ListOf(<<>>) = [ids |-> {}, on |-> {}]
  BY <1>1 DEF ListOf
<1>4. Listed = ListOf(channels) /\ Listed' = ListOf(channels')
  BY DEF Listed, ListOf
<1> QED
  BY <1>1, <1>3, <1>4 DEF Distinct

(* A sequence cut in two and put together again.                           *)
LEMMA SplitJoins ==
    ASSUME NEW w \in Seq(Message), NEW n \in 0 .. Len(w)
    PROVE  SubSeq(w, 1, n) \o SubSeq(w, n + 1, Len(w)) = w
<1> DEFINE a == SubSeq(w, 1, n)
           b == SubSeq(w, n + 1, Len(w))
           t == a \o b
<1>1. Len(w) \in Nat /\ n \in Nat /\ n <= Len(w)
  OBVIOUS
<1>2. /\ a \in Seq(Message) /\ Len(a) = n
      /\ \A i \in 1 .. n : a[i] = w[i]
  BY <1>1
<1>3. /\ b \in Seq(Message) /\ Len(b) = Len(w) - n
      /\ \A i \in 1 .. Len(w) - n : b[i] = w[n + i]
  BY <1>1
<1> HIDE DEF a, b
<1>4. /\ t \in Seq(Message) /\ Len(t) = Len(w)
      /\ \A i \in 1 .. Len(t) : t[i] = IF i <= n THEN a[i] ELSE b[i - n]
  BY <1>1, <1>2, <1>3
<1> HIDE DEF t
<1>5. ASSUME NEW i \in 1 .. Len(w)
      PROVE  t[i] = w[i]
  <2>1. CASE i <= n
    <3>1. i \in 1 .. n /\ i \in 1 .. Len(t)
      BY <1>1, <1>4, <2>1
    <3> QED BY <1>2, <1>4, <2>1, <3>1
  <2>2. CASE i > n
    <3>1. i - n \in 1 .. Len(w) - n /\ n + (i - n) = i
      BY <1>1, <2>2
    <3>2. b[i - n] = w[n + (i - n)]
      BY <1>3, <3>1
    <3>3. t[i] = b[i - n]
      BY <1>1, <1>4, <2>2
    <3> QED BY <3>1, <3>2, <3>3
  <2> QED BY <1>1, <2>1, <2>2
<1>6. t = w
  BY <1>4, <1>5
<1> QED BY <1>6 DEF t, a, b

(* Nothing is pending, listed or on the server at first.                   *)
LEMMA InitLists == Init => ListsInv
<1> SUFFICES ASSUME Init PROVE ListsInv
  OBVIOUS
<1>1. channels = <<>> /\ chunk = <<>> /\ socket = 1 /\ 1 \in Sockets
  BY ClientAssumption DEF Init, Sockets
<1>2. inbox[socket] = <<>> /\ asks[socket] = {} /\ truth[socket] = NoMap /\ ~connected
  BY <1>1 DEF Init
<1>3. Pending = <<>>
  BY <1>1, <1>2 DEF Pending
<1>4. Listed = [ids |-> {}, on |-> {}] /\ Distinct
  BY <1>1, NothingListed
<1>5. Lead(<<>>, Listed, Roster(NoMap))
  <2>1. Listed \in View
    BY <1>4 DEF View
  <2>2. Listed = Roster(NoMap)
    BY <1>4, RosterIsView
  <2> QED BY <2>1, <2>2, LeadNowhere
<1> QED
  BY <1>2, <1>3, <1>4, <1>5 DEF ListsInv

(* Nothing is pending, listed or on the server for a new socket.           *)
LEMMA ListsOfFresh ==
    ASSUME socket' \in Sockets, channels' = <<>>, chunk' # <<>> => chunkOf' # socket',
           inbox'[socket'] = <<>>, asks'[socket'] = {}, truth'[socket'] = NoMap
    PROVE  ListsInv'
<1>1. Pending' = <<>>
  BY DEF Pending
<1>2. Listed' = [ids |-> {}, on |-> {}] /\ Distinct'
  BY NothingListed
<1>3. Lead(<<>>, Listed', Roster(NoMap))
  <2>1. Listed' \in View
    BY <1>2 DEF View
  <2>2. Listed' = Roster(NoMap)
    BY <1>2, RosterIsView
  <2> QED BY <2>1, <2>2, LeadNowhere
<1>4. Lead(Pending, Listed, Roster(truth[socket]))'
  BY <1>1, <1>3
<1> QED
  BY <1>1, <1>2, <1>4 DEF ListsInv

(* Sockets not made yet have none of it.                                   *)
LEMMA FreshIsBare ==
    ASSUME StreamInv, ListTypes, NEW s \in Sockets, s > socket
    PROVE  inbox[s] = <<>> /\ asks[s] = {} /\ truth[s] = NoMap
  BY DEF StreamInv, ListTypes, Attached

(* A close that replaces the socket itself,                                *)
LEMMA ListsAfterClose ==
    ASSUME NEW s \in Sockets, StreamInv, ListTypes, ConnectionEnds(s)
    PROVE  ListsInv'
<1>1. /\ channels' = <<>> /\ chunk' = <<>> /\ Unheard(s)
  BY CloseSteps DEF Closes, ConnectionEnds, PumpFree, chunkVars
<1>2. socket' = socket + 1 /\ socket' \in Sockets /\ socket' > socket
  BY ClientAssumption DEF ConnectionEnds, initsocket, StreamInv, Sockets
<1>3. inbox[socket'] = <<>> /\ asks[socket'] = {} /\ truth[socket'] = NoMap
  BY <1>2, FreshIsBare
<1>4. inbox'[socket'] = <<>>
  BY <1>1, <1>2, <1>3 DEF Unheard, StreamInv
<1>5. asks'[socket'] = {} /\ truth'[socket'] = NoMap
  BY <1>1, <1>2, <1>3 DEF Unheard, ListTypes
<1> QED
  BY <1>1, <1>2, <1>4, <1>5, ListsOfFresh

(* and the close of disconnect(), once it has.                             *)
LEMMA ListsAfterReplace ==
    ASSUME StreamInv, LinkInv, ListTypes, disconnect_Replaces, ~crossed
    PROVE  ListsInv'
<1>1. /\ leaving = "closed" /\ UNCHANGED <<channels, chunk, chunkOf, inbox, asks, truth>>
  BY DEF disconnect_Replaces, clientVars, chunkVars, serverVars
<1>2. channels = <<>>
  BY <1>1 DEF LinkInv, FreshSocketIsBlank
<1>3. socket' = socket + 1 /\ socket' \in Sockets /\ socket' > socket
      /\ (chunk # <<>> => chunkOf # socket')
  BY ReplaceSteps DEF StreamInv, Sockets
<1>4. inbox[socket'] = <<>> /\ asks[socket'] = {} /\ truth[socket'] = NoMap
  BY <1>3, FreshIsBare
<1> QED
  BY <1>1, <1>2, <1>3, <1>4, ListsOfFresh

(* A message on its way to the current socket is one more to handle.       *)
LEMMA ListsAfterSend ==
    ASSUME StreamInv, ListTypes, ListsInv, ServerStep
    PROVE  ListsInv'
<1> SUFFICES ASSUME ~crossed', crashed' = "no", leaving' \in {"no", "replaced"}
             PROVE  /\ Distinct'
                    /\ Lead(Pending, Listed, Roster(truth[socket]))'
                    /\ ~connected' => /\ asks'[socket'] = {} /\ truth'[socket'] = NoMap
                                      /\ \A i \in DOMAIN Pending' : Pending'[i].type = "approved"
  BY DEF ListsInv
<1>1. UNCHANGED <<socket, leaving, channels, connected, chunk, chunkOf, crossed>>
  BY ServerSteps DEF streamVars, clientVars, chunkVars
<1>2. crashed' = crashed
  BY ServerSpares DEF historyVars
<1>3. /\ Distinct /\ Lead(Pending, Listed, Roster(truth[socket]))
      /\ ~connected => /\ asks[socket] = {} /\ truth[socket] = NoMap
                       /\ \A i \in DOMAIN Pending : Pending[i].type = "approved"
  BY <1>1, <1>2 DEF ListsInv
<1>4. Distinct' /\ Listed' = Listed /\ socket' = socket /\ socket \in Sockets
  BY <1>1, <1>3 DEF Distinct, Listed, StreamInv
<1>5. ~connected' => asks'[socket'] = {}
  <2>1. ASSUME ~connected
        PROVE  asks'[socket] \subseteq asks[socket]
    <3>1. ASSUME NEW s \in Sockets,
                 \/ ServerName(s)
                 \/ \E c \in Channels, peers \in PeerMaps : ServerJoin(s, c, peers)
                 \/ \E what \in Channels \cup {"name"} : ServerRefuse(s, what)
          PROVE  asks'[socket] \subseteq asks[socket]
      <4>1. \E a \in SUBSET asks[s] : asks' = [asks EXCEPT ![s] = a]
        BY <3>1 DEF ServerName, ServerJoin, ServerRefuse
      <4> QED BY <1>4, <4>1 DEF ListTypes
    <3>2. ASSUME NEW s \in Sockets,
                 \/ ServerApprove(s) \/ ServerDeny(s)
                 \/ \E c \in Channels : ServerLeave(s, c)
                 \/ \E c \in Channels, p \in Peers, n \in Names : ServerPeer(s, c, p, n)
                 \/ \E c \in Channels, p \in Peers : ServerPeerLeaves(s, c, p)
          PROVE  UNCHANGED asks
      BY <3>2 DEF ServerApprove, ServerDeny, ServerLeave, ServerPeer, ServerPeerLeaves
    <3>3. ~name /\ \A c \in Channels : ~join(c)
      BY <2>1 DEF name, join
    <3> QED
      BY <3>1, <3>2, <3>3 DEF ServerStep
  <2> QED BY <1>1, <1>3, <2>1
<1>6. CASE UNCHANGED <<inbox, truth>>
  <2>1. Pending' = Pending /\ truth'[socket'] = truth[socket]
    BY <1>1, <1>6 DEF Pending
  <2> QED
    BY <1>1, <1>3, <1>4, <1>5, <2>1
<1>7. ASSUME NEW s \in Sockets, NEW m, NEW r, Delivers(s, m, r), s # socket
      PROVE  /\ Lead(Pending, Listed, Roster(truth[socket]))'
             /\ ~connected' => /\ truth'[socket'] = NoMap
                               /\ \A i \in DOMAIN Pending' : Pending'[i].type = "approved"
  <2>1. inbox'[socket] = inbox[socket] /\ truth'[socket] = truth[socket]
    BY <1>4, <1>7 DEF Delivers, ListTypes, StreamInv
  <2>2. Pending' = Pending /\ truth'[socket'] = truth[socket]
    BY <1>1, <2>1 DEF Pending
  <2> QED
    BY <1>1, <1>3, <1>4, <2>2
<1>8. ASSUME NEW m, NEW r, Delivers(socket, m, r)
      PROVE  /\ Lead(Pending, Listed, Roster(truth[socket]))'
             /\ ~connected' => /\ truth'[socket'] = NoMap
                               /\ \A i \in DOMAIN Pending' : Pending'[i].type = "approved"
  <2>1. /\ inbox'[socket] = Append(inbox[socket], m) /\ truth'[socket] = r
        /\ m \in Message /\ r \in Rosters
        /\ Changes(m, Roster(truth[socket]), Roster(r))
        /\ m.type = "approved" \/ asks[socket] # {} \/ truth[socket] # NoMap
    BY <1>4, <1>8 DEF Delivers, ListTypes, StreamInv
  <2>2. /\ Pending \in Seq(Message) /\ inbox[socket] \in Seq(Message) /\ chunk \in Seq(Message)
    BY PendingIsMessages
  <2>3. ASSUME NEW u \in Seq(Message), NEW w \in Seq(Message), NEW x \in Message
        PROVE  u \o Append(w, x) = Append(u \o w, x)
    OBVIOUS
  <2>4. chunk \o Append(inbox[socket], m) = Append(chunk \o inbox[socket], m)
    BY <2>1, <2>2, <2>3
  <2>5. Pending' = Append(Pending, m)
    BY <1>1, <2>1, <2>4 DEF Pending
  <2>6. Roster(r) \in View
    BY <2>1, RosterIsView
  <2>7. Lead(Append(Pending, m), Listed, Roster(r))
    BY <1>3, <2>1, <2>2, <2>6, LeadFurther
  <2>8. ASSUME ~connected
        PROVE  /\ truth'[socket'] = NoMap
               /\ \A i \in DOMAIN Pending' : Pending'[i].type = "approved"
    <3>1. m.type = "approved"
      BY <1>3, <2>1, <2>8
    <3>2. Roster(r) = Roster(NoMap)
      <4>1. Changes(m, Roster(NoMap), Roster(r))
        BY <1>3, <2>1, <2>8
      <4> QED BY <3>1, <4>1 DEF Changes
    <3>3. DOMAIN r = {}
      BY <3>2, RosterIsView DEF Roster
    <3>4. r = NoMap
      <4>1. r = [x \in DOMAIN r |-> r[x]]
        BY <2>1, Maps
      <4> QED BY <3>3, <4>1 DEF NoMap
    <3>5. \A i \in DOMAIN Append(Pending, m) : Append(Pending, m)[i].type = "approved"
      BY <1>3, <2>1, <2>2, <2>8, <3>1
    <3> QED BY <1>4, <2>1, <2>5, <3>4, <3>5
  <2>9. Lead(Pending, Listed, Roster(truth[socket]))'
    BY <1>4, <2>1, <2>5, <2>7
  <2> QED
    BY <1>1, <2>8, <2>9
<1> QED
  BY <1>3, <1>4, <1>5, <1>6, <1>7, <1>8, ServerSends

(* Data moves pending messages from the socket to the chunk.               *)
LEMMA ListsAfterReceive ==
    ASSUME StreamInv, ListTypes, ListsInv, NEW s \in Sockets, NEW k \in 0 .. MaxInbox,
           NEW part \in BOOLEAN, handlerreceive(s, k, part)
    PROVE  ListsInv'
<1> SUFFICES ASSUME ~crossed', crashed' = "no", leaving' \in {"no", "replaced"}
             PROVE  /\ Distinct'
                    /\ Lead(Pending, Listed, Roster(truth[socket]))'
                    /\ ~connected' => /\ asks'[socket'] = {} /\ truth'[socket'] = NoMap
                                      /\ \A i \in DOMAIN Pending' : Pending'[i].type = "approved"
  BY DEF ListsInv
<1>1. /\ UNCHANGED <<socket, leaving, channels, connected, asks, truth, crashed>>
      /\ chunk = <<>> /\ chunkOf' = s /\ k <= Len(inbox[s])
      /\ inbox' = [inbox EXCEPT ![s] = SubSeq(@, k + 1, Len(@))]
  BY DEF handlerreceive, PumpFree, streamVars, clientVars
<1>2. chunk' = SubSeq(inbox[s], 1, k) /\ ~crossed
  BY DEF handlerreceive
<1>3. /\ Distinct /\ Lead(Pending, Listed, Roster(truth[socket]))
      /\ ~connected => /\ asks[socket] = {} /\ truth[socket] = NoMap
                       /\ \A i \in DOMAIN Pending : Pending[i].type = "approved"
  BY <1>1, <1>2 DEF ListsInv
<1>4. Pending = inbox[socket] /\ socket \in Sockets /\ inbox[s] \in Seq(Message)
  BY <1>1, PendingIsMessages DEF StreamInv, ListTypes
<1>5. CASE s # socket
  <2>1. inbox'[socket] = inbox[socket]
    BY <1>1, <1>4, <1>5 DEF StreamInv
  <2>2. Pending' = inbox[socket]
    BY <1>1, <1>5, <2>1 DEF Pending
  <2> QED BY <1>1, <1>3, <1>4, <2>2 DEF Distinct, Listed
<1>6. CASE s = socket
  <2>1. inbox'[socket] = SubSeq(inbox[socket], k + 1, Len(inbox[socket]))
    BY <1>1, <1>4, <1>6 DEF StreamInv
  <2>2. k \in 0 .. Len(inbox[socket])
    BY <1>1, <1>4, <1>6
  <2>3. SubSeq(inbox[socket], 1, k) \o SubSeq(inbox[socket], k + 1, Len(inbox[socket])) = inbox[socket]
    BY <1>4, <1>6, <2>2, SplitJoins
  <2>4. chunk' \o inbox'[socket] = inbox[socket]
    BY <1>2, <1>6, <2>1, <2>3, Zenon
  <2>5. Pending' = inbox[socket]
    BY <1>1, <1>6, <2>4 DEF Pending
  <2> QED BY <1>1, <1>3, <1>4, <2>5 DEF Distinct, Listed
<1> QED
  BY <1>5, <1>6

(* A handler takes the first of the pending messages.                      *)
LEMMA ListsAfterMessage ==
    ASSUME StreamInv, ListTypes, ListsInv, messagehandler
    PROVE  ListsInv'
<1> SUFFICES ASSUME ~crossed', crashed' = "no", leaving' \in {"no", "replaced"}
             PROVE  /\ Distinct'
                    /\ Lead(Pending, Listed, Roster(truth[socket]))'
                    /\ ~connected' => /\ asks'[socket'] = {} /\ truth'[socket'] = NoMap
                                      /\ \A i \in DOMAIN Pending' : Pending'[i].type = "approved"
  BY DEF ListsInv
<1>1. /\ UNCHANGED <<socket, leaving, connected, chunkOf, inbox, truth, asks>> /\ ~crossed
      /\ crashed = "no" /\ chunkOf = socket /\ chunk # <<>>
  BY DEF messagehandler, ConnectResponse, ConnectResponse_SaysHello, ConnectResponse_StartsTimer,
         NameResponse, JoinResponse, LeaveResponse, PeerMessage, PeerGone, NextMessage, Handling,
         Left, clientVars, streamVars, serverVars
<1>2. /\ Distinct /\ Lead(Pending, Listed, Roster(truth[socket]))
      /\ ~connected => /\ asks[socket] = {} /\ truth[socket] = NoMap
                       /\ \A i \in DOMAIN Pending : Pending[i].type = "approved"
  BY <1>1 DEF ListsInv
<1>3. /\ Pending \in Seq(Message) /\ Pending # <<>>
      /\ Head(Pending) = Head(chunk) /\ Tail(Pending) = Tail(chunk) \o inbox[socket]
  BY <1>1, PendingIsMessages
<1>4. CASE chunk' = chunk /\ channels' = channels
  <2>1. Pending' = Pending /\ Listed' = Listed /\ (Distinct => Distinct')
    BY <1>1, <1>4 DEF Pending, Listed, Distinct
  <2> QED BY <1>1, <1>2, <2>1
<1>5. CASE chunk' = Tail(chunk)
  <2>1. Pending' = Tail(Pending)
    BY <1>1, <1>3, <1>5 DEF Pending
  <2>2. PICK v \in View : Changes(Head(Pending), Listed, v)
                          /\ Lead(Tail(Pending), v, Roster(truth[socket]))
    BY <1>2, <1>3, LeadFirst
  <2>3. connected \/ Head(Pending).type = "approved"
    <3>1. 1 \in DOMAIN Pending /\ Head(Pending) = Pending[1]
      BY <1>3
    <3> QED BY <1>2, <3>1
  <2>4. Distinct' /\ Listed' = v
    BY <1>2, <1>3, <2>2, <2>3, HandledChanges
  <2>5. Lead(Pending, Listed, Roster(truth[socket]))'
    BY <1>1, <2>1, <2>2, <2>4
  <2>6. \A i \in DOMAIN Tail(Pending) : i + 1 \in DOMAIN Pending /\ Tail(Pending)[i] = Pending[i + 1]
    BY <1>3
  <2>7. ~connected' => /\ asks'[socket'] = {} /\ truth'[socket'] = NoMap
                       /\ \A i \in DOMAIN Pending' : Pending'[i].type = "approved"
    BY <1>1, <1>2, <2>1, <2>6
  <2> QED
    BY <2>4, <2>5, <2>7
<1> QED
  BY <1>4, <1>5, Handled

(* Pending messages always lead from the client's lists to the server's.   *)
LEMMA ListsHold == Spec => []ListsInv
<1>1. StreamInv /\ LinkInv /\ ListTypes /\ ListsInv /\ [Next]_vars => ListsInv'
  <2> SUFFICES ASSUME StreamInv, LinkInv, ListTypes, ListsInv, [Next]_vars
               PROVE  ListsInv'
    OBVIOUS
  <2>1. ASSUME UNCHANGED <<socket, channels, chunk, chunkOf, asks, truth, inbox>>,
               connected' = connected \/ connected', crossed => crossed',
               leaving' \in {"no", "replaced"} => leaving \in {"no", "replaced"},
               crashed # "no" => crashed' # "no"
        PROVE  ListsInv'
    <3>1. Pending' = Pending /\ Listed' = Listed /\ (Distinct => Distinct')
      BY <2>1 DEF Pending, Listed, Distinct
    <3> QED BY <2>1, <3>1 DEF ListsInv
  <2>2. CASE Connect \/ ConnectRefused
    BY <2>1, <2>2 DEF Connect, ConnectRefused, clientVars, chunkVars, serverVars, historyVars
  <2>3. ASSUME NEW s \in Sockets, ConnectFailed(s)
        PROVE  ListsInv'
    BY <2>1, <2>3 DEF ConnectFailed, clientVars, chunkVars, serverVars, historyVars
  <2>4. ASSUME NEW s \in Sockets, handlerconnect(s)
        PROVE  ListsInv'
    BY <2>1, <2>4 DEF handlerconnect, clientVars, chunkVars
  <2>5. CASE \E s \in Sockets : ConnectionEnds(s)
    BY <2>5, ListsAfterClose
  <2>6. CASE disconnect \/ disconnect_Closes
    BY <2>6 DEF disconnect, disconnect_Closes, ListsInv
  <2>6a. CASE disconnect_Replaces
    <3>1. crossed' = crossed
      BY <2>6a DEF disconnect_Replaces, historyVars
    <3> QED BY <2>6a, <3>1, ListsAfterReplace DEF ListsInv
  <2>6b. CASE disconnect_Unhosts
    BY <2>1, <2>6b DEF disconnect_Unhosts, clientVars, chunkVars, serverVars, historyVars
  <2>7. CASE ServerStep
    BY <2>7, ListsAfterSend
  <2>8. CASE DatagramStep
    <3>1. UNCHANGED <<asks, truth>> /\ (crashed # "no" => crashed' # "no")
      BY <2>8 DEF DatagramStep, TimerFires, udphellotick, PumpFree, HelloArrives, WelcomeArrives,
                  LoseHello, LoseWelcome, serverVars, historyVars
    <3>2. UNCHANGED <<socket, leaving, channels, connected, chunk, chunkOf, inbox, crossed>>
      BY <2>8, DatagramSteps DEF streamVars, clientVars, chunkVars
    <3> QED
      BY <2>1, <3>1, <3>2
  <2>9. ASSUME NEW s \in Sockets, NEW k \in 0 .. MaxInbox, NEW part \in BOOLEAN,
               handlerreceive(s, k, part)
        PROVE  ListsInv'
    BY <2>9, ListsAfterReceive
  <2>10. CASE messagehandler
    BY <2>10, ListsAfterMessage
  <2>11. ASSUME NEW s \in Sockets, UdpWelcome(s)
         PROVE  ListsInv'
    BY <2>1, <2>11 DEF UdpWelcome, streamVars, chunkVars, serverVars
  <2>12. CASE UNCHANGED vars
    BY <2>1, <2>12 DEF vars, streamVars, clientVars, chunkVars, serverVars, historyVars
  <2> QED
    BY <2>2, <2>3, <2>4, <2>5, <2>6, <2>6a, <2>6b, <2>7, <2>8, <2>9, <2>10, <2>11, <2>12
    DEF Next, ServerStep, DatagramStep, Disconnecting
<1> QED
  BY <1>1, InitLists, StreamsHold, LinkHolds, ListTypesHold, PTL DEF Spec

(* Once every message is handled, the client lists the channels the server *)
(* has it on, each once, and on each the peers the server counts there: in *)
(* whatever pieces the messages came, and whatever channels, peers, names  *)
(* and connections there are.                                              *)
THEOREM CatchesUpHolds == Spec => []CatchesUp
<1>1. StreamInv /\ ListTypes /\ ListsInv => CatchesUp
  <2> SUFFICES ASSUME StreamInv, ListTypes, ListsInv, ~crossed, crashed = "no",
                      leaving = "no", chunk = <<>>, inbox[socket] = <<>>
               PROVE  /\ {channels[i].id : i \in DOMAIN channels} = DOMAIN truth[socket]
                      /\ Len(channels) = Cardinality(DOMAIN truth[socket])
                      /\ \A i \in DOMAIN channels :
                            DOMAIN channels[i].peers = DOMAIN truth[socket][channels[i].id]
    BY DEF CatchesUp
  <2> DEFINE r == truth[socket]
  <2>1. Pending = <<>> /\ channels \in Seq(Entry) /\ r \in Rosters
    BY PendingIsMessages DEF StreamInv, ListTypes
  <2>2. Distinct /\ Listed = Roster(r)
    <3>1. Distinct /\ Lead(Pending, Listed, Roster(r))
      BY DEF ListsInv
    <3>2. Listed \in View
      BY <2>1, ListedIsView
    <3> QED BY <2>1, <3>1, <3>2, LeadNowhere
  <2> HIDE DEF r
  <2>3. {channels[i].id : i \in DOMAIN channels} = DOMAIN r
    BY <2>2 DEF Listed, Roster
  <2>4. DOMAIN r \subseteq Channels /\ \A c \in DOMAIN r : DOMAIN r[c] \subseteq Peers
    BY <2>1, Maps
  <2>5. ASSUME NEW i \in DOMAIN channels
        PROVE  DOMAIN channels[i].peers = DOMAIN r[channels[i].id]
    <3> DEFINE c == channels[i].id
    <3>1. c \in DOMAIN r /\ c \in Channels
      BY <2>3, <2>4
    <3>2. DOMAIN channels[i].peers \subseteq Peers
      BY <2>1, EntryFacts
    <3>3. ASSUME NEW p \in Peers
          PROVE  p \in DOMAIN channels[i].peers <=> p \in DOMAIN r[c]
      <4>1. <<c, p>> \in Roster(r).on <=> p \in DOMAIN r[c]
        BY <3>1 DEF Roster
      <4>2. \A j \in DOMAIN channels : channels[j].id = c => j = i
        BY <2>2 DEF Distinct
      <4>3. <<c, p>> \in Listed.on <=> p \in DOMAIN channels[i].peers
        BY <3>1, <4>2 DEF Listed
      <4> QED BY <2>2, <4>1, <4>3
    <3> QED BY <2>4, <3>1, <3>2, <3>3
  <2>6. Len(channels) = Cardinality(DOMAIN r)
    <3> DEFINE N == Len(channels)
               f == [i \in 1 .. N |-> channels[i].id]
    <3>1. N \in Nat /\ DOMAIN channels = 1 .. N
      BY <2>1
    <3>2. f \in [1 .. N -> DOMAIN r]
      BY <2>3, <3>1
    <3>3. \A c \in DOMAIN r : \E i \in 1 .. N : f[i] = c
      BY <2>3, <3>1
    <3>4. \A i, j \in 1 .. N : f[i] = f[j] => i = j
      BY <2>2, <3>1 DEF Distinct
    <3> HIDE DEF f
    <3>5. f \in Surjection(1 .. N, DOMAIN r)
      BY <3>2, <3>3 DEF Surjection
    <3>6. f \in Injection(1 .. N, DOMAIN r)
      BY <3>2, <3>4 DEF Injection, IsInjective
    <3>7. IsFiniteSet(1 .. N) /\ Cardinality(1 .. N) = N
      <4>1. 1 \in Int /\ N \in Int /\ (IF 1 > N THEN 0 ELSE N - 1 + 1) = N
        BY <3>1
      <4> HIDE DEF N
      <4>2. /\ IsFiniteSet(1 .. N)
            /\ Cardinality(1 .. N) = IF 1 > N THEN 0 ELSE N - 1 + 1
        BY <4>1, FS_Interval
      <4> QED BY <4>1, <4>2
    <3>8. Cardinality(DOMAIN r) = Cardinality(1 .. N)
      BY <3>5, <3>6, <3>7, FS_Surjection
    <3> QED BY <3>7, <3>8
  <2> QED BY <2>3, <2>5, <2>6 DEF r
<1> QED
  BY <1>1, StreamsHold, ListTypesHold, ListsHold, PTL

(***************************************************************************)
(* Types.                                                                  *)
(***************************************************************************)
(* The rest of the types; a datagram is on its way only while UDP is hosted. *)
FlagTypes ==
    /\ connected \in BOOLEAN /\ named \in BOOLEAN /\ ticking \in BOOLEAN
    /\ hello \in BOOLEAN /\ welcome \in BOOLEAN /\ crossed \in BOOLEAN

UdpTypes ==
    /\ id \in Sockets \cup {None} /\ udp \in Sockets \cup {None} /\ partial \in Sockets \cup {None}
    /\ answers \subseteq Sockets /\ crashed \in {"no", "not hosting", "address"}
    /\ hello => udp # None
    /\ welcome => udp # None

(* What is kept for each socket.                                           *)
SocketTypes ==
    /\ state[socket] = "closed" => leaving = "closed"
    /\ session \in [Sockets -> {"none", "accepted", "asked", "approved", "denied"}]
    /\ asks \in [Sockets -> SUBSET (Channels \cup {"name"})]
    /\ \A s \in Sockets : Len(inbox[s]) <= MaxInbox

(* The Booleans.                                                           *)
LEMMA FlagTypesHold == Spec => []FlagTypes
<1>1. Init => FlagTypes
  BY DEF Init, FlagTypes
<1>2. FlagTypes /\ [Next]_vars => FlagTypes'
  <2> SUFFICES ASSUME FlagTypes, [Next]_vars
               PROVE  FlagTypes'
    OBVIOUS
  <2>1. ASSUME UNCHANGED <<connected, named, ticking, hello, welcome, crossed>>
        PROVE  FlagTypes'
    BY <2>1 DEF FlagTypes
  <2>2. CASE Connect \/ ConnectRefused
    BY <2>1, <2>2 DEF Connect, ConnectRefused, clientVars, udpVars, networkVars, historyVars
  <2>3. ASSUME NEW s \in Sockets, ConnectFailed(s) \/ handlerconnect(s)
        PROVE  FlagTypes'
    BY <2>3 DEF ConnectFailed, handlerconnect, clientVars, udpVars, networkVars, historyVars, FlagTypes
  <2>4. ASSUME NEW s \in Sockets, ConnectionEnds(s)
        PROVE  FlagTypes'
    BY <2>4 DEF ConnectionEnds, Left, handlerdisconnect, clear, StopHello, networkVars, FlagTypes
  <2>5. CASE disconnect \/ Disconnecting
    BY <2>5 DEF disconnect, Disconnecting, disconnect_Closes, disconnect_Replaces,
                disconnect_Unhosts, handlerdisconnect, clear, StopHello, clientVars, udpVars,
                networkVars, historyVars, FlagTypes
  <2>6. CASE ServerStep
    BY <2>1, <2>6, ServerSpares DEF clientVars, udpVars, networkVars, historyVars
  <2>7. CASE DatagramStep
    BY <2>7 DEF DatagramStep, TimerFires, udphellotick, SayHello, HelloArrives, WelcomeArrives, LoseHello,
                LoseWelcome, clientVars, udpVars, networkVars, historyVars, FlagTypes
  <2>8. ASSUME NEW s \in Sockets, NEW k \in 0 .. MaxInbox, NEW part \in BOOLEAN,
               handlerreceive(s, k, part)
        PROVE  FlagTypes'
    BY <2>8 DEF handlerreceive, clientVars, udpVars, networkVars, FlagTypes
  <2>9. CASE messagehandler
    <3>1. connected' \in BOOLEAN /\ crossed' \in BOOLEAN
      BY <2>9 DEF messagehandler, ConnectResponse, ConnectResponse_SaysHello,
                  ConnectResponse_StartsTimer, NameResponse, JoinResponse, LeaveResponse,
                  PeerMessage, PeerGone, NextMessage, Handling, Left, clientVars, FlagTypes
    <3>2. /\ named' \in BOOLEAN /\ ticking' \in BOOLEAN
          /\ hello' \in BOOLEAN /\ welcome' \in BOOLEAN
      BY <2>9 DEF messagehandler, ConnectResponse, ConnectResponse_SaysHello,
                  ConnectResponse_StartsTimer, NameResponse, JoinResponse, LeaveResponse,
                  PeerMessage, PeerGone, HostUdp, SayHello, StartHello, clientVars, networkVars,
                  FlagTypes
    <3> QED
      BY <3>1, <3>2 DEF FlagTypes
  <2>10. ASSUME NEW s \in Sockets, UdpWelcome(s)
         PROVE  FlagTypes'
    BY <2>10 DEF UdpWelcome, StopHello, networkVars, FlagTypes
  <2>11. CASE UNCHANGED vars
    BY <2>1, <2>11 DEF vars, clientVars, udpVars, networkVars, historyVars
  <2> QED
    BY <2>2, <2>3, <2>4, <2>5, <2>6, <2>7, <2>8, <2>9, <2>10, <2>11
    DEF Next, ServerStep, DatagramStep
<1> QED
  BY <1>1, <1>2, PTL DEF Spec

(* Identifiers and the UDP socket.                                         *)
LEMMA UdpTypesHold == Spec => []UdpTypes
<1>1. Init => UdpTypes
  BY DEF Init, UdpTypes
<1>2. StreamInv /\ UdpTypes /\ [Next]_vars => UdpTypes'
  <2> SUFFICES ASSUME StreamInv, UdpTypes, [Next]_vars
               PROVE  UdpTypes'
    OBVIOUS
  <2>1. ASSUME UNCHANGED <<id, udp, partial, answers, crashed, networkVars>>
        PROVE  UdpTypes'
    BY <2>1 DEF UdpTypes, networkVars
  <2>2. CASE Connect \/ ConnectRefused
    BY <2>1, <2>2 DEF Connect, ConnectRefused, clientVars, udpVars, chunkVars, historyVars
  <2>3. ASSUME NEW s \in Sockets, ConnectFailed(s) \/ handlerconnect(s)
        PROVE  UdpTypes'
    BY <2>1, <2>3 DEF ConnectFailed, handlerconnect, clientVars, udpVars, chunkVars, historyVars
  <2>4. ASSUME NEW s \in Sockets, ConnectionEnds(s)
        PROVE  UdpTypes'
    <3>1. UNCHANGED <<udp, partial, answers, crashed, hello, welcome>> /\ id' = None
      BY <2>4 DEF ConnectionEnds, handlerdisconnect, clear, chunkVars, networkVars
    <3> QED BY <3>1 DEF UdpTypes
  <2>5. CASE disconnect \/ Disconnecting
    <3>1. CASE disconnect \/ disconnect_Replaces
      BY <2>1, <3>1 DEF disconnect, disconnect_Replaces, clientVars, udpVars, chunkVars, historyVars
    <3>2. CASE disconnect_Closes
      <4>1. UNCHANGED <<udp, partial, answers, crashed, hello, welcome>> /\ id' = None
        BY <3>2 DEF disconnect_Closes, handlerdisconnect, clear, chunkVars, networkVars, historyVars
      <4> QED BY <4>1 DEF UdpTypes
    <3>3. CASE disconnect_Unhosts
      <4>1. UNCHANGED <<id, partial, answers, crashed>> /\ udp' = None /\ ~hello' /\ ~welcome'
        BY <3>3 DEF disconnect_Unhosts, clientVars, chunkVars, historyVars
      <4> QED BY <4>1 DEF UdpTypes
    <3> QED BY <2>5, <3>1, <3>2, <3>3 DEF Disconnecting
  <2>6. CASE ServerStep
    BY <2>1, <2>6, ServerSpares DEF clientVars, udpVars, chunkVars, historyVars
  <2>7. CASE DatagramStep
    <3>1. CASE TimerFires
      BY <2>1, <3>1 DEF TimerFires, clientVars, chunkVars, historyVars
    <3>2. CASE udphellotick
      BY <3>2 DEF udphellotick, SayHello, clientVars, chunkVars, UdpTypes
    <3>3. CASE HelloArrives \/ LoseHello \/ LoseWelcome
      BY <3>3 DEF HelloArrives, LoseHello, LoseWelcome, clientVars, udpVars, chunkVars, historyVars,
                  UdpTypes
    <3>4. CASE WelcomeArrives
      BY <3>4 DEF WelcomeArrives, clientVars, chunkVars, historyVars, networkVars, UdpTypes
    <3> QED
      BY <2>7, <3>1, <3>2, <3>3, <3>4 DEF DatagramStep
  <2>8. ASSUME NEW s \in Sockets, NEW k \in 0 .. MaxInbox, NEW part \in BOOLEAN,
               handlerreceive(s, k, part)
        PROVE  UdpTypes'
    BY <2>8 DEF handlerreceive, clientVars, udpVars, networkVars, UdpTypes
  <2>9. CASE messagehandler
    <3>1. chunkOf \in Sockets /\ chunkOf # None
      BY ClientAssumption DEF StreamInv, Sockets
    <3>2. UNCHANGED <<partial, answers>>
      BY <2>9 DEF messagehandler, ConnectResponse, ConnectResponse_SaysHello,
                  ConnectResponse_StartsTimer, NameResponse, JoinResponse, LeaveResponse,
                  PeerMessage, PeerGone, NextMessage, Handling
    <3>3. CASE UNCHANGED <<id, udp, networkVars, crashed>>
      BY <2>1, <3>2, <3>3
    <3>4. CASE ConnectResponse
      <4>1. CASE HasAddress(socket)
        <5>1. /\ id' = chunkOf /\ udp' \in {chunkOf, None} /\ hello' = FALSE /\ welcome' = FALSE
              /\ crashed' = crashed
          BY <3>4, <4>1 DEF ConnectResponse, HostUdp
        <5> QED BY <3>1, <3>2, <5>1 DEF UdpTypes
      <4>2. CASE ~HasAddress(socket)
        <5>1. UNCHANGED <<udp, hello, welcome>> /\ id' = chunkOf /\ crashed' = "address"
          BY <3>4, <4>2 DEF ConnectResponse, networkVars
        <5> QED BY <3>1, <3>2, <5>1 DEF UdpTypes
      <4> QED BY <4>1, <4>2
    <3>5. CASE ConnectResponse_SaysHello
      BY <3>2, <3>5 DEF ConnectResponse_SaysHello, SayHello, clientVars, UdpTypes
    <3> QED
      BY <2>9, <3>3, <3>4, <3>5 DEF messagehandler, ConnectResponse_StartsTimer, NameResponse,
              JoinResponse, LeaveResponse, PeerMessage, PeerGone, clientVars
  <2>10. ASSUME NEW s \in Sockets, UdpWelcome(s)
         PROVE  UdpTypes'
    BY <2>10 DEF UdpWelcome, chunkVars, networkVars, UdpTypes
  <2>11. CASE UNCHANGED vars
    BY <2>1, <2>11 DEF vars, clientVars, udpVars, chunkVars, historyVars
  <2> QED
    BY <2>2, <2>3, <2>4, <2>5, <2>6, <2>7, <2>8, <2>9, <2>10, <2>11
    DEF Next, ServerStep, DatagramStep
<1> QED
  BY <1>1, <1>2, StreamsHold, PTL DEF Spec

(* Ticks waiting in the event pump.                                        *)
TicksTyped == ticks \in 0 .. MaxTicks

(* The event pump never holds more ticks than its bound.                   *)
LEMMA TicksBounded == Spec => []TicksTyped
<1>1. Init => TicksTyped
  BY ClientAssumption DEF Init, TicksTyped
<1>2. TicksTyped /\ [Next]_vars => TicksTyped'
  <2> SUFFICES ASSUME TicksTyped, [Next]_vars
               PROVE  TicksTyped'
    OBVIOUS
  <2>1. ticks' = ticks \/ TimerFires \/ udphellotick
    <3>1. CASE ServerStep
      BY <3>1, ServerSpares DEF udpVars
    <3>2. CASE messagehandler
      BY <3>2 DEF messagehandler, ConnectResponse, ConnectResponse_SaysHello,
                  ConnectResponse_StartsTimer, NameResponse, JoinResponse, LeaveResponse,
                  PeerMessage, PeerGone, NextMessage, Handling
    <3>3. CASE HelloArrives \/ WelcomeArrives \/ LoseHello \/ LoseWelcome
      BY <3>3 DEF HelloArrives, WelcomeArrives, LoseHello, LoseWelcome, udpVars
    <3>4. CASE Connect \/ ConnectRefused \/ disconnect \/ Disconnecting
      BY <3>4 DEF Connect, ConnectRefused, disconnect, Disconnecting, disconnect_Closes,
                  disconnect_Replaces, disconnect_Unhosts, udpVars
    <3>5. ASSUME NEW s \in Sockets,
                 \/ ConnectFailed(s) \/ handlerconnect(s) \/ ConnectionEnds(s) \/ UdpWelcome(s)
                 \/ \E k \in 0 .. MaxInbox, part \in BOOLEAN : handlerreceive(s, k, part)
          PROVE  ticks' = ticks
      BY <3>5 DEF ConnectFailed, handlerconnect, ConnectionEnds, UdpWelcome, handlerreceive, udpVars
    <3>6. CASE UNCHANGED vars
      BY <3>6 DEF vars, udpVars
    <3> QED
      BY <3>1, <3>2, <3>3, <3>4, <3>5, <3>6 DEF Next, ServerStep
  <2>2. CASE TimerFires
    BY <2>2, ClientAssumption DEF TimerFires, TicksTyped
  <2>3. CASE udphellotick
    <3>1. ticks > 0 /\ ticks' = ticks - 1
      BY <2>3 DEF udphellotick
    <3> QED BY <3>1, ClientAssumption DEF TicksTyped
  <2> QED BY <2>1, <2>2, <2>3 DEF TicksTyped
<1> QED
  BY <1>1, <1>2, PTL DEF Spec

(* Sessions, requests and inboxes, by socket.                              *)
LEMMA SocketTypesHold == Spec => []SocketTypes
<1>1. Init => SocketTypes
  BY ClientAssumption DEF Init, SocketTypes, Sockets
<1>2. StreamInv /\ ListTypes /\ SocketTypes /\ [Next]_vars => SocketTypes'
  <2> SUFFICES ASSUME StreamInv, ListTypes, SocketTypes, [Next]_vars
               PROVE  SocketTypes'
    OBVIOUS
  <2>1. CASE Connect \/ ConnectRefused
    BY <2>1 DEF Connect, ConnectRefused, SocketTypes, StreamInv, serverVars
  <2>2. ASSUME NEW s \in Sockets, ConnectFailed(s)
        PROVE  SocketTypes'
    BY <2>2 DEF ConnectFailed, SocketTypes, StreamInv, serverVars
  <2>3. ASSUME NEW s \in Sockets, handlerconnect(s)
        PROVE  SocketTypes'
    BY <2>3 DEF handlerconnect, SocketTypes, StreamInv
  <2>4. ASSUME NEW s \in Sockets, Closes(s)
        PROVE  SocketTypes'
    <3>1. state'[socket'] = "closed" => leaving' = "closed"
      <4>1. CASE ConnectionEnds(s)
        <5>1. socket' \in Sockets /\ state'[socket'] = "idle"
          BY <4>1, ClientAssumption DEF ConnectionEnds, initsocket, Ended, StreamInv, Sockets
        <5> QED BY <5>1
      <4>2. CASE disconnect_Closes
        BY <4>2 DEF disconnect_Closes
      <4> QED BY <2>4, <4>1, <4>2 DEF Closes
    <3>2. Unheard(s)
      BY <2>4, CloseSteps
    <3>3. \A t \in Sockets : inbox'[t] = IF t = s THEN <<>> ELSE inbox[t]
      BY <3>2 DEF Unheard, StreamInv
    <3>4. \A t \in Sockets : Len(inbox'[t]) <= MaxInbox
      BY <3>3, ClientAssumption DEF SocketTypes
    <3>5. asks' \in [Sockets -> SUBSET (Channels \cup {"name"})]
      BY <3>2 DEF Unheard, SocketTypes
    <3> QED
      BY <3>1, <3>2, <3>4, <3>5 DEF Unheard, SocketTypes
  <2>5. CASE disconnect_Closes \/ \E s \in Sockets : ConnectionEnds(s)
    BY <2>4, <2>5 DEF Closes, StreamInv
  <2>6. CASE disconnect \/ disconnect_Unhosts
    BY <2>6 DEF disconnect, disconnect_Unhosts, SocketTypes, serverVars
  <2>6a. CASE disconnect_Replaces
    BY <2>6a, ReplaceSteps DEF disconnect_Replaces, SocketTypes, serverVars
  <2>7. CASE ServerStep
    <3>1. UNCHANGED <<socket, leaving, state>>
      BY <2>7, ServerSteps DEF streamVars
    <3>2. session' \in [Sockets -> {"none", "accepted", "asked", "approved", "denied"}]
      <4>1. ASSUME NEW s \in Sockets, ServerApprove(s) \/ ServerDeny(s)
            PROVE  session' \in [Sockets -> {"none", "accepted", "asked", "approved", "denied"}]
        BY <4>1 DEF ServerApprove, ServerDeny, SocketTypes
      <4>2. ASSUME NEW s \in Sockets,
                   \/ ServerName(s)
                   \/ \E c \in Channels, peers \in PeerMaps : ServerJoin(s, c, peers)
                   \/ \E what \in Channels \cup {"name"} : ServerRefuse(s, what)
                   \/ \E c \in Channels : ServerLeave(s, c)
                   \/ \E c \in Channels, p \in Peers, n \in Names : ServerPeer(s, c, p, n)
                   \/ \E c \in Channels, p \in Peers : ServerPeerLeaves(s, c, p)
            PROVE  UNCHANGED session
        BY <4>2 DEF ServerName, ServerJoin, ServerRefuse, ServerLeave, ServerPeer, ServerPeerLeaves
      <4>3. ASSUME name \/ \E c \in Channels : join(c)
            PROVE  UNCHANGED session
        BY <4>3 DEF name, join
      <4> QED BY <2>7, <4>1, <4>2, <4>3 DEF ServerStep, SocketTypes
    <3>3. asks' \in [Sockets -> SUBSET (Channels \cup {"name"})]
      <4>1. CASE name \/ \E c \in Channels : join(c)
        <5>1. PICK what \in Channels \cup {"name"} : asks' = [asks EXCEPT ![socket] = asks[socket] \cup {what}]
          BY <4>1 DEF name, join, Ask
        <5>2. /\ socket \in Sockets /\ asks \in [Sockets -> SUBSET (Channels \cup {"name"})]
              /\ asks[socket] \cup {what} \subseteq Channels \cup {"name"}
          BY <5>1 DEF SocketTypes, StreamInv
        <5> QED BY <5>1, <5>2
      <4>2. ASSUME NEW s \in Sockets, NEW a \in SUBSET asks[s], asks' = [asks EXCEPT ![s] = a]
            PROVE  asks' \in [Sockets -> SUBSET (Channels \cup {"name"})]
        BY <4>2 DEF SocketTypes
      <4>3. ASSUME NEW s \in Sockets,
                   \/ ServerName(s)
                   \/ \E c \in Channels, peers \in PeerMaps : ServerJoin(s, c, peers)
                   \/ \E what \in Channels \cup {"name"} : ServerRefuse(s, what)
            PROVE  \E a \in SUBSET asks[s] : asks' = [asks EXCEPT ![s] = a]
        BY <4>3 DEF ServerName, ServerJoin, ServerRefuse
      <4>4. ASSUME NEW s \in Sockets,
                   \/ ServerApprove(s) \/ ServerDeny(s)
                   \/ \E c \in Channels : ServerLeave(s, c)
                   \/ \E c \in Channels, p \in Peers, n \in Names : ServerPeer(s, c, p, n)
                   \/ \E c \in Channels, p \in Peers : ServerPeerLeaves(s, c, p)
            PROVE  UNCHANGED asks
        BY <4>4 DEF ServerApprove, ServerDeny, ServerLeave, ServerPeer, ServerPeerLeaves
      <4> QED
        BY <2>7, <4>1, <4>2, <4>3, <4>4 DEF ServerStep, SocketTypes
    <3>4. \A t \in Sockets : Len(inbox'[t]) <= MaxInbox
      <4>1. ASSUME NEW s \in Sockets, NEW m, Send(s, m), Len(inbox[s]) < MaxInbox
            PROVE  \A t \in Sockets : Len(inbox'[t]) <= MaxInbox
        <5>1. Len(Append(inbox[s], m)) = Len(inbox[s]) + 1 /\ Len(inbox[s]) \in Nat
          BY DEF ListTypes
        <5>2. Len(Append(inbox[s], m)) <= MaxInbox
          BY <4>1, <5>1, ClientAssumption
        <5>3. \A t \in Sockets : inbox'[t] = IF t = s THEN Append(inbox[s], m) ELSE inbox[t]
          BY <4>1 DEF Send, StreamInv
        <5> QED BY <5>2, <5>3 DEF SocketTypes
      <4>2. ASSUME UNCHANGED inbox
            PROVE  \A t \in Sockets : Len(inbox'[t]) <= MaxInbox
        BY <4>2 DEF SocketTypes
      <4>3. ASSUME NEW s \in Sockets,
                   \/ ServerApprove(s) \/ ServerName(s)
                   \/ \E c \in Channels, peers \in PeerMaps : ServerJoin(s, c, peers)
                   \/ \E c \in Channels : ServerLeave(s, c)
                   \/ \E c \in Channels, p \in Peers, n \in Names : ServerPeer(s, c, p, n)
                   \/ \E c \in Channels, p \in Peers : ServerPeerLeaves(s, c, p)
            PROVE  Len(inbox[s]) < MaxInbox /\ \E m : Send(s, m)
        BY <4>3 DEF ServerApprove, ServerName, ServerJoin, ServerLeave, ServerPeer, ServerPeerLeaves,
                    CanSend
      <4>4. ASSUME NEW s \in Sockets,
                   \/ ServerDeny(s)
                   \/ \E what \in Channels \cup {"name"} : ServerRefuse(s, what)
            PROVE  UNCHANGED inbox
        BY <4>4 DEF ServerDeny, ServerRefuse
      <4>5. ASSUME name \/ \E c \in Channels : join(c)
            PROVE  UNCHANGED inbox
        BY <4>5 DEF name, join
      <4> QED BY <2>7, <4>1, <4>2, <4>3, <4>4, <4>5 DEF ServerStep
    <3> QED BY <3>1, <3>2, <3>3, <3>4 DEF SocketTypes
  <2>8. CASE DatagramStep
    <3>1. asks' = asks
      BY <2>8 DEF DatagramStep, TimerFires, udphellotick, HelloArrives, WelcomeArrives, LoseHello,
                  LoseWelcome, serverVars
    <3> QED BY <2>8, <3>1, DatagramSteps DEF SocketTypes, streamVars
  <2>9. ASSUME NEW s \in Sockets, NEW k \in 0 .. MaxInbox, NEW part \in BOOLEAN,
               handlerreceive(s, k, part)
        PROVE  SocketTypes'
    <3>1. /\ UNCHANGED <<socket, leaving, state, session, asks>>
          /\ inbox' = [inbox EXCEPT ![s] = SubSeq(@, k + 1, Len(@))]
          /\ k <= Len(inbox[s])
      BY <2>9 DEF handlerreceive, streamVars
    <3>2. inbox[s] \in Seq(Message) /\ k \in Nat
      BY DEF ListTypes
    <3>3. Len(SubSeq(inbox[s], k + 1, Len(inbox[s]))) <= Len(inbox[s]) /\ Len(inbox[s]) \in Nat
      BY <3>1, <3>2
    <3>4. Len(SubSeq(inbox[s], k + 1, Len(inbox[s]))) <= MaxInbox
      <4>1. Len(SubSeq(inbox[s], k + 1, Len(inbox[s]))) \in Nat
        BY <3>1, <3>2
      <4> QED BY <3>3, <4>1, ClientAssumption DEF SocketTypes
    <3>5. \A t \in Sockets : Len(inbox'[t]) <= MaxInbox
      BY <3>1, <3>4 DEF SocketTypes, StreamInv
    <3> QED BY <3>1, <3>5 DEF SocketTypes
  <2>10. CASE messagehandler
    <3>1. UNCHANGED <<socket, leaving, state, session, inbox, asks>>
      BY <2>10 DEF messagehandler, ConnectResponse, ConnectResponse_SaysHello,
                   ConnectResponse_StartsTimer, NameResponse, JoinResponse, LeaveResponse,
                   PeerMessage, PeerGone, NextMessage, Handling, streamVars, serverVars
    <3> QED BY <3>1 DEF SocketTypes
  <2>11. ASSUME NEW s \in Sockets, UdpWelcome(s)
         PROVE  SocketTypes'
    BY <2>11 DEF UdpWelcome, SocketTypes, streamVars, serverVars
  <2>12. CASE UNCHANGED vars
    BY <2>12 DEF vars, SocketTypes, streamVars, serverVars
  <2> QED
    BY <2>1, <2>2, <2>3, <2>5, <2>6, <2>6a, <2>7, <2>8, <2>9, <2>10, <2>11, <2>12
    DEF Next, ServerStep, DatagramStep, Disconnecting
<1> QED
  BY <1>1, <1>2, StreamsHold, ListTypesHold, PTL DEF Spec

(* Every variable keeps its type, the current socket is the newest and was *)
(* not closed, and the caps on messages and ticks hold.                    *)
THEOREM TypeCorrect == Spec => []TypeOK
<1>1. StreamInv /\ ListTypes /\ FlagTypes /\ UdpTypes /\ SocketTypes /\ TicksTyped => TypeOK
  BY DEF StreamInv, ListTypes, FlagTypes, UdpTypes, SocketTypes, TicksTyped, TypeOK, States, Entry
<1> QED
  BY <1>1, StreamsHold, ListTypesHold, FlagTypesHold, UdpTypesHold, SocketTypesHold, TicksBounded, PTL
=============================================================================
