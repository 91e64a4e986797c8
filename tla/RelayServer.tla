---------------------------- MODULE RelayServer ----------------------------
(***************************************************************************)
(* The relay server of Lacewing/RelayServer.cc: connections, names,        *)
(* channels and who is on them.                                            *)
(*                                                                         *)
(* Every handler runs to its end on the event pump's thread, so a handler  *)
(* is one action.  Requests that an application may decide on (connect,    *)
(* set name, join, leave, relayed messages) are two: the request, which    *)
(* calls the application's handler, and the application's answer           *)
(* (connect_response and the like).  The bundled application answers       *)
(* inside its handler (Deferred = FALSE: nothing comes between the two);   *)
(* the library also allows an answer from a later call stack               *)
(* (Deferred = TRUE: anything may come between the two).                   *)
(*                                                                         *)
(* Clients and Channels are the client and channel objects; an object that *)
(* nothing references has been destroyed and can be made anew.  Names are  *)
(* client names and Lower folds their case.  Channel names are compared    *)
(* without regard to case only, so ChannelNames holds folded names.        *)
(*                                                                         *)
(* chview and peerview are what the messages sent to a client over its TCP *)
(* stream tell it: the channels it is on and, for each, the ID and name of *)
(* every peer.  They change exactly where the code sends, and are dropped  *)
(* once the server has stopped talking to the client.                      *)
(***************************************************************************)
EXTENDS Integers, FiniteSets

CONSTANTS Clients, Channels, Names, ChannelNames,
          Lower,        \* Lower[n] is the name n in lower case
          None,         \* no client, no channel, no name
          Slots,        \* room for requests the application has not answered
          Deferred,     \* may the application answer after its handler returned?
          MayCreate     \* does the application call createchannel() itself?

ASSUME RelayAssumption ==
    /\ Lower \in [Names -> Names]
    /\ None \notin Clients \cup Channels \cup Names \cup ChannelNames
    /\ Deferred \in BOOLEAN /\ MayCreate \in BOOLEAN
    /\ IsFiniteSet(Clients) /\ IsFiniteSet(Channels)

VARIABLES
    hosting,    \* the listening socket is open
    unhosting,  \* which loop of unhost() is running: "no", "clients", "channels"
    clients,    \* relayserverinternal::clients
    approved,   \* client::connectRequestApproved
    readonly,   \* client::_readonly
    cname,      \* client::_name, None while empty
    cid,        \* client::_id
    joined,     \* client::channels
    channels,   \* relayserverinternal::channels
    closed,     \* channel::_readonly
    chname,     \* channel::_name
    members,    \* channel::clients
    master,     \* channel::_channelmaster
    autoclose,  \* channel::_autoclose
    chid,       \* channel::_id
    pending,    \* the unanswered requests
    chview, peerview

serverVars  == <<hosting, unhosting>>
clientVars  == <<clients, approved, readonly, cname, cid>>
channelVars == <<channels, closed, chname, members, master, autoclose, chid, joined>>
viewVars    == <<chview, peerview>>
vars == <<serverVars, clientVars, channelVars, pending, viewVars>>

(* The ID of an object that does not exist (RelayServer.cc line 2116). *)
NoID == 65535

NoRequest == [type |-> "none"]

RequestTypes == {"connect", "name", "join", "leave", "message", "peer"}

Request == [type : RequestTypes, cl : Clients, ch : Channels \cup {None},
            name : Names \cup {None}, to : Clients \cup {None}]

Waiting == {pending[s] : s \in {t \in Slots : pending[t] # NoRequest}}

(* The objects something still references by a shared_ptr.  A channel in a *)
(* client's own list is also in the server's (MembershipSymmetric).        *)
LiveChannels == channels \cup {r.ch : r \in {q \in Waiting : q.ch # None}}
LiveClients  == clients \cup {r.cl : r \in Waiting}
                        \cup {r.to : r \in {q \in Waiting : q.to # None}}
                        \cup {master[ch] : ch \in {x \in LiveChannels : master[x] # None}}
                        \cup UNION {members[ch] : ch \in LiveChannels}

(* The clients that are still sent messages. *)
Talking == {c \in clients : ~readonly[c]}

(* The pump thread is free to take the next event. *)
Idle == /\ unhosting = "no"
        /\ Deferred \/ \A s \in Slots : pending[s] = NoRequest

Init == /\ hosting = TRUE
        /\ unhosting = "no"
        /\ clients = {}
        /\ approved = [c \in Clients |-> FALSE]
        /\ readonly = [c \in Clients |-> FALSE]
        /\ cname = [c \in Clients |-> None]
        /\ cid = [c \in Clients |-> NoID]
        /\ joined = [c \in Clients |-> {}]
        /\ channels = {}
        /\ closed = [ch \in Channels |-> FALSE]
        /\ chname = [ch \in Channels |-> None]
        /\ members = [ch \in Channels |-> {}]
        /\ master = [ch \in Channels |-> None]
        /\ autoclose = [ch \in Channels |-> FALSE]
        /\ chid = [ch \in Channels |-> NoID]
        /\ pending = [s \in Slots |-> NoRequest]
        /\ chview = [c \in Clients |-> {}]
        /\ peerview = [c \in Clients |-> {}]

(***************************************************************************)
(* IDs.  Each object borrows one in its constructor and its destructor     *)
(* returns it; IDPool lends the lowest that is free (PoolRefinement).      *)
(***************************************************************************)

(* Fault: the next ID is one past the number in use. *)
LowestFree_Next(used) == Cardinality(used) + 1

LowestFree(used) ==
    CHOOSE n \in 0 .. Cardinality(used) : n \notin used /\ \A m \in 0 .. (n - 1) : m \in used

(***************************************************************************)
(* How every handler that can drop a reference ends: objects whose last    *)
(* reference is gone are destroyed (their attributes are reset), the rest  *)
(* get the values the handler gave them.                                   *)
(***************************************************************************)
Destructors(approved1, readonly1, cname1, closed1) ==
    LET cs  == LiveClients'
        chs == LiveChannels'
    IN  /\ approved'  = [c \in Clients |-> c \in cs /\ approved1[c]]
        /\ readonly'  = [c \in Clients |-> c \in cs /\ readonly1[c]]
        /\ cname'     = [c \in Clients |-> IF c \in cs THEN cname1[c] ELSE None]
        /\ cid'       = [c \in Clients |-> IF c \in cs THEN cid[c] ELSE NoID]
        /\ closed'    = [ch \in Channels |-> ch \in chs /\ closed1[ch]]
        /\ chname'    = [ch \in Channels |-> IF ch \in chs THEN chname[ch] ELSE None]
        /\ autoclose' = [ch \in Channels |-> ch \in chs /\ autoclose[ch]]
        /\ chid'      = [ch \in Channels |-> IF ch \in chs THEN chid[ch] ELSE NoID]

DropReferences == Destructors(approved, readonly, cname, closed)

Queue(type, c, ch, n, d) ==
    \E s \in Slots :
        /\ pending[s] = NoRequest
        /\ pending' = [pending EXCEPT ![s] =
                         [type |-> type, cl |-> c, ch |-> ch, name |-> n, to |-> d]]

(* The request of slot s is answered.  The answer is a call on the pump    *)
(* thread, so unhost() is not running.                                     *)
Answer(s, type) ==
    /\ unhosting = "no"
    /\ pending[s].type = type
    /\ pending' = [pending EXCEPT ![s] = NoRequest]

(***************************************************************************)
(* Leaving and closing.                                                    *)
(***************************************************************************)

(* Fault: a channel with nobody left on it is kept. *)
Closing_KeepsEmpty(c, open) ==
    {ch \in open : master[ch] = c /\ autoclose[ch]}

(* Fault: peers are not told of the departure of a client that is closing. *)
ToldOfDeparture_UnlessClosing(d, c, ch) ==
    c \in clients' /\ d \in members[ch]

(* Fault: close_channel forgets the lists of the members other than the    *)
(* one that leaves.                                                        *)
DropsChannel_OnlyLeaver(d, c, ch) == d = c

(* Of the channels that c leaves, those that close: nobody is left on      *)
(* them, or their master leaves and autoclose is on.                       *)
Closing(c, open) ==
    {ch \in open : members[ch] \ {c} = {} \/ (master[ch] = c /\ autoclose[ch])}

(* channel_removeclient sends a Peer message without a name to every       *)
(* client still on ch.                                                     *)
ToldOfDeparture(d, c, ch) == d \in members[ch] \ {c}

(* close_channel takes ch out of the list of each client on it;            *)
(* channel_removeclient has done it for c.                                 *)
DropsChannel(d, c, ch) == d = c \/ d \in members[ch]

MasterAfter(c, ch) == IF master[ch] = c THEN None ELSE master[ch]

(* c leaves the channels in staying, and those in closing close.           *)
LeaveAndClose(c, staying, closing) ==
    /\ members' = [ch \in Channels |-> IF ch \in closing THEN {}
                                       ELSE IF ch \in staying THEN members[ch] \ {c}
                                       ELSE members[ch]]
    /\ joined' = [d \in Clients |-> {ch \in joined[d] :
                                       /\ ~(ch \in closing /\ DropsChannel(d, c, ch))
                                       /\ ~(ch \in staying /\ d = c)}]
    /\ master' = [ch \in Channels |-> IF ch \in closing THEN None
                                      ELSE IF ch \in staying THEN MasterAfter(c, ch)
                                      ELSE master[ch]]
    /\ channels' = channels \ closing
    /\ LET left(d) == {chid[ch] : ch \in {x \in closing : d \in members[x]}
                                    \cup {x \in staying : d = c /\ c \in members[x]}}
           told(d) == {chid[ch] : ch \in {x \in staying : ToldOfDeparture(d, c, x)}}
           sent    == Talking \cap clients'
       IN  /\ chview' = [d \in Clients |-> IF d \in sent THEN chview[d] \ left(d) ELSE {}]
           /\ peerview' = [d \in Clients |->
                 IF d \in sent
                 THEN {t \in peerview[d] : /\ t[1] \notin left(d)
                                           /\ ~(t[1] \in told(d) /\ t[2] = cid[c])}
                 ELSE {}]

Mark(f, S) == [x \in DOMAIN f |-> f[x] \/ x \in S]

(* channel_removeclient(ch, c) for every ch in left, with the              *)
(* close_channel calls it makes; readonly1 is the clients' new _readonly.  *)
channel_removeclient(c, left, readonly1) ==
    LET open    == {ch \in left : ~closed[ch]}
        closing == Closing(c, open)
    IN  /\ LeaveAndClose(c, open \ closing, closing)
        /\ Destructors(approved, readonly1, cname, Mark(closed, closing))

(***************************************************************************)
(* Connecting.                                                             *)
(***************************************************************************)

(* generic_handlerconnect, once the limits per address are passed. *)
Connect(c) ==
    /\ Idle
    /\ hosting
    /\ c \in Clients \ LiveClients
    /\ clients' = clients \cup {c}
    /\ cid' = [cid EXCEPT ![c] = LowestFree({cid[d] : d \in LiveClients})]
    /\ UNCHANGED <<serverVars, approved, readonly, cname, channelVars, pending, viewVars>>

ConnectRequest(c) ==
    /\ Idle
    /\ c \in clients
    /\ ~approved[c]
    /\ Queue("connect", c, None, None, None)
    /\ UNCHANGED <<serverVars, clientVars, channelVars, viewVars>>

(* A client that was booted, or disconnected, meanwhile is left alone.     *)
(* disconnect() after a denial makes the client readonly.                  *)
connect_response(s, approve) ==
    /\ Answer(s, "connect")
    \* Nobody joins a channel before approval, so there is no view to drop.
    /\ UNCHANGED <<serverVars, clients, channels, members, master, joined, viewVars>>
    /\ LET c  == pending[s].cl
           ok == approve /\ hosting
           answered == {d \in {c} : ~readonly[c] /\ ~approved[c]}
       IN  Destructors(IF ok THEN Mark(approved, answered) ELSE approved,
                       IF ok THEN readonly ELSE Mark(readonly, answered), cname, closed)

(* The server stops talking to c and asks for its socket to be closed: a   *)
(* malformed or premature message, a missed ping, or a call of disconnect(). *)
Boot(c) ==
    /\ Idle
    /\ c \in Talking
    /\ readonly' = [readonly EXCEPT ![c] = TRUE]
    /\ chview' = [chview EXCEPT ![c] = {}]
    /\ peerview' = [peerview EXCEPT ![c] = {}]
    /\ UNCHANGED <<serverVars, clients, approved, cname, cid, channelVars, pending>>

(* generic_handlerdisconnect and close_client. *)
Dropped(c) ==
    /\ clients' = clients \ {c}
    /\ UNCHANGED pending
    /\ channel_removeclient(c, joined[c], Mark(readonly, {c}))

Disconnect(c) ==
    /\ Idle
    /\ c \in clients
    /\ Dropped(c)
    /\ UNCHANGED serverVars

(***************************************************************************)
(* Names.                                                                  *)
(***************************************************************************)

(* Fault: names are compared with regard to case. *)
checkname_CaseSensitive(c, n) == \A d \in Talking \ {c} : cname[d] # n

(* Case is folded, and a client's own name does not count. *)
checkname(c, n) ==
    \A d \in Talking \ {c} : cname[d] # None => Lower[cname[d]] # Lower[n]

SetNameRequest(c, n) ==
    /\ Idle
    /\ c \in clients
    /\ approved[c]
    /\ checkname(c, n)
    /\ Queue("name", c, None, n, None)
    /\ UNCHANGED <<serverVars, clientVars, channelVars, viewVars>>

(* A Peer message with a name: a new peer, or a known one's new name. *)
WithPeer(view, id, pid, n) == {t \in view : t[1] # id \/ t[2] # pid} \cup {<<id, pid, n>>}

(* The views once every peer of c has been sent c's new name, channel by   *)
(* channel.                                                                *)
Renamed(c, n) ==
    [d \in Clients |->
        IF d = c THEN peerview[d]
        ELSE LET ids == {chid[ch] : ch \in {x \in joined[c] : d \in members[x]}}
             IN  IF d \in Talking
                 THEN {t \in peerview[d] : t[1] \notin ids \/ t[2] # cid[c]}
                        \cup {<<id, cid[c], n>> : id \in ids}
                 ELSE peerview[d]]

(* Fault: the name is not checked again. *)
NameAccepted_Unchecked(s, n) ==
    LET c == pending[s].cl
    IN  /\ ~readonly[c]
        /\ cname[c] # n
        /\ Destructors(approved, readonly, [cname EXCEPT ![c] = n], closed)
        /\ peerview' = Renamed(c, n)
        /\ UNCHANGED chview

(* The application accepts the name asked for, or another of its choice:   *)
(* it is checked again.                                                    *)
NameAccepted(s, n) ==
    LET c == pending[s].cl
    IN  /\ ~readonly[c]
        /\ cname[c] # n
        /\ checkname(c, n)
        /\ Destructors(approved, readonly, [cname EXCEPT ![c] = n], closed)
        /\ peerview' = Renamed(c, n)
        /\ UNCHANGED chview

(* Denied by the application, already the client's name, taken meanwhile,  *)
(* or the client is no longer talked to.                                   *)
NameRefused == DropReferences /\ UNCHANGED viewVars

nameset_response(s) ==
    /\ Answer(s, "name")
    /\ UNCHANGED <<serverVars, clients, channels, members, master, joined>>
    /\ \/ NameRefused
       \/ \E n \in (IF Deferred THEN Names ELSE {pending[s].name}) : NameAccepted(s, n)

(***************************************************************************)
(* Channels.                                                               *)
(***************************************************************************)

(* Fault: channels without a master are passed over. *)
ChannelsNamed_Mastered(n) == {x \in channels : chname[x] = n /\ master[x] # None}

ChannelsNamed(n) == {x \in channels : chname[x] = n}

(* Join Channel for a name no listed channel has: the channel object is    *)
(* made now, with its ID and master, and listed when the join is accepted. *)
JoinNewRequest(c, ch, n, auto) ==
    /\ Idle
    /\ c \in clients
    /\ approved[c]
    /\ ChannelsNamed(n) = {}
    /\ ch \in Channels \ LiveChannels
    /\ Queue("join", c, ch, None, None)
    /\ chname' = [chname EXCEPT ![ch] = n]
    /\ master' = [master EXCEPT ![ch] = c]
    /\ autoclose' = [autoclose EXCEPT ![ch] = auto]
    /\ chid' = [chid EXCEPT ![ch] = LowestFree({chid[x] : x \in LiveChannels})]
    /\ UNCHANGED <<serverVars, clientVars, channels, closed, members, joined, viewVars>>

(* Join Channel for a listed channel.  A member is told at once that it is *)
(* on the channel already.                                                 *)
JoinRequest(c, ch) ==
    /\ Idle
    /\ c \in clients
    /\ approved[c]
    /\ ch \in channels
    /\ c \notin members[ch]
    /\ Queue("join", c, ch, None, None)
    /\ UNCHANGED <<serverVars, clientVars, channelVars, viewVars>>

(* Faults: a channel that closed, or a client that went, while the request *)
(* waited is joined all the same.                                          *)
MayJoin_Closed(c, ch) == c \notin members[ch] /\ ~readonly[c]
MayJoin_Gone(c, ch) == ~closed[ch] /\ c \notin members[ch]

(* joinchannel_response turns a join down if this is false. *)
MayJoin(c, ch) == ~closed[ch] /\ c \notin members[ch] /\ ~readonly[c]

(* Fault: the members are not told of the newcomer. *)
Newcomer_Unannounced(c, ch) == peerview

(* The Peer messages channel_addclient sends to the members. *)
Newcomer(c, ch) ==
    [d \in Clients |-> IF d \in members[ch] /\ d \in Talking
                       THEN WithPeer(peerview[d], chid[ch], cid[c], cname[c])
                       ELSE peerview[d]]

(* Joins ch: listing it if it is new, then channel_addclient. *)
channel_addclient(c, ch) ==
    /\ channels' = channels \cup {ch}
    /\ members' = [members EXCEPT ![ch] = @ \cup {c}]
    /\ joined' = [joined EXCEPT ![c] = @ \cup {ch}]
    /\ chview' = [chview EXCEPT ![c] = @ \cup {chid[ch]}]
    /\ peerview' = [Newcomer(c, ch) EXCEPT ![c] =
                      {t \in @ : t[1] # chid[ch]}
                        \cup {<<chid[ch], cid[d], cname[d]>> : d \in members[ch]}]
    /\ UNCHANGED master

joinchannel_response(s, approve) ==
    /\ Answer(s, "join")
    /\ LET c == pending[s].cl
           ch == pending[s].ch
       IN  IF approve /\ MayJoin(c, ch)
           THEN channel_addclient(c, ch)
           ELSE UNCHANGED <<channels, members, joined, master, viewVars>>
    /\ UNCHANGED <<serverVars, clients>>
    /\ DropReferences

(* Fault: the channel is looked up among all of the server's channels. *)
readchannel_AnyListed(c) == channels

(* The channels that an ID in a message of c can stand for. *)
readchannel(c) == joined[c]

LeaveRequest(c, ch) ==
    /\ Idle
    /\ c \in clients
    /\ approved[c]
    /\ ch \in readchannel(c)
    /\ Queue("leave", c, ch, None, None)
    /\ UNCHANGED <<serverVars, clientVars, channelVars, viewVars>>

(* Note that c may have left, or been disconnected, since it asked. *)
leavechannel_response(s, approve) ==
    /\ Answer(s, "leave")
    /\ UNCHANGED <<serverVars, clients>>
    /\ IF approve
       THEN channel_removeclient(pending[s].cl, {pending[s].ch}, readonly)
       ELSE UNCHANGED <<channels, members, joined, master, viewVars>> /\ DropReferences

(* channel::close(), called by the application. *)
CloseChannel(ch) ==
    /\ Idle
    /\ ch \in channels
    /\ UNCHANGED <<serverVars, clients, pending>>
    /\ LeaveAndClose(None, {}, {ch})
    /\ Destructors(approved, readonly, cname, Mark(closed, {ch}))

(* createchannel(), called by the application.  It holds the channel's     *)
(* write lock, so the read lock joinchannel_response takes on it is not a  *)
(* lock of its own, and releasing that throws once the channel is listed   *)
(* (RelayServer.cc line 2483): the master is never added.  Channel names   *)
(* are not compared.  With a readonly master nothing is listed.            *)
createchannel(c, ch, n, auto) ==
    /\ MayCreate
    /\ Idle
    /\ c \in Talking
    /\ approved[c]
    /\ ch \in Channels \ LiveChannels
    /\ channels' = channels \cup {ch}
    /\ chname' = [chname EXCEPT ![ch] = n]
    /\ master' = [master EXCEPT ![ch] = c]
    /\ autoclose' = [autoclose EXCEPT ![ch] = auto]
    /\ chid' = [chid EXCEPT ![ch] = LowestFree({chid[x] : x \in LiveChannels})]
    /\ UNCHANGED <<serverVars, clientVars, closed, members, joined, pending, viewVars>>

(***************************************************************************)
(* Relayed messages.  They change no state; what matters is who may send   *)
(* one to whom.                                                            *)
(***************************************************************************)

ChannelMessage(c, ch) ==
    /\ Idle
    /\ c \in clients
    /\ approved[c]
    /\ ch \in readchannel(c)
    /\ Queue("message", c, ch, None, None)
    /\ UNCHANGED <<serverVars, clientVars, channelVars, viewVars>>

PeerMessage(c, ch, d) ==
    /\ Idle
    /\ c \in clients
    /\ approved[c]
    /\ ch \in readchannel(c)
    /\ d \in members[ch] \ {c}
    /\ Queue("peer", c, ch, None, d)
    /\ UNCHANGED <<serverVars, clientVars, channelVars, viewVars>>

(* channelmessage_permit and clientmessage_permit. *)
MessagePermit(s) ==
    /\ Answer(s, "message") \/ Answer(s, "peer")
    /\ UNCHANGED <<serverVars, clients, channels, members, joined, master, viewVars>>
    /\ DropReferences

(* The clients a permitted message r goes to. *)
Recipients(r) ==
    CASE r.type = "message" -> IF closed[r.ch] \/ readonly[r.cl] THEN {}
                               ELSE {d \in members[r.ch] \ {r.cl} : ~readonly[d]}
      [] r.type = "peer"    -> IF closed[r.ch] THEN {} ELSE {d \in {r.to} : ~readonly[d]}

(***************************************************************************)
(* Hosting.  lw_server_unhost closes every client's socket, each of which  *)
(* runs generic_handlerdisconnect before the next; relayserver::unhost     *)
(* then closes channels for as long as any is listed.                      *)
(***************************************************************************)

Unhost ==
    /\ Idle
    /\ hosting
    /\ hosting' = FALSE
    /\ unhosting' = "clients"
    /\ UNCHANGED <<clientVars, channelVars, pending, viewVars>>

UnhostClient(c) ==
    /\ unhosting = "clients"
    /\ c \in clients
    /\ Dropped(c)
    /\ UNCHANGED serverVars

UnhostClientsDone ==
    /\ unhosting = "clients"
    /\ clients = {}
    /\ unhosting' = "channels"
    /\ UNCHANGED <<hosting, clientVars, channelVars, pending, viewVars>>

(* unhost() sets _readonly itself, so close_channel returns at once. *)
UnhostChannel(ch) ==
    /\ unhosting = "channels"
    /\ ch \in channels
    /\ closed' = [closed EXCEPT ![ch] = TRUE]
    /\ UNCHANGED <<serverVars, clientVars, channels, chname, members, master, autoclose,
                   chid, joined, pending, viewVars>>

UnhostDone ==
    /\ unhosting = "channels"
    /\ channels = {}
    /\ unhosting' = "no"
    /\ UNCHANGED <<hosting, clientVars, channelVars, pending, viewVars>>

Host ==
    /\ Idle
    /\ ~hosting
    /\ hosting' = TRUE
    /\ UNCHANGED <<unhosting, clientVars, channelVars, pending, viewVars>>

UnhostStep ==
    \/ \E c \in Clients : UnhostClient(c)
    \/ UnhostClientsDone
    \/ \E ch \in Channels : UnhostChannel(ch)
    \/ UnhostDone

Next ==
    \/ \E c \in Clients : Connect(c) \/ ConnectRequest(c) \/ Boot(c) \/ Disconnect(c)
    \/ \E c \in Clients, n \in Names : SetNameRequest(c, n)
    \/ \E c \in Clients, ch \in Channels, n \in ChannelNames, auto \in BOOLEAN :
          JoinNewRequest(c, ch, n, auto) \/ createchannel(c, ch, n, auto)
    \/ \E c \in Clients, ch \in Channels :
          JoinRequest(c, ch) \/ LeaveRequest(c, ch) \/ ChannelMessage(c, ch)
    \/ \E c, d \in Clients, ch \in Channels : PeerMessage(c, ch, d)
    \/ \E s \in Slots, approve \in BOOLEAN :
          \/ connect_response(s, approve)
          \/ joinchannel_response(s, approve)
          \/ leavechannel_response(s, approve)
    \/ \E s \in Slots : nameset_response(s) \/ MessagePermit(s)
    \/ \E ch \in Channels : CloseChannel(ch)
    \/ Unhost
    \/ UnhostStep
    \/ Host

Spec == Init /\ [][Next]_vars

(* Nothing but its own loops holds unhost() up. *)
FairSpec == Spec /\ WF_vars(UnhostStep)

(***************************************************************************)
(* Properties.                                                             *)
(***************************************************************************)

(* Each variable holds what the code's types allow, and the IDs in use     *)
(* stay below the number of objects that ever live at once: none leaks.    *)
TypeOK ==
    /\ hosting \in BOOLEAN
    /\ unhosting \in {"no", "clients", "channels"}
    /\ clients \subseteq Clients
    /\ approved \in [Clients -> BOOLEAN]
    /\ readonly \in [Clients -> BOOLEAN]
    /\ cname \in [Clients -> Names \cup {None}]
    /\ cid \in [Clients -> 0 .. (Cardinality(Clients) - 1) \cup {NoID}]
    /\ joined \in [Clients -> SUBSET Channels]
    /\ channels \subseteq Channels
    /\ closed \in [Channels -> BOOLEAN]
    /\ chname \in [Channels -> ChannelNames \cup {None}]
    /\ members \in [Channels -> SUBSET Clients]
    /\ master \in [Channels -> Clients \cup {None}]
    /\ autoclose \in [Channels -> BOOLEAN]
    /\ chid \in [Channels -> 0 .. (Cardinality(Channels) - 1) \cup {NoID}]
    /\ pending \in [Slots -> Request \cup {NoRequest}]
    /\ \A c \in Clients : chview[c] \subseteq Nat /\ peerview[c] \subseteq Nat \X Nat \X (Names \cup {None})

(* client::channels and channel::clients, two lists that several handlers  *)
(* edit by hand, never disagree; and only connected clients are on them.   *)
MembershipSymmetric ==
    /\ \A c \in Clients, ch \in Channels : ch \in joined[c] <=> c \in members[ch]
    /\ \A ch \in Channels : members[ch] \subseteq clients

(* A channel somebody is on is listed and open, so close_client never      *)
(* meets the closed one that would call LacewingFatalErrorMsgBox.          *)
JoinedIsOpen ==
    \A ch \in Channels : members[ch] # {} => ch \in channels /\ ~closed[ch]

(* A listed channel is open and has somebody on it; its master, if any, is *)
(* one of them (channel_removeclient closes or clears it otherwise).       *)
ListedIsInhabited ==
    \A ch \in channels :
        ~closed[ch] /\ members[ch] # {} /\ master[ch] \in members[ch] \cup {None}

(* No two listed channels share a name: the second client to join a name   *)
(* lands on the first one's channel.                                       *)
ChannelNamesUnique ==
    \A x, y \in channels : chname[x] = chname[y] => x = y

(* No two clients the server talks to share a name, in whatever case,      *)
(* although the name asked for is checked some time before it is set.      *)
NamesUnique ==
    \A c, d \in Talking :
        cname[c] # None /\ cname[d] # None /\ Lower[cname[c]] = Lower[cname[d]] => c = d

(* The messages a client has been sent add up to the truth: the channels   *)
(* it is on and, on each, its peers' IDs and names.                        *)
ViewAgrees ==
    \A c \in Talking :
        /\ chview[c] = {chid[ch] : ch \in joined[c]}
        /\ peerview[c] = UNION {{<<chid[ch], cid[d], cname[d]>> : d \in members[ch] \ {c}} :
                                   ch \in joined[c]}

(* Whoever a relayed message goes to knows the peer, by ID and name, that  *)
(* it comes from.                                                          *)
MessageAttributable ==
    \A r \in Waiting : r.type \in {"message", "peer"} =>
        \A d \in Recipients(r) : <<chid[r.ch], cid[r.cl], cname[r.cl]>> \in peerview[d]

(* unhost() returns: both of its loops end. *)
UnhostEnds == (unhosting # "no") ~> (unhosting = "no")
============================================================================
