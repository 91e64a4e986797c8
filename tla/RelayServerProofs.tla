------------------------- MODULE RelayServerProofs -------------------------
(***************************************************************************)
(* The relay server, for any number of clients, channels and unanswered    *)
(* requests.  Each part adds a conjunct to the inductive invariant:        *)
(*                                                                         *)
(*   MemberInv   the two membership lists, and that a client who went is   *)
(*               readonly for as long as a request keeps its object;       *)
(*   NameInv     names, and that a new client object has none;             *)
(*   IdInv       an ID is its object's own while anything references it;   *)
(*   AskedInv    only approved clients ask to join, or are on a channel;   *)
(*   ViewInv     what a client has been told, for every client: one the    *)
(*               server does not talk to has been told nothing.            *)
(*                                                                         *)
(* They hold whenever the application answers and whatever it creates.     *)
(* AloneInv and NamedInv are for an application that answers inside its    *)
(* handlers (Deferred = FALSE), NamedInv and HostedInv for one that makes  *)
(* no channel itself (MayCreate = FALSE); without that the code does not   *)
(* promise what they show.                                                 *)
(***************************************************************************)
EXTENDS RelayServer, IDPool, FiniteSetTheorems, WellFoundedInduction, TLAPS

(***************************************************************************)
(* Membership.  MembershipSymmetric and JoinedIsOpen are not inductive: a  *)
(* join that is approved late must find its client still connected, which  *)
(* holds because a client that went was made readonly first; and the loop  *)
(* of unhost() that marks channels closed must find nobody on them.        *)
(***************************************************************************)

Shape ==
    /\ clients \subseteq Clients
    /\ channels \subseteq Channels
    /\ readonly \in [Clients -> BOOLEAN]
    /\ closed \in [Channels -> BOOLEAN]
    /\ members \in [Channels -> SUBSET Clients]
    /\ joined \in [Clients -> SUBSET Channels]
    /\ pending \in [Slots -> Request \cup {NoRequest}]
    /\ \A s \in Slots : pending[s].type = "join" => pending[s].ch \in Channels

(* A client with a request that is gone is readonly. *)
GoneIsReadonly ==
    \A s \in Slots : pending[s] # NoRequest =>
        pending[s].cl \in clients \/ readonly[pending[s].cl]

(* unhost() gets to the channels only when no client is left. *)
ChannelsLast == unhosting = "channels" => clients = {}

MemberInv == Shape /\ MembershipSymmetric /\ JoinedIsOpen /\ GoneIsReadonly /\ ChannelsLast

coreVars == <<clients, channels, readonly, closed, members, joined>>

USE RelayAssumption

(***************************************************************************)
(* Requests and objects.                                                   *)
(***************************************************************************)

LEMMA RequestFields ==
    /\ NoRequest \notin Request
    /\ NoRequest.type = "none"
    /\ \A r \in Request : /\ r.type \in RequestTypes /\ r.cl \in Clients
                          /\ r.ch \in Channels \cup {None}
BY DEF NoRequest, Request, RequestTypes

(* A request keeps its client's object alive. *)
LEMMA RequestLive ==
    /\ \A s \in Slots : pending[s] # NoRequest => pending[s].cl \in LiveClients
    /\ \A s \in Slots : pending'[s] # NoRequest => pending'[s].cl \in LiveClients'
BY DEF LiveClients, Waiting

(* Queueing a request of a connected client. *)
LEMMA QueueInv ==
    ASSUME MemberInv, NEW type \in RequestTypes, NEW c \in clients, NEW ch \in Channels \cup {None},
           NEW n \in Names \cup {None}, NEW d \in Clients \cup {None},
           type = "join" => ch \in Channels,
           Queue(type, c, ch, n, d), UNCHANGED <<coreVars, unhosting>>
    PROVE  MemberInv'
<1> DEFINE r == [type |-> type, cl |-> c, ch |-> ch, name |-> n, to |-> d]
<1>1. PICK s \in Slots : pending' = [pending EXCEPT ![s] = r]
  BY DEF Queue
<1>2. r \in Request /\ r.cl = c /\ r.type = type /\ r.ch = ch
  BY DEF Request, MemberInv, Shape
<1> HIDE DEF r
<1>3. Shape'
  BY <1>1, <1>2 DEF MemberInv, Shape, coreVars
<1>4. GoneIsReadonly'
  BY <1>1, <1>2 DEF MemberInv, Shape, GoneIsReadonly, coreVars
<1>5. MembershipSymmetric' /\ JoinedIsOpen' /\ ChannelsLast'
  BY DEF MemberInv, MembershipSymmetric, JoinedIsOpen, ChannelsLast, coreVars
<1> QED BY <1>3, <1>4, <1>5 DEF MemberInv

(* What answering one request leaves of the others. *)
LEMMA AnswerFacts ==
    ASSUME MemberInv, NEW s \in Slots, NEW type \in RequestTypes, Answer(s, type)
    PROVE  /\ unhosting = "no"
           /\ pending[s] \in Request /\ pending[s].type = type
           /\ pending' \in [Slots -> Request \cup {NoRequest}]
           /\ \A t \in Slots : pending'[t] # NoRequest => pending'[t] = pending[t]
           /\ \A t \in Slots : pending'[t].type = "join" => pending'[t].ch \in Channels
BY RequestFields DEF Answer, MemberInv, Shape, RequestTypes

(***************************************************************************)
(* The end of a handler.  Whoever has a request keeps the readonly flag    *)
(* the handler gave it, and no channel becomes closed but by the handler.  *)
(***************************************************************************)
LEMMA MarkType ==
    ASSUME NEW D, NEW f \in [D -> BOOLEAN], NEW S
    PROVE  Mark(f, S) \in [D -> BOOLEAN] /\ \A x \in D : Mark(f, S)[x] = (f[x] \/ x \in S)
BY DEF Mark

(* What Destructors does to the two flags. *)
Flags(ro, cl) ==
    /\ readonly' = [c \in Clients |-> c \in LiveClients' /\ ro[c]]
    /\ closed' = [ch \in Channels |-> ch \in LiveChannels' /\ cl[ch]]

(* Answers that move nobody on or off a channel. *)
LEMMA QuietAnswerInv ==
    ASSUME MemberInv, NEW s \in Slots, NEW type \in RequestTypes, Answer(s, type),
           UNCHANGED <<unhosting, clients, channels, members, joined>>,
           NEW ro \in [Clients -> BOOLEAN],
           \A c \in Clients : readonly[c] => ro[c],
           Flags(ro, closed)
    PROVE  MemberInv'
<1>1. /\ pending' \in [Slots -> Request \cup {NoRequest}]
      /\ \A t \in Slots : pending'[t] # NoRequest => pending'[t] = pending[t]
      /\ \A t \in Slots : pending'[t].type = "join" => pending'[t].ch \in Channels
  BY AnswerFacts
<1>2. /\ readonly' = [c \in Clients |-> c \in LiveClients' /\ ro[c]]
      /\ closed' = [ch \in Channels |-> ch \in LiveChannels' /\ closed[ch]]
  BY DEF Flags
<1>3. /\ readonly' \in [Clients -> BOOLEAN] /\ closed' \in [Channels -> BOOLEAN]
      /\ \A ch \in Channels : closed'[ch] => closed[ch]
      /\ \A t \in Slots : pending'[t] # NoRequest =>
            readonly'[pending'[t].cl] = ro[pending'[t].cl]
  BY <1>1, <1>2, RequestLive, RequestFields DEF MemberInv, Shape
<1>4. Shape'
  BY <1>1, <1>3 DEF MemberInv, Shape
<1>5. MembershipSymmetric' /\ ChannelsLast'
  BY DEF MemberInv, MembershipSymmetric, ChannelsLast
<1>6. JoinedIsOpen'
  BY <1>3 DEF MemberInv, JoinedIsOpen
<1>7. GoneIsReadonly'
  BY <1>1, <1>3, RequestFields DEF MemberInv, Shape, GoneIsReadonly
<1> QED BY <1>4, <1>5, <1>6, <1>7 DEF MemberInv

(***************************************************************************)
(* Leaving and closing.                                                    *)
(***************************************************************************)

LEMMA LeaveAndCloseFacts ==
    ASSUME Shape, MembershipSymmetric, NEW c \in Clients \cup {None}, NEW staying, NEW closing,
           c = None => staying = {},
           LeaveAndClose(c, staying, closing)
    PROVE  /\ channels' = channels \ closing
           /\ members' \in [Channels -> SUBSET Clients]
           /\ joined' \in [Clients -> SUBSET Channels]
           /\ \A d \in Clients, ch \in Channels : ch \in joined'[d] <=> d \in members'[ch]
           /\ \A ch \in Channels : /\ members'[ch] \subseteq members[ch]
                                   /\ ch \in closing => members'[ch] = {}
                                   /\ ch \in staying => c \notin members'[ch]
<1>1. /\ members' = [ch \in Channels |-> IF ch \in closing THEN {}
                                          ELSE IF ch \in staying THEN members[ch] \ {c}
                                          ELSE members[ch]]
      /\ joined' = [d \in Clients |-> {ch \in joined[d] :
                                       /\ ~(ch \in closing /\ (d = c \/ d \in members[ch]))
                                       /\ ~(ch \in staying /\ d = c)}]
      /\ channels' = channels \ closing
  BY DEF LeaveAndClose, DropsChannel
<1>2. members' \in [Channels -> SUBSET Clients] /\ joined' \in [Clients -> SUBSET Channels]
  BY <1>1 DEF Shape
<1>3. ASSUME NEW d \in Clients, NEW ch \in Channels
      PROVE  ch \in joined'[d] <=> d \in members'[ch]
  BY <1>1 DEF MembershipSymmetric
<1>4. ASSUME NEW ch \in Channels
      PROVE  /\ members'[ch] \subseteq members[ch]
             /\ ch \in closing => members'[ch] = {}
             /\ ch \in staying => c \notin members'[ch]
  BY <1>1
<1> QED BY <1>1, <1>2, <1>3, <1>4

(* A handler that ends a membership, or several, keeps the invariant: it   *)
(* closes the channels in closing and drops the clients in gone, none of   *)
(* whom is left on any channel.                                            *)
LEMMA LeavingInv ==
    ASSUME MemberInv, NEW c \in Clients \cup {None}, NEW staying, NEW closing, NEW gone,
           c = None => staying = {},
           LeaveAndClose(c, staying, closing),
           clients' = clients \ gone,
           gone \subseteq {c},
           gone # {} => \A ch \in Channels : c \in members[ch] => ch \in staying \cup closing,
           unhosting' = unhosting,
           pending' \in [Slots -> Request \cup {NoRequest}],
           \A t \in Slots : pending'[t] # NoRequest => pending'[t] = pending[t],
           \A t \in Slots : pending'[t].type = "join" => pending'[t].ch \in Channels,
           NEW ro \in [Clients -> BOOLEAN], NEW cl \in [Channels -> BOOLEAN],
           \A d \in Clients : readonly[d] \/ d \in gone => ro[d],
           \A ch \in Channels : cl[ch] => closed[ch] \/ ch \in closing,
           Flags(ro, cl)
    PROVE  MemberInv'
<1>1. /\ channels' = channels \ closing
      /\ members' \in [Channels -> SUBSET Clients]
      /\ joined' \in [Clients -> SUBSET Channels]
      /\ \A d \in Clients, ch \in Channels : ch \in joined'[d] <=> d \in members'[ch]
      /\ \A ch \in Channels : /\ members'[ch] \subseteq members[ch]
                              /\ ch \in closing => members'[ch] = {}
                              /\ ch \in staying => c \notin members'[ch]
  BY LeaveAndCloseFacts DEF MemberInv
<1>2. /\ readonly' = [d \in Clients |-> d \in LiveClients' /\ ro[d]]
      /\ closed' = [ch \in Channels |-> ch \in LiveChannels' /\ cl[ch]]
  BY DEF Flags
<1>3. Shape'
  BY <1>1, <1>2 DEF MemberInv, Shape
<1>4. MembershipSymmetric'
  <2>1. ASSUME NEW ch \in Channels, NEW d \in members'[ch]
        PROVE  d \in clients'
    <3>1. d \in clients /\ d \in members[ch]
      BY <2>1, <1>1 DEF MemberInv, MembershipSymmetric
    <3>2. d \notin gone
      BY <2>1, <3>1, <1>1
    <3> QED BY <3>1, <3>2
  <2> QED BY <1>1, <2>1 DEF MembershipSymmetric
<1>5. JoinedIsOpen'
  <2>1. ASSUME NEW ch \in Channels, members'[ch] # {}
        PROVE  ch \in channels' /\ ~closed'[ch]
    <3>1. ch \notin closing /\ members[ch] # {}
      BY <2>1, <1>1
    <3>2. ch \in channels /\ ~closed[ch]
      BY <3>1 DEF MemberInv, JoinedIsOpen
    <3> QED BY <3>1, <3>2, <1>1, <1>2
  <2> QED BY <2>1 DEF JoinedIsOpen
<1>6. GoneIsReadonly'
  <2>1. ASSUME NEW t \in Slots, pending'[t] # NoRequest
        PROVE  pending'[t].cl \in clients' \/ readonly'[pending'[t].cl]
    <3>1. pending'[t].cl \in Clients /\ pending'[t].cl \in LiveClients'
      BY <2>1, RequestFields, RequestLive
    <3>2. pending'[t] = pending[t]
      BY <2>1
    <3>3. pending[t].cl \in clients \/ readonly[pending[t].cl]
      BY <2>1, <3>2 DEF MemberInv, GoneIsReadonly
    <3> QED BY <3>1, <3>2, <3>3, <1>2
  <2> QED BY <2>1 DEF GoneIsReadonly
<1>7. ChannelsLast'
  BY DEF MemberInv, ChannelsLast
<1> QED BY <1>3, <1>4, <1>5, <1>6, <1>7 DEF MemberInv

(***************************************************************************)
(* Joining.                                                                *)
(***************************************************************************)

LEMMA JoinInv ==
    ASSUME MemberInv, NEW s \in Slots, Answer(s, "join"),
           MayJoin(pending[s].cl, pending[s].ch),
           channel_addclient(pending[s].cl, pending[s].ch),
           UNCHANGED <<unhosting, clients>>, Flags(readonly, closed)
    PROVE  MemberInv'
<1>1. PICK c, ch : c = pending[s].cl /\ ch = pending[s].ch
  OBVIOUS
<1>2. /\ unhosting = "no"
      /\ pending[s] \in Request /\ pending[s].type = "join"
      /\ pending' \in [Slots -> Request \cup {NoRequest}]
      /\ \A t \in Slots : pending'[t] # NoRequest => pending'[t] = pending[t]
      /\ \A t \in Slots : pending'[t].type = "join" => pending'[t].ch \in Channels
  BY AnswerFacts DEF RequestTypes
<1>3. c \in Clients /\ ch \in Channels
  BY <1>1, <1>2, RequestFields DEF MemberInv, Shape
<1>4. ~closed[ch] /\ c \notin members[ch] /\ c \in clients
  BY <1>1, <1>2, RequestFields DEF MayJoin, MemberInv, GoneIsReadonly
<1>5. /\ channels' = channels \cup {ch}
      /\ members' = [members EXCEPT ![ch] = @ \cup {c}]
      /\ joined' = [joined EXCEPT ![c] = @ \cup {ch}]
  BY <1>1 DEF channel_addclient
<1>6. /\ readonly' = [d \in Clients |-> d \in LiveClients' /\ readonly[d]]
      /\ closed' = [x \in Channels |-> x \in LiveChannels' /\ closed[x]]
  BY DEF Flags
<1>7. Shape'
  BY <1>2, <1>3, <1>5, <1>6 DEF MemberInv, Shape
<1>8. MembershipSymmetric'
  BY <1>3, <1>4, <1>5 DEF MemberInv, Shape, MembershipSymmetric
<1>9. JoinedIsOpen'
  BY <1>3, <1>4, <1>5, <1>6 DEF MemberInv, Shape, JoinedIsOpen
<1>10. GoneIsReadonly'
  <2>1. ASSUME NEW t \in Slots, pending'[t] # NoRequest
        PROVE  pending'[t].cl \in clients' \/ readonly'[pending'[t].cl]
    BY <2>1, <1>2, <1>6, RequestFields, RequestLive DEF MemberInv, GoneIsReadonly
  <2> QED BY <2>1 DEF GoneIsReadonly
<1>11. ChannelsLast'
  BY <1>2 DEF ChannelsLast
<1> QED BY <1>7, <1>8, <1>9, <1>10, <1>11 DEF MemberInv

(***************************************************************************)
(* The actions, one lemma per group.                                       *)
(***************************************************************************)

LEMMA ConnectInv ==
    ASSUME MemberInv, NEW c \in Clients, Connect(c)
    PROVE  MemberInv'
<1>1. unhosting = "no"
  BY DEF Connect, Idle
<1> QED BY <1>1 DEF Connect, serverVars, channelVars, viewVars, MemberInv, Shape,
              MembershipSymmetric, JoinedIsOpen, GoneIsReadonly, ChannelsLast

LEMMA BootInv ==
    ASSUME MemberInv, NEW c \in Clients, Boot(c)
    PROVE  MemberInv'
<1>1. GoneIsReadonly'
  BY RequestFields DEF Boot, channelVars, MemberInv, Shape, GoneIsReadonly
<1> QED BY <1>1 DEF Boot, serverVars, channelVars, MemberInv, Shape,
              MembershipSymmetric, JoinedIsOpen, ChannelsLast

(* Every request of a client, whatever it asks for. *)
LEMMA RequestInv ==
    ASSUME MemberInv,
           \/ \E c \in Clients : ConnectRequest(c)
           \/ \E c \in Clients, n \in Names : SetNameRequest(c, n)
           \/ \E c \in Clients, ch \in Channels, n \in ChannelNames, auto \in BOOLEAN :
                 JoinNewRequest(c, ch, n, auto)
           \/ \E c \in Clients, ch \in Channels :
                 JoinRequest(c, ch) \/ LeaveRequest(c, ch) \/ ChannelMessage(c, ch)
           \/ \E c, d \in Clients, ch \in Channels : PeerMessage(c, ch, d)
    PROVE  MemberInv'
<1> USE DEF serverVars, clientVars, channelVars, coreVars, RequestTypes
<1>1. ASSUME NEW c \in Clients, ConnectRequest(c) PROVE MemberInv'
  BY <1>1, QueueInv DEF ConnectRequest
<1>2. ASSUME NEW c \in Clients, NEW n \in Names, SetNameRequest(c, n) PROVE MemberInv'
  BY <1>2, QueueInv DEF SetNameRequest
<1>3. ASSUME NEW c \in Clients, NEW ch \in Channels, NEW n \in ChannelNames,
             NEW auto \in BOOLEAN, JoinNewRequest(c, ch, n, auto)
      PROVE  MemberInv'
  BY <1>3, QueueInv DEF JoinNewRequest
<1>4. ASSUME NEW c \in Clients, NEW ch \in Channels, JoinRequest(c, ch) PROVE MemberInv'
  BY <1>4, QueueInv DEF JoinRequest
<1>5. ASSUME NEW c \in Clients, NEW ch \in Channels, LeaveRequest(c, ch) PROVE MemberInv'
  BY <1>5, QueueInv DEF LeaveRequest
<1>6. ASSUME NEW c \in Clients, NEW ch \in Channels, ChannelMessage(c, ch) PROVE MemberInv'
  BY <1>6, QueueInv DEF ChannelMessage
<1>7. ASSUME NEW c \in Clients, NEW d \in Clients, NEW ch \in Channels, PeerMessage(c, ch, d)
      PROVE  MemberInv'
  BY <1>7, QueueInv DEF PeerMessage
<1> QED BY <1>1, <1>2, <1>3, <1>4, <1>5, <1>6, <1>7

LEMMA ConnectResponseInv ==
    ASSUME MemberInv, NEW s \in Slots, NEW approve \in BOOLEAN, connect_response(s, approve)
    PROVE  MemberInv'
<1> DEFINE c == pending[s].cl
           ok == approve /\ hosting
           answered == {d \in {c} : ~readonly[c] /\ ~approved[c]}
<1>1. PICK ro : ro = IF ok THEN readonly ELSE Mark(readonly, answered)
  OBVIOUS
<1>2. ro \in [Clients -> BOOLEAN] /\ \A d \in Clients : readonly[d] => ro[d]
  BY <1>1, MarkType DEF MemberInv, Shape
<1>3. Flags(ro, closed)
  BY <1>1 DEF connect_response, Destructors, Flags
<1> QED BY <1>2, <1>3, QuietAnswerInv DEF connect_response, serverVars, RequestTypes

LEMMA NamesetResponseInv ==
    ASSUME MemberInv, NEW s \in Slots, nameset_response(s)
    PROVE  MemberInv'
<1>1. Flags(readonly, closed)
  BY DEF nameset_response, NameRefused, NameAccepted, DropReferences, Destructors, Flags
<1>2. readonly \in [Clients -> BOOLEAN]
  BY DEF MemberInv, Shape
<1> QED BY <1>1, <1>2, QuietAnswerInv DEF nameset_response, serverVars, RequestTypes

LEMMA MessagePermitInv ==
    ASSUME MemberInv, NEW s \in Slots, MessagePermit(s)
    PROVE  MemberInv'
<1>1. Flags(readonly, closed)
  BY DEF MessagePermit, DropReferences, Destructors, Flags
<1>2. readonly \in [Clients -> BOOLEAN]
  BY DEF MemberInv, Shape
<1> QED BY <1>1, <1>2, QuietAnswerInv DEF MessagePermit, serverVars, RequestTypes

LEMMA JoinResponseInv ==
    ASSUME MemberInv, NEW s \in Slots, NEW approve \in BOOLEAN, joinchannel_response(s, approve)
    PROVE  MemberInv'
<1>1. Flags(readonly, closed)
  BY DEF joinchannel_response, DropReferences, Destructors, Flags
<1>2. readonly \in [Clients -> BOOLEAN]
  BY DEF MemberInv, Shape
<1>3. CASE approve /\ MayJoin(pending[s].cl, pending[s].ch)
  BY <1>1, <1>3, JoinInv DEF joinchannel_response, serverVars
<1>4. CASE ~(approve /\ MayJoin(pending[s].cl, pending[s].ch))
  BY <1>1, <1>2, <1>4, QuietAnswerInv DEF joinchannel_response, serverVars, RequestTypes
<1> QED BY <1>3, <1>4

(* channel_removeclient, for a client that stays connected. *)
LEMMA LeaveResponseInv ==
    ASSUME MemberInv, NEW s \in Slots, NEW approve \in BOOLEAN, leavechannel_response(s, approve)
    PROVE  MemberInv'
<1>1. readonly \in [Clients -> BOOLEAN] /\ closed \in [Channels -> BOOLEAN]
  BY DEF MemberInv, Shape
<1>2. CASE ~approve
  <2>1. Flags(readonly, closed)
    BY <1>2 DEF leavechannel_response, DropReferences, Destructors, Flags
  <2> QED BY <1>1, <1>2, <2>1, QuietAnswerInv DEF leavechannel_response, serverVars, RequestTypes
<1>3. CASE approve
  <2>1. PICK c, left : c = pending[s].cl /\ left = {pending[s].ch}
    OBVIOUS
  <2>2. PICK open : open = {ch \in left : ~closed[ch]}
    OBVIOUS
  <2>3. PICK closing : closing = Closing(c, open)
    OBVIOUS
  <2>4. PICK cl : cl = Mark(closed, closing)
    OBVIOUS
  <2>5. Answer(s, "leave") /\ channel_removeclient(c, left, readonly)
    BY <1>3, <2>1 DEF leavechannel_response
  <2>6. PICK staying, gone : staying = open \ closing /\ gone = {}
    OBVIOUS
  <2>11. LeaveAndClose(c, staying, closing) /\ Flags(readonly, cl)
    BY <2>2, <2>3, <2>4, <2>5, <2>6 DEF channel_removeclient, Destructors, Flags
  <2>7. cl \in [Channels -> BOOLEAN] /\ \A ch \in Channels : cl[ch] => closed[ch] \/ ch \in closing
    BY <1>1, <2>4, MarkType
  <2>8. /\ c \in Clients
        /\ pending' \in [Slots -> Request \cup {NoRequest}]
        /\ \A t \in Slots : pending'[t] # NoRequest => pending'[t] = pending[t]
        /\ \A t \in Slots : pending'[t].type = "join" => pending'[t].ch \in Channels
    BY <2>1, <2>5, AnswerFacts, RequestFields DEF RequestTypes
  <2>9. c # None
    BY <2>8
  <2>10. clients' = clients \ gone /\ unhosting' = unhosting
    BY <2>6 DEF leavechannel_response, serverVars
  <2>12. /\ gone \subseteq {c}
         /\ gone # {} => \A ch \in Channels : c \in members[ch] => ch \in staying \cup closing
         /\ \A d \in Clients : readonly[d] \/ d \in gone => readonly[d]
    BY <2>6
  <2> QED BY <1>1, <2>7, <2>8, <2>9, <2>10, <2>11, <2>12, LeavingInv
<1> QED BY <1>2, <1>3

(* close_client, for a client that disconnects. *)
LEMMA DroppedInv ==
    ASSUME MemberInv, NEW c \in clients, Dropped(c), unhosting' = unhosting
    PROVE  MemberInv'
<1>1. /\ readonly \in [Clients -> BOOLEAN] /\ closed \in [Channels -> BOOLEAN]
      /\ c \in Clients /\ c # None
  BY DEF MemberInv, Shape
<1>2. PICK ro : ro = Mark(readonly, {c})
  OBVIOUS
<1>3. PICK open : open = {ch \in joined[c] : ~closed[ch]}
  OBVIOUS
<1>4. PICK closing : closing = Closing(c, open)
  OBVIOUS
<1>5. PICK cl : cl = Mark(closed, closing)
  OBVIOUS
<1>6. PICK staying, gone : staying = open \ closing /\ gone = {c}
  OBVIOUS
<1>11. LeaveAndClose(c, staying, closing) /\ Flags(ro, cl)
  BY <1>2, <1>3, <1>4, <1>5, <1>6 DEF Dropped, channel_removeclient, Destructors, Flags
<1>7. /\ ro \in [Clients -> BOOLEAN] /\ cl \in [Channels -> BOOLEAN]
      /\ \A d \in Clients : readonly[d] \/ d \in gone => ro[d]
      /\ \A ch \in Channels : cl[ch] => closed[ch] \/ ch \in closing
  BY <1>1, <1>2, <1>5, <1>6, MarkType
<1>8. \A ch \in Channels : c \in members[ch] => ch \in staying \cup closing
  BY <1>1, <1>3, <1>6 DEF MemberInv, MembershipSymmetric, JoinedIsOpen
<1>9. /\ clients' = clients \ gone
      /\ pending' = pending
  BY <1>6 DEF Dropped
<1>10. /\ pending' \in [Slots -> Request \cup {NoRequest}]
       /\ \A t \in Slots : pending'[t] # NoRequest => pending'[t] = pending[t]
       /\ \A t \in Slots : pending'[t].type = "join" => pending'[t].ch \in Channels
  BY <1>9 DEF MemberInv, Shape
<1> QED BY <1>1, <1>6, <1>7, <1>8, <1>9, <1>10, <1>11, LeavingInv

LEMMA CloseChannelInv ==
    ASSUME MemberInv, NEW ch \in Channels, CloseChannel(ch)
    PROVE  MemberInv'
<1>1. readonly \in [Clients -> BOOLEAN] /\ closed \in [Channels -> BOOLEAN]
  BY DEF MemberInv, Shape
<1>2. PICK cl : cl = Mark(closed, {ch})
  OBVIOUS
<1>3. PICK c, staying, closing, gone :
          c = None /\ staying = {} /\ closing = {ch} /\ gone = {}
  OBVIOUS
<1>7. LeaveAndClose(c, staying, closing) /\ Flags(readonly, cl)
  BY <1>2, <1>3 DEF CloseChannel, Destructors, Flags
<1>4. cl \in [Channels -> BOOLEAN] /\ \A x \in Channels : cl[x] => closed[x] \/ x \in closing
  BY <1>1, <1>2, <1>3, MarkType
<1>5. clients' = clients \ gone /\ unhosting' = unhosting /\ pending' = pending
  BY <1>3 DEF CloseChannel, serverVars
<1>6. /\ pending' \in [Slots -> Request \cup {NoRequest}]
      /\ \A t \in Slots : pending'[t] # NoRequest => pending'[t] = pending[t]
      /\ \A t \in Slots : pending'[t].type = "join" => pending'[t].ch \in Channels
  BY <1>5 DEF MemberInv, Shape
<1>8. /\ c \in Clients \cup {None} /\ (c = None => staying = {})
      /\ gone \subseteq {c}
      /\ gone # {} => \A x \in Channels : c \in members[x] => x \in staying \cup closing
      /\ \A d \in Clients : readonly[d] \/ d \in gone => readonly[d]
  BY <1>3
<1> QED BY <1>1, <1>4, <1>5, <1>6, <1>7, <1>8, LeavingInv

LEMMA CreateChannelInv ==
    ASSUME MemberInv, NEW c \in Clients, NEW ch \in Channels, NEW n \in ChannelNames,
           NEW auto \in BOOLEAN, createchannel(c, ch, n, auto)
    PROVE  MemberInv'
BY DEF createchannel, serverVars, clientVars, MemberInv, Shape, MembershipSymmetric,
       JoinedIsOpen, GoneIsReadonly, ChannelsLast

LEMMA UnhostInv ==
    ASSUME MemberInv, Unhost \/ UnhostStep \/ Host
    PROVE  MemberInv'
<1> USE DEF serverVars, clientVars, channelVars
<1>1. CASE Unhost \/ UnhostClientsDone \/ UnhostDone \/ Host
  BY <1>1 DEF Unhost, UnhostClientsDone, UnhostDone, Host, Idle, MemberInv, Shape,
              MembershipSymmetric, JoinedIsOpen, GoneIsReadonly, ChannelsLast
<1>2. ASSUME NEW c \in Clients, UnhostClient(c)
      PROVE  MemberInv'
  BY <1>2, DroppedInv DEF UnhostClient
<1>3. ASSUME NEW ch \in Channels, UnhostChannel(ch)
      PROVE  MemberInv'
  <2>1. \A x \in Channels : members[x] = {}
    BY <1>3 DEF UnhostChannel, MemberInv, MembershipSymmetric, ChannelsLast
  <2> QED BY <1>3, <2>1 DEF UnhostChannel, MemberInv, Shape,
              MembershipSymmetric, JoinedIsOpen, GoneIsReadonly, ChannelsLast
<1> QED BY <1>1, <1>2, <1>3 DEF UnhostStep

(***************************************************************************)
(* The theorems.                                                           *)
(***************************************************************************)

LEMMA MemberStep == MemberInv /\ [Next]_vars => MemberInv'
<1> SUFFICES ASSUME MemberInv, [Next]_vars PROVE MemberInv'
  OBVIOUS
<1>1. ASSUME NEW c \in Clients, Connect(c) \/ Boot(c) \/ Disconnect(c)
      PROVE  MemberInv'
  BY <1>1, ConnectInv, BootInv, DroppedInv DEF Disconnect, serverVars
<1>2. ASSUME NEW c \in Clients, NEW ch \in Channels, NEW n \in ChannelNames, NEW auto \in BOOLEAN,
             createchannel(c, ch, n, auto)
      PROVE  MemberInv'
  BY <1>2, CreateChannelInv
<1>3. ASSUME NEW s \in Slots, NEW approve \in BOOLEAN,
             \/ connect_response(s, approve) \/ joinchannel_response(s, approve)
             \/ leavechannel_response(s, approve)
      PROVE  MemberInv'
  BY <1>3, ConnectResponseInv, JoinResponseInv, LeaveResponseInv
<1>4. ASSUME NEW s \in Slots, nameset_response(s) \/ MessagePermit(s)
      PROVE  MemberInv'
  BY <1>4, NamesetResponseInv, MessagePermitInv
<1>5. ASSUME NEW ch \in Channels, CloseChannel(ch)
      PROVE  MemberInv'
  BY <1>5, CloseChannelInv
<1>6. CASE UNCHANGED vars
  BY <1>6 DEF vars, serverVars, clientVars, channelVars, MemberInv, Shape,
              MembershipSymmetric, JoinedIsOpen, GoneIsReadonly, ChannelsLast
<1>7. CASE Next
  BY <1>7, <1>1, <1>2, <1>3, <1>4, <1>5, RequestInv, UnhostInv DEF Next
<1> QED BY <1>6, <1>7

LEMMA MemberInit == Init => MemberInv
BY RequestFields DEF Init, MemberInv, Shape, MembershipSymmetric, JoinedIsOpen, GoneIsReadonly, ChannelsLast

LEMMA MemberInvariant == Spec => []MemberInv
BY MemberInit, MemberStep, PTL DEF Spec

(* The two membership lists agree, and only connected clients are on them, *)
(* after any sequence of requests, answers, closures and disconnections.   *)
THEOREM MembershipHolds == Spec => []MembershipSymmetric
<1>1. MemberInv => MembershipSymmetric
  BY DEF MemberInv
<1> QED BY <1>1, MemberInvariant, PTL

(* Whoever is on a channel is on a listed, open one: close_client can      *)
(* always take a client off the channels it is on, and never reaches       *)
(* LacewingFatalErrorMsgBox.                                               *)
THEOREM NoClosedChannelJoined == Spec => []JoinedIsOpen
<1>1. MemberInv => JoinedIsOpen
  BY DEF MemberInv
<1> QED BY <1>1, MemberInvariant, PTL

(***************************************************************************)
(* Names.  What makes NamesUnique inductive is that a client object that   *)
(* can be made anew has no name left over.                                 *)
(***************************************************************************)

NameInv ==
    /\ cname \in [Clients -> Names \cup {None}]
    /\ \A c \in Clients : cname[c] # None => c \in LiveClients
    /\ NamesUnique

(* What Destructors does to flags and names. *)
Attributes(ro, nm) ==
    /\ readonly' = [c \in Clients |-> c \in LiveClients' /\ ro[c]]
    /\ cname' = [c \in Clients |-> IF c \in LiveClients' THEN nm[c] ELSE None]

LEMMA SettledNames ==
    ASSUME MemberInv, clients' \subseteq clients,
           NEW ro \in [Clients -> BOOLEAN], NEW nm \in [Clients -> Names \cup {None}],
           \A c \in Clients : readonly[c] => ro[c],
           \A c, d \in Talking :
               nm[c] # None /\ nm[d] # None /\ Lower[nm[c]] = Lower[nm[d]] => c = d,
           Attributes(ro, nm)
    PROVE  NameInv'
<1>1. clients' \subseteq LiveClients'
  BY DEF LiveClients
<1>2. /\ readonly' = [c \in Clients |-> c \in LiveClients' /\ ro[c]]
      /\ cname' = [c \in Clients |-> IF c \in LiveClients' THEN nm[c] ELSE None]
  BY DEF Attributes
<1>3. clients \subseteq Clients
  BY DEF MemberInv, Shape
<1>4. \A c \in Talking' : c \in Talking /\ cname'[c] = nm[c]
  BY <1>1, <1>2, <1>3 DEF Talking
<1>5. NamesUnique'
  BY <1>4 DEF NamesUnique
<1> QED BY <1>2, <1>5 DEF NameInv

(* Handlers that give nobody a name. *)
LEMMA SameNames ==
    ASSUME MemberInv, NameInv, clients' \subseteq clients,
           NEW ro \in [Clients -> BOOLEAN],
           \A c \in Clients : readonly[c] => ro[c],
           Attributes(ro, cname)
    PROVE  NameInv'
<1>1. PICK nm : nm = cname
  OBVIOUS
<1>2. Attributes(ro, nm)
  BY <1>1 DEF Attributes
<1>3. nm \in [Clients -> Names \cup {None}]
  BY <1>1 DEF NameInv
<1>4. \A c, d \in Talking :
          nm[c] # None /\ nm[d] # None /\ Lower[nm[c]] = Lower[nm[d]] => c = d
  BY <1>1 DEF NameInv, NamesUnique
<1> QED BY <1>2, <1>3, <1>4, SettledNames

(* Handlers that drop no reference. *)
LEMMA LiveGrows ==
    ASSUME \A s \in Slots : pending[s] # NoRequest => pending'[s] = pending[s],
           clients \subseteq clients', channels \subseteq channels', members' = members,
           \A ch \in LiveChannels : master'[ch] = master[ch]
    PROVE  LiveClients \subseteq LiveClients'
<1>1. Waiting \subseteq Waiting'
  BY DEF Waiting
<1>2. LiveChannels \subseteq LiveChannels'
  BY <1>1 DEF LiveChannels
<1> QED BY <1>1, <1>2 DEF LiveClients

LEMMA KeptNames ==
    ASSUME NameInv, cname' = cname, LiveClients \subseteq LiveClients', Talking' \subseteq Talking
    PROVE  NameInv'
BY DEF NameInv, NamesUnique

LEMMA NoNewNames ==
    ASSUME MemberInv, NameInv, UNCHANGED clientVars, UNCHANGED members, channels \subseteq channels',
           \A ch \in LiveChannels : master'[ch] = master[ch],
           \A s \in Slots : pending[s] # NoRequest => pending'[s] = pending[s]
    PROVE  NameInv'
<1>1. LiveClients \subseteq LiveClients'
  BY LiveGrows DEF clientVars
<1> QED BY <1>1, KeptNames DEF clientVars, Talking

LEMMA NameStep == MemberInv /\ NameInv /\ [Next]_vars => NameInv'
<1> SUFFICES ASSUME MemberInv, NameInv, [Next]_vars PROVE NameInv'
  OBVIOUS
<1> USE DEF serverVars, channelVars
<1>1. readonly \in [Clients -> BOOLEAN]
  BY DEF MemberInv, Shape
<1>2. ASSUME NEW type, NEW c, NEW ch, NEW n, NEW d, Queue(type, c, ch, n, d)
      PROVE  \A s \in Slots : pending[s] # NoRequest => pending'[s] = pending[s]
  BY <1>2 DEF Queue, MemberInv, Shape
<1>3. ASSUME NEW c \in Clients, Connect(c)
      PROVE  NameInv'
  <2>1. LiveClients \subseteq LiveClients'
    BY <1>3, LiveGrows DEF Connect
  <2>2. Talking' \subseteq Talking \cup {c} /\ cname' = cname /\ cname[c] = None
    BY <1>3 DEF Connect, Talking, NameInv
  <2> QED BY <2>1, <2>2 DEF NameInv, NamesUnique
<1>4. ASSUME NEW c \in Clients, Boot(c)
      PROVE  NameInv'
  <2>1. LiveClients \subseteq LiveClients'
    BY <1>4, LiveGrows DEF Boot
  <2>2. Talking' \subseteq Talking /\ cname' = cname
    BY <1>4, <1>1 DEF Boot, Talking
  <2> QED BY <2>1, <2>2, KeptNames
<1>5. ASSUME NEW c \in Clients, Dropped(c)
      PROVE  NameInv'
  <2>1. PICK ro : ro = Mark(readonly, {c})
    OBVIOUS
  <2>2. Attributes(ro, cname) /\ clients' \subseteq clients
    BY <1>5, <2>1 DEF Dropped, channel_removeclient, Destructors, Attributes
  <2>3. ro \in [Clients -> BOOLEAN] /\ \A d \in Clients : readonly[d] => ro[d]
    BY <1>1, <2>1, MarkType
  <2> QED BY <2>2, <2>3, SameNames
<1>6. ASSUME NEW c \in Clients, ConnectRequest(c)
      PROVE  NameInv'
  BY <1>2, <1>6, NoNewNames DEF ConnectRequest
<1>7. ASSUME NEW c \in Clients, NEW n \in Names, SetNameRequest(c, n)
      PROVE  NameInv'
  BY <1>2, <1>7, NoNewNames DEF SetNameRequest
<1>8. ASSUME NEW c \in Clients, NEW ch \in Channels, NEW n \in ChannelNames, NEW auto \in BOOLEAN,
             JoinNewRequest(c, ch, n, auto) \/ createchannel(c, ch, n, auto)
      PROVE  NameInv'
  <2>1. \A s \in Slots : pending[s] # NoRequest => pending'[s] = pending[s]
    BY <1>2, <1>8 DEF JoinNewRequest, createchannel
  <2>2. ch \notin LiveChannels /\ master' = [master EXCEPT ![ch] = c]
    BY <1>8 DEF JoinNewRequest, createchannel
  <2>3. \A x \in LiveChannels : master'[x] = master[x]
    BY <2>2
  <2> QED BY <1>8, <2>1, <2>3, NoNewNames DEF JoinNewRequest, createchannel
<1>9. ASSUME NEW c \in Clients, NEW ch \in Channels,
             JoinRequest(c, ch) \/ LeaveRequest(c, ch) \/ ChannelMessage(c, ch)
      PROVE  NameInv'
  BY <1>2, <1>9, NoNewNames DEF JoinRequest, LeaveRequest, ChannelMessage
<1>10. ASSUME NEW c \in Clients, NEW d \in Clients, NEW ch \in Channels, PeerMessage(c, ch, d)
       PROVE  NameInv'
  BY <1>2, <1>10, NoNewNames DEF PeerMessage
<1>11. ASSUME NEW s \in Slots, NEW approve \in BOOLEAN, connect_response(s, approve)
       PROVE  NameInv'
  <2> DEFINE c == pending[s].cl
             ok == approve /\ hosting
             answered == {d \in {c} : ~readonly[c] /\ ~approved[c]}
  <2>1. PICK ro : ro = IF ok THEN readonly ELSE Mark(readonly, answered)
    OBVIOUS
  <2>2. ro \in [Clients -> BOOLEAN] /\ \A d \in Clients : readonly[d] => ro[d]
    BY <1>1, <2>1, MarkType
  <2>3. Attributes(ro, cname) /\ clients' \subseteq clients
    BY <1>11, <2>1 DEF connect_response, Destructors, Attributes
  <2> QED BY <2>2, <2>3, SameNames
<1>12. ASSUME NEW s \in Slots, NEW approve \in BOOLEAN,
              joinchannel_response(s, approve) \/ leavechannel_response(s, approve)
       PROVE  NameInv'
  <2>1. Attributes(readonly, cname) /\ clients' \subseteq clients
    BY <1>12 DEF joinchannel_response, leavechannel_response, channel_removeclient,
                 DropReferences, Destructors, Attributes
  <2> QED BY <1>1, <2>1, SameNames
<1>13. ASSUME NEW s \in Slots, (NameRefused /\ UNCHANGED clients) \/ MessagePermit(s)
       PROVE  NameInv'
  <2>1. Attributes(readonly, cname) /\ clients' \subseteq clients
    BY <1>13 DEF NameRefused, MessagePermit, DropReferences, Destructors, Attributes
  <2> QED BY <1>1, <2>1, SameNames
<1>14. ASSUME NEW s \in Slots, NEW n \in Names \cup {None}, Answer(s, "name"), NameAccepted(s, n), UNCHANGED clients
       PROVE  NameInv'
  <2>1. PICK c : c = pending[s].cl
    OBVIOUS
  <2>2. PICK nm : nm = [cname EXCEPT ![c] = n]
    OBVIOUS
  <2>3. checkname(c, n) /\ Attributes(readonly, nm)
    BY <1>14, <2>1, <2>2 DEF NameAccepted, Destructors, Attributes
  <2>4. nm \in [Clients -> Names \cup {None}]
    BY <2>2 DEF NameInv
  <2>5. \A d \in Talking : d # c /\ nm[d] # None => Lower[nm[d]] # Lower[n]
    BY <2>2, <2>3 DEF checkname, NameInv
  <2>6. \A d \in Talking : nm[d] = IF d = c THEN n ELSE cname[d]
    BY <2>2 DEF NameInv, Talking, MemberInv, Shape
  <2>7. \A d, e \in Talking :
            nm[d] # None /\ nm[e] # None /\ Lower[nm[d]] = Lower[nm[e]] => d = e
    BY <2>5, <2>6 DEF NameInv, NamesUnique
  <2> QED BY <1>1, <1>14, <2>3, <2>4, <2>7, SettledNames
<1>15. ASSUME NEW s \in Slots, nameset_response(s)
       PROVE  NameInv'
  <2>1. pending[s] \in Request /\ pending[s].type = "name"
    BY <1>15, AnswerFacts DEF nameset_response, RequestTypes
  <2>2. CASE NameRefused
    BY <1>13, <1>15, <2>2 DEF nameset_response
  <2>3. ASSUME NEW n \in (IF Deferred THEN Names ELSE {pending[s].name}), NameAccepted(s, n)
        PROVE  NameInv'
    <3>1. n \in Names \cup {None}
      BY <2>1 DEF Request
    <3> QED BY <1>14, <1>15, <2>3, <3>1 DEF nameset_response
  <2> QED BY <1>15, <2>2, <2>3 DEF nameset_response
<1>16. ASSUME NEW ch \in Channels, CloseChannel(ch)
       PROVE  NameInv'
  <2>1. Attributes(readonly, cname) /\ clients' \subseteq clients
    BY <1>16 DEF CloseChannel, Destructors, Attributes
  <2> QED BY <1>1, <2>1, SameNames
<1>17. CASE Unhost \/ UnhostClientsDone \/ UnhostDone \/ Host \/ \E ch \in Channels : UnhostChannel(ch)
  BY <1>17, NoNewNames DEF Unhost, UnhostClientsDone, UnhostDone, Host, UnhostChannel, clientVars
<1>18. CASE UNCHANGED vars
  BY <1>18, NoNewNames DEF vars, clientVars
<1>19. CASE Next
  BY <1>19, <1>3, <1>4, <1>5, <1>6, <1>7, <1>8, <1>9, <1>10, <1>11, <1>12, <1>13, <1>15, <1>16, <1>17
     DEF Next, Disconnect, UnhostStep, UnhostClient, MemberInv, Shape
<1> QED BY <1>18, <1>19

LEMMA NameInvariant == Spec => []NameInv
<1>1. Init => NameInv
  BY DEF Init, NameInv, NamesUnique, Talking
<1> QED BY <1>1, NameStep, MemberInvariant, PTL DEF Spec

(* No two clients the server talks to have one name, however late the      *)
(* application answers and whatever names it hands out instead.            *)
THEOREM NamesStayUnique == Spec => []NamesUnique
<1>1. NameInv => NamesUnique
  BY DEF NameInv
<1> QED BY <1>1, NameInvariant, PTL

(***************************************************************************)
(* IDs.  An object's ID is its own for as long as anything references it.  *)
(***************************************************************************)

(* Some ID is free among the first Cardinality(used) + 1, and LowestFree   *)
(* is the lowest that is.                                                  *)
LEMMA FreeIDExists ==
    ASSUME NEW used \in SUBSET Nat, IsFiniteSet(used)
    PROVE  /\ LowestFree(used) \in 0 .. Cardinality(used)
           /\ LowestFree(used) \notin used
<1> DEFINE R == {ss \in Nat \X Nat : ss[1] < ss[2]}
           free == (0 .. Cardinality(used)) \ used
<1>1. IsWellFoundedOn(R, Nat)
  BY NatLessThanWellFounded, Zenon DEF OpToRel
<1>2. Cardinality(used) \in Nat
  BY FS_CardinalityType
<1>3. free # {}
  <2>1. ASSUME 0 .. Cardinality(used) \subseteq used
        PROVE  FALSE
    <3>1. Cardinality(0 .. Cardinality(used)) = Cardinality(used) + 1
      BY <1>2, FS_Interval
    <3> QED BY <1>2, <2>1, <3>1, FS_Subset
  <2> QED BY <2>1
<1>4. free \subseteq Nat
  BY <1>2
<1>5. PICK n \in free : \A m \in free : ~(<<m, n>> \in R)
  <2> HIDE DEF R, free
  <2> QED BY <1>1, <1>3, <1>4, WFMin, Zenon
<1>6. n \in 0 .. Cardinality(used) /\ n \notin used
  OBVIOUS
<1>7. ASSUME NEW m \in 0 .. (n - 1)
      PROVE  m \in used
  <2>1. m \in 0 .. Cardinality(used) /\ m < n /\ m \in Nat /\ n \in Nat
    BY <1>2, <1>6, <1>7
  <2>2. <<m, n>> \in R
    BY <2>1
  <2> QED BY <1>5, <2>1, <2>2
<1> QED BY <1>6, <1>7 DEF LowestFree

(* The ID of a new object among those of class O, of which the ones in L   *)
(* are alive: nobody's, and below the number of objects there can be.      *)
LEMMA FreshID ==
    ASSUME NEW O, IsFiniteSet(O), NEW L \in SUBSET O, NEW x \in O, x \notin L, NEW f \in [O -> Nat]
    PROVE  /\ LowestFree({f[d] : d \in L}) \in 0 .. (Cardinality(O) - 1)
           /\ \A d \in L : f[d] # LowestFree({f[e] : e \in L})
<1>1. PICK used : used = {f[d] : d \in L}
  OBVIOUS
<1>2. IsFiniteSet(L) /\ Cardinality(L) <= Cardinality(O \ {x})
  <2>1. L \subseteq O \ {x} /\ IsFiniteSet(O \ {x})
    BY FS_RemoveElement
  <2> QED BY <2>1, FS_Subset
<1>3. Cardinality(O \ {x}) = Cardinality(O) - 1
  BY FS_RemoveElement
<1>4. IsFiniteSet(used) /\ Cardinality(used) <= Cardinality(L)
  <2> DEFINE g == [d \in L |-> f[d]]
  <2>1. g \in Surjection(L, used)
    BY <1>1 DEF Surjection
  <2> HIDE DEF g
  <2> QED BY <1>2, <2>1, FS_Surjection
<1>5. Cardinality(used) \in Nat /\ Cardinality(O) \in Nat /\ Cardinality(L) \in Nat
  BY <1>2, <1>4, FS_CardinalityType
<1>6. LowestFree(used) \in 0 .. Cardinality(used) /\ LowestFree(used) \notin used
  BY <1>1, <1>4, FreeIDExists
<1>7. LowestFree(used) \in 0 .. (Cardinality(O) - 1)
  BY <1>2, <1>3, <1>4, <1>5, <1>6
<1> QED BY <1>1, <1>6, <1>7

IdInv ==
    /\ master \in [Channels -> Clients \cup {None}]
    /\ cid \in [Clients -> 0 .. (Cardinality(Clients) - 1) \cup {NoID}]
    /\ chid \in [Channels -> 0 .. (Cardinality(Channels) - 1) \cup {NoID}]
    /\ \A c, d \in LiveClients : cid[c] = cid[d] => c = d
    /\ \A x, y \in LiveChannels : chid[x] = chid[y] => x = y

LEMMA IdTypes == IdInv => cid \in [Clients -> Nat] /\ chid \in [Channels -> Nat]
<1>0. IsFiniteSet(Clients) /\ IsFiniteSet(Channels)
  BY RelayAssumption
<1>1. Cardinality(Clients) \in Nat /\ Cardinality(Channels) \in Nat
  BY <1>0, FS_CardinalityType
<1>2. \A i \in 0 .. (Cardinality(Clients) - 1) \cup {NoID} : i \in Nat
  BY <1>1 DEF NoID
<1>3. \A i \in 0 .. (Cardinality(Channels) - 1) \cup {NoID} : i \in Nat
  BY <1>1 DEF NoID
<1> QED BY <1>2, <1>3 DEF IdInv

(* What a live object references is alive. *)
LEMMA LiveClosed ==
    /\ clients \subseteq LiveClients /\ channels \subseteq LiveChannels
    /\ \A r \in Waiting : /\ r.cl \in LiveClients
                          /\ r.ch \in LiveChannels \cup {None}
                          /\ r.to \in LiveClients \cup {None}
    /\ \A ch \in LiveChannels : /\ members[ch] \subseteq LiveClients
                                /\ master[ch] \in LiveClients \cup {None}
BY DEF LiveClients, LiveChannels

(* Nothing else is: sets that hold the roots and are closed under          *)
(* references hold every live object after a step.                         *)
LEMMA LiveWithin ==
    ASSUME NEW C, NEW H, clients' \subseteq C, channels' \subseteq H,
           \A r \in Waiting' : r.cl \in C /\ r.ch \in H \cup {None} /\ r.to \in C \cup {None},
           \A ch \in H : members'[ch] \subseteq C /\ master'[ch] \in C \cup {None}
    PROVE  LiveClients' \subseteq C /\ LiveChannels' \subseteq H
<1>1. LiveChannels' \subseteq H
  BY DEF LiveChannels
<1> QED BY <1>1 DEF LiveClients

LEMMA LiveTyped ==
    ASSUME MemberInv
    PROVE  /\ LiveChannels \subseteq Channels
           /\ IdInv => LiveClients \subseteq Clients
<1>1. \A r \in Waiting : r \in Request
  BY DEF Waiting, MemberInv, Shape
<1>2. LiveChannels \subseteq Channels
  BY <1>1 DEF LiveChannels, MemberInv, Shape, Request
<1> QED BY <1>1, <1>2 DEF LiveClients, MemberInv, Shape, Request, IdInv

(* A step after which no more is referenced than before. *)
LEMMA LiveShrinks ==
    ASSUME MemberInv, clients' \subseteq clients, channels' \subseteq LiveChannels,
           \A s \in Slots : pending'[s] # NoRequest => pending'[s] = pending[s],
           \A ch \in Channels : /\ members'[ch] \subseteq members[ch] \cup LiveClients
                                /\ master'[ch] \in {master[ch], None}
    PROVE  LiveClients' \subseteq LiveClients /\ LiveChannels' \subseteq LiveChannels
<1>1. Waiting' \subseteq Waiting
  BY DEF Waiting
<1>2. \A ch \in LiveChannels : /\ members'[ch] \subseteq LiveClients
                               /\ master'[ch] \in LiveClients \cup {None}
  BY LiveClosed, LiveTyped
<1> QED BY <1>1, <1>2, LiveClosed, LiveWithin

(* What LeaveAndClose and Destructors do to IDs and masters. *)
KeepsIDs ==
    /\ cid' = [c \in Clients |-> IF c \in LiveClients' THEN cid[c] ELSE NoID]
    /\ chid' = [ch \in Channels |-> IF ch \in LiveChannels' THEN chid[ch] ELSE NoID]

(* Answers and departures: what lives on keeps its ID. *)
LEMMA KeptIDs ==
    ASSUME MemberInv, IdInv, KeepsIDs, clients' \subseteq clients, channels' \subseteq LiveChannels,
           \A s \in Slots : pending'[s] # NoRequest => pending'[s] = pending[s],
           \A ch \in Channels : /\ members'[ch] \subseteq members[ch] \cup LiveClients
                                /\ master'[ch] \in {master[ch], None},
           master' \in [Channels -> Clients \cup {None}]
    PROVE  /\ IdInv'
           /\ \A c \in clients' : cid'[c] = cid[c]
           /\ \A ch \in channels' : chid'[ch] = chid[ch]
<1>1. LiveClients' \subseteq LiveClients /\ LiveChannels' \subseteq LiveChannels
  BY LiveShrinks
<1>2. LiveClients \subseteq Clients /\ LiveChannels \subseteq Channels
  BY LiveTyped
<1>3. clients' \subseteq LiveClients' /\ channels' \subseteq LiveChannels'
  BY DEF LiveClients, LiveChannels
<1> QED BY <1>1, <1>2, <1>3 DEF IdInv, KeepsIDs

(* Requests and the rest, which only add references to what is alive. *)
LEMMA SameIDs ==
    ASSUME IdInv, UNCHANGED <<cid, chid, master>>,
           LiveClients' \subseteq LiveClients, LiveChannels' \subseteq LiveChannels
    PROVE  IdInv'
BY DEF IdInv

(* What LeaveAndClose does to the masters. *)
LEMMA MastersLeave ==
    ASSUME IdInv, NEW c, NEW staying, NEW closing, LeaveAndClose(c, staying, closing)
    PROVE  /\ master' \in [Channels -> Clients \cup {None}]
           /\ \A ch \in Channels : master'[ch] \in {master[ch], None}
BY DEF LeaveAndClose, MasterAfter, IdInv

LEMMA LeavingIDs ==
    ASSUME MemberInv, IdInv, NEW c \in Clients \cup {None}, NEW staying, NEW closing,
           c = None => staying = {},
           LeaveAndClose(c, staying, closing), KeepsIDs, clients' \subseteq clients,
           \A s \in Slots : pending'[s] # NoRequest => pending'[s] = pending[s]
    PROVE  /\ IdInv'
           /\ \A d \in clients' : cid'[d] = cid[d]
           /\ \A ch \in channels' : chid'[ch] = chid[ch]
<1>1. channels' \subseteq LiveChannels /\ \A ch \in Channels : members'[ch] \subseteq members[ch]
  BY LeaveAndCloseFacts, LiveClosed DEF MemberInv
<1> QED BY <1>1, MastersLeave, KeptIDs

(* Answers that move nobody on or off a channel, and accepted joins. *)
LEMMA AnswerIDs ==
    ASSUME MemberInv, IdInv, NEW s \in Slots, NEW type \in RequestTypes, Answer(s, type),
           KeepsIDs, UNCHANGED <<clients, master>>,
           \/ UNCHANGED <<channels, members>>
           \/ type = "join" /\ channel_addclient(pending[s].cl, pending[s].ch)
    PROVE  /\ IdInv'
           /\ \A d \in clients' : cid'[d] = cid[d]
           /\ \A ch \in channels' : chid'[ch] = chid[ch]
<1>1. /\ pending[s] \in Request /\ pending[s].type = type
      /\ \A t \in Slots : pending'[t] # NoRequest => pending'[t] = pending[t]
  BY AnswerFacts
<1>2. pending[s] \in Waiting
  BY <1>1, RequestFields DEF Waiting
<1>3. pending[s].cl \in LiveClients /\ (type = "join" => pending[s].ch \in LiveChannels)
  <2>1. type = "join" => pending[s].ch # None
    BY <1>1, RelayAssumption DEF MemberInv, Shape
  <2> QED BY <1>2, <2>1, LiveClosed
<1>4. channels' \subseteq LiveChannels
  BY <1>3, LiveClosed DEF channel_addclient
<1>5. \A ch \in Channels : members'[ch] \subseteq members[ch] \cup LiveClients
  BY <1>3 DEF channel_addclient, MemberInv, Shape
<1> QED BY <1>1, <1>4, <1>5, KeptIDs DEF IdInv

LEMMA QueueWaiting ==
    ASSUME MemberInv, NEW type, NEW c, NEW ch, NEW n, NEW d, Queue(type, c, ch, n, d)
    PROVE  \A r \in Waiting' : r \in Waiting \/ (r.cl = c /\ r.ch = ch /\ r.to = d)
<1> DEFINE q == [type |-> type, cl |-> c, ch |-> ch, name |-> n, to |-> d]
<1>1. PICK s \in Slots : pending' = [pending EXCEPT ![s] = q]
  BY DEF Queue
<1>2. q.cl = c /\ q.ch = ch /\ q.to = d
  OBVIOUS
<1> HIDE DEF q
<1>3. ASSUME NEW r \in Waiting'
      PROVE  r \in Waiting \/ r = q
  <2>1. PICK t \in Slots : pending'[t] # NoRequest /\ r = pending'[t]
    BY DEF Waiting
  <2> QED BY <1>1, <2>1 DEF Waiting, MemberInv, Shape
<1> QED BY <1>2, <1>3

(* A request refers to objects that are alive. *)
LEMMA QueueIDs ==
    ASSUME MemberInv, IdInv, NEW type, NEW c \in clients, NEW ch \in LiveChannels \cup {None},
           NEW n, NEW d \in LiveClients \cup {None}, Queue(type, c, ch, n, d),
           UNCHANGED <<clients, channels, members, master, cid, chid>>
    PROVE  IdInv'
<1>1. \A r \in Waiting' : r \in Waiting \/ (r.cl = c /\ r.ch = ch /\ r.to = d)
  BY QueueWaiting
<1>2. /\ clients' \subseteq LiveClients /\ channels' \subseteq LiveChannels
      /\ \A r \in Waiting' : /\ r.cl \in LiveClients
                             /\ r.ch \in LiveChannels \cup {None}
                             /\ r.to \in LiveClients \cup {None}
      /\ \A x \in LiveChannels : /\ members'[x] \subseteq LiveClients
                                 /\ master'[x] \in LiveClients \cup {None}
  BY <1>1, LiveClosed
<1>3. LiveClients' \subseteq LiveClients /\ LiveChannels' \subseteq LiveChannels
  BY <1>2, LiveWithin
<1> QED BY <1>3, SameIDs

LEMMA ConnectIDs ==
    ASSUME MemberInv, IdInv, NEW c \in Clients, Connect(c)
    PROVE  IdInv' /\ \A d \in clients : cid'[d] = cid[d]
<1>1. /\ LiveClients \subseteq Clients /\ c \notin LiveClients /\ IsFiniteSet(Clients)
      /\ cid \in [Clients -> Nat]
  BY LiveTyped, IdTypes, RelayAssumption DEF Connect
<1>2. PICK id : id = LowestFree({cid[d] : d \in LiveClients})
  OBVIOUS
<1>3. id \in 0 .. (Cardinality(Clients) - 1) /\ \A d \in LiveClients : cid[d] # id
  <2> DEFINE low == LowestFree({cid[d] : d \in LiveClients})
  <2>1. low \in 0 .. (Cardinality(Clients) - 1) /\ \A d \in LiveClients : cid[d] # low
    BY <1>1, FreshID
  <2> HIDE DEF low
  <2>2. id = low
    BY <1>2 DEF low
  <2> QED BY <2>1, <2>2
<1>4. /\ cid' = [cid EXCEPT ![c] = id] /\ clients' = clients \cup {c}
      /\ UNCHANGED <<channels, members, master, chid, pending>>
  BY <1>2 DEF Connect, channelVars
<1>5. Waiting' = Waiting
  BY <1>4 DEF Waiting
<1>9. PICK C : C = LiveClients \cup {c}
  OBVIOUS
<1>10. /\ clients' \subseteq C /\ channels' \subseteq LiveChannels
       /\ \A r \in Waiting' : /\ r.cl \in C
                              /\ r.ch \in LiveChannels \cup {None}
                              /\ r.to \in C \cup {None}
       /\ \A x \in LiveChannels : members'[x] \subseteq C /\ master'[x] \in C \cup {None}
  BY <1>4, <1>5, <1>9, LiveClosed
<1>11. LiveClients' \subseteq C /\ LiveChannels' \subseteq LiveChannels
  BY <1>10, LiveWithin
<1>6. LiveClients' \subseteq LiveClients \cup {c} /\ LiveChannels' \subseteq LiveChannels
  BY <1>9, <1>11
<1>7. IdInv'
  BY <1>1, <1>3, <1>4, <1>6 DEF IdInv
<1>8. \A d \in clients : cid'[d] = cid[d]
  BY <1>1, <1>4, LiveClosed DEF IdInv
<1> QED BY <1>7, <1>8

(* A new channel object, whether a request or createchannel() makes it. *)
LEMMA NewChannelIDs ==
    ASSUME MemberInv, IdInv, NEW c \in clients, NEW ch \in Channels, ch \notin LiveChannels,
           \A r \in Waiting' : r \in Waiting \/ (r.cl = c /\ r.ch = ch /\ r.to = None),
           channels' \subseteq channels \cup {ch},
           master' = [master EXCEPT ![ch] = c],
           chid' = [chid EXCEPT ![ch] = LowestFree({chid[x] : x \in LiveChannels})],
           UNCHANGED <<clients, members, cid>>
    PROVE  IdInv' /\ \A x \in channels : chid'[x] = chid[x]
<1>1. LiveChannels \subseteq Channels /\ IsFiniteSet(Channels) /\ chid \in [Channels -> Nat]
  BY LiveTyped, IdTypes, RelayAssumption
<1>2. PICK id : id = LowestFree({chid[x] : x \in LiveChannels})
  OBVIOUS
<1>3. id \in 0 .. (Cardinality(Channels) - 1) /\ \A x \in LiveChannels : chid[x] # id
  <2> DEFINE low == LowestFree({chid[x] : x \in LiveChannels})
  <2>1. low \in 0 .. (Cardinality(Channels) - 1) /\ \A x \in LiveChannels : chid[x] # low
    BY <1>1, FreshID
  <2> HIDE DEF low
  <2>2. id = low
    BY <1>2 DEF low
  <2> QED BY <2>1, <2>2
<1>4. members[ch] = {} /\ c \in Clients /\ c \in LiveClients
  BY LiveClosed DEF MemberInv, Shape, JoinedIsOpen
<1>10. PICK H : H = LiveChannels \cup {ch}
  OBVIOUS
<1>5. /\ clients' \subseteq LiveClients /\ channels' \subseteq H
      /\ \A r \in Waiting' : /\ r.cl \in LiveClients
                             /\ r.ch \in H \cup {None}
                             /\ r.to \in LiveClients \cup {None}
      /\ \A x \in H : /\ members'[x] \subseteq LiveClients
                      /\ master'[x] \in LiveClients \cup {None}
  BY <1>1, <1>4, <1>10, LiveClosed DEF IdInv
<1>15. LiveClients' \subseteq LiveClients /\ LiveChannels' \subseteq H
  BY <1>5, LiveWithin
<1>6. LiveClients' \subseteq LiveClients /\ LiveChannels' \subseteq LiveChannels \cup {ch}
  BY <1>10, <1>15
<1>7. chid' = [chid EXCEPT ![ch] = id]
  BY <1>2
<1>11. master' \in [Channels -> Clients \cup {None}] /\ cid' = cid
  BY <1>4 DEF IdInv
<1>12. chid' \in [Channels -> 0 .. (Cardinality(Channels) - 1) \cup {NoID}]
  BY <1>3, <1>7 DEF IdInv
<1>13. /\ chid'[ch] = id
       /\ \A x \in LiveChannels : chid'[x] = chid[x]
  BY <1>1, <1>7 DEF IdInv
<1>14. \A x, y \in LiveChannels' : chid'[x] = chid'[y] => x = y
  BY <1>3, <1>6, <1>13 DEF IdInv
<1>8. IdInv'
  BY <1>6, <1>11, <1>12, <1>14 DEF IdInv
<1>9. \A x \in channels : chid'[x] = chid[x]
  BY <1>1, <1>7, LiveClosed DEF IdInv
<1> QED BY <1>8, <1>9

(* No ID changes under those that use it. *)
SteadyIDs ==
    /\ \A d \in clients \cap clients' : cid'[d] = cid[d]
    /\ \A ch \in channels \cap channels' : chid'[ch] = chid[ch]

LEMMA IdStep == MemberInv /\ IdInv /\ [Next]_vars => IdInv' /\ SteadyIDs
<1> SUFFICES ASSUME MemberInv, IdInv, [Next]_vars PROVE IdInv' /\ SteadyIDs
  OBVIOUS
<1> USE DEF SteadyIDs
<1>1. ASSUME NEW c \in Clients, Connect(c)
      PROVE  IdInv' /\ SteadyIDs
  BY <1>1, ConnectIDs DEF Connect, channelVars
<1>2. ASSUME NEW type, NEW c \in clients, NEW ch, ch = None \/ ch \in channels, NEW n,
             NEW d, d = None \/ \E x \in channels : d \in members[x],
             Queue(type, c, ch, n, d), UNCHANGED <<clientVars, channelVars>>
      PROVE  IdInv' /\ SteadyIDs
  <2>1. ch \in LiveChannels \cup {None} /\ d \in LiveClients \cup {None}
    BY <1>2, LiveClosed
  <2>2. UNCHANGED <<clients, channels, members, master, cid, chid>>
    BY <1>2 DEF clientVars, channelVars
  <2> QED BY <1>2, <2>1, <2>2, QueueIDs
<1>3. ASSUME NEW c \in Clients, ConnectRequest(c)
      PROVE  IdInv' /\ SteadyIDs
  BY <1>2, <1>3 DEF ConnectRequest
<1>4. ASSUME NEW c \in Clients, NEW n \in Names, SetNameRequest(c, n)
      PROVE  IdInv' /\ SteadyIDs
  BY <1>2, <1>4 DEF SetNameRequest
<1>5. ASSUME NEW c \in Clients, NEW ch \in Channels,
             JoinRequest(c, ch) \/ LeaveRequest(c, ch) \/ ChannelMessage(c, ch)
      PROVE  IdInv' /\ SteadyIDs
  <2>1. ch \in channels /\ c \in clients
    BY <1>5 DEF JoinRequest, LeaveRequest, ChannelMessage, readchannel,
                MemberInv, MembershipSymmetric, JoinedIsOpen
  <2> QED BY <1>2, <1>5, <2>1 DEF JoinRequest, LeaveRequest, ChannelMessage
<1>6. ASSUME NEW c \in Clients, NEW d \in Clients, NEW ch \in Channels, PeerMessage(c, ch, d)
      PROVE  IdInv' /\ SteadyIDs
  <2>1. ch \in channels /\ c \in clients /\ d \in members[ch]
    BY <1>6 DEF PeerMessage, readchannel, MemberInv, MembershipSymmetric, JoinedIsOpen
  <2> QED BY <1>2, <1>6, <2>1 DEF PeerMessage
<1>7. ASSUME NEW c \in Clients, NEW ch \in Channels, NEW n \in ChannelNames, NEW auto \in BOOLEAN,
             JoinNewRequest(c, ch, n, auto) \/ createchannel(c, ch, n, auto)
      PROVE  IdInv' /\ SteadyIDs
  <2>1. \A r \in Waiting' : r \in Waiting \/ (r.cl = c /\ r.ch = ch /\ r.to = None)
    <3>1. CASE JoinNewRequest(c, ch, n, auto)
      BY <3>1, QueueWaiting DEF JoinNewRequest
    <3>2. CASE createchannel(c, ch, n, auto)
      BY <3>2 DEF createchannel, Waiting
    <3> QED BY <1>7, <3>1, <3>2
  <2>2. /\ c \in clients /\ ch \notin LiveChannels
        /\ channels' \subseteq channels \cup {ch}
        /\ master' = [master EXCEPT ![ch] = c]
        /\ chid' = [chid EXCEPT ![ch] = LowestFree({chid[x] : x \in LiveChannels})]
        /\ UNCHANGED <<clients, members, cid>>
    BY <1>7 DEF JoinNewRequest, createchannel, clientVars, Talking
  <2> QED BY <2>1, <2>2, NewChannelIDs
<1>8. ASSUME NEW s \in Slots, NEW type \in RequestTypes, Answer(s, type), KeepsIDs,
             UNCHANGED <<clients, master>>,
             \/ UNCHANGED <<channels, members>>
             \/ type = "join" /\ channel_addclient(pending[s].cl, pending[s].ch)
      PROVE  IdInv' /\ SteadyIDs
  BY <1>8, AnswerIDs
<1>9. ASSUME NEW s \in Slots, NEW approve \in BOOLEAN, connect_response(s, approve)
      PROVE  IdInv' /\ SteadyIDs
  BY <1>8, <1>9 DEF connect_response, Destructors, KeepsIDs, RequestTypes
<1>10. ASSUME NEW s \in Slots, nameset_response(s)
       PROVE  IdInv' /\ SteadyIDs
  BY <1>8, <1>10 DEF nameset_response, NameRefused, NameAccepted, DropReferences, Destructors,
                     KeepsIDs, RequestTypes
<1>11. ASSUME NEW s \in Slots, MessagePermit(s)
       PROVE  IdInv' /\ SteadyIDs
  BY <1>8, <1>11 DEF MessagePermit, DropReferences, Destructors, KeepsIDs, RequestTypes
<1>12. ASSUME NEW s \in Slots, NEW approve \in BOOLEAN, joinchannel_response(s, approve)
       PROVE  IdInv' /\ SteadyIDs
  <2>1. KeepsIDs /\ Answer(s, "join") /\ UNCHANGED <<clients, master>>
    BY <1>12 DEF joinchannel_response, channel_addclient, DropReferences, Destructors, KeepsIDs
  <2>2. \/ UNCHANGED <<channels, members>>
        \/ channel_addclient(pending[s].cl, pending[s].ch)
    BY <1>12 DEF joinchannel_response
  <2> QED BY <1>8, <2>1, <2>2 DEF RequestTypes
<1>13. ASSUME NEW c \in Clients \cup {None}, NEW staying, NEW closing, c = None => staying = {},
              LeaveAndClose(c, staying, closing), KeepsIDs, clients' \subseteq clients,
              \A s \in Slots : pending'[s] # NoRequest => pending'[s] = pending[s]
       PROVE  IdInv' /\ SteadyIDs
  BY <1>13, LeavingIDs
<1>14. ASSUME NEW s \in Slots, NEW approve \in BOOLEAN, leavechannel_response(s, approve)
       PROVE  IdInv' /\ SteadyIDs
  <2>1. CASE ~approve
    BY <1>8, <1>14, <2>1 DEF leavechannel_response, DropReferences, Destructors, KeepsIDs, RequestTypes
  <2>2. CASE approve
    <3>1. PICK c : c = pending[s].cl
      OBVIOUS
    <3>2. c \in Clients /\ c # None
      BY <1>14, <3>1, AnswerFacts, RequestFields, RelayAssumption DEF leavechannel_response, RequestTypes
    <3>3. channel_removeclient(c, {pending[s].ch}, readonly)
      BY <1>14, <2>2, <3>1 DEF leavechannel_response
    <3>4. \E staying, closing : LeaveAndClose(c, staying, closing)
      BY <3>3 DEF channel_removeclient
    <3>5. KeepsIDs
      BY <3>3 DEF channel_removeclient, Destructors, KeepsIDs
    <3>6. clients' \subseteq clients
      BY <1>14 DEF leavechannel_response
    <3>7. \A t \in Slots : pending'[t] # NoRequest => pending'[t] = pending[t]
      BY <1>14, AnswerFacts DEF leavechannel_response, RequestTypes
    <3> QED BY <1>13, <3>2, <3>4, <3>5, <3>6, <3>7
  <2> QED BY <2>1, <2>2
<1>15. ASSUME NEW c \in clients, Dropped(c)
       PROVE  IdInv' /\ SteadyIDs
  <2>1. c \in Clients /\ c # None
    BY RelayAssumption DEF MemberInv, Shape
  <2>2. channel_removeclient(c, joined[c], Mark(readonly, {c})) /\ clients' \subseteq clients
    BY <1>15 DEF Dropped
  <2>3. \E staying, closing : LeaveAndClose(c, staying, closing)
    BY <2>2 DEF channel_removeclient
  <2>4. KeepsIDs
    BY <2>2 DEF channel_removeclient, Destructors, KeepsIDs
  <2>5. \A t \in Slots : pending'[t] # NoRequest => pending'[t] = pending[t]
    BY <1>15 DEF Dropped
  <2> QED BY <1>13, <2>1, <2>2, <2>3, <2>4, <2>5
<1>16. ASSUME NEW ch \in Channels, CloseChannel(ch)
       PROVE  IdInv' /\ SteadyIDs
  <2>1. PICK staying, closing : staying = {} /\ LeaveAndClose(None, staying, closing)
    BY <1>16 DEF CloseChannel
  <2>2. KeepsIDs
    BY <1>16 DEF CloseChannel, Destructors, KeepsIDs
  <2> QED BY <1>13, <1>16, <2>1, <2>2 DEF CloseChannel
<1>17. ASSUME UNCHANGED <<clients, channels, members, master, cid, chid, pending>>
       PROVE  IdInv' /\ SteadyIDs
  <2>1. LiveClients' = LiveClients /\ LiveChannels' = LiveChannels
    BY <1>17 DEF LiveClients, LiveChannels, Waiting
  <2> QED BY <1>17, <2>1, SameIDs
<1>18. CASE \/ \E c \in Clients : Boot(c)
            \/ Unhost \/ UnhostClientsDone \/ UnhostDone \/ Host
            \/ \E ch \in Channels : UnhostChannel(ch)
            \/ UNCHANGED vars
  BY <1>17, <1>18 DEF Boot, Unhost, UnhostClientsDone, UnhostDone, Host, UnhostChannel,
                      vars, clientVars, channelVars
<1>19. CASE Next
  BY <1>19, <1>1, <1>3, <1>4, <1>5, <1>6, <1>7, <1>9, <1>10, <1>11, <1>12, <1>14, <1>15, <1>16, <1>18
     DEF Next, Disconnect, UnhostStep, UnhostClient
<1> QED BY <1>18, <1>19

LEMMA IdInvariant == Spec => []IdInv
<1>1. Init => IdInv
  BY DEF Init, IdInv, LiveClients, LiveChannels, Waiting
<1> QED BY <1>1, IdStep, MemberInvariant, PTL DEF Spec

(***************************************************************************)
(* Only clients whose connection was approved ask to join, and only they   *)
(* are on channels.                                                        *)
(***************************************************************************)

AboutChannel == {"join", "leave", "message", "peer"}

AskedInv ==
    /\ approved \in [Clients -> BOOLEAN]
    /\ \A c \in Clients : joined[c] # {} => approved[c]
    /\ \A s \in Slots : pending[s].type = "join" => approved[pending[s].cl]
    /\ \A s \in Slots : pending[s].type \in AboutChannel => pending[s].ch \in Channels

LEMMA AskedKept ==
    ASSUME MemberInv, MemberInv', AskedInv,
           approved' \in [Clients -> BOOLEAN],
           \A c \in LiveClients' : c \in Clients /\ approved[c] => approved'[c],
           \A c \in Clients : joined'[c] \subseteq joined[c] \/ approved[c],
           \A s \in Slots : pending'[s] # NoRequest =>
               \/ pending'[s] = pending[s]
               \/ /\ pending'[s].type = "join" => approved[pending'[s].cl]
                  /\ pending'[s].type \in AboutChannel => pending'[s].ch \in Channels
    PROVE  AskedInv'
<1>1. ASSUME NEW c \in Clients, joined'[c] # {}
      PROVE  approved'[c]
  <2>1. c \in clients'
    BY <1>1 DEF MemberInv, MembershipSymmetric, Shape
  <2>2. approved[c]
    BY <1>1 DEF AskedInv
  <2> QED BY <2>1, <2>2, LiveClosed DEF LiveClients
<1>2. ASSUME NEW s \in Slots, pending'[s].type = "join"
      PROVE  approved'[pending'[s].cl]
  <2>1. pending'[s] # NoRequest
    BY <1>2, RequestFields
  <2>2. pending'[s].cl \in LiveClients' /\ pending'[s].cl \in Clients
    BY <2>1, RequestLive, RequestFields DEF MemberInv, Shape
  <2>3. approved[pending'[s].cl]
    BY <1>2, <2>1 DEF AskedInv
  <2> QED BY <2>2, <2>3
<1>3. ASSUME NEW s \in Slots, pending'[s].type \in AboutChannel
      PROVE  pending'[s].ch \in Channels
  <2>1. pending'[s] # NoRequest
    BY <1>3, RequestFields DEF AboutChannel
  <2> QED BY <1>3, <2>1 DEF AskedInv
<1> QED BY <1>1, <1>2, <1>3 DEF AskedInv

(* What Destructors does to approved. *)
Approvals(ap) == approved' = [c \in Clients |-> c \in LiveClients' /\ ap[c]]

LEMMA AskedAnswered ==
    ASSUME MemberInv, MemberInv', AskedInv, NEW ap \in [Clients -> BOOLEAN], Approvals(ap),
           \A c \in Clients : approved[c] => ap[c],
           \A c \in Clients : joined'[c] \subseteq joined[c] \/ approved[c],
           \A s \in Slots : pending'[s] # NoRequest => pending'[s] = pending[s]
    PROVE  AskedInv'
<1>1. approved' \in [Clients -> BOOLEAN]
  BY DEF Approvals
<1>2. \A c \in LiveClients' : c \in Clients /\ approved[c] => approved'[c]
  BY DEF Approvals
<1> QED BY <1>1, <1>2, AskedKept

LEMMA QueuePending ==
    ASSUME MemberInv, NEW type, NEW c, NEW ch, NEW n, NEW d, Queue(type, c, ch, n, d)
    PROVE  \A s \in Slots : \/ pending'[s] = pending[s]
                            \/ /\ pending'[s].type = type /\ pending'[s].cl = c
                               /\ pending'[s].ch = ch /\ pending'[s].to = d
<1> DEFINE q == [type |-> type, cl |-> c, ch |-> ch, name |-> n, to |-> d]
<1>1. PICK s \in Slots : pending' = [pending EXCEPT ![s] = q]
  BY DEF Queue
<1>2. q.type = type /\ q.cl = c /\ q.ch = ch /\ q.to = d
  OBVIOUS
<1> HIDE DEF q
<1> QED BY <1>1, <1>2 DEF MemberInv, Shape

LEMMA AskedQueued ==
    ASSUME MemberInv, MemberInv', AskedInv, NEW type, NEW c, NEW ch, NEW n, NEW d,
           Queue(type, c, ch, n, d),
           type = "connect" \/ type = "name" \/ (approved[c] /\ ch \in Channels),
           UNCHANGED <<approved, joined>>
    PROVE  AskedInv'
<1>1. \A s \in Slots : \/ pending'[s] = pending[s]
                       \/ /\ pending'[s].type = "join" => approved[pending'[s].cl]
                          /\ pending'[s].type \in AboutChannel => pending'[s].ch \in Channels
  BY QueuePending DEF AboutChannel
<1> QED BY <1>1, AskedKept DEF AskedInv

LEMMA AskedStep == MemberInv /\ AskedInv /\ [Next]_vars => AskedInv'
<1> SUFFICES ASSUME MemberInv, AskedInv, [Next]_vars, MemberInv' PROVE AskedInv'
  BY MemberStep
<1>0. approved \in [Clients -> BOOLEAN]
  BY DEF AskedInv
<1>1. CASE UNCHANGED <<approved, joined, pending>>
  BY <1>1 DEF AskedInv
<1>2. CASE \/ \E c \in Clients : Connect(c) \/ Boot(c)
           \/ \E c \in Clients, ch \in Channels, n \in ChannelNames, auto \in BOOLEAN :
                 createchannel(c, ch, n, auto)
           \/ Unhost \/ UnhostClientsDone \/ UnhostDone \/ Host
           \/ \E ch \in Channels : UnhostChannel(ch)
           \/ UNCHANGED vars
  BY <1>1, <1>2 DEF Connect, Boot, createchannel, Unhost, UnhostClientsDone, UnhostDone, Host,
                    UnhostChannel, vars, clientVars, channelVars
<1>3. ASSUME NEW c \in Clients, \/ ConnectRequest(c) \/ \E n \in Names : SetNameRequest(c, n)
      PROVE  AskedInv'
  BY <1>3, AskedQueued DEF ConnectRequest, SetNameRequest, clientVars, channelVars
<1>4. ASSUME NEW c \in Clients, NEW ch \in Channels,
             \/ \E n \in ChannelNames, auto \in BOOLEAN : JoinNewRequest(c, ch, n, auto)
             \/ JoinRequest(c, ch) \/ LeaveRequest(c, ch) \/ ChannelMessage(c, ch)
             \/ \E d \in Clients : PeerMessage(c, ch, d)
      PROVE  AskedInv'
  BY <1>4, AskedQueued
     DEF JoinNewRequest, JoinRequest, LeaveRequest, ChannelMessage, PeerMessage, clientVars, channelVars
<1>5. ASSUME NEW s \in Slots, NEW type \in RequestTypes, Answer(s, type)
      PROVE  \A t \in Slots : pending'[t] # NoRequest => pending'[t] = pending[t]
  BY <1>5, AnswerFacts
<1>6. ASSUME NEW s \in Slots, NEW approve \in BOOLEAN, connect_response(s, approve)
      PROVE  AskedInv'
  <2> DEFINE answered == {d \in {pending[s].cl} : ~readonly[pending[s].cl] /\ ~approved[pending[s].cl]}
             ok == approve /\ hosting
  <2>1. PICK ap : ap = IF ok THEN Mark(approved, answered) ELSE approved
    OBVIOUS
  <2>2. Approvals(ap) /\ UNCHANGED joined
    BY <1>6, <2>1 DEF connect_response, Destructors, Approvals
  <2>3. ap \in [Clients -> BOOLEAN] /\ \A c \in Clients : approved[c] => ap[c]
    BY <1>0, <2>1, MarkType
  <2>4. \A t \in Slots : pending'[t] # NoRequest => pending'[t] = pending[t]
    BY <1>5, <1>6 DEF connect_response, RequestTypes
  <2> QED BY <2>2, <2>3, <2>4, AskedAnswered
<1>7. ASSUME Approvals(approved),
             \A t \in Slots : pending'[t] # NoRequest => pending'[t] = pending[t],
             \A c \in Clients : joined'[c] \subseteq joined[c] \/ approved[c]
      PROVE  AskedInv'
  BY <1>0, <1>7, AskedAnswered
<1>8. ASSUME NEW s \in Slots, nameset_response(s) \/ MessagePermit(s)
      PROVE  AskedInv'
  <2>1. Approvals(approved) /\ UNCHANGED joined
    BY <1>8 DEF nameset_response, NameRefused, NameAccepted, MessagePermit, DropReferences,
                Destructors, Approvals
  <2>2. \A t \in Slots : pending'[t] # NoRequest => pending'[t] = pending[t]
    BY <1>5, <1>8 DEF nameset_response, MessagePermit, RequestTypes
  <2> QED BY <1>7, <2>1, <2>2
<1>9. ASSUME NEW s \in Slots, NEW approve \in BOOLEAN, joinchannel_response(s, approve)
      PROVE  AskedInv'
  <2>1. Approvals(approved) /\ Answer(s, "join")
    BY <1>9 DEF joinchannel_response, DropReferences, Destructors, Approvals
  <2>2. \A t \in Slots : pending'[t] # NoRequest => pending'[t] = pending[t]
    BY <1>5, <2>1 DEF RequestTypes
  <2>3. approved[pending[s].cl]
    BY <2>1 DEF Answer, AskedInv
  <2>4. \A c \in Clients : joined'[c] \subseteq joined[c] \/ approved[c]
    BY <1>9, <2>3 DEF joinchannel_response, channel_addclient, MemberInv, Shape
  <2> QED BY <1>7, <2>1, <2>2, <2>4
<1>10. ASSUME NEW c, NEW staying, NEW closing, LeaveAndClose(c, staying, closing)
       PROVE  \A d \in Clients : joined'[d] \subseteq joined[d]
  BY <1>10 DEF LeaveAndClose
<1>11. ASSUME NEW s \in Slots, NEW approve \in BOOLEAN, leavechannel_response(s, approve)
       PROVE  AskedInv'
  <2>1. Approvals(approved) /\ Answer(s, "leave")
    BY <1>11 DEF leavechannel_response, channel_removeclient, DropReferences, Destructors, Approvals
  <2>2. \A t \in Slots : pending'[t] # NoRequest => pending'[t] = pending[t]
    BY <1>5, <2>1 DEF RequestTypes
  <2>3. \A d \in Clients : joined'[d] \subseteq joined[d]
    BY <1>10, <1>11 DEF leavechannel_response, channel_removeclient
  <2> QED BY <1>7, <2>1, <2>2, <2>3
<1>12. ASSUME NEW c \in Clients, Dropped(c)
       PROVE  AskedInv'
  <2>1. Approvals(approved) /\ pending' = pending
    BY <1>12 DEF Dropped, channel_removeclient, Destructors, Approvals
  <2>2. \A d \in Clients : joined'[d] \subseteq joined[d]
    BY <1>10, <1>12 DEF Dropped, channel_removeclient
  <2> QED BY <1>7, <2>1, <2>2
<1>13. ASSUME NEW ch \in Channels, CloseChannel(ch)
       PROVE  AskedInv'
  <2>1. Approvals(approved) /\ pending' = pending
    BY <1>13 DEF CloseChannel, Destructors, Approvals
  <2>2. \A d \in Clients : joined'[d] \subseteq joined[d]
    BY <1>10, <1>13 DEF CloseChannel
  <2> QED BY <1>7, <2>1, <2>2
<1>14. CASE Next
  BY <1>14, <1>2, <1>3, <1>4, <1>6, <1>8, <1>9, <1>11, <1>12, <1>13
     DEF Next, Disconnect, UnhostStep, UnhostClient
<1> QED BY <1>2, <1>14

LEMMA AskedInvariant == Spec => []AskedInv
<1>1. Init => AskedInv
  BY DEF Init, AskedInv, NoRequest, AboutChannel
<1> QED BY <1>1, AskedStep, MemberInvariant, PTL DEF Spec

(***************************************************************************)
(* Views.  A view holds what ViewAgrees says and nothing else; one that    *)
(* belongs to nobody the server talks to is empty, so that a new client    *)
(* starts with a blank one.                                                *)
(***************************************************************************)

PeerTold(c, t) ==
    \E ch \in joined[c] : \E e \in members[ch] \ {c} : t = <<chid[ch], cid[e], cname[e]>>

ViewInv ==
    /\ DOMAIN chview = Clients /\ DOMAIN peerview = Clients
    /\ \A c \in Clients : \A i : i \in chview[c] <=> c \in Talking /\ \E ch \in joined[c] : i = chid[ch]
    /\ \A c \in Clients : \A t : t \in peerview[c] <=> c \in Talking /\ PeerTold(c, t)

LEMMA ViewsRight == MemberInv /\ ViewInv => ViewAgrees
<1> SUFFICES ASSUME MemberInv, ViewInv, NEW c \in Talking
             PROVE  /\ chview[c] = {chid[ch] : ch \in joined[c]}
                    /\ peerview[c] = UNION {{<<chid[ch], cid[d], cname[d]>> : d \in members[ch] \ {c}} :
                                              ch \in joined[c]}
  BY DEF ViewAgrees
<1>1. c \in Clients
  BY DEF Talking, MemberInv, Shape
<1>2. chview[c] = {chid[ch] : ch \in joined[c]}
  BY <1>1 DEF ViewInv
<1>3. ASSUME NEW t
      PROVE  t \in peerview[c] <=>
             t \in UNION {{<<chid[ch], cid[d], cname[d]>> : d \in members[ch] \ {c}} : ch \in joined[c]}
  BY <1>1 DEF ViewInv, PeerTold
<1> QED BY <1>2, <1>3

(* Steps that send nothing about who is on which channel. *)
LEMMA SameViews ==
    ASSUME MemberInv, MemberInv', ViewInv, SteadyIDs,
           UNCHANGED <<joined, members>>,
           DOMAIN chview' = Clients, DOMAIN peerview' = Clients,
           \A c \in clients \cap clients' : cname'[c] = cname[c],
           \A c \in Clients :
               \/ /\ c \in Talking <=> c \in Talking'
                  /\ chview'[c] = chview[c] /\ peerview'[c] = peerview[c]
               \/ joined[c] = {} /\ chview'[c] = chview[c] /\ peerview'[c] = peerview[c]
               \/ c \notin Talking' /\ chview'[c] = {} /\ peerview'[c] = {}
    PROVE  ViewInv'
<1>1. ASSUME NEW c \in Clients, NEW ch \in joined[c]
      PROVE  chid'[ch] = chid[ch]
  <2>1. ch \in Channels /\ members[ch] # {} /\ members'[ch] # {}
    BY <1>1 DEF MemberInv, Shape, MembershipSymmetric
  <2> QED BY <2>1 DEF MemberInv, JoinedIsOpen, SteadyIDs
<1>2. ASSUME NEW ch \in Channels, NEW e \in members[ch]
      PROVE  cid'[e] = cid[e] /\ cname'[e] = cname[e]
  BY <1>2 DEF MemberInv, MembershipSymmetric, SteadyIDs
<1>3. \A c \in Clients : \A t : PeerTold(c, t)' <=> PeerTold(c, t)
  BY <1>1, <1>2 DEF PeerTold, MemberInv, Shape
<1>4. \A c \in Clients : joined[c] = {} => chview[c] = {} /\ peerview[c] = {}
  BY DEF ViewInv, PeerTold
<1>5. \A c \in Clients : \A t : joined[c] = {} => ~PeerTold(c, t)
  BY DEF PeerTold
<1>6. ASSUME NEW c \in Clients, NEW i
      PROVE  i \in chview'[c] <=> c \in Talking' /\ \E ch \in joined'[c] : i = chid'[ch]
  BY <1>1, <1>4 DEF ViewInv
<1>7. ASSUME NEW c \in Clients, NEW t
      PROVE  t \in peerview'[c] <=> c \in Talking' /\ PeerTold(c, t)'
  BY <1>3, <1>4, <1>5 DEF ViewInv
<1> QED BY <1>6, <1>7 DEF ViewInv

(* nameset_response sends a client's new name to its peers. *)
LEMMA RenameViews ==
    ASSUME MemberInv, MemberInv', IdInv, ViewInv, SteadyIDs,
           NEW c \in clients, NEW n,
           UNCHANGED <<joined, members, chview, clients>>,
           \A d \in clients : readonly'[d] = readonly[d],
           \A d \in clients : cname'[d] = IF d = c THEN n ELSE cname[d],
           peerview' = Renamed(c, n)
    PROVE  ViewInv'
<1>0. clients \subseteq Clients
  BY DEF MemberInv, Shape
<1>1. ASSUME NEW d \in Clients, NEW ch \in joined[d]
      PROVE  chid'[ch] = chid[ch] /\ ch \in Channels /\ d \in members[ch] /\ d \in clients
  <2>1. ch \in Channels /\ d \in members[ch] /\ members[ch] # {} /\ members'[ch] # {}
    BY <1>1 DEF MemberInv, Shape, MembershipSymmetric
  <2> QED BY <2>1 DEF MemberInv, JoinedIsOpen, SteadyIDs, MembershipSymmetric
<1>2. ASSUME NEW ch \in Channels, NEW e \in members[ch]
      PROVE  /\ cid'[e] = cid[e] /\ cname'[e] = (IF e = c THEN n ELSE cname[e])
             /\ e \in Clients /\ ch \in joined[e]
  BY <1>2, <1>0 DEF MemberInv, MembershipSymmetric, SteadyIDs
<1>3. Talking' = Talking
  BY DEF Talking
<1>4. \A d \in Clients : \A i : i \in chview'[d] <=> d \in Talking' /\ \E ch \in joined'[d] : i = chid'[ch]
  BY <1>1, <1>3 DEF ViewInv
<1>5. ASSUME NEW d \in Clients, d = c \/ d \notin Talking, NEW t
      PROVE  t \in peerview'[d] <=> d \in Talking' /\ PeerTold(d, t)'
  <2>1. peerview'[d] = peerview[d]
    BY <1>5 DEF Renamed
  <2>2. d \in Talking => (PeerTold(d, t)' <=> PeerTold(d, t))
    BY <1>1, <1>2, <1>5 DEF PeerTold
  <2> QED BY <1>3, <2>1, <2>2 DEF ViewInv
<1>6. ASSUME NEW d \in Talking, d # c, NEW t
      PROVE  t \in peerview'[d] <=> PeerTold(d, t)'
  <2>0. d \in Clients
    BY <1>0 DEF Talking
  <2>1. PICK ids : ids = {chid[ch] : ch \in {x \in joined[c] : d \in members[x]}}
    OBVIOUS
  <2>2. peerview'[d] = {u \in peerview[d] : u[1] \notin ids \/ u[2] # cid[c]}
                          \cup {<<id, cid[c], n>> : id \in ids}
    BY <1>6, <2>0, <2>1 DEF Renamed
  <2>3. ASSUME t \in peerview'[d]
        PROVE  PeerTold(d, t)'
    <3>1. CASE t \in peerview[d] /\ (t[1] \notin ids \/ t[2] # cid[c])
      <4>1. PICK ch \in joined[d] : \E e \in members[ch] \ {d} : t = <<chid[ch], cid[e], cname[e]>>
        BY <2>0, <3>1 DEF ViewInv, PeerTold
      <4>2. PICK e \in members[ch] \ {d} : t = <<chid[ch], cid[e], cname[e]>>
        BY <4>1
      <4>3. e # c
        BY <1>1, <1>2, <2>0, <2>1, <3>1, <4>2
      <4> QED BY <1>1, <1>2, <2>0, <4>2, <4>3 DEF PeerTold
    <3>2. ASSUME NEW ch \in joined[c], d \in members[ch], t = <<chid[ch], cid[c], n>>
          PROVE  PeerTold(d, t)'
      <4>1. ch \in joined[d] /\ c \in members[ch] \ {d}
        BY <1>0, <1>1, <1>2, <1>6, <3>2
      <4> QED BY <1>1, <1>2, <2>0, <3>2, <4>1 DEF PeerTold
    <3> QED BY <2>1, <2>2, <2>3, <3>1, <3>2
  <2>4. ASSUME PeerTold(d, t)'
        PROVE  t \in peerview'[d]
    <3>1. PICK ch \in joined[d] : \E e \in members[ch] \ {d} : t = <<chid'[ch], cid'[e], cname'[e]>>
      BY <2>4 DEF PeerTold
    <3>5. PICK e \in members[ch] \ {d} : t = <<chid'[ch], cid'[e], cname'[e]>>
      BY <3>1
    <3>2. /\ ch \in Channels /\ t = <<chid[ch], cid[e], IF e = c THEN n ELSE cname[e]>>
          /\ e \in Clients /\ ch \in joined[e]
      BY <1>1, <1>2, <2>0, <3>5
    <3>3. CASE e = c
      <4>1. chid[ch] \in ids
        BY <1>1, <2>0, <2>1, <3>2, <3>3
      <4> QED BY <2>2, <3>2, <3>3, <4>1
    <3>4. CASE e # c
      <4>1. t \in peerview[d]
        BY <2>0, <3>2, <3>4, <3>5 DEF ViewInv, PeerTold
      <4>2. cid[e] # cid[c]
        BY <3>2, <3>4, <3>5, LiveClosed DEF IdInv, MemberInv, MembershipSymmetric
      <4> QED BY <2>2, <3>2, <4>1, <4>2
    <3> QED BY <3>3, <3>4
  <2> QED BY <2>3, <2>4
<1>7. DOMAIN peerview' = Clients
  BY DEF Renamed
<1>8. \A d \in Clients : \A t : t \in peerview'[d] <=> d \in Talking' /\ PeerTold(d, t)'
  BY <1>3, <1>5, <1>6
<1> QED BY <1>4, <1>7, <1>8 DEF ViewInv

(* channel_addclient tells the members of the newcomer, and it of them. *)
LEMMA JoinViews ==
    ASSUME MemberInv, MemberInv', IdInv, IdInv', ViewInv, SteadyIDs,
           NEW c \in clients, ~readonly[c], NEW ch \in LiveChannels, ch \in Channels,
           c \notin members[ch], chid'[ch] = chid[ch],
           channel_addclient(c, ch),
           UNCHANGED clients,
           \A d \in clients : readonly'[d] = readonly[d] /\ cname'[d] = cname[d]
    PROVE  ViewInv'
<1>0. clients \subseteq Clients /\ c \in Clients /\ c \in Talking
  BY DEF MemberInv, Shape, Talking
<1>1. /\ \A d \in Clients : joined'[d] = IF d = c THEN joined[c] \cup {ch} ELSE joined[d]
      /\ \A x \in Channels : members'[x] = IF x = ch THEN members[ch] \cup {c} ELSE members[x]
      /\ channels' = channels \cup {ch}
  BY <1>0 DEF channel_addclient, MemberInv, Shape
<1>2. ASSUME NEW d \in Clients, NEW x \in joined[d]
      PROVE  /\ chid'[x] = chid[x] /\ x \in Channels /\ d \in members[x] /\ d \in clients
             /\ x \in LiveChannels
  <2>1. x \in Channels /\ d \in members[x] /\ members[x] # {}
    BY <1>2 DEF MemberInv, Shape, MembershipSymmetric
  <2>2. x \in channels /\ d \in clients
    BY <2>1 DEF MemberInv, JoinedIsOpen, MembershipSymmetric
  <2> QED BY <1>1, <2>1, <2>2, LiveClosed DEF SteadyIDs
<1>3. ASSUME NEW x \in Channels, NEW e \in members[x]
      PROVE  /\ cid'[e] = cid[e] /\ cname'[e] = cname[e] /\ e \in clients
             /\ e \in Clients /\ x \in joined[e] /\ e \in LiveClients
  BY <1>0, <1>3, LiveClosed DEF MemberInv, MembershipSymmetric, SteadyIDs
<1>4. cid'[c] = cid[c] /\ cname'[c] = cname[c] /\ c \in LiveClients
  BY LiveClosed DEF SteadyIDs
<1>5. Talking' = Talking
  BY DEF Talking
<1>6. ch \notin joined[c] /\ \A x \in joined[c] : chid[x] # chid[ch]
  <2>1. ch \notin joined[c]
    BY <1>0 DEF MemberInv, MembershipSymmetric
  <2> QED BY <1>0, <1>2, <2>1 DEF IdInv
<1>7. ASSUME NEW d \in Clients, NEW i
      PROVE  i \in chview'[d] <=> d \in Talking' /\ \E x \in joined'[d] : i = chid'[x]
  <2>1. chview'[d] = IF d = c THEN chview[c] \cup {chid[ch]} ELSE chview[d]
    BY <1>0 DEF channel_addclient, ViewInv
  <2> QED BY <1>0, <1>1, <1>2, <1>5, <2>1 DEF ViewInv
<1>8. ASSUME NEW t
      PROVE  t \in peerview'[c] <=> PeerTold(c, t)'
  <2>1. peerview'[c] = {u \in peerview[c] : u[1] # chid[ch]}
                          \cup {<<chid[ch], cid[e], cname[e]>> : e \in members[ch]}
    BY <1>0 DEF channel_addclient, Newcomer
  <2>2. PeerTold(c, t)' <=> PeerTold(c, t) \/ \E e \in members[ch] : t = <<chid[ch], cid[e], cname[e]>>
    <3>1. ASSUME NEW e
          PROVE  e \in members'[ch] \ {c} <=> e \in members[ch]
      BY <1>1
    <3>2. ASSUME NEW x \in joined[c]
          PROVE  members'[x] = members[x] /\ x \in Channels
      BY <1>0, <1>1, <1>2, <1>6
    <3> QED BY <1>0, <1>1, <1>2, <1>3, <3>1, <3>2 DEF PeerTold
  <2>3. t \in peerview[c] <=> PeerTold(c, t)
    BY <1>0 DEF ViewInv
  <2>4. PeerTold(c, t) => t[1] # chid[ch]
    BY <1>6 DEF PeerTold
  <2> QED BY <2>1, <2>2, <2>3, <2>4
<1>9. ASSUME NEW d \in Clients, d # c, NEW t
      PROVE  t \in peerview'[d] <=> d \in Talking' /\ PeerTold(d, t)'
  <2>1. CASE d \notin Talking
    <3>1. peerview'[d] = peerview[d]
      BY <1>9, <2>1 DEF channel_addclient, Newcomer
    <3> QED BY <1>5, <2>1, <3>1 DEF ViewInv
  <2>2. CASE d \in Talking /\ ch \notin joined[d]
    <3>1. peerview'[d] = peerview[d]
      BY <1>9, <2>2 DEF channel_addclient, Newcomer, MemberInv, MembershipSymmetric
    <3>2. ASSUME NEW x \in joined[d]
          PROVE  members'[x] = members[x] /\ x \in Channels
      BY <1>1, <1>2, <2>2
    <3>3. PeerTold(d, t)' <=> PeerTold(d, t)
      BY <1>1, <1>2, <1>3, <1>9, <3>2 DEF PeerTold
    <3> QED BY <1>5, <3>1, <3>3 DEF ViewInv
  <2>3. CASE d \in Talking /\ ch \in joined[d]
    <3>1. peerview'[d] = {u \in peerview[d] : u[1] # chid[ch] \/ u[2] # cid[c]}
                            \cup {<<chid[ch], cid[c], cname[c]>>}
      BY <1>9, <2>3 DEF channel_addclient, Newcomer, WithPeer, MemberInv, MembershipSymmetric
    <3>2. PeerTold(d, t)' <=> PeerTold(d, t) \/ t = <<chid[ch], cid[c], cname[c]>>
      <4>1. ASSUME NEW x \in joined[d], x # ch
            PROVE  members'[x] = members[x] /\ x \in Channels
        BY <1>1, <1>2, <4>1
      <4> QED BY <1>0, <1>1, <1>2, <1>3, <1>4, <1>9, <2>3, <4>1 DEF PeerTold
    <3>3. ASSUME PeerTold(d, t)
          PROVE  t[1] # chid[ch] \/ t[2] # cid[c]
      <4>1. PICK x \in joined[d] : \E e \in members[x] \ {d} : t = <<chid[x], cid[e], cname[e]>>
        BY <3>3 DEF PeerTold
      <4>2. PICK e \in members[x] \ {d} : t = <<chid[x], cid[e], cname[e]>>
        BY <4>1
      <4>3. CASE x = ch
        <5>1. e # c /\ cid[e] # cid[c]
          BY <1>3, <1>4, <4>2, <4>3 DEF IdInv
        <5> QED BY <4>2, <5>1
      <4>4. CASE x # ch
        BY <1>2, <4>2, <4>4 DEF IdInv
      <4> QED BY <4>3, <4>4
    <3> QED BY <1>5, <2>3, <3>1, <3>2, <3>3 DEF ViewInv
  <2> QED BY <2>1, <2>2, <2>3
<1>10. DOMAIN chview' = Clients /\ DOMAIN peerview' = Clients
  BY DEF channel_addclient, Newcomer, ViewInv
<1>11. \A d \in Clients : \A t : t \in peerview'[d] <=> d \in Talking' /\ PeerTold(d, t)'
  BY <1>0, <1>5, <1>8, <1>9
<1> QED BY <1>7, <1>10, <1>11 DEF ViewInv

(* Leaving and closing tell everyone concerned, and end the talk with      *)
(* whoever is gone.                                                        *)
LEMMA LeavingViews ==
    ASSUME MemberInv, MemberInv', IdInv, ViewInv, SteadyIDs,
           NEW c \in LiveClients \cup {None}, NEW staying \in SUBSET Channels,
           NEW closing \in SUBSET Channels, staying \cap closing = {},
           staying \subseteq LiveChannels, closing \subseteq LiveChannels,
           c = None => staying = {},
           LeaveAndClose(c, staying, closing),
           clients' \subseteq clients,
           \A d \in clients' : readonly'[d] = readonly[d] /\ cname'[d] = cname[d]
    PROVE  ViewInv'
<1> DEFINE left(d) == {chid[ch] : ch \in {x \in closing : d \in members[x]}
                                    \cup {x \in staying : d = c /\ c \in members[x]}}
           told(d) == {chid[ch] : ch \in {x \in staying : d \in members[x] \ {c}}}
<1>0. clients \subseteq Clients /\ channels' \subseteq channels
  BY DEF MemberInv, Shape, LeaveAndClose
<1>1. Talking' = Talking \cap clients'
  BY DEF Talking
<1>2. /\ \A d \in Clients : chview'[d] = IF d \in Talking' THEN chview[d] \ left(d) ELSE {}
      /\ \A d \in Clients : peerview'[d] =
            IF d \in Talking'
            THEN {t \in peerview[d] : t[1] \notin left(d) /\ ~(t[1] \in told(d) /\ t[2] = cid[c])}
            ELSE {}
      /\ DOMAIN chview' = Clients /\ DOMAIN peerview' = Clients
  BY <1>1 DEF LeaveAndClose, ToldOfDeparture
<1>3. /\ \A ch \in Channels : members'[ch] = IF ch \in closing THEN {}
                                             ELSE IF ch \in staying THEN members[ch] \ {c}
                                             ELSE members[ch]
      /\ \A d \in Clients, ch \in Channels : ch \in joined'[d] <=> d \in members'[ch]
      /\ \A d \in Clients, ch \in Channels : ch \in joined[d] <=> d \in members[ch]
      /\ \A d \in Clients : joined[d] \subseteq Channels /\ joined'[d] \subseteq Channels
  BY DEF LeaveAndClose, MemberInv, MembershipSymmetric, Shape
<1>4. ASSUME NEW d \in Clients, NEW x \in joined[d]
      PROVE  x \in LiveChannels /\ d \in members[x] /\ d \in clients /\ x \in channels /\ x \in Channels
  <2>1. x \in Channels /\ d \in members[x] /\ members[x] # {}
    BY <1>3
  <2>2. x \in channels /\ d \in clients
    BY <2>1 DEF MemberInv, JoinedIsOpen, MembershipSymmetric
  <2> QED BY <2>1, <2>2, LiveClosed
<1>5. ASSUME NEW d \in Clients, NEW x \in joined'[d]
      PROVE  chid'[x] = chid[x] /\ x \in joined[d]
  <2>1. x \in Channels /\ d \in members'[x] /\ members'[x] # {}
    BY <1>3
  <2>2. x \in channels'
    BY <2>1 DEF MemberInv, JoinedIsOpen
  <2>3. members'[x] \subseteq members[x]
    <3>1. \/ x \in closing /\ members'[x] = {}
          \/ x \notin closing /\ x \in staying /\ members'[x] = members[x] \ {c}
          \/ x \notin closing /\ x \notin staying /\ members'[x] = members[x]
      BY <1>3, <2>1, Zenon
    <3> QED BY <3>1
  <2>4. x \in joined[d]
    BY <1>3, <2>1, <2>3
  <2> QED BY <1>0, <2>2, <2>4 DEF SteadyIDs
<1>6. ASSUME NEW x \in Channels, NEW e \in members'[x]
      PROVE  cid'[e] = cid[e] /\ cname'[e] = cname[e] /\ e \in members[x]
  <2>1. e \in clients' /\ e \in members[x]
    BY <1>3 DEF MemberInv, MembershipSymmetric
  <2> QED BY <2>1 DEF SteadyIDs
<1>7. ASSUME NEW d \in Clients, NEW x \in joined[d]
      PROVE  chid[x] \in left(d) <=> x \in closing \/ (x \in staying /\ d = c)
  BY <1>4 DEF IdInv
<1>8. ASSUME NEW d \in Clients, NEW x \in joined[d]
      PROVE  chid[x] \in told(d) <=> x \in staying /\ d # c
  BY <1>4 DEF IdInv
<1> HIDE DEF left, told
<1>9. ASSUME NEW d \in Clients, NEW x \in joined[d]
      PROVE  x \in joined'[d] <=> chid[x] \notin left(d)
  <2>1. x \in Channels /\ d \in members[x]
    BY <1>4
  <2>2. members'[x] = IF x \in closing THEN {} ELSE IF x \in staying THEN members[x] \ {c}
                      ELSE members[x]
    BY <1>3, <2>1
  <2>3. x \in joined'[d] <=> d \in members'[x]
    BY <1>3, <2>1
  <2> QED BY <1>7, <2>1, <2>2, <2>3
<1>10. ASSUME NEW d \in Clients, NEW i
       PROVE  i \in chview'[d] <=> d \in Talking' /\ \E x \in joined'[d] : i = chid'[x]
  BY <1>1, <1>2, <1>5, <1>9 DEF ViewInv
<1>11. ASSUME NEW d \in Talking', d \in Clients, d \in Talking, NEW t
       PROVE  t \in peerview'[d] <=> PeerTold(d, t)'
  <2>1. ASSUME NEW x \in joined[d], NEW e \in members[x] \ {d}
        PROVE  /\ (cid[e] = cid[c] /\ x \in staying) => e = c
               /\ (x \in joined'[d] /\ e \in members'[x]) <=>
                    (chid[x] \notin left(d) /\ ~(chid[x] \in told(d) /\ cid[e] = cid[c]))
    <3>1. x \in Channels /\ e \in LiveClients
      BY <1>4, <1>11, LiveClosed
    <3>2. (cid[e] = cid[c] /\ x \in staying) => e = c
      BY <3>1 DEF IdInv
    <3>3. members'[x] = IF x \in closing THEN {} ELSE IF x \in staying THEN members[x] \ {c}
                        ELSE members[x]
      BY <1>3, <3>1
    <3>4. chid[x] \in told(d) <=> x \in staying /\ d # c
      BY <1>8, <1>11
    <3>5. chid[x] \in left(d) <=> x \in closing \/ (x \in staying /\ d = c)
      BY <1>7, <1>11
    <3>6. x \in joined'[d] <=> chid[x] \notin left(d)
      BY <1>9, <1>11
    <3> QED BY <3>2, <3>3, <3>4, <3>5, <3>6
  <2>2. ASSUME t \in peerview'[d]
        PROVE  PeerTold(d, t)'
    <3>1. t \in peerview[d] /\ t[1] \notin left(d) /\ ~(t[1] \in told(d) /\ t[2] = cid[c])
      BY <1>2, <1>11, <2>2
    <3>2. PICK x \in joined[d] : \E e \in members[x] \ {d} : t = <<chid[x], cid[e], cname[e]>>
      BY <1>11, <3>1 DEF ViewInv, PeerTold
    <3>3. PICK e \in members[x] \ {d} : t = <<chid[x], cid[e], cname[e]>>
      BY <3>2
    <3>4. x \in joined'[d] /\ e \in members'[x]
      BY <2>1, <3>1, <3>3
    <3> QED BY <1>3, <1>5, <1>6, <1>11, <3>3, <3>4 DEF PeerTold
  <2>3. ASSUME PeerTold(d, t)'
        PROVE  t \in peerview'[d]
    <3>1. PICK x \in joined'[d] : \E e \in members'[x] \ {d} : t = <<chid'[x], cid'[e], cname'[e]>>
      BY <2>3 DEF PeerTold
    <3>2. PICK e \in members'[x] \ {d} : t = <<chid'[x], cid'[e], cname'[e]>>
      BY <3>1
    <3>3. /\ x \in joined[d] /\ e \in members[x] \ {d}
          /\ t = <<chid[x], cid[e], cname[e]>>
      BY <1>3, <1>5, <1>6, <1>11, <3>2
    <3>4. t \in peerview[d]
      BY <1>11, <3>3 DEF ViewInv, PeerTold
    <3>5. t[1] \notin left(d) /\ ~(t[1] \in told(d) /\ t[2] = cid[c])
      BY <2>1, <3>2, <3>3
    <3> QED BY <1>2, <1>11, <3>4, <3>5
  <2> QED BY <2>2, <2>3
<1>12. \A d \in Clients : \A t : t \in peerview'[d] <=> d \in Talking' /\ PeerTold(d, t)'
  BY <1>1, <1>2, <1>11
<1> QED BY <1>2, <1>10, <1>12 DEF ViewInv

LEMMA ViewStep ==
    MemberInv /\ NameInv /\ IdInv /\ AskedInv /\ ViewInv /\ [Next]_vars => ViewInv'
<1> SUFFICES ASSUME MemberInv, NameInv, IdInv, AskedInv, ViewInv, [Next]_vars,
                    MemberInv', IdInv', SteadyIDs
             PROVE  ViewInv'
  BY MemberStep, IdStep
<1> USE DEF serverVars, clientVars, channelVars, viewVars
<1>a. clients \subseteq Clients /\ readonly \in [Clients -> BOOLEAN] /\ closed \in [Channels -> BOOLEAN]
  BY DEF MemberInv, Shape
<1>b. clients \subseteq LiveClients /\ clients' \subseteq LiveClients' /\ channels' \subseteq LiveChannels'
  BY LiveClosed DEF LiveClients, LiveChannels
<1>c. DOMAIN chview = Clients /\ DOMAIN peerview = Clients
  BY DEF ViewInv
<1>1. ASSUME UNCHANGED <<joined, members, chview, peerview>>,
             \A c \in clients \cap clients' : cname'[c] = cname[c],
             \A c \in Clients : joined[c] = {} \/ (c \in Talking <=> c \in Talking')
      PROVE  ViewInv'
  BY <1>1, <1>c, SameViews
<1>2. ASSUME NEW c \in Clients, Connect(c)
      PROVE  ViewInv'
  <2>1. joined[c] = {}
    BY <1>2, <1>b DEF Connect, MemberInv, Shape, MembershipSymmetric
  <2>2. \A d \in Clients : d # c => (d \in Talking <=> d \in Talking')
    BY <1>2 DEF Connect, Talking
  <2> QED BY <1>1, <1>2, <2>1, <2>2 DEF Connect
<1>3. ASSUME NEW c \in Clients, Boot(c)
      PROVE  ViewInv'
  <2>1. \A d \in Clients : \/ d = c /\ d \notin Talking' /\ chview'[d] = {} /\ peerview'[d] = {}
                           \/ /\ d \in Talking <=> d \in Talking'
                              /\ chview'[d] = chview[d] /\ peerview'[d] = peerview[d]
    BY <1>3, <1>a, <1>c DEF Boot, Talking
  <2>2. DOMAIN chview' = Clients /\ DOMAIN peerview' = Clients
    BY <1>3, <1>c DEF Boot
  <2> QED BY <1>3, <2>1, <2>2, SameViews DEF Boot
<1>4. CASE UNCHANGED <<joined, members, chview, peerview, clients, readonly, cname>>
  BY <1>1, <1>4 DEF Talking
<1>5. CASE \/ \E c \in Clients : ConnectRequest(c) \/ \E n \in Names : SetNameRequest(c, n)
           \/ \E c \in Clients, ch \in Channels, n \in ChannelNames, auto \in BOOLEAN :
                 JoinNewRequest(c, ch, n, auto) \/ createchannel(c, ch, n, auto)
           \/ \E c \in Clients, ch \in Channels :
                 JoinRequest(c, ch) \/ LeaveRequest(c, ch) \/ ChannelMessage(c, ch)
           \/ \E c, d \in Clients, ch \in Channels : PeerMessage(c, ch, d)
           \/ Unhost \/ UnhostClientsDone \/ UnhostDone \/ Host
           \/ \E ch \in Channels : UnhostChannel(ch)
           \/ UNCHANGED vars
  <2> DEFINE same == UNCHANGED <<joined, members, chview, peerview, clients, readonly, cname>>
  <2>1. ASSUME NEW c \in Clients, ConnectRequest(c) \/ \E n \in Names : SetNameRequest(c, n)
        PROVE  same
    BY <2>1 DEF ConnectRequest, SetNameRequest
  <2>2. ASSUME NEW c \in Clients, NEW ch \in Channels, NEW n \in ChannelNames, NEW auto \in BOOLEAN,
               JoinNewRequest(c, ch, n, auto) \/ createchannel(c, ch, n, auto)
        PROVE  same
    BY <2>2 DEF JoinNewRequest, createchannel
  <2>3. ASSUME NEW c \in Clients, NEW ch \in Channels,
               \/ JoinRequest(c, ch) \/ LeaveRequest(c, ch) \/ ChannelMessage(c, ch)
               \/ \E d \in Clients : PeerMessage(c, ch, d)
        PROVE  same
    <3>1. CASE JoinRequest(c, ch) \/ LeaveRequest(c, ch) \/ ChannelMessage(c, ch)
      BY <3>1 DEF JoinRequest, LeaveRequest, ChannelMessage
    <3>2. ASSUME NEW d \in Clients, PeerMessage(c, ch, d)
          PROVE  same
      BY <3>2 DEF PeerMessage
    <3> QED BY <2>3, <3>1, <3>2
  <2>4. ASSUME Unhost \/ UnhostClientsDone \/ UnhostDone \/ Host
        PROVE  same
    BY <2>4 DEF Unhost, UnhostClientsDone, UnhostDone, Host
  <2>5. ASSUME NEW ch \in Channels, UnhostChannel(ch)
        PROVE  same
    BY <2>5 DEF UnhostChannel
  <2>6. ASSUME UNCHANGED vars
        PROVE  same
    BY <2>6 DEF vars
  <2>7. same => ViewInv'
    BY <1>4
  <2> HIDE DEF same
  <2> QED BY <1>5, <2>1, <2>2, <2>3, <2>4, <2>5, <2>6, <2>7
<1>6. ASSUME NEW ro, NEW nm, Attributes(ro, nm)
      PROVE  \A c \in clients' : c \in Clients => (readonly'[c] <=> ro[c]) /\ cname'[c] = nm[c]
  BY <1>6, <1>b DEF Attributes
<1>7. ASSUME UNCHANGED <<joined, members, chview, peerview, clients>>, Attributes(readonly, cname)
      PROVE  ViewInv'
  BY <1>1, <1>6, <1>7, <1>a DEF Talking
<1>8. ASSUME NEW s \in Slots, NEW approve \in BOOLEAN, connect_response(s, approve)
      PROVE  ViewInv'
  <2> DEFINE answered == {d \in {pending[s].cl} : ~readonly[pending[s].cl] /\ ~approved[pending[s].cl]}
             ok == approve /\ hosting
  <2>1. PICK ro : ro = IF ok THEN readonly ELSE Mark(readonly, answered)
    OBVIOUS
  <2>2. Attributes(ro, cname) /\ UNCHANGED <<joined, members, chview, peerview, clients>>
    BY <1>8, <2>1 DEF connect_response, Destructors, Attributes
  <2>3. \A d \in Clients : (ro[d] <=> readonly[d]) \/ d \in answered
    BY <1>a, <2>1, MarkType
  <2>4. \A d \in Clients : d \in answered => joined[d] = {}
    BY DEF AskedInv
  <2> HIDE DEF answered
  <2>5. \A d \in Clients : joined[d] = {} \/ (d \in Talking <=> d \in Talking')
    BY <1>6, <1>a, <2>2, <2>3, <2>4 DEF Talking
  <2>6. \A d \in clients \cap clients' : cname'[d] = cname[d]
    BY <1>6, <1>a, <2>2
  <2> QED BY <1>1, <2>2, <2>5, <2>6
<1>9. ASSUME NEW s \in Slots, MessagePermit(s)
      PROVE  ViewInv'
  BY <1>7, <1>9 DEF MessagePermit, DropReferences, Destructors, Attributes
<1>10. ASSUME NEW s \in Slots, nameset_response(s)
       PROVE  ViewInv'
  <2>1. CASE NameRefused
    BY <1>7, <1>10, <2>1 DEF nameset_response, NameRefused, DropReferences, Destructors, Attributes
  <2>2. ASSUME NEW n, NameAccepted(s, n)
        PROVE  ViewInv'
    <3>1. PICK c : c = pending[s].cl
      OBVIOUS
    <3>2. PICK nm : nm = [cname EXCEPT ![c] = n]
      OBVIOUS
    <3>3. ~readonly[c] /\ Attributes(readonly, nm) /\ peerview' = Renamed(c, n)
      BY <2>2, <3>1, <3>2 DEF NameAccepted, Destructors, Attributes
    <3>4. c \in clients
      BY <1>10, <3>1, <3>3, AnswerFacts, RequestFields
         DEF nameset_response, RequestTypes, MemberInv, GoneIsReadonly
    <3>5. UNCHANGED <<joined, members, chview, clients>>
      BY <1>10, <2>2 DEF nameset_response, NameAccepted
    <3>6. \A d \in clients : nm[d] = IF d = c THEN n ELSE cname[d]
      BY <1>a, <3>2 DEF NameInv
    <3>7. \A d \in clients : readonly'[d] = readonly[d] /\ cname'[d] = IF d = c THEN n ELSE cname[d]
      BY <1>6, <1>a, <1>b, <3>3, <3>5, <3>6 DEF Attributes
    <3> QED BY <3>3, <3>4, <3>5, <3>7, RenameViews
  <2> QED BY <1>10, <2>1, <2>2 DEF nameset_response
<1>11. ASSUME NEW s \in Slots, NEW approve \in BOOLEAN, joinchannel_response(s, approve)
       PROVE  ViewInv'
  <2>1. PICK c, ch : c = pending[s].cl /\ ch = pending[s].ch
    OBVIOUS
  <2>2. Attributes(readonly, cname) /\ Answer(s, "join") /\ UNCHANGED clients
    BY <1>11 DEF joinchannel_response, DropReferences, Destructors, Attributes
  <2>3. CASE UNCHANGED <<channels, members, joined, master, viewVars>>
    BY <1>7, <2>2, <2>3
  <2>4. CASE MayJoin(c, ch) /\ channel_addclient(c, ch)
    <3>1. pending[s] \in Request /\ pending[s].type = "join" /\ pending[s] # NoRequest
      BY <2>2, AnswerFacts, RequestFields DEF RequestTypes
    <3>2. c \in clients /\ ~readonly[c] /\ c \notin members[ch] /\ ch \in Channels
      BY <2>1, <2>4, <3>1 DEF MayJoin, MemberInv, Shape, GoneIsReadonly
    <3>3. ch \in LiveChannels
      <4>1. pending[s] \in Waiting /\ ch # None
        BY <3>1, <3>2, RelayAssumption DEF Waiting
      <4> QED BY <2>1, <4>1, LiveClosed
    <3>4. chid'[ch] = chid[ch]
      <4>1. ch \in LiveChannels'
        BY <1>b, <2>4 DEF channel_addclient
      <4> QED BY <1>11, <3>2, <4>1 DEF joinchannel_response, DropReferences, Destructors
    <3>5. \A d \in clients : readonly'[d] = readonly[d] /\ cname'[d] = cname[d]
      BY <1>6, <1>a, <1>b, <2>2 DEF Attributes
    <3> QED BY <2>2, <2>4, <3>2, <3>3, <3>4, <3>5, JoinViews
  <2> QED BY <1>11, <2>1, <2>3, <2>4 DEF joinchannel_response
<1>12. ASSUME NEW c \in LiveClients \cup {None}, NEW left \in SUBSET (Channels \cap LiveChannels),
              NEW ro, channel_removeclient(c, left, ro), c # None, clients' \subseteq clients,
              \A d \in clients' : ro[d] = readonly[d]
       PROVE  ViewInv'
  <2>1. PICK open : open = {ch \in left : ~closed[ch]}
    OBVIOUS
  <2>2. PICK closing : closing = Closing(c, open)
    OBVIOUS
  <2>3. PICK staying : staying = open \ closing
    OBVIOUS
  <2>4. LeaveAndClose(c, staying, closing) /\ Attributes(ro, cname)
    BY <1>12, <2>1, <2>2, <2>3 DEF channel_removeclient, Destructors, Attributes
  <2>5. closing \subseteq open /\ open \subseteq left
    BY <2>1, <2>2 DEF Closing
  <2>6. /\ staying \in SUBSET Channels /\ closing \in SUBSET Channels /\ staying \cap closing = {}
        /\ staying \subseteq LiveChannels /\ closing \subseteq LiveChannels
    BY <2>3, <2>5
  <2>7. \A d \in clients' : readonly'[d] = readonly[d] /\ cname'[d] = cname[d]
    BY <1>6, <1>12, <1>a, <1>b, <2>4 DEF Attributes
  <2> QED BY <1>12, <2>4, <2>6, <2>7, LeavingViews
<1>13. ASSUME NEW s \in Slots, NEW approve \in BOOLEAN, leavechannel_response(s, approve)
       PROVE  ViewInv'
  <2>1. CASE ~approve
    BY <1>7, <1>13, <2>1 DEF leavechannel_response, DropReferences, Destructors, Attributes
  <2>2. CASE approve
    <3>1. PICK c, ch : c = pending[s].cl /\ ch = pending[s].ch
      OBVIOUS
    <3>2. pending[s] \in Request /\ pending[s].type = "leave" /\ pending[s] # NoRequest
      BY <1>13, AnswerFacts, RequestFields DEF leavechannel_response, RequestTypes
    <3>3. ch \in Channels /\ c # None
      BY <3>1, <3>2, RequestFields, RelayAssumption DEF AskedInv, AboutChannel
    <3>4. c \in LiveClients /\ ch \in LiveChannels
      <4>1. pending[s] \in Waiting /\ ch # None
        BY <3>2, <3>3, RelayAssumption DEF Waiting
      <4> QED BY <3>1, <4>1, LiveClosed
    <3>5. channel_removeclient(c, {ch}, readonly) /\ clients' = clients
      BY <1>13, <2>2, <3>1 DEF leavechannel_response
    <3> QED BY <1>12, <3>3, <3>4, <3>5
  <2> QED BY <2>1, <2>2
<1>14. ASSUME NEW c \in clients, Dropped(c)
       PROVE  ViewInv'
  <2>1. PICK left, ro : left = joined[c] /\ ro = Mark(readonly, {c})
    OBVIOUS
  <2>2. channel_removeclient(c, left, ro) /\ clients' = clients \ {c}
    BY <1>14, <2>1 DEF Dropped
  <2>3. \A d \in clients' : ro[d] = readonly[d]
    BY <1>a, <2>1, <2>2 DEF Mark
  <2>4. left \in SUBSET (Channels \cap LiveChannels)
    BY <1>a, <2>1, LiveClosed DEF MemberInv, Shape, MembershipSymmetric, JoinedIsOpen
  <2>5. c \in LiveClients /\ c # None
    BY <1>a, <1>b, RelayAssumption
  <2> QED BY <1>12, <2>2, <2>3, <2>4, <2>5
<1>15. ASSUME NEW ch \in Channels, CloseChannel(ch)
       PROVE  ViewInv'
  <2>1. PICK c, staying, closing : c = None /\ staying = {} /\ closing = {ch}
    OBVIOUS
  <2>2. LeaveAndClose(c, staying, closing) /\ Attributes(readonly, cname) /\ clients' = clients
    BY <1>15, <2>1 DEF CloseChannel, Destructors, Attributes
  <2>3. ch \in LiveChannels
    BY <1>15, LiveClosed DEF CloseChannel
  <2>4. \A d \in clients' : readonly'[d] = readonly[d] /\ cname'[d] = cname[d]
    BY <1>6, <1>a, <1>b, <2>2 DEF Attributes
  <2>5. /\ c \in LiveClients \cup {None} /\ (c = None => staying = {})
        /\ staying \in SUBSET Channels /\ closing \in SUBSET Channels /\ staying \cap closing = {}
        /\ staying \subseteq LiveChannels /\ closing \subseteq LiveChannels
    BY <2>1, <2>3
  <2> QED BY <2>2, <2>4, <2>5, LeavingViews
<1>16. CASE Next
  BY <1>16, <1>2, <1>3, <1>5, <1>8, <1>9, <1>10, <1>11, <1>13, <1>14, <1>15
     DEF Next, Disconnect, UnhostStep, UnhostClient
<1> QED BY <1>5, <1>16

LEMMA ViewInvariant == Spec => []ViewInv
<1>1. Init => ViewInv
  <2> SUFFICES ASSUME Init PROVE ViewInv
    OBVIOUS
  <2>1. \A c \in Clients : joined[c] = {} /\ chview[c] = {} /\ peerview[c] = {}
    BY DEF Init
  <2>2. DOMAIN chview = Clients /\ DOMAIN peerview = Clients
    BY DEF Init
  <2> QED BY <2>1, <2>2 DEF ViewInv, PeerTold
<1>2. Spec => [](MemberInv /\ NameInv /\ IdInv /\ AskedInv)
  BY MemberInvariant, NameInvariant, IdInvariant, AskedInvariant, PTL
<1> QED BY <1>1, <1>2, ViewStep, PTL DEF Spec

(* What a client has been told of its channels and its peers there is the  *)
(* truth, whenever the application answers and whatever it creates itself. *)
THEOREM ViewsAgree == Spec => []ViewAgrees
BY MemberInvariant, ViewInvariant, ViewsRight, PTL

(***************************************************************************)
(* An application that answers inside its handlers.  At most one request   *)
(* waits, and nothing happens before its answer: what the request was      *)
(* checked for still holds.                                                *)
(***************************************************************************)

Quiet == \A s \in Slots : pending[s] = NoRequest

AloneInv ==
    /\ \A s, t \in Slots : pending[s] # NoRequest /\ pending[t] # NoRequest => s = t
    /\ unhosting # "no" => Quiet
    /\ \A s \in Slots : pending[s].type \in {"message", "peer"} =>
          pending[s].ch \in joined[pending[s].cl]
    /\ \A s \in Slots : pending[s].type = "peer" =>
          pending[s].to \in members[pending[s].ch] \ {pending[s].cl}

LEMMA QuietAlone == Quiet => AloneInv
BY RequestFields DEF Quiet, AloneInv

LEMMA AnswerQuiet ==
    ASSUME MemberInv, AloneInv, NEW s \in Slots, NEW type \in RequestTypes, Answer(s, type)
    PROVE  Quiet'
BY RequestFields DEF Answer, AloneInv, Quiet, RequestTypes, MemberInv, Shape

LEMMA QueueAlone ==
    ASSUME MemberInv, Quiet, unhosting' = "no", NEW type, NEW c, NEW ch, NEW n, NEW d,
           Queue(type, c, ch, n, d),
           type \in {"message", "peer"} => ch \in joined[c],
           type = "peer" => d \in members[ch] \ {c},
           UNCHANGED <<joined, members>>
    PROVE  AloneInv'
<1> DEFINE q == [type |-> type, cl |-> c, ch |-> ch, name |-> n, to |-> d]
<1>1. PICK s \in Slots : pending' = [pending EXCEPT ![s] = q]
  BY DEF Queue
<1>2. q.type = type /\ q.cl = c /\ q.ch = ch /\ q.to = d
  OBVIOUS
<1> HIDE DEF q
<1>3. \A t \in Slots : pending'[t] = IF t = s THEN q ELSE NoRequest
  BY <1>1 DEF Quiet, MemberInv, Shape
<1> QED BY <1>2, <1>3, RequestFields DEF AloneInv, Quiet

LEMMA AloneStep ==
    ASSUME Deferred = FALSE
    PROVE  MemberInv /\ AloneInv /\ [Next]_vars => AloneInv'
<1> SUFFICES ASSUME MemberInv, AloneInv, [Next]_vars PROVE AloneInv'
  OBVIOUS
<1> USE DEF serverVars, clientVars, channelVars
<1>1. Idle => Quiet /\ unhosting = "no"
  BY DEF Idle, Quiet
<1>2. Quiet' => AloneInv'
  BY RequestFields DEF Quiet, AloneInv
<1>3. CASE \/ \E c \in Clients : Connect(c) \/ Boot(c) \/ Disconnect(c)
           \/ \E c \in Clients, ch \in Channels, n \in ChannelNames, auto \in BOOLEAN :
                 createchannel(c, ch, n, auto)
           \/ \E ch \in Channels : CloseChannel(ch)
           \/ Unhost \/ Host
  <2>1. Idle /\ pending' = pending
    BY <1>3 DEF Connect, Boot, Disconnect, Dropped, createchannel, CloseChannel, Unhost, Host
  <2> QED BY <1>1, <1>2, <2>1 DEF Quiet
<1>4. CASE UnhostStep
  <2>1. Quiet /\ pending' = pending
    BY <1>4 DEF UnhostStep, UnhostClient, Dropped, UnhostClientsDone, UnhostChannel, UnhostDone, AloneInv
  <2> QED BY <1>2, <2>1 DEF Quiet
<1>5. ASSUME NEW c \in Clients,
             \/ ConnectRequest(c) \/ \E n \in Names : SetNameRequest(c, n)
             \/ \E ch \in Channels, n \in ChannelNames, auto \in BOOLEAN : JoinNewRequest(c, ch, n, auto)
             \/ \E ch \in Channels : JoinRequest(c, ch) \/ LeaveRequest(c, ch) \/ ChannelMessage(c, ch)
             \/ \E d \in Clients, ch \in Channels : PeerMessage(c, ch, d)
      PROVE  AloneInv'
  BY <1>1, <1>5, QueueAlone
     DEF ConnectRequest, SetNameRequest, JoinNewRequest, JoinRequest, LeaveRequest, ChannelMessage,
         PeerMessage, readchannel
<1>6. ASSUME NEW s \in Slots, NEW approve \in BOOLEAN,
             \/ connect_response(s, approve) \/ joinchannel_response(s, approve)
             \/ leavechannel_response(s, approve) \/ nameset_response(s) \/ MessagePermit(s)
      PROVE  AloneInv'
  BY <1>2, <1>6, AnswerQuiet
     DEF connect_response, joinchannel_response, leavechannel_response, nameset_response,
         MessagePermit, RequestTypes
<1>7. CASE UNCHANGED vars
  BY <1>7 DEF vars, AloneInv, Quiet
<1>8. CASE Next
  BY <1>8, <1>3, <1>4, <1>5, <1>6 DEF Next
<1> QED BY <1>7, <1>8

LEMMA AloneInvariant == ASSUME Deferred = FALSE PROVE Spec => []AloneInv
<1>1. Init => AloneInv
  BY QuietAlone DEF Init, Quiet
<1>2. MemberInv /\ AloneInv /\ [Next]_vars => AloneInv'
  BY AloneStep
<1> QED BY <1>1, <1>2, MemberInvariant, PTL DEF Spec

(* If the application answers inside its handlers, everyone a relayed      *)
(* message reaches has been told of its sender, by ID and by the name it   *)
(* has now.                                                                *)
THEOREM MessagesAttributable ==
    ASSUME Deferred = FALSE
    PROVE  Spec => []MessageAttributable
<1>1. MemberInv /\ AskedInv /\ AloneInv /\ ViewInv => MessageAttributable
  <2> SUFFICES ASSUME MemberInv, AskedInv, AloneInv, ViewInv,
                      NEW r \in Waiting, r.type \in {"message", "peer"}, NEW d \in Recipients(r)
               PROVE  <<chid[r.ch], cid[r.cl], cname[r.cl]>> \in peerview[d]
    BY DEF MessageAttributable
  <2>1. PICK s \in Slots : r = pending[s] /\ pending[s] # NoRequest
    BY DEF Waiting
  <2>2. r.cl \in Clients /\ r.ch \in Channels
    BY <2>1, RequestFields DEF MemberInv, Shape, AskedInv, AboutChannel
  <2>3. r.cl \in members[r.ch]
    BY <2>1, <2>2 DEF AloneInv, MemberInv, MembershipSymmetric
  <2>4. d \in members[r.ch] \ {r.cl} /\ ~readonly[d]
    <3>1. CASE r.type = "message"
      BY <3>1 DEF Recipients
    <3>2. CASE r.type = "peer"
      <4>1. Recipients(r) \subseteq {e \in {r.to} : ~readonly[e]}
        BY <3>2 DEF Recipients
      <4> QED BY <2>1, <3>2, <4>1 DEF AloneInv
    <3> QED BY <3>1, <3>2
  <2>5. d \in Talking /\ d \in Clients /\ r.ch \in joined[d]
    BY <2>2, <2>4 DEF Talking, MemberInv, Shape, MembershipSymmetric
  <2>6. PeerTold(d, <<chid[r.ch], cid[r.cl], cname[r.cl]>>)
    BY <2>3, <2>4, <2>5 DEF PeerTold
  <2> QED BY <2>5, <2>6 DEF ViewInv
<1> QED BY <1>1, MemberInvariant, AskedInvariant, AloneInvariant, ViewInvariant, PTL

(***************************************************************************)
(* Channel names, for an application that answers inside its handlers and  *)
(* leaves the making of channels to the clients' joins.  The name a new    *)
(* channel was asked for under is still free when the join is accepted.    *)
(***************************************************************************)

NamedInv ==
    /\ chname \in [Channels -> ChannelNames \cup {None}]
    /\ ChannelNamesUnique
    /\ \A s \in Slots : pending[s].type = "join" /\ pending[s].ch \notin channels =>
          \A x \in channels : chname[x] # chname[pending[s].ch]

(* Handlers that list no channel and queue no join of an unlisted one. *)
LEMMA NamedKept ==
    ASSUME MemberInv, NamedInv, channels' \subseteq channels,
           chname' \in [Channels -> ChannelNames \cup {None}],
           \A x \in channels' : chname'[x] = chname[x],
           \A s \in Slots : pending'[s].type = "join" => pending'[s].ch \in channels'
    PROVE  NamedInv'
BY DEF NamedInv, ChannelNamesUnique

(* What Destructors does to channel names. *)
ChannelNamesKept == chname' = [ch \in Channels |-> IF ch \in LiveChannels' THEN chname[ch] ELSE None]

LEMMA ChannelNamesKeep ==
    ASSUME MemberInv, NamedInv, MemberInv', ChannelNamesKept
    PROVE  /\ chname' \in [Channels -> ChannelNames \cup {None}]
           /\ \A x \in channels' : chname'[x] = chname[x]
BY DEF ChannelNamesKept, NamedInv, MemberInv, Shape, LiveChannels

LEMMA NamedStep ==
    ASSUME Deferred = FALSE, MayCreate = FALSE
    PROVE  MemberInv /\ AloneInv /\ NamedInv /\ [Next]_vars => NamedInv'
<1> SUFFICES ASSUME MemberInv, AloneInv, NamedInv, [Next]_vars, MemberInv' PROVE NamedInv'
  BY MemberStep
<1> USE DEF serverVars, clientVars, channelVars
<1>1. Idle => Quiet
  BY DEF Idle, Quiet
<1>2. Quiet' => \A s \in Slots : pending'[s].type # "join"
  BY RequestFields DEF Quiet
<1>3. ASSUME NEW s \in Slots, NEW type \in RequestTypes, Answer(s, type)
      PROVE  Quiet'
  BY <1>3, AnswerQuiet
<1>4. CASE Quiet' /\ channels' \subseteq channels /\ (chname' = chname \/ ChannelNamesKept)
  <2>1. /\ chname' \in [Channels -> ChannelNames \cup {None}]
        /\ \A x \in channels' : chname'[x] = chname[x]
    BY <1>4, ChannelNamesKeep DEF NamedInv
  <2> QED BY <1>2, <1>4, <2>1, NamedKept
<1>5. CASE \/ \E c \in Clients : Connect(c) \/ Boot(c) \/ Disconnect(c)
           \/ \E c \in Clients, ch \in Channels, n \in ChannelNames, auto \in BOOLEAN :
                 createchannel(c, ch, n, auto)
           \/ \E ch \in Channels : CloseChannel(ch)
           \/ Unhost \/ Host
  <2>1. Idle /\ pending' = pending
    BY <1>5 DEF Connect, Boot, Disconnect, Dropped, createchannel, CloseChannel, Unhost, Host
  <2>2. channels' \subseteq channels /\ (chname' = chname \/ ChannelNamesKept)
    BY <1>5 DEF Connect, Boot, Disconnect, Dropped, channel_removeclient, createchannel, CloseChannel,
                Unhost, Host, LeaveAndClose, Destructors, ChannelNamesKept
  <2> QED BY <1>1, <1>4, <2>1, <2>2 DEF Quiet
<1>6. CASE UnhostStep
  <2>1. Quiet /\ pending' = pending
    BY <1>6 DEF UnhostStep, UnhostClient, Dropped, UnhostClientsDone, UnhostChannel, UnhostDone, AloneInv
  <2>2. channels' \subseteq channels /\ (chname' = chname \/ ChannelNamesKept)
    BY <1>6 DEF UnhostStep, UnhostClient, Dropped, UnhostClientsDone, UnhostChannel, UnhostDone,
                channel_removeclient, LeaveAndClose, Destructors, ChannelNamesKept
  <2> QED BY <1>4, <2>1, <2>2 DEF Quiet
<1>7. ASSUME NEW type, NEW c, NEW ch, NEW n, NEW d, Queue(type, c, ch, n, d), Idle,
             type = "join" => ch \in channels, UNCHANGED <<channels, chname>>
      PROVE  NamedInv'
  <2>1. \A s \in Slots : pending'[s].type = "join" => pending'[s].ch \in channels'
    BY <1>1, <1>7, QueuePending, RequestFields DEF Quiet
  <2> QED BY <1>7, <2>1, NamedKept DEF NamedInv
<1>8. ASSUME NEW c \in Clients,
             \/ ConnectRequest(c) \/ \E n \in Names : SetNameRequest(c, n)
             \/ \E ch \in Channels : JoinRequest(c, ch) \/ LeaveRequest(c, ch) \/ ChannelMessage(c, ch)
             \/ \E d \in Clients, ch \in Channels : PeerMessage(c, ch, d)
      PROVE  NamedInv'
  BY <1>7, <1>8 DEF ConnectRequest, SetNameRequest, JoinRequest, LeaveRequest, ChannelMessage, PeerMessage
<1>9. ASSUME NEW c \in Clients, NEW ch \in Channels, NEW n \in ChannelNames, NEW auto \in BOOLEAN,
             JoinNewRequest(c, ch, n, auto)
      PROVE  NamedInv'
  <2>1. /\ Idle /\ ch \notin channels /\ channels' = channels
        /\ chname' = [chname EXCEPT ![ch] = n]
        /\ \A x \in channels : chname[x] # n
        /\ Queue("join", c, ch, None, None)
    BY <1>9, LiveClosed DEF JoinNewRequest, ChannelsNamed
  <2>2. /\ chname' \in [Channels -> ChannelNames \cup {None}]
        /\ \A x \in channels : chname'[x] = chname[x]
        /\ chname'[ch] = n
    BY <2>1 DEF NamedInv, MemberInv, Shape
  <2>3. \A s \in Slots : pending'[s].type = "join" => pending'[s].ch = ch
    BY <1>1, <2>1, QueuePending, RequestFields DEF Quiet
  <2> QED BY <2>1, <2>2, <2>3 DEF NamedInv, ChannelNamesUnique
<1>10. ASSUME NEW s \in Slots, NEW approve \in BOOLEAN, joinchannel_response(s, approve)
       PROVE  NamedInv'
  <2>1. Answer(s, "join") /\ ChannelNamesKept /\ channels' \subseteq channels \cup {pending[s].ch}
    BY <1>10 DEF joinchannel_response, channel_addclient, DropReferences, Destructors, ChannelNamesKept
  <2>2. Quiet' /\ pending[s].type = "join"
    BY <1>3, <2>1 DEF RequestTypes, Answer
  <2>3. /\ chname' \in [Channels -> ChannelNames \cup {None}]
        /\ \A x \in channels' : chname'[x] = chname[x]
    BY <2>1, ChannelNamesKeep
  <2>4. ChannelNamesUnique'
    BY <2>1, <2>2, <2>3 DEF NamedInv, ChannelNamesUnique
  <2> QED BY <1>2, <2>2, <2>3, <2>4 DEF NamedInv
<1>11. ASSUME NEW s \in Slots, NEW approve \in BOOLEAN,
              \/ connect_response(s, approve) \/ leavechannel_response(s, approve)
              \/ nameset_response(s) \/ MessagePermit(s)
       PROVE  NamedInv'
  <2>1. Quiet'
    BY <1>3, <1>11 DEF connect_response, leavechannel_response, nameset_response, MessagePermit, RequestTypes
  <2>2. ChannelNamesKept /\ channels' \subseteq channels
    BY <1>11 DEF connect_response, leavechannel_response, nameset_response, MessagePermit,
                 channel_removeclient, LeaveAndClose, NameRefused, NameAccepted, DropReferences,
                 Destructors, ChannelNamesKept
  <2> QED BY <1>4, <2>1, <2>2
<1>12. CASE UNCHANGED vars
  BY <1>12 DEF vars, NamedInv, ChannelNamesUnique
<1>13. CASE Next
  BY <1>13, <1>5, <1>6, <1>8, <1>9, <1>10, <1>11 DEF Next
<1> QED BY <1>12, <1>13

(* If the application answers inside its handlers and makes no channel     *)
(* itself, no two listed channels ever have one name.                      *)
THEOREM ChannelNamesStayUnique ==
    ASSUME Deferred = FALSE, MayCreate = FALSE
    PROVE  Spec => []ChannelNamesUnique
<1>1. Init => NamedInv
  BY RequestFields DEF Init, NamedInv, ChannelNamesUnique
<1>2. MemberInv /\ AloneInv /\ NamedInv /\ [Next]_vars => NamedInv'
  BY NamedStep
<1>3. Spec => [](MemberInv /\ AloneInv)
  BY MemberInvariant, AloneInvariant, PTL
<1>4. NamedInv => ChannelNamesUnique
  BY DEF NamedInv
<1> QED BY <1>1, <1>2, <1>3, <1>4, PTL DEF Spec

(***************************************************************************)
(* Empty channels, for an application that makes none itself.  A channel   *)
(* is listed with its first member.  Its master may only be somebody who   *)
(* is on it, which takes that a channel some join will list is touched by  *)
(* nobody before: it was made for that join, and its master is who asked.  *)
(***************************************************************************)

(* Listed, or past it. *)
Settled(ch) == ch \in channels \/ closed[ch]

HostedInv ==
    /\ ListedIsInhabited
    /\ \A s \in Slots : pending[s].type = "join" /\ ~Settled(pending[s].ch) =>
          master[pending[s].ch] = pending[s].cl
    /\ \A s \in Slots : pending[s].type = "leave" => Settled(pending[s].ch)

(* Handlers that ask for nothing new. *)
LEMMA HostedKept ==
    ASSUME MemberInv, MemberInv', AskedInv, HostedInv, ListedIsInhabited',
           \A s \in Slots : pending'[s] # NoRequest => pending'[s] = pending[s],
           \A ch \in LiveChannels' : Settled(ch) => Settled(ch)',
           \A ch \in Channels : ~Settled(ch) => master'[ch] = master[ch]
    PROVE  HostedInv'
<1>1. ASSUME NEW s \in Slots, pending'[s].type \in {"join", "leave"}
      PROVE  /\ pending'[s] = pending[s] /\ pending[s].ch \in Channels
             /\ Settled(pending[s].ch) => Settled(pending[s].ch)'
  <2>1. pending'[s] # NoRequest
    BY <1>1, RequestFields
  <2>2. pending'[s] = pending[s] /\ pending[s].ch \in Channels
    BY <1>1, <2>1 DEF AskedInv, AboutChannel
  <2>3. pending'[s].ch \in LiveChannels'
    BY <2>1, <2>2, RelayAssumption DEF LiveChannels, Waiting
  <2> QED BY <2>2, <2>3
<1>2. ASSUME NEW s \in Slots, pending'[s].type = "join", ~Settled(pending[s].ch)'
      PROVE  master'[pending'[s].ch] = pending'[s].cl
  <2>1. pending'[s] = pending[s] /\ ~Settled(pending[s].ch) /\ pending[s].ch \in Channels
    BY <1>1, <1>2
  <2> QED BY <1>2, <2>1 DEF HostedInv
<1>3. ASSUME NEW s \in Slots, pending'[s].type = "leave"
      PROVE  Settled(pending[s].ch)'
  BY <1>1, <1>3 DEF HostedInv
<1> QED BY <1>2, <1>3 DEF HostedInv

(* What Destructors does to closed. *)
Closures(cl) == closed' = [ch \in Channels |-> ch \in LiveChannels' /\ cl[ch]]

LEMMA SettledKept ==
    ASSUME MemberInv, MemberInv', IdInv, IdInv', NEW cl, Closures(cl),
           \A ch \in channels : ch \in channels' \/ cl[ch],
           \A ch \in Channels : closed[ch] => cl[ch]
    PROVE  \A ch \in LiveChannels' : Settled(ch) => Settled(ch)'
<1>1. LiveChannels' \subseteq Channels
  <2>1. \A r \in Waiting' : r \in Request
    BY DEF Waiting, MemberInv, Shape
  <2> QED BY <2>1 DEF LiveChannels, MemberInv, Shape, Request
<1> QED BY <1>1 DEF Settled, Closures

(* Answers that move nobody on or off a channel. *)
LEMMA QuietHosted ==
    ASSUME MemberInv, MemberInv', IdInv, IdInv', AskedInv, HostedInv, Closures(closed),
           UNCHANGED <<channels, members, master>>,
           \A s \in Slots : pending'[s] # NoRequest => pending'[s] = pending[s]
    PROVE  HostedInv'
<1>2. \A ch \in LiveChannels' : Settled(ch) => Settled(ch)'
  BY SettledKept
<1>3. ListedIsInhabited'
  BY DEF HostedInv, ListedIsInhabited, Closures, MemberInv, Shape
<1> QED BY <1>2, <1>3, HostedKept

(* Departures. *)
LEMMA LeavingHosted ==
    ASSUME MemberInv, MemberInv', IdInv, IdInv', AskedInv, HostedInv,
           NEW c \in Clients \cup {None}, NEW staying, NEW closing, NEW cl,
           LeaveAndClose(c, staying, closing), Closures(cl),
           \A ch \in Channels : cl[ch] <=> closed[ch] \/ ch \in closing,
           \A ch \in staying \cup closing : ch \in Channels /\ Settled(ch),
           \A ch \in staying : members[ch] \ {c} # {},
           \A s \in Slots : pending'[s] # NoRequest => pending'[s] = pending[s]
    PROVE  HostedInv'
<1>1. /\ \A ch \in Channels : members'[ch] = IF ch \in closing THEN {}
                                             ELSE IF ch \in staying THEN members[ch] \ {c}
                                             ELSE members[ch]
      /\ \A ch \in Channels : master'[ch] = IF ch \in closing THEN None
                                            ELSE IF ch \in staying THEN MasterAfter(c, ch)
                                            ELSE master[ch]
      /\ channels' = channels \ closing
  BY DEF LeaveAndClose
<1>2. \A ch \in LiveChannels' : Settled(ch) => Settled(ch)'
  <2>1. \A ch \in channels : ch \in channels' \/ cl[ch]
    BY <1>1 DEF MemberInv, Shape
  <2> QED BY <2>1, SettledKept
<1>3. \A ch \in Channels : ~Settled(ch) => master'[ch] = master[ch]
  BY <1>1
<1>4. ASSUME NEW ch \in channels'
      PROVE  ~closed'[ch] /\ members'[ch] # {} /\ master'[ch] \in members'[ch] \cup {None}
  <2>1. ch \in Channels /\ ch \in channels /\ ch \notin closing
    BY <1>1 DEF MemberInv, Shape
  <2>2. ~closed[ch] /\ members[ch] # {} /\ master[ch] \in members[ch] \cup {None}
    BY <2>1 DEF HostedInv, ListedIsInhabited
  <2>3. ~closed'[ch]
    BY <2>1, <2>2 DEF Closures
  <2>4. CASE ch \in staying
    <3>1. members'[ch] = members[ch] \ {c} /\ master'[ch] = MasterAfter(c, ch)
      BY <1>1, <2>1, <2>4
    <3>2. members[ch] \ {c} # {}
      BY <2>4
    <3> QED BY <2>2, <2>3, <3>1, <3>2 DEF MasterAfter
  <2>5. CASE ch \notin staying
    <3>1. members'[ch] = members[ch] /\ master'[ch] = master[ch]
      BY <1>1, <2>1, <2>5
    <3> QED BY <2>2, <2>3, <3>1
  <2> QED BY <2>4, <2>5
<1>5. ListedIsInhabited'
  BY <1>4 DEF ListedIsInhabited
<1> QED BY <1>2, <1>3, <1>5, HostedKept

(* channel_removeclient, for a client that has a request or is connected. *)
LEMMA RemovedHosted ==
    ASSUME MemberInv, MemberInv', IdInv, IdInv', AskedInv, HostedInv,
           NEW c \in Clients, NEW left, NEW ro, channel_removeclient(c, left, ro),
           \A ch \in left : ch \in Channels /\ Settled(ch),
           \A s \in Slots : pending'[s] # NoRequest => pending'[s] = pending[s]
    PROVE  HostedInv'
<1>1. PICK open : open = {ch \in left : ~closed[ch]}
  OBVIOUS
<1>2. PICK closing : closing = Closing(c, open)
  OBVIOUS
<1>3. PICK staying : staying = open \ closing
  OBVIOUS
<1>4. PICK cl : cl = Mark(closed, closing)
  OBVIOUS
<1>5. LeaveAndClose(c, staying, closing) /\ Closures(cl)
  BY <1>1, <1>2, <1>3, <1>4 DEF channel_removeclient, Destructors, Closures
<1>6. /\ \A ch \in staying \cup closing : ch \in Channels /\ Settled(ch)
      /\ \A ch \in staying : members[ch] \ {c} # {}
  BY <1>1, <1>2, <1>3 DEF Closing
<1>7. \A ch \in Channels : cl[ch] <=> closed[ch] \/ ch \in closing
  BY <1>4, MarkType DEF MemberInv, Shape
<1> QED BY <1>5, <1>6, <1>7, LeavingHosted

LEMMA QueueHosted ==
    ASSUME MemberInv, AskedInv, HostedInv, NEW type, NEW c, NEW ch, NEW n, NEW d,
           Queue(type, c, ch, n, d),
           type \in {"join", "leave"} => ch \in channels,
           UNCHANGED <<channels, members, master, closed>>
    PROVE  HostedInv'
<1>1. ListedIsInhabited'
  BY DEF HostedInv, ListedIsInhabited
<1>2. \A s \in Slots : \/ pending'[s] = pending[s]
                       \/ pending'[s].type = type /\ pending'[s].ch = ch
  BY QueuePending
<1>3. \A s \in Slots : pending'[s].type \in {"join", "leave"} =>
          pending'[s] = pending[s] \/ pending'[s].ch \in channels
  BY <1>2
<1> QED BY <1>1, <1>3 DEF HostedInv, Settled

LEMMA HostedStep ==
    ASSUME MayCreate = FALSE
    PROVE  MemberInv /\ IdInv /\ AskedInv /\ HostedInv /\ [Next]_vars => HostedInv'
<1> SUFFICES ASSUME MemberInv, IdInv, AskedInv, HostedInv, [Next]_vars, MemberInv', IdInv'
             PROVE  HostedInv'
  BY MemberStep, IdStep
<1> USE DEF serverVars, clientVars, channelVars
<1>1. CASE UNCHANGED <<channels, members, master, closed, pending>>
  BY <1>1 DEF HostedInv, ListedIsInhabited, Settled
<1>2. CASE \/ \E c \in Clients : Connect(c) \/ Boot(c)
           \/ \E c \in Clients, ch \in Channels, n \in ChannelNames, auto \in BOOLEAN :
                 createchannel(c, ch, n, auto)
           \/ Unhost \/ UnhostClientsDone \/ UnhostDone \/ Host
           \/ UNCHANGED vars
  BY <1>1, <1>2 DEF Connect, Boot, createchannel, Unhost, UnhostClientsDone, UnhostDone, Host, vars
<1>3. ASSUME NEW ch \in Channels, UnhostChannel(ch)
      PROVE  HostedInv'
  <2>1. members[ch] = {} /\ ch \in channels
    BY <1>3 DEF UnhostChannel, MemberInv, MembershipSymmetric, ChannelsLast
  <2> QED BY <2>1 DEF HostedInv, ListedIsInhabited
<1>4. ASSUME NEW c \in Clients,
             \/ ConnectRequest(c) \/ \E n \in Names : SetNameRequest(c, n)
             \/ \E ch \in Channels : JoinRequest(c, ch) \/ LeaveRequest(c, ch) \/ ChannelMessage(c, ch)
             \/ \E d \in Clients, ch \in Channels : PeerMessage(c, ch, d)
      PROVE  HostedInv'
  <2>1. \A ch \in Channels : ch \in readchannel(c) => ch \in channels
    BY DEF readchannel, MemberInv, MembershipSymmetric, JoinedIsOpen
  <2> QED BY <1>4, <2>1, QueueHosted
          DEF ConnectRequest, SetNameRequest, JoinRequest, LeaveRequest, ChannelMessage, PeerMessage
<1>5. ASSUME NEW c \in Clients, NEW ch \in Channels, NEW n \in ChannelNames, NEW auto \in BOOLEAN,
             JoinNewRequest(c, ch, n, auto)
      PROVE  HostedInv'
  <2>1. /\ ch \notin LiveChannels /\ master' = [master EXCEPT ![ch] = c]
        /\ Queue("join", c, ch, None, None) /\ UNCHANGED <<channels, members, closed>>
    BY <1>5 DEF JoinNewRequest
  <2>2. \A x \in Channels : master'[x] = IF x = ch THEN c ELSE master[x]
    BY <2>1 DEF IdInv
  <2>3. ListedIsInhabited'
    BY <2>1, <2>2, LiveClosed DEF HostedInv, ListedIsInhabited, MemberInv, Shape
  <2>4. ASSUME NEW s \in Slots
        PROVE  \/ pending'[s].type = "join" /\ pending'[s].cl = c /\ pending'[s].ch = ch
               \/ /\ pending'[s] = pending[s]
                  /\ pending[s].type \in {"join", "leave"} => pending[s].ch # ch /\ pending[s].ch \in Channels
    <3>1. pending[s].type \in {"join", "leave"} => pending[s].ch \in LiveChannels /\ pending[s].ch \in Channels
      BY RequestFields, RelayAssumption DEF LiveChannels, Waiting, AskedInv, AboutChannel
    <3> QED BY <2>1, <3>1, QueuePending
  <2> QED BY <2>1, <2>2, <2>3, <2>4 DEF HostedInv, Settled
<1>6. ASSUME NEW s \in Slots, NEW type \in RequestTypes, Answer(s, type)
      PROVE  \A t \in Slots : pending'[t] # NoRequest => pending'[t] = pending[t]
  BY <1>6, AnswerFacts
<1>7. ASSUME NEW s \in Slots, NEW approve \in BOOLEAN,
             connect_response(s, approve) \/ nameset_response(s) \/ MessagePermit(s)
      PROVE  HostedInv'
  <2>1. Closures(closed) /\ UNCHANGED <<channels, members, master>>
    BY <1>7 DEF connect_response, nameset_response, MessagePermit, NameRefused, NameAccepted,
                DropReferences, Destructors, Closures
  <2>2. \A t \in Slots : pending'[t] # NoRequest => pending'[t] = pending[t]
    BY <1>6, <1>7 DEF connect_response, nameset_response, MessagePermit, RequestTypes
  <2> QED BY <2>1, <2>2, QuietHosted
<1>8. ASSUME NEW s \in Slots, NEW approve \in BOOLEAN, joinchannel_response(s, approve)
      PROVE  HostedInv'
  <2>1. PICK c, ch : c = pending[s].cl /\ ch = pending[s].ch
    OBVIOUS
  <2>2. Answer(s, "join") /\ Closures(closed) /\ UNCHANGED master
    BY <1>8 DEF joinchannel_response, channel_addclient, DropReferences, Destructors, Closures
  <2>3. \A t \in Slots : pending'[t] # NoRequest => pending'[t] = pending[t]
    BY <1>6, <2>2 DEF RequestTypes
  <2>4. CASE UNCHANGED <<channels, members, joined, master, viewVars>>
    BY <2>2, <2>3, <2>4, QuietHosted
  <2>5. CASE MayJoin(c, ch) /\ channel_addclient(c, ch)
    <3>1. pending[s].type = "join" /\ c \in Clients /\ ch \in Channels
      BY <2>1, <2>2, AnswerFacts, RequestFields DEF RequestTypes, MemberInv, Shape
    <3>2. /\ channels' = channels \cup {ch} /\ ~closed[ch]
          /\ \A x \in Channels : members'[x] = IF x = ch THEN members[ch] \cup {c} ELSE members[x]
      BY <2>5, <3>1 DEF channel_addclient, MayJoin, MemberInv, Shape
    <3>3. ch \notin channels => master[ch] = c
      BY <2>1, <3>1, <3>2 DEF HostedInv, Settled
    <3>4. ASSUME NEW x \in channels'
          PROVE  ~closed'[x] /\ members'[x] # {} /\ master'[x] \in members'[x] \cup {None}
      <4>1. x \in Channels
        BY <3>1, <3>2 DEF MemberInv, Shape
      <4>2. x \in channels => ~closed[x] /\ members[x] # {} /\ master[x] \in members[x] \cup {None}
        BY DEF HostedInv, ListedIsInhabited
      <4> QED BY <2>2, <3>2, <3>3, <4>1, <4>2 DEF Closures
    <3>5. ListedIsInhabited'
      BY <3>4 DEF ListedIsInhabited
    <3>7. \A x \in LiveChannels' : Settled(x) => Settled(x)'
      BY <2>2, <3>2, SettledKept
    <3> QED BY <2>2, <2>3, <3>5, <3>7, HostedKept
  <2> QED BY <1>8, <2>1, <2>4, <2>5 DEF joinchannel_response
<1>9. ASSUME NEW s \in Slots, NEW approve \in BOOLEAN, leavechannel_response(s, approve)
      PROVE  HostedInv'
  <2>1. Answer(s, "leave")
    BY <1>9 DEF leavechannel_response
  <2>2. \A t \in Slots : pending'[t] # NoRequest => pending'[t] = pending[t]
    BY <1>6, <2>1 DEF RequestTypes
  <2>3. CASE ~approve
    <3>1. Closures(closed) /\ UNCHANGED <<channels, members, master>>
      BY <1>9, <2>3 DEF leavechannel_response, DropReferences, Destructors, Closures
    <3> QED BY <2>2, <3>1, QuietHosted
  <2>4. CASE approve
    <3>1. PICK c, left : c = pending[s].cl /\ left = {pending[s].ch}
      OBVIOUS
    <3>2. pending[s] \in Request /\ pending[s].type = "leave"
      BY <2>1, AnswerFacts DEF RequestTypes
    <3>3. c \in Clients /\ \A ch \in left : ch \in Channels /\ Settled(ch)
      BY <3>1, <3>2, RequestFields DEF HostedInv, AskedInv, AboutChannel
    <3>4. channel_removeclient(c, left, readonly)
      BY <1>9, <2>4, <3>1 DEF leavechannel_response
    <3> QED BY <2>2, <3>3, <3>4, RemovedHosted
  <2> QED BY <2>3, <2>4
<1>10. ASSUME NEW c \in clients, Dropped(c)
       PROVE  HostedInv'
  <2>1. PICK left, ro : left = joined[c] /\ ro = Mark(readonly, {c})
    OBVIOUS
  <2>2. channel_removeclient(c, left, ro) /\ pending' = pending
    BY <1>10, <2>1 DEF Dropped
  <2>3. c \in Clients /\ \A ch \in left : ch \in Channels /\ Settled(ch)
    BY <2>1 DEF MemberInv, Shape, MembershipSymmetric, JoinedIsOpen, Settled
  <2> QED BY <2>2, <2>3, RemovedHosted
<1>11. ASSUME NEW ch \in Channels, CloseChannel(ch)
       PROVE  HostedInv'
  <2>1. PICK c, staying, closing : c = None /\ staying = {} /\ closing = {ch}
    OBVIOUS
  <2>2. PICK cl : cl = Mark(closed, closing)
    OBVIOUS
  <2>3. LeaveAndClose(c, staying, closing) /\ Closures(cl) /\ pending' = pending /\ ch \in channels
    BY <1>11, <2>1, <2>2 DEF CloseChannel, Destructors, Closures
  <2>4. \A x \in Channels : cl[x] <=> closed[x] \/ x \in closing
    BY <2>2, MarkType DEF MemberInv, Shape
  <2>5. /\ c \in Clients \cup {None}
        /\ \A x \in staying \cup closing : x \in Channels /\ Settled(x)
        /\ \A x \in staying : members[x] \ {c} # {}
    BY <2>1, <2>3 DEF Settled
  <2> QED BY <2>3, <2>4, <2>5, LeavingHosted
<1>12. CASE Next
  BY <1>12, <1>2, <1>3, <1>4, <1>5, <1>7, <1>8, <1>9, <1>10, <1>11
     DEF Next, Disconnect, UnhostStep, UnhostClient
<1> QED BY <1>2, <1>12

(* If the application makes no channel itself, every listed channel is     *)
(* open and has somebody on it, and its master, if any, is one of them:    *)
(* so unhost() finds no channel left once its clients are gone.            *)
THEOREM ListedStayInhabited ==
    ASSUME MayCreate = FALSE
    PROVE  Spec => []ListedIsInhabited
<1>1. Init => HostedInv
  BY RequestFields DEF Init, HostedInv, ListedIsInhabited
<1>2. MemberInv /\ IdInv /\ AskedInv /\ HostedInv /\ [Next]_vars => HostedInv'
  BY HostedStep
<1>3. Spec => [](MemberInv /\ IdInv /\ AskedInv)
  BY MemberInvariant, IdInvariant, AskedInvariant, PTL
<1>4. HostedInv => ListedIsInhabited
  BY DEF HostedInv
<1> QED BY <1>1, <1>2, <1>3, <1>4, PTL DEF Spec

(***************************************************************************)
(* Types.  The part of TypeOK that says something is IdInv's: an ID is     *)
(* less than the number of objects there can be, or none.                  *)
(***************************************************************************)

RestTyped ==
    /\ hosting \in BOOLEAN
    /\ unhosting \in {"no", "clients", "channels"}
    /\ chname \in [Channels -> ChannelNames \cup {None}]
    /\ autoclose \in [Channels -> BOOLEAN]

LEMMA RestStep == RestTyped /\ [Next]_vars => RestTyped'
<1> SUFFICES ASSUME RestTyped, [Next]_vars PROVE RestTyped'
  OBVIOUS
<1> USE DEF RestTyped, serverVars, clientVars, channelVars
<1>1. CASE /\ UNCHANGED serverVars
           /\ \/ UNCHANGED <<chname, autoclose>>
              \/ /\ chname' = [ch \in Channels |-> IF ch \in LiveChannels' THEN chname[ch] ELSE None]
                 /\ autoclose' = [ch \in Channels |-> ch \in LiveChannels' /\ autoclose[ch]]
  BY <1>1
<1>2. CASE \/ \E c \in Clients : Connect(c) \/ ConnectRequest(c) \/ Boot(c)
           \/ \E c \in Clients, n \in Names : SetNameRequest(c, n)
           \/ \E c \in Clients, ch \in Channels :
                 JoinRequest(c, ch) \/ LeaveRequest(c, ch) \/ ChannelMessage(c, ch)
           \/ \E c, d \in Clients, ch \in Channels : PeerMessage(c, ch, d)
           \/ \E ch \in Channels : UnhostChannel(ch)
           \/ UNCHANGED vars
  BY <1>1, <1>2 DEF Connect, ConnectRequest, Boot, SetNameRequest, JoinRequest, LeaveRequest,
                    ChannelMessage, PeerMessage, UnhostChannel, vars
<1>3. CASE \/ \E c \in Clients : Disconnect(c) \/ UnhostClient(c)
           \/ \E s \in Slots, approve \in BOOLEAN : leavechannel_response(s, approve)
           \/ \E ch \in Channels : CloseChannel(ch)
  BY <1>1, <1>3 DEF Disconnect, UnhostClient, Dropped, leavechannel_response, CloseChannel,
                    channel_removeclient, DropReferences, Destructors
<1>4. CASE \/ \E s \in Slots, approve \in BOOLEAN :
                 connect_response(s, approve) \/ joinchannel_response(s, approve)
           \/ \E s \in Slots : nameset_response(s) \/ MessagePermit(s)
  BY <1>1, <1>4 DEF connect_response, joinchannel_response, nameset_response, MessagePermit,
                    NameRefused, NameAccepted, DropReferences, Destructors
<1>5. CASE \E c \in Clients, ch \in Channels, n \in ChannelNames, auto \in BOOLEAN :
               JoinNewRequest(c, ch, n, auto) \/ createchannel(c, ch, n, auto)
  BY <1>5 DEF JoinNewRequest, createchannel
<1>6. CASE Unhost \/ UnhostClientsDone \/ UnhostDone \/ Host
  BY <1>6 DEF Unhost, UnhostClientsDone, UnhostDone, Host
<1>7. CASE Next
  BY <1>7, <1>2, <1>3, <1>4, <1>5, <1>6 DEF Next, UnhostStep
<1> QED BY <1>2, <1>7

(* Every variable has its type; in particular no ID in use reaches the     *)
(* number of clients, or channels, that can live at once: none leaks.      *)
THEOREM TypeCorrect == Spec => []TypeOK
<1>1. Init => RestTyped
  BY DEF Init, RestTyped
<1>2. Spec => []RestTyped
  BY <1>1, RestStep, PTL DEF Spec
<1>3. MemberInv /\ NameInv /\ IdInv /\ AskedInv /\ ViewInv /\ RestTyped => TypeOK
  <2> SUFFICES ASSUME MemberInv, NameInv, IdInv, AskedInv, ViewInv, RestTyped PROVE TypeOK
    OBVIOUS
  <2>1. ASSUME NEW c \in Clients
        PROVE  chview[c] \subseteq Nat /\ peerview[c] \subseteq Nat \X Nat \X (Names \cup {None})
    <3>1. \A ch \in joined[c] : ch \in Channels /\ members[ch] \subseteq Clients
      BY DEF MemberInv, Shape
    <3>2. chview[c] \subseteq Nat
      BY <3>1, IdTypes DEF ViewInv
    <3>3. ASSUME NEW t \in peerview[c]
          PROVE  t \in Nat \X Nat \X (Names \cup {None})
      <4>1. PICK ch \in joined[c] : \E e \in members[ch] \ {c} : t = <<chid[ch], cid[e], cname[e]>>
        BY DEF ViewInv, PeerTold
      <4>2. PICK e \in members[ch] \ {c} : t = <<chid[ch], cid[e], cname[e]>>
        BY <4>1
      <4>3. chid[ch] \in Nat /\ cid[e] \in Nat /\ cname[e] \in Names \cup {None}
        BY <3>1, <4>1, <4>2, IdTypes DEF NameInv
      <4> QED BY <4>2, <4>3
    <3> QED BY <3>2, <3>3
  <2> QED BY <2>1 DEF TypeOK, MemberInv, Shape, NameInv, IdInv, AskedInv, RestTyped
<1> QED BY <1>2, <1>3, MemberInvariant, NameInvariant, IdInvariant, AskedInvariant, ViewInvariant, PTL

-----------------------------------------------------------------------------

(***************************************************************************)
(* The server's pools of IDs, of any Limit: the IDs that clients and        *)
(* channels hold are distinct and below the 0xFFFF placeholder, and every  *)
(* borrow lends the lowest one that was free, so the pool implements       *)
(* IDAllocator.                                                            *)
(***************************************************************************)

(***************************************************************************)
(* The strengthening that makes PoolPartition inductive.  Both the reset   *)
(* (count back to 0) and the bound on nextID (count below Limit) are       *)
(* decided by borrowedCount, of which PoolPartition says nothing: the      *)
(* count never falls below the number of IDs in use.  It may exceed it,    *)
(* after a refusal.                                                        *)
(***************************************************************************)
CountCovers == IsFiniteSet(inUse) /\ Cardinality(inUse) <= borrowedCount

PoolInv == PoolTypeOK /\ PoolPartition /\ CountCovers

-----------------------------------------------------------------------------

(* std::set's begin() is its least element: a non-empty set of naturals    *)
(* has one, and Min returns it.                                            *)
LEMMA MinIsLeast ==
  ASSUME NEW S \in SUBSET Nat, S # {}
  PROVE  Min(S) \in S /\ \A y \in S : Min(S) =< y
<1> DEFINE R == {ss \in Nat \X Nat : ss[1] < ss[2]}
<1>1. IsWellFoundedOn(R, Nat)
  BY NatLessThanWellFounded, Zenon DEF OpToRel
<1>2. PICK n \in S : \A m \in S : ~(<<m, n>> \in R)
  <2> HIDE DEF R
  <2> QED
    BY <1>1, WFMin, Zenon
<1>3. \A m \in S : ~(m < n)
  BY <1>2
<1>4. \A y \in S : n =< y
  BY <1>3
<1> QED
  BY <1>2, <1>4 DEF Min

(* borrow() with an ID to reuse keeps the invariant. *)
LEMMA BorrowReleasedInv ==
  ASSUME PoolInv, borrowReleased
  PROVE  PoolInv'
<1> DEFINE m == Min(releasedIDs)
<1>1. m \in releasedIDs
  BY MinIsLeast DEF PoolInv, PoolTypeOK, borrowReleased
<1>2. m \notin inUse
  BY <1>1 DEF PoolInv, PoolPartition
<1>3. IsFiniteSet(inUse \cup {m}) /\ Cardinality(inUse \cup {m}) = Cardinality(inUse) + 1
  BY <1>2, FS_AddElement DEF PoolInv, CountCovers
<1>4. Cardinality(inUse) \in Nat
  BY FS_CardinalityType DEF PoolInv, CountCovers
<1>5. inUse' = inUse \cup {m} /\ releasedIDs' = releasedIDs \ {m}
  BY DEF borrowReleased
<1>6. nextID' = nextID /\ borrowedCount' = borrowedCount + 1
  BY DEF borrowReleased
<1> HIDE DEF m
<1> QED
  BY <1>1, <1>2, <1>3, <1>4, <1>5, <1>6 DEF PoolInv, PoolTypeOK, PoolPartition, CountCovers

(* borrow() of a fresh ID keeps the invariant: with nothing to reuse,      *)
(* nextID is the number of IDs in use, which the count bounds.             *)
LEMMA BorrowNextInv ==
  ASSUME PoolInv, borrowNext
  PROVE  PoolInv'
<1> USE PoolAssumption
<1>1. inUse = 0 .. (nextID - 1) /\ nextID \in Nat
  BY DEF PoolInv, PoolTypeOK, PoolPartition, borrowNext
<1>2. Cardinality(inUse) = nextID
  BY <1>1, FS_Interval
<1>3. nextID < Limit
  BY <1>1, <1>2 DEF PoolInv, PoolTypeOK, CountCovers, borrowNext
<1>4. nextID \notin inUse
  BY <1>1
<1>5. IsFiniteSet(inUse \cup {nextID}) /\ Cardinality(inUse \cup {nextID}) = nextID + 1
  BY <1>2, <1>4, FS_AddElement DEF PoolInv, CountCovers
<1>6. /\ releasedIDs' = {} /\ nextID' = nextID + 1
      /\ borrowedCount' = borrowedCount + 1 /\ inUse' = inUse \cup {nextID}
  BY DEF borrowNext
<1>7. PoolTypeOK'
  BY <1>1, <1>3, <1>6 DEF PoolInv, PoolTypeOK
<1>8. PoolPartition'
  BY <1>1, <1>6 DEF PoolPartition
<1>9. CountCovers'
  BY <1>1, <1>2, <1>5, <1>6 DEF PoolInv, PoolTypeOK, CountCovers
<1> QED
  BY <1>7, <1>8, <1>9 DEF PoolInv

(* returnID() keeps the invariant in each of its three cases. *)
LEMMA ReturnInv ==
  ASSUME PoolInv, NEW id \in inUse, returnID(id)
  PROVE  PoolInv'
<1> USE PoolAssumption
<1>1. IsFiniteSet(inUse \ {id}) /\ Cardinality(inUse \ {id}) = Cardinality(inUse) - 1
  BY FS_RemoveElement DEF PoolInv, CountCovers
<1>2. Cardinality(inUse) \in Nat /\ Cardinality(inUse \ {id}) \in Nat
  BY <1>1, FS_CardinalityType DEF PoolInv, CountCovers
<1>3. inUse' = inUse \ {id} /\ borrowedCount' = borrowedCount - 1
  BY DEF returnID
<1>4. borrowedCount \in Nat \ {0}
  BY <1>1, <1>2 DEF PoolInv, PoolTypeOK, CountCovers
<1>5. CountCovers'
  BY <1>1, <1>2, <1>3, <1>4 DEF PoolInv, CountCovers
<1>6. id \in 0 .. (nextID - 1) /\ id \notin releasedIDs
  BY DEF PoolInv, PoolPartition
<1>7. CASE borrowedCount - 1 = 0
  <2>1. releasedIDs' = {} /\ nextID' = 0
    BY <1>7 DEF returnID
  <2>2. inUse \ {id} = {}
    BY <1>1, <1>2, <1>7, <1>4, FS_EmptySet DEF PoolInv, CountCovers
  <2> QED
    BY <1>3, <1>4, <1>5, <2>1, <2>2 DEF PoolInv, PoolTypeOK, PoolPartition
<1>8. CASE borrowedCount - 1 # 0 /\ nextID = id + 1
  <2>1. releasedIDs' = releasedIDs /\ nextID' = nextID - 1
    BY <1>8 DEF returnID
  <2> QED
    BY <1>3, <1>4, <1>5, <1>6, <1>8, <2>1 DEF PoolInv, PoolTypeOK, PoolPartition
<1>9. CASE borrowedCount - 1 # 0 /\ nextID # id + 1
  <2>1. releasedIDs' = releasedIDs \cup {id} /\ nextID' = nextID
    BY <1>9 DEF returnID
  <2> QED
    BY <1>3, <1>4, <1>5, <1>6, <2>1 DEF PoolInv, PoolTypeOK, PoolPartition
<1> QED
  BY <1>7, <1>8, <1>9

(* A refused borrow() changes only the count. *)
LEMMA ThrowInv ==
  ASSUME PoolInv, borrowThrows
  PROVE  PoolInv'
<1>1. Cardinality(inUse) \in Nat
  BY FS_CardinalityType DEF PoolInv, CountCovers
<1> QED
  BY <1>1 DEF PoolInv, PoolTypeOK, PoolPartition, CountCovers, borrowThrows

(* The invariant holds initially and every step keeps it. *)
LEMMA PoolInvariant == PoolSpec => []PoolInv
<1>1. PoolInit => PoolInv
  BY PoolAssumption, FS_EmptySet DEF PoolInit, PoolInv, PoolTypeOK, PoolPartition, CountCovers
<1>2. PoolInv /\ [PoolNext]_poolVars => PoolInv'
  <2> SUFFICES ASSUME PoolInv, [PoolNext]_poolVars
               PROVE  PoolInv'
    OBVIOUS
  <2>1. CASE UNCHANGED poolVars
    BY <2>1 DEF poolVars, PoolInv, PoolTypeOK, PoolPartition, CountCovers
  <2> QED
    BY <2>1, BorrowReleasedInv, BorrowNextInv, ThrowInv, ReturnInv DEF PoolNext
<1> QED
  BY <1>1, <1>2, PTL DEF PoolSpec

-----------------------------------------------------------------------------

(* No ID is ever lent twice or lost, for every Limit. *)
THEOREM PoolPartitionHolds == PoolSpec => []PoolPartition
<1>1. PoolInv => PoolPartition
  BY DEF PoolInv
<1> QED
  BY <1>1, PoolInvariant, PTL

(* IDs stay below Limit and nextID never passes it: with Limit = 0xFFFE no *)
(* caller ever holds the placeholder 0xFFFF, and nextID does not overflow. *)
THEOREM PoolTypeCorrect == PoolSpec => []PoolTypeOK
<1>1. PoolInv => PoolTypeOK
  BY DEF PoolInv
<1> QED
  BY <1>1, PoolInvariant, PTL

(* The pool implements the allocator that lends the lowest free ID. *)
THEOREM PoolRefinement == PoolSpec => LendsLowestFree
<1> USE PoolAssumption
<1>1. PoolInit => Allocator!Init
  BY DEF PoolInit, Allocator!Init
<1>2. PoolInv /\ PoolInv' /\ [PoolNext]_poolVars => [Allocator!Next]_inUse
  <2> SUFFICES ASSUME PoolInv, PoolInv', [PoolNext]_poolVars
               PROVE  [Allocator!Next]_inUse
    OBVIOUS
  <2> USE DEF Allocator!Next
  <2>1. CASE borrowReleased
    <3> DEFINE m == Min(releasedIDs)
    <3>1. m \in releasedIDs /\ \A y \in releasedIDs : m =< y
      BY <2>1, MinIsLeast DEF PoolInv, PoolTypeOK, borrowReleased
    <3>2. inUse' = inUse \cup {m}
      BY <2>1 DEF borrowReleased
    <3> HIDE DEF m
    <3>3. Allocator!IsLowestFree(m, inUse)
      BY <3>1 DEF PoolInv, PoolTypeOK, PoolPartition, Allocator!IsLowestFree
    <3> QED
      BY <3>1, <3>2, <3>3 DEF PoolInv, PoolTypeOK, Allocator!Lend, Allocator!IDs
  <2>2. CASE borrowNext
    <3>1. inUse' = inUse \cup {nextID} /\ inUse = 0 .. (nextID - 1)
      BY <2>2 DEF borrowNext, PoolInv, PoolPartition
    <3>2. Allocator!IsLowestFree(nextID, inUse)
      BY <3>1 DEF PoolInv, PoolTypeOK, Allocator!IsLowestFree
    <3>3. nextID \in 0 .. (Limit - 1)
      BY <3>1 DEF PoolInv, PoolTypeOK
    <3> QED
      BY <3>1, <3>2, <3>3 DEF Allocator!Lend, Allocator!IDs
  <2>3. CASE borrowThrows
    BY <2>3 DEF borrowThrows
  <2>4. ASSUME NEW id \in inUse, returnID(id)
        PROVE  [Allocator!Next]_inUse
    BY <2>4 DEF returnID, Allocator!TakeBack
  <2>5. CASE UNCHANGED poolVars
    BY <2>5 DEF poolVars
  <2> QED
    BY <2>1, <2>2, <2>3, <2>4, <2>5 DEF PoolNext
<1> QED
  BY <1>1, <1>2, PoolInvariant, PTL DEF PoolSpec, LendsLowestFree, Allocator!Spec
=============================================================================
