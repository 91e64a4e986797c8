------------------------------ MODULE Listener ------------------------------
(***************************************************************************)
(* The listening socket under the relay server: src/windows/server.c, from *)
(* an accept that completes to the close of the client it made, and the    *)
(* two hooks the relay server (Lacewing/RelayServer.cc) sets on it.        *)
(*                                                                         *)
(* A completion waits in the event pump's queue between the kernel's part  *)
(* of an accept and listen_socket_completion, so the server may be         *)
(* unhosted in between.                                                    *)
(***************************************************************************)
EXTENDS FiniteSets, Integers

CONSTANTS
    Accepts,     \* the accepts that can be pending: ideal_pending_accept_count
    Sockets,     \* lw_server_client objects
    Ips,
    MaxTotal,    \* numTotalClientsPerIP
    MaxPending   \* numPendingConnectsPerIP

ASSUME ListenerAssumption ==
    MaxTotal \in Nat /\ MaxPending \in Nat /\ IsFiniteSet(Accepts)

VARIABLES
    hosting,
    lost,      \* accepts that failed, or were not issued, since all last were
    accept,    \* "none", "waiting", "ready" (completed), "aborted" (completed with an error)
    caller,    \* the remote address of a ready accept
    open,      \* has the socket of a pending accept or of a client not been closed?
    listed,    \* lw_server's clients
    relayed,   \* relayserverinternal::clients, by the socket each has
    approved,  \* the connectRequestApproved among them
    booting,   \* refused, with the refusal still being written
    ip         \* the remote address of a client

vars == <<hosting, lost, accept, caller, open, listed, relayed, approved, booting, ip>>

Objects == listed \cup relayed
Pending == {a \in Accepts : accept[a] # "none"}
Missing == Accepts \ Pending

AnyIp == CHOOSE i \in Ips : TRUE

Init == /\ hosting = FALSE
        /\ lost = 0
        /\ accept = [a \in Accepts |-> "none"]
        /\ caller = [a \in Accepts |-> AnyIp]
        /\ open = {}
        /\ listed = {}
        /\ relayed = {}
        /\ approved = {}
        /\ booting = {}
        /\ ip = [s \in Sockets |-> AnyIp]

(***************************************************************************)
(* Accepting.                                                              *)
(***************************************************************************)

(* while (list_length (pending_accepts) < ideal) if (!issue_accept) break:  *)
(* accepts become pending, each with a socket, up to one for which there   *)
(* is no socket or which AcceptEx refuses.  "issued" are those before it,   *)
(* all that were missing if there is none such.                            *)
Refilled(issued) == [a \in Accepts |-> IF a \in issued THEN "waiting" ELSE accept[a]]

(* One more is lost; there are no more than all of them to lose. *)
OneLost == IF lost < Cardinality(Accepts) THEN lost + 1 ELSE lost

(* lw_server_host_filter.  Accepts of an earlier hosting may be pending, and *)
(* count.                                                                    *)
Host ==
    \E issued \in SUBSET Missing :
        /\ ~hosting
        /\ hosting' = TRUE
        /\ accept' = Refilled(issued)
        /\ lost' = Cardinality(Missing \ issued)
        /\ open' = open \cup issued
        /\ UNCHANGED <<caller, listed, relayed, approved, booting, ip>>

(* External: the kernel completes an accept, or fails it (the connection   *)
(* was reset, the listening socket closed).                                *)
Arrive(a, i) ==
    /\ accept[a] = "waiting"
    /\ accept' = [accept EXCEPT ![a] = "ready"]
    /\ caller' = [caller EXCEPT ![a] = i]
    /\ UNCHANGED <<hosting, lost, open, listed, relayed, approved, booting, ip>>

Fail(a) ==
    /\ accept[a] = "waiting"
    /\ accept' = [accept EXCEPT ![a] = "aborted"]
    /\ UNCHANGED <<hosting, lost, caller, open, listed, relayed, approved, booting, ip>>

(* c->address() == clientsocket->address() compares two pointers to        *)
(* address objects, and every client has an object of its own.             *)
SameAddress(c, s) == c = s

Rivals(s) == {c \in listed \ {s} : SameAddress(c, s)}

Refused(s) ==
    \/ Cardinality(Rivals(s)) > MaxTotal
    \/ Cardinality(Rivals(s) \ approved) > MaxPending

(* The connect hook: a refusal is written, and closes the client when it   *)
(* is out; any other client is the relay server's from here.               *)
generic_handlerconnect(s) ==
    IF Refused(s)
    THEN booting' = booting \cup {s} /\ UNCHANGED relayed
    ELSE relayed' = relayed \cup {s} /\ UNCHANGED booting

(* Fault: one accept is issued for one that completes, whatever was lost before. *)
Reissued_Once(issued) ==
    IF issued = {} THEN accept ELSE Refilled({CHOOSE x \in issued : TRUE})

(* A server that is not hosting has no socket to accept on. *)
Reissued(issued) == IF hosting THEN Refilled(issued) ELSE accept

(* New accepts are issued while the one that is done still counts; its     *)
(* socket, still open or not, becomes the client's; the connect hook runs; *)
(* the client is listed after it.                                          *)
listen_socket_completion(a, s) ==
    \E issued \in IF hosting THEN SUBSET Missing ELSE {{}} :
        /\ accept[a] = "ready"
        /\ s \notin listed
        /\ accept' = [Reissued(issued) EXCEPT ![a] = "none"]
        /\ lost' = IF issued = Missing THEN 0 ELSE OneLost
        /\ open' = (open \ {a}) \cup {x \in {s} : a \in open}
                     \cup {x \in Missing : Reissued(issued)[x] = "waiting"}
        /\ ip' = [ip EXCEPT ![s] = caller[a]]
        /\ generic_handlerconnect(s)
        /\ listed' = listed \cup {s}
        /\ UNCHANGED <<hosting, caller, approved>>

(* Fault: the socket that was made for the accept is left open. *)
accept_completed_KeepsSocket(a) ==
    /\ accept' = [accept EXCEPT ![a] = "none"]
    /\ UNCHANGED open

accept_completed(a) ==
    /\ accept' = [accept EXCEPT ![a] = "none"]
    /\ open' = open \ {a}

(* listen_socket_completion of a failed accept: nothing takes its place. *)
AcceptFailed(a) ==
    /\ accept[a] = "aborted"
    /\ accept_completed(a)
    /\ lost' = OneLost
    /\ UNCHANGED <<hosting, caller, listed, relayed, approved, booting, ip>>

(***************************************************************************)
(* Clients.                                                                *)
(***************************************************************************)

(* connect_response *)
Approve(s) ==
    /\ s \in (relayed \cap open) \ approved
    /\ approved' = approved \cup {s}
    /\ UNCHANGED <<hosting, lost, accept, caller, open, listed, relayed, booting, ip>>

(* Fault: the relay server is only told of clients it had approved. *)
on_client_close_Approved(closed) ==
    /\ listed' = listed \ closed
    /\ relayed' = relayed \ (closed \cap approved)
    /\ approved' = approved \ closed
    /\ booting' = booting \ closed

(* on_client_close, with the disconnect hook it calls: a refused client    *)
(* has no tag, and the relay server has nothing of it to free.             *)
on_client_close(closed) ==
    /\ listed' = listed \ closed
    /\ relayed' = relayed \ closed
    /\ approved' = approved \ closed
    /\ booting' = booting \ closed

(* A connection ends at either side, a refusal is written, or the ping     *)
(* timer, which runs while the server hosts, drops a client.               *)
Close(s) ==
    /\ s \in listed
    /\ s \in open \/ hosting
    /\ on_client_close({s})
    /\ open' = open \ {s}
    /\ UNCHANGED <<hosting, lost, accept, caller, ip>>

(* lw_server_unhost: the listening socket is closed, then the clients,     *)
(* then the sockets of the pending accepts.  An accept the kernel has      *)
(* completed stays completed.                                              *)
Unhost ==
    /\ hosting
    /\ hosting' = FALSE
    /\ on_client_close(listed)
    /\ accept' = [a \in Accepts |-> IF accept[a] = "waiting" THEN "aborted" ELSE accept[a]]
    /\ open' = {}
    /\ UNCHANGED <<lost, caller, ip>>

Next ==
    \/ Host \/ Unhost
    \/ \E a \in Accepts :
          \/ Fail(a) \/ AcceptFailed(a)
          \/ \E i \in Ips : Arrive(a, i)
          \/ \E s \in Sockets : listen_socket_completion(a, s)
    \/ \E s \in Sockets : Approve(s) \/ Close(s)

Spec == Init /\ [][Next]_vars

-----------------------------------------------------------------------------
(***************************************************************************)
(* Properties.                                                             *)
(***************************************************************************)

(* Sockets are those of accepts and of clients; only what is pending or    *)
(* listed has one open; approval is of the relay server's clients.         *)
TypeOK ==
    /\ hosting \in BOOLEAN /\ lost \in 0..Cardinality(Accepts)
    /\ accept \in [Accepts -> {"none", "waiting", "ready", "aborted"}]
    /\ caller \in [Accepts -> Ips] /\ ip \in [Sockets -> Ips]
    /\ listed \subseteq Sockets /\ approved \subseteq relayed
    /\ open \subseteq Pending \cup listed

(* The relay server's list and the listening server's are kept by hooks,   *)
(* on either side of an unhost: no client of one is missing from the       *)
(* other, but the refused.                                                 *)
RelayMirrorsServer ==
    /\ relayed \cup booting = listed
    /\ relayed \cap booting = {}

(* However fast connections come, and however they mix with accepts that   *)
(* fail and loops that break, a server that hosts misses one accept for     *)
(* each such failure since a loop last ran to its end, and one more: the    *)
(* completed accept counts while that loop runs.                           *)
PoolKeepsUp == hosting => Cardinality(Missing) <= 1 + lost

(* "Max number of Connect Request Approved and Pending allowed per IP":    *)
(* the clients the relay server serves keep to it.                         *)
TotalWithinLimit ==
    \A i \in Ips : Cardinality({s \in relayed : ip[s] = i}) <= MaxTotal

(* "This will drop all clients": an unhosted server has none. *)
EmptyAfterUnhost == ~hosting => relayed = {}
=============================================================================
