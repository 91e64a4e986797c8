----------------------------- MODULE Endpoints ------------------------------
(***************************************************************************)
(* The sockets that Listener does not cover: the listening server of the   *)
(* Unix build with the TLS handshake of its clients (unix/server.c,        *)
(* openssl/sslclient.c), and the client and UDP sockets of both builds     *)
(* (windows/client.c, unix/client.c, windows/udp.c, unix/udp.c), all under *)
(* src/Lacewing/src, and sockets with the filters of SecureFilters.        *)
(*                                                                         *)
(* Endpoints share nothing but the pump, which runs one callback at a time *)
(* to its end, so a behaviour is that of one endpoint, the server of       *)
(* Listener among them.  "end" is its state; a function of the code maps   *)
(* one such record to the next.  What the code does in error is named in   *)
(* "wrong", and what comes after is not followed.                          *)
(***************************************************************************)
EXTENDS Listener, SecureFilters

CONSTANTS
    MaxCalls,      \* connections, or datagrams, of a behaviour
    MaxAttempts,   \* connects, hostings or sends of a behaviour
    Ideal          \* ideal_pending_receive_count

ASSUME EndpointAssumption == {MaxCalls, MaxAttempts, Ideal} \subseteq Nat \ {0}

VARIABLES
    part,    \* which endpoint, and of which build
    end

endvars == <<part, end>>

Calls == 1..MaxCalls
Unfit(n, how, bad) == IF bad THEN [n EXCEPT !.wrong = @ \cup {how}] ELSE n

Becomes(n) ==
    /\ end.wrong = {}
    /\ end' = n
    /\ UNCHANGED <<part, vars>>

-----------------------------------------------------------------------------
(***************************************************************************)
(* The server of the Unix build.                                           *)
(***************************************************************************)

(* lw_server_new, and what the kernel has for it: connections that nobody   *)
(* accepted, and whether the pump is still to be told of them, once each    *)
(* time one comes.                                                          *)
Server ==
    [socket |-> "none", backlog |-> <<>>, edge |-> FALSE, stranded |-> FALSE,
     accepting |-> FALSE, clients |-> {}, state |-> [c \in Calls |-> "none"], secure |-> FALSE,
     on_data |-> FALSE, hooked |-> {}, reads |-> {}, deleted |-> FALSE,
     joins |-> [c \in Calls |-> 0], leaves |-> [c \in Calls |-> 0],
     came |-> 0, attempts |-> 0, wrong |-> {}]

(* Who is connected as the user sees it: told of the one, not of the other. *)
Alive(n, c) == n.state[c] \in {"shaking", "open"}

(* on_client_close: the hook, for those whose coming was told, and the end of the *)
(* client.                                                                        *)
on_client_close_unix(n, c) ==
    LET told == n.joins[c] > 0
        m == Unfit(n, "server freed", n.deleted)
    IN  [m EXCEPT !.leaves[c] = IF told THEN @ + 1 ELSE @, !.state[c] = "closed",
                  !.clients = @ \ {c}, !.hooked = @ \ {c}, !.reads = @ \ {c}]

(* Connections that were not accepted go with the socket.  Clients stay. *)
lw_server_unhost(n) ==
    [n EXCEPT !.socket = "none", !.edge = FALSE, !.stranded = FALSE, !.backlog = <<>>]

(* lwp_server_client_new: with a certificate, a client is one of TLS. *)
lwp_server_client_new(n, c) == [n EXCEPT !.state[c] = IF n.secure THEN "shaking" ELSE "open"]

(* lw_server_on_data: what it does for clients that are there when a hook is set *)
(* it does not do, since it looks for the old hook where it has put the new one.  *)
lw_server_on_data(n, hook) ==
    [n EXCEPT !.on_data = hook, !.hooked = IF hook THEN @ ELSE @ \ n.clients]

(* What the user does when it is told of a client. *)
ConnectHook(n, c, does) ==
    LET m == [n EXCEPT !.joins[c] = @ + 1]
    IN  CASE does = "refuse" -> on_client_close_unix(m, c)
          [] does = "unhost" -> lw_server_unhost(m)
          [] OTHER -> m

(* Fault: a client that the connect hook closed is listed. *)
Joined_Always(n, c) == [n EXCEPT !.clients = @ \cup {c}]

(* A client is listed after its hook, unless it did not survive that. *)
Joined(n, c) == IF Alive(n, c) THEN [n EXCEPT !.clients = @ \cup {c}] ELSE n

on_ssl_handshook(n, c, does) ==
    Joined(ConnectHook([n EXCEPT !.state[c] = "open"], c, does), c)

(* on_client_data: the data hook, which may close the client.  A client in the    *)
(* middle of its handshake keeps its stream's hook when the server loses its own. *)
on_client_data(n, c, does) ==
    LET m == Unfit(n, "no hook", c \in n.hooked /\ ~n.on_data)
    IN  IF c \in n.hooked /\ n.on_data /\ does = "reject" THEN on_client_close_unix(m, c) ELSE m

(* What a client reads first: nothing, data, the end of the connection, or with  *)
(* TLS its handshake, and then the connect hook may close it.                    *)
ClientRead(n, c, does) ==
    IF c \notin n.reads THEN n
    ELSE IF does = "ends" THEN on_client_close_unix(n, c)
    ELSE IF n.state[c] = "shaking"
    THEN IF does \in {"nothing", "unhost"} THEN n ELSE on_ssl_handshook(n, c, does)
    ELSE IF does \in {"data", "reject"} THEN on_client_data(n, c, does) ELSE n

Accepted(n, c, does) ==
    LET m == lwp_server_client_new([n EXCEPT !.backlog = Tail(@)], c)
        d == IF m.on_data THEN [m EXCEPT !.hooked = @ \cup {c}, !.reads = @ \cup {c}] ELSE m
        j == IF m.secure THEN [d EXCEPT !.reads = @ \cup {c}]
             ELSE Joined(ConnectHook(d, c, does), c)
    IN  IF Alive(j, c) THEN ClientRead(j, c, does) ELSE j

(* One turn of the loop that accepts.  A client that its own accept closed ends it: *)
(* those behind it stay in the kernel until another comes.                          *)
AcceptNext(n, does) ==
    IF n.socket # "listening" \/ n.backlog = <<>> THEN [n EXCEPT !.accepting = FALSE]
    ELSE LET c == Head(n.backlog)
             m == Accepted(n, c, does)
         IN  IF Alive(m, c) THEN m
             ELSE [m EXCEPT !.stranded = m.backlog # <<>>, !.accepting = FALSE]

Does == {"nothing", "refuse", "unhost", "data", "reject", "ends"}

(* Nothing else runs until the loop is over, but more connections may be made. *)
listen_socket_read_ready ==
    /\ part = "unix server"
    /\ \/ end.edge /\ ~end.accepting /\ Becomes([end EXCEPT !.edge = FALSE, !.accepting = TRUE])
       \/ end.accepting /\ \E does \in Does : Becomes(AcceptNext(end, does))

(* A socket that cannot listen is kept, and counts as hosting. *)
lw_server_host_filter ==
    \E outcome \in {"none", "deaf", "listening"} :
        /\ part = "unix server" /\ ~end.deleted /\ ~end.accepting
        /\ end.attempts < MaxAttempts
        /\ Becomes([lw_server_unhost(end) EXCEPT !.socket = outcome, !.attempts = @ + 1])

(* A certificate is set before its file is read, and taken back if it is no good. *)
lw_server_load_cert_file ==
    \E good \in BOOLEAN :
        /\ part = "unix server" /\ ~end.deleted /\ ~end.accepting
        /\ end.socket = "none" /\ end.clients = {} /\ end.came = 0
        /\ Becomes([end EXCEPT !.secure = good])

lw_server_delete(n) == [lw_server_unhost(n) EXCEPT !.deleted = TRUE]

ServerCalls ==
    /\ part = "unix server" /\ ~end.deleted /\ ~end.accepting
    /\ \/ end.socket # "none" /\ Becomes(lw_server_unhost(end))
       \/ \E hook \in BOOLEAN : hook # end.on_data /\ Becomes(lw_server_on_data(end, hook))
       \/ Becomes(lw_server_delete(end))
       \/ \E c \in end.clients : Becomes(on_client_close_unix(end, c))

(* External: a connection is made; something, or the end, comes from a client. *)
Call ==
    /\ part = "unix server" /\ end.socket = "listening" /\ end.came < MaxCalls
    /\ Becomes([end EXCEPT !.came = @ + 1, !.backlog = Append(@, end.came + 1),
                           !.edge = TRUE, !.stranded = FALSE])

ClientReady ==
    \E c \in Calls, does \in {"data", "refuse", "reject", "ends"} :
        /\ part = "unix server" /\ ~end.accepting /\ Alive(end, c) /\ c \in end.reads
        /\ Becomes(ClientRead(end, c, does))

-----------------------------------------------------------------------------
(***************************************************************************)
(* A client socket of either build.                                        *)
(***************************************************************************)

IsClient == part \in {"windows client", "unix client"}

(* lw_client_new; socket is "connecting" in the kernel, "answered" or "failed" when *)
(* that is over and the pump is still to say so.                                    *)
NewClient ==
    [connecting |-> FALSE, socket |-> "none", stuck |-> FALSE, freed |-> FALSE,
     on_data |-> FALSE, joins |-> 0, leaves |-> 0, unasked |-> 0,
     attempts |-> 0, wrong |-> {}]

lw_client_connected(n) == n.socket = "open"
Underway(n) == n.socket \in {"connecting", "answered", "failed"}

(* lw_client_connect_addr: every way out but the last two leaves connecting set, *)
(* and no connect will be tried again.  An address may not resolve, may not be   *)
(* ready, a socket may not be made, or on Windows not be bound.                  *)
Outcomes ==
    {"unresolved", "not ready", "no socket", "refused", "connecting"}
        \cup (IF part = "windows client" THEN {"unbound"} ELSE {})

Attempted(n, outcome) ==
    CASE outcome = "refused" -> n
      [] outcome = "connecting" -> [n EXCEPT !.connecting = TRUE, !.socket = "connecting"]
      [] OTHER -> [n EXCEPT !.connecting = TRUE, !.stuck = TRUE]

lw_client_connect_addr ==
    \E outcome \in Outcomes :
        /\ IsClient /\ ~end.freed /\ end.attempts < MaxAttempts
        /\ ~lw_client_connected(end) /\ ~end.connecting
        /\ Becomes(Attempted([end EXCEPT !.attempts = @ + 1], outcome))

(* External: the connect ends. *)
ConnectEnds ==
    /\ IsClient /\ end.socket = "connecting"
    /\ \E outcome \in {"answered", "failed"} : Becomes([end EXCEPT !.socket = outcome])

(* on_close: the disconnect hook runs for every close of the stream, open or not. *)
on_close(n) ==
    [n EXCEPT !.socket = IF lw_client_connected(n) THEN "none" ELSE @,
              !.leaves = @ + 1,
              !.unasked = IF lw_client_connected(n) THEN @ ELSE @ + 1]

(* What the connect hook does, then the first read, if there is a data hook. *)
on_connect(n, does) ==
    LET m == [n EXCEPT !.joins = @ + 1]
    IN  IF does = "close" \/ (does = "ends" /\ n.on_data) THEN on_close(m) ELSE m

(* The socket and its watch stay behind, unused. *)
connect_failed(n) == [n EXCEPT !.connecting = FALSE, !.socket = "none"]

(* write_ready on Unix, completion on Windows. *)
connect_completed ==
    \E does \in {"nothing", "close", "ends"} :
        /\ IsClient /\ end.socket \in {"answered", "failed"}
        /\ LET n == Unfit(end, "client freed", end.freed)
           IN  Becomes(IF n.socket = "failed" \/ n.freed THEN connect_failed(n)
                       ELSE on_connect([n EXCEPT !.socket = "open", !.connecting = FALSE], does))

(* lw_client_on_data, lw_stream_close of the client, and lw_client_delete, which *)
(* closes it too.                                                                *)
lw_client_on_data == [end EXCEPT !.on_data = ~@]
lw_client_delete == [on_close(end) EXCEPT !.freed = TRUE]

ClientCalls ==
    /\ IsClient /\ ~end.freed
    /\ \/ Becomes(lw_client_on_data)
       \/ end.unasked = 0 /\ Becomes(on_close(end))
       \/ Becomes(lw_client_delete)

(* on_stream_data, or a read that ends: only with a data hook is there any read. *)
on_stream_data ==
    /\ IsClient /\ ~end.freed /\ lw_client_connected(end) /\ end.on_data
    /\ Becomes(on_close(end))

-----------------------------------------------------------------------------
(***************************************************************************)
(* A UDP socket of the Windows build.                                      *)
(***************************************************************************)

(* lw_udp_new.  Receives are in the kernel, on the socket that hosts, or in the    *)
(* pump's queue: aborted with their socket, or with a datagram of a peer or of a   *)
(* stranger that the filter does not let through.                                  *)
Results == {"aborted", "peer", "stranger"}
WinUdp ==
    [hosting |-> FALSE, kernel |-> 0, queue |-> [r \in Results |-> 0], receives_posted |-> 0,
     sends |-> 0, writes_posted |-> 0, short |-> FALSE, lost |-> FALSE,
     deleted |-> FALSE, freed |-> FALSE, came |-> 0, attempts |-> 0, wrong |-> {}]

Queue(n) == n.queue["aborted"] + n.queue["peer"] + n.queue["stranger"]
References(n) == (IF n.deleted THEN 0 ELSE 1) + n.receives_posted + n.writes_posted

(* lwp_release, and lw_udp_dealloc when it was the last. *)
Released(n) == [n EXCEPT !.freed = References(n) = 0]

read_completed(n) == Released([n EXCEPT !.receives_posted = @ - 1])
write_completed(n) == Released([n EXCEPT !.writes_posted = @ - 1, !.sends = @ - 1])

(* Fault: receives are posted only if there is none. *)
post_receives_WhenNone(n, can) ==
    LET need == IF n.receives_posted = 0 THEN Ideal ELSE 0
        got == IF ~n.hosting THEN 0 ELSE IF can < need THEN can ELSE need
    IN  [n EXCEPT !.kernel = @ + got, !.receives_posted = @ + got,
                  !.short = n.hosting /\ got < need]

(* post_receives: up to the ideal number, of which it counts those of an earlier *)
(* socket that were not yet seen to be aborted, until one cannot be posted.      *)
post_receives(n, can) ==
    LET need == IF n.receives_posted < Ideal THEN Ideal - n.receives_posted ELSE 0
        got == IF ~n.hosting THEN 0 ELSE IF can < need THEN can ELSE need
    IN  [n EXCEPT !.kernel = @ + got, !.receives_posted = @ + got,
                  !.short = n.hosting /\ got < need]

lw_udp_unhost_windows(n) ==
    [n EXCEPT !.hosting = FALSE, !.kernel = 0, !.short = FALSE,
              !.queue["aborted"] = @ + n.kernel]

lw_udp_host_windows(n, can) ==
    post_receives([lw_udp_unhost_windows(n) EXCEPT !.hosting = TRUE], can)

(* lw_udp_delete: without anything pending it is gone, socket or not; else the  *)
(* end of what is pending will free it.                                          *)
lw_udp_delete_windows(n) ==
    LET m == Released([n EXCEPT !.deleted = TRUE])
    IN  IF m.freed \/ ~m.hosting THEN m ELSE lw_udp_unhost_windows(m)

(* lw_udp_send: one that fails at once still counts as posted, for good. *)
lw_udp_send_windows(n, fails) ==
    IF fails \/ ~n.hosting THEN [n EXCEPT !.writes_posted = @ + 1, !.lost = TRUE]
    ELSE [n EXCEPT !.writes_posted = @ + 1, !.sends = @ + 1]

WinUdpCall(n, does, can) ==
    CASE does = "host"   -> lw_udp_host_windows([n EXCEPT !.attempts = @ + 1], can)
      [] does = "unhost" -> IF n.hosting THEN lw_udp_unhost_windows(n) ELSE n
      [] does = "delete" -> lw_udp_delete_windows(n)
      [] does = "send"   -> lw_udp_send_windows([n EXCEPT !.attempts = @ + 1], FALSE)
      [] does = "misfire"-> lw_udp_send_windows([n EXCEPT !.attempts = @ + 1], TRUE)
      [] OTHER -> n

(* What the user may call, from outside or in the data hook. *)
Permitted(n) ==
    IF n.deleted THEN {"nothing"}
    ELSE {"nothing", "unhost", "delete"}
             \cup (IF n.attempts < MaxAttempts THEN {"host", "send", "misfire"} ELSE {})

(* udp_socket_completion of a receive.  After an unhost there is no filter, and the *)
(* data hook runs for receives that were aborted as for those that were not.        *)
udp_receive_completed ==
    \E r \in Results, can \in 0..Ideal :
        /\ part = "windows udp" /\ ~end.freed /\ end.queue[r] > 0
        /\ \E does \in IF r = "peer" \/ (r = "aborted" /\ ~end.hosting)
                       THEN Permitted(end) ELSE {"nothing"} :
             LET c == read_completed(WinUdpCall([end EXCEPT !.queue[r] = @ - 1], does, can))
             IN  Becomes(IF c.freed THEN c ELSE post_receives(c, can))

udp_send_completed ==
    /\ part = "windows udp" /\ ~end.freed /\ end.sends > 0 /\ Becomes(write_completed(end))

WinUdpCalls ==
    /\ part = "windows udp" /\ ~end.deleted
    /\ \E does \in Permitted(end) \ {"nothing"}, can \in 0..Ideal :
           Becomes(WinUdpCall(end, does, can))

(* External: a datagram completes a receive. *)
Datagram ==
    \E r \in {"peer", "stranger"} :
        /\ part = "windows udp" /\ end.kernel > 0 /\ end.came < MaxCalls
        /\ Becomes([end EXCEPT !.came = @ + 1, !.kernel = @ - 1, !.queue[r] = @ + 1])

-----------------------------------------------------------------------------
(***************************************************************************)
(* A UDP socket of the Unix build.                                         *)
(***************************************************************************)

(* lw_udp_new; the datagrams that the kernel has are the peer's or a stranger's. *)
UnixUdp ==
    [hosting |-> FALSE, backlog |-> <<>>, edge |-> FALSE, stranded |-> FALSE,
     reading |-> FALSE, deleted |-> FALSE, came |-> 0, attempts |-> 0, wrong |-> {}]

lw_udp_unhost_unix(n) ==
    [n EXCEPT !.hosting = FALSE, !.backlog = <<>>, !.edge = FALSE, !.stranded = FALSE]

lw_udp_host_unix(n) ==
    [lw_udp_unhost_unix(n) EXCEPT !.hosting = TRUE, !.attempts = @ + 1]

lw_udp_delete_unix(n) == [lw_udp_unhost_unix(n) EXCEPT !.deleted = TRUE]

(* One turn of the loop that reads: a stranger's datagram ends it. *)
ReadNext(n, does) ==
    IF ~n.hosting \/ n.backlog = <<>> THEN [n EXCEPT !.reading = FALSE]
    ELSE LET m == [n EXCEPT !.backlog = Tail(@)]
         IN  IF Head(n.backlog) = "stranger"
             THEN [m EXCEPT !.stranded = m.backlog # <<>>, !.reading = FALSE]
             ELSE CASE does = "unhost" -> lw_udp_unhost_unix(m)
                    [] does = "delete" -> Unfit(lw_udp_delete_unix(m), "udp freed", TRUE)
                    [] OTHER -> m

read_ready ==
    /\ part = "unix udp"
    /\ \/ end.edge /\ ~end.reading /\ Becomes([end EXCEPT !.edge = FALSE, !.reading = TRUE])
       \/ /\ end.reading
          /\ \E does \in {"nothing", "unhost", "delete"} : Becomes(ReadNext(end, does))

UnixUdpCalls ==
    /\ part = "unix udp" /\ ~end.deleted /\ ~end.reading
    /\ \/ end.attempts < MaxAttempts /\ Becomes(lw_udp_host_unix(end))
       \/ end.hosting /\ Becomes(lw_udp_unhost_unix(end))
       \/ Becomes(lw_udp_delete_unix(end))

(* External: a datagram comes. *)
DatagramComes ==
    \E from \in {"peer", "stranger"} :
        /\ part = "unix udp" /\ end.hosting /\ end.came < MaxCalls
        /\ Becomes([end EXCEPT !.came = @ + 1, !.backlog = Append(@, from),
                               !.edge = TRUE, !.stranded = FALSE])

-----------------------------------------------------------------------------
(***************************************************************************)
(* Secure sockets.  What comes is cut into chunks anywhere.                *)
(***************************************************************************)
Wire == Pieces(MaxCalls)
Chunk(k) == SubSeq(Wire, end.at + 1, end.at + k)

SchannelReads ==
    /\ part = "windows tls" /\ ~end.failed
    /\ \E k \in 1..Len(Wire) - end.at, good \in BOOLEAN :
         LET plain == k = 2 /\ end.at % 2 = 0
             n == [end EXCEPT !.at = @ + k, !.plain = @ /\ plain]
         IN  (good \/ ~end.shook) /\ Becomes(Downstream(n, Chunk(k), good))

SchannelWrites ==
    /\ part = "windows tls" /\ end.sent + end.up < MaxAttempts /\ Becomes(Upstream(end))

OpenSSLReads ==
    /\ part = "openssl" /\ ~end.dead /\ ~end.pumping
    /\ \E k \in 1..Len(Wire) - end.at : Becomes(BIO_write([end EXCEPT !.at = @ + k], Chunk(k)))

OpenSSLPumps ==
    /\ part = "openssl" /\ Pumping(end)
    /\ \E does \in {"keep", "refuse", "delete"}, answers, wants \in BOOLEAN :
           Becomes(pump(end, does, answers, wants))

(* The user knows of a client whose handshake is complete.  What its hooks write goes *)
(* out under the pump.                                                                *)
OpenSSLCalls ==
    /\ part = "openssl" /\ end.shook /\ ~end.dead
    /\ \/ ~end.pumping /\ Becomes(lwp_sslclient_delete(end))
       \/ \E wants \in BOOLEAN :
             end.sent + end.up < MaxAttempts /\ Becomes(UpstreamSsl(end, wants))

-----------------------------------------------------------------------------
EndInit ==
    /\ Init
    /\ part \in {"listener", "unix server", "windows client", "unix client",
                 "windows udp", "unix udp", "windows tls", "openssl"}
    /\ end = CASE part = "unix server" -> Server
               [] part \in {"windows client", "unix client"} -> NewClient
               [] part = "windows udp" -> WinUdp
               [] part = "unix udp" -> UnixUdp
               [] part = "windows tls" -> lwp_ssl_init
               [] part = "openssl" -> lwp_sslclient_new
               [] OTHER -> [wrong |-> {}]

EndNext ==
    \/ part = "listener" /\ Next /\ UNCHANGED endvars
    \/ listen_socket_read_ready \/ lw_server_host_filter \/ lw_server_load_cert_file
    \/ ServerCalls \/ Call \/ ClientReady
    \/ lw_client_connect_addr \/ ConnectEnds \/ connect_completed \/ ClientCalls
    \/ on_stream_data
    \/ udp_receive_completed \/ udp_send_completed \/ WinUdpCalls \/ Datagram
    \/ read_ready \/ UnixUdpCalls \/ DatagramComes
    \/ SchannelReads \/ SchannelWrites \/ OpenSSLReads \/ OpenSSLPumps \/ OpenSSLCalls

EndSpec == EndInit /\ [][EndNext]_<<vars, endvars>>

-----------------------------------------------------------------------------
(* A user is told of each connection once and of its end once, whether a hook of  *)
(* its own ends it, the peer does in the first read, or TLS never got to a        *)
(* connection; and the Unix server lists exactly those it told of.  A client      *)
(* socket is told of more ends only for closes that the user asked of it while it *)
(* was not connected.                                                             *)
Told ==
    /\ part = "unix server" =>
         \A c \in Calls :
            /\ end.joins[c] <= 1
            /\ end.leaves[c] = IF end.state[c] = "closed" THEN end.joins[c] ELSE 0
            /\ c \in end.clients <=> end.state[c] = "open"
            /\ end.state[c] = "open" => end.joins[c] = 1
    /\ IsClient =>
         end.joins = end.leaves - end.unasked + (IF lw_client_connected(end) THEN 1 ELSE 0)

(* Records that came whole, once the handshake was over. *)
Records(n) ==
    LET whole == n.at \div 2 - 2 IN IF whole < 0 THEN <<>> ELSE [i \in 1..whole |-> i + 2]

(* With OpenSSL every record is delivered, however what comes is cut; a write that *)
(* waits will be tried again; a client that was deleted is freed, unless the pump  *)
(* was left.  With Schannel that holds of records as long as each message comes in *)
(* a chunk of its own, and of writes after the handshake.                          *)
SecureAttended ==
    /\ part = "windows tls" =>
         /\ end.plain /\ ~end.failed => end.down = <<>> /\ end.delivered = Records(end)
         /\ ~end.early => end.up = 0
    /\ part = "openssl" /\ ~Pumping(end) =>
         /\ ~end.dead => end.delivered = Records(end) /\ (end.up > 0 => end.waiting)
         /\ end.dead => (end.freed <=> ~end.leaked)

(* Receives are at their ideal number once all that is over was seen, unless one *)
(* could not be posted; and a deleted object lives exactly as long as something  *)
(* of it is pending, or for good if a send failed.                               *)
UdpAttended ==
    part = "windows udp" =>
         /\ end.freed <=> end.deleted /\ ~end.lost /\ end.kernel + Queue(end) + end.sends = 0
         /\ end.hosting /\ ~end.short /\ Queue(end) = 0 => end.kernel = Ideal

(* What an endpoint waits for will come: connections and datagrams that nobody has *)
(* taken are still to be told of, or the loop that takes them goes on, unless one  *)
(* before them ended it; a connect is underway, unless it failed where that is not *)
(* noticed; and as above.                                                          *)
Attended ==
    /\ part = "unix server" =>
         (end.backlog # <<>> => end.edge \/ end.stranded \/ end.accepting)
    /\ part = "unix udp" =>
         (end.backlog # <<>> => end.edge \/ end.stranded \/ end.reading)
    /\ IsClient => (end.connecting <=> Underway(end) \/ end.stuck)
    /\ UdpAttended
    /\ SecureAttended
=============================================================================
