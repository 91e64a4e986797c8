--------------------------- MODULE SecureFilters ----------------------------
(***************************************************************************)
(* The pair of filters that makes a socket a secure one, upstream for what *)
(* is written and downstream for what is read: with Schannel on Windows    *)
(* (windows/ssl/ssl.c and serverssl.c) and with OpenSSL on Unix            *)
(* (openssl/sslclient.c), under src/Lacewing/src.                          *)
(*                                                                         *)
(* The peer sends messages, those of its handshake first and then records; *)
(* each is two pieces, so that a chunk of what comes may cut it.  Each     *)
(* function of the code maps one record of the state to the next.          *)
(***************************************************************************)
EXTENDS Integers, Sequences

Handshake == 1..2           \* the messages of the handshake
IsRecord(m) == m \notin Handshake

Pieces(messages) ==
    [i \in 1..2 * messages |-> [message |-> (i + 1) \div 2, last |-> i % 2 = 0]]

Rest(data, k) == SubSeq(data, k + 1, Len(data))

(* A whole message is at the front, and not only the end of one. *)
Whole(data) == Len(data) >= 2 /\ ~data[1].last

-----------------------------------------------------------------------------
(* Windows.  down is the front queue of the downstream filter, up what is queued  *)
(* before the upstream one; neither is ever retried.  plain says that every chunk *)
(* was one message.                                                               *)
lwp_ssl_init ==
    [shook |-> FALSE, failed |-> FALSE, down |-> <<>>, up |-> 0, sent |-> 0,
     delivered |-> <<>>, at |-> 0, plain |-> TRUE, early |-> FALSE, wrong |-> {}]

(* proc_message_data: one record.  Of what is not whole it says that it needs more, *)
(* and takes it all the same.                                                       *)
proc_message_data(n, data) ==
    IF Whole(data)
    THEN [n |-> [n EXCEPT !.delivered = Append(@, data[1].message)], count |-> 2]
    ELSE [n |-> n, count |-> Len(data)]

(* AcceptSecurityContext takes a message; a context that refuses it takes all. *)
proc_handshake_data(n, data, good) ==
    IF ~good THEN [n |-> [n EXCEPT !.failed = TRUE], count |-> Len(data)]
    ELSE IF ~Whole(data) THEN [n |-> n, count |-> 0]
    ELSE [n |-> [n EXCEPT !.shook = IsRecord(data[1].message + 1)], count |-> 2]

(* def_downstream_sink_data: what follows the handshake is a record at once. *)
downstream_sink_data(n, data, good) ==
    IF n.shook THEN proc_message_data(n, data)
    ELSE LET h == proc_handshake_data(n, data, good)
             r == proc_message_data(h.n, Rest(data, h.count))
         IN  IF ~h.n.shook THEN h ELSE [n |-> r.n, count |-> h.count + r.count]

(* lwp_stream_write of what the socket read. *)
Downstream(n, data, good) ==
    LET r == downstream_sink_data(n, data, good)
    IN  IF n.down # <<>> THEN [n EXCEPT !.down = @ \o data]
        ELSE [r.n EXCEPT !.down = Rest(data, r.count)]

(* def_upstream_sink_data, below lwp_stream_write: nothing goes out before the    *)
(* handshake is complete, and what was queued until then never does.              *)
Upstream(n) ==
    IF n.up = 0 /\ n.shook THEN [n EXCEPT !.sent = @ + 1]
    ELSE [n EXCEPT !.up = @ + 1, !.early = @ \/ ~n.shook]

-----------------------------------------------------------------------------
(* Unix.  bio is what came and was not read from OpenSSL; up what is queued before *)
(* the upstream filter; waiting is write_condition.                                *)
lwp_sslclient_new ==
    [shook |-> FALSE, bio |-> <<>>, up |-> 0, sent |-> 0, waiting |-> FALSE,
     delivered |-> <<>>, at |-> 0, pumping |-> FALSE, dead |-> FALSE, freed |-> FALSE,
     leaked |-> FALSE, wrong |-> {}]

(* lwp_sslclient_delete: not under the pump, which is to see the mark. *)
lwp_sslclient_delete(n) ==
    IF n.pumping THEN [n EXCEPT !.dead = TRUE] ELSE [n EXCEPT !.dead = TRUE, !.freed = TRUE]

(* A hook may delete the client, and its socket with it. *)
SslHook(n, does) == IF does = "delete" THEN lwp_sslclient_delete(n) ELSE n

(* A client that was deleted under the pump while there was something to push: the  *)
(* pump returns at once, still marked as pumping, so that nobody can free it.       *)
Abandoned(n) == [n EXCEPT !.leaked = TRUE]
Pumping(n) == n.pumping /\ ~n.leaked

(* SSL_do_handshake takes a message of the handshake.  When it has the last, the    *)
(* client is connected, and what OpenSSL has to answer with, if it has, is pushed   *)
(* after the hook of that.                                                          *)
SSL_do_handshake(n, does, answers) ==
    LET last == IsRecord(n.bio[1].message + 1)
        m == SslHook([n EXCEPT !.bio = Rest(@, 2), !.shook = last],
                     IF last /\ does = "refuse" THEN "delete" ELSE "keep")
    IN  IF m.dead /\ answers THEN Abandoned(m) ELSE m

(* SSL_read takes a record, and it is pushed. *)
SSL_read(n, does) ==
    LET m == SslHook([n EXCEPT !.bio = Rest(@, 2), !.delivered = Append(@, n.bio[1].message)],
                     does)
    IN  IF m.dead THEN Abandoned(m) ELSE m

(* Whether OpenSSL writes, or has to read before, is not ours to say. *)
upstream_sink_data(n, wants) ==
    IF n.dead THEN lwp_sslclient_delete(n)
    ELSE IF wants THEN [n EXCEPT !.waiting = TRUE]
    ELSE [n EXCEPT !.sent = @ + n.up, !.up = 0]

lw_stream_retry(n, wants) == IF n.up = 0 THEN n ELSE upstream_sink_data(n, wants)

(* What waited for something to read is tried again. *)
AfterData(n, wants) ==
    IF n.waiting THEN lw_stream_retry([n EXCEPT !.waiting = FALSE], wants) ELSE n

(* downstream_sink_data of OpenSSL gives it what came and pumps; a pump under a pump *)
(* does nothing, since the one above it goes on anyway.                              *)
BIO_write(n, data) == [n EXCEPT !.bio = @ \o data, !.pumping = TRUE]

(* What downstream_sink_data does after the pump. *)
Pumped(n, wants) ==
    LET m == [n EXCEPT !.pumping = FALSE]
    IN  IF m.dead THEN lwp_sslclient_delete(m) ELSE AfterData(m, wants)

(* pump: one turn of its loop, which ends when there is nothing to push in either *)
(* direction.                                                                     *)
pump(n, does, answers, wants) ==
    IF ~Whole(n.bio) THEN Pumped(n, wants)
    ELSE IF n.shook THEN SSL_read(n, does) ELSE SSL_do_handshake(n, does, answers)

(* lwp_stream_write of the upstream filter. *)
UpstreamSsl(n, wants) ==
    LET m == [n EXCEPT !.up = @ + 1]
    IN  IF n.up > 0 THEN m ELSE upstream_sink_data(m, wants)
=============================================================================
