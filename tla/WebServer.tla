----------------------------- MODULE WebServer -----------------------------
(***************************************************************************)
(* One browser of the web server of src/Lacewing/src/webserver: its         *)
(* connections one after another (webserver.c, http/http-client.c), what    *)
(* the parsers report of its requests (http/http-parse.c, multipart.c), the *)
(* one request object of a connection (request.c), uploads (upload.c) and   *)
(* sessions (sessions.c).                                                   *)
(*                                                                          *)
(* What the browser sends is a sequence of tokens, cut into chunks          *)
(* anywhere.  A chunk and what is left of those before it are the tokens    *)
(* between two places: the one to be parsed next and the one to be sent     *)
(* next.  The sink parses token after token, a step each; a call runs to    *)
(* its end on the pump's thread, whatever it calls in turn, so nothing else *)
(* happens while it sinks.  The state is one record and a function of the   *)
(* code maps one record to the next.  Where the code leaves requests        *)
(* without an answer in turn, the reason goes into "broken", and what comes *)
(* after is not followed.                                                   *)
(***************************************************************************)
EXTENDS Integers, Sequences

CONSTANTS MaxRequests,      \* requests of a behaviour
          MaxConnections    \* connections of a behaviour

ASSUME WebAssumption == {MaxRequests, MaxConnections} \subseteq Nat \ {0}

VARIABLES auto,     \* the web server's auto_finish
          slow,     \* whether a file has writes pending when it is closed
          script,   \* the kinds of the requests to come
          net       \* everything else

vars == <<auto, slow, script, net>>

(* A request is a part of its first line, the rest of that line, the rest of its   *)
(* headers, and its body.  After a "last" one the browser wants the connection to  *)
(* be closed, a "put" is not implemented, "traversal" is refused for its URL and   *)
(* "hostname" for a header.  A multipart body has items, and files that the        *)
(* application takes in chunks or saves.                                           *)
Body(kind) ==
    CASE kind = "post"   -> <<"body">>
      [] kind = "form"   -> <<"item", "end">>
      [] kind = "chunks" -> <<"file", "over", "item", "end">>
      [] kind = "save"   -> <<"file", "over", "end">>
      [] kind = "mixed"  -> <<"file", "over", "item", "end">>
      [] OTHER -> <<>>

Uploads == {"form", "chunks", "save", "mixed"}
Kinds == Uploads \cup {"get", "last", "put", "post", "traversal", "hostname"}

(* A place in what the browser sends: the token t.j of request t.r. *)
Length(r) == 3 + Len(Body(script[r]))

Is(t) == CASE t.j = 1 -> "half" [] t.j = 2 -> "first" [] t.j = 3 -> "headers"
           [] OTHER -> Body(script[t.r])[t.j - 3]

Last(t) == t.j = Length(t.r)
Place(r, j) == [r |-> r, j |-> j]
Places == {t \in [r : 1..MaxRequests + 1, j : 1..7] :
             t.j <= IF t.r <= MaxRequests THEN Length(t.r) ELSE 1}

After(t) == IF Last(t) THEN Place(t.r + 1, 1) ELSE Place(t.r, t.j + 1)
Before(t, u) == t.r < u.r \/ (t.r = u.r /\ t.j < u.j)

Broken(n, how, bad) == IF bad THEN [n EXCEPT !.broken = @ \cup {how}] ELSE n

---------------------------------------------------------------------------
(* The request object, which one request after another uses. *)

(* Fault: what was read of the last request's body counts for this one. *)
Clean_KeepsParsed(n) ==
    [n EXCEPT !.responded = TRUE, !.body = {}, !.items = {}, !.headersOut = {},
              !.cookie = 0, !.changed = FALSE]

(* lwp_ws_req_clean, also of a request that the application still holds. *)
Clean(n) ==
    [n EXCEPT !.responded = TRUE, !.body = {}, !.items = {}, !.parsed = FALSE,
              !.headersOut = {}, !.cookie = 0, !.changed = FALSE]

(* Fault: a cookie that the browser sent is not sent back. *)
SetCookie_Once(n, id, changed) ==
    [n EXCEPT !.cookie = id, !.changed = changed /\ n.cookie = 0]

(* The session's cookie; an answer sends it if it was changed. *)
SetCookie(n, id, changed) == [n EXCEPT !.cookie = id, !.changed = changed]

lw_ws_req_set_cookie(n, id) == SetCookie(n, id, TRUE)

(* A session is found by the request's cookie, and made if there is none. *)
lw_ws_req_session_write(n) ==
    IF n.cookie \in n.sessions THEN n
    ELSE LET id == n.next
         IN  lw_ws_req_set_cookie([n EXCEPT !.sessions = @ \cup {id}, !.next = @ + 1], id)

lw_ws_session_close(n) == [n EXCEPT !.sessions = @ \ {n.cookie}]

(* parse_post_data: the items of a body are read when they are first asked for. *)
PostItems(n) == IF n.parsed THEN n ELSE [n EXCEPT !.parsed = TRUE, !.items = @ \cup n.body]

(* lw_ws_req_add_header *)
AddHeader(n) == [n EXCEPT !.headersOut = @ \cup {n.cur}]

(* An open multipart parser, or none. *)
NoMultipart == [there |-> FALSE, r |-> 0, done |-> FALSE, called |-> FALSE, open |-> FALSE]

(* It is never taken away once its message is over. *)
MultipartNew(r) == [NoMultipart EXCEPT !.there = TRUE, !.r = r]

---------------------------------------------------------------------------
(* The connection as a stream: what its sink leaves of a chunk stays in the stream's *)
(* queue, and is sunk again with the next chunk, or when the request is answered.    *)

(* Headers are parsed up to the end of a whole line, a body byte by byte. *)
LineEnd(n) == IF n.front.j = 1 THEN Place(n.front.r, 2) ELSE n.front
HasLine(n) == Before(LineEnd(n), n.at)

Unanswered(n) == ~n.responded

Sunk(n) == [n EXCEPT !.sinking = n.open /\ ~Unanswered(n) /\ HasLine(n)]

(* lw_stream_retry: within the sink, there is nothing queued, or it is being written. *)
Retry(n) == IF n.sinking THEN n ELSE Sunk(n)

---------------------------------------------------------------------------
(* From a complete request to its answer. *)

(* lwp_ws_req_before_handler *)
BeforeHandler(n) ==
    [Broken(n, "unanswered", ~n.responded) EXCEPT !.headersOut = {}, !.responded = FALSE]

(* The browser gets what is written to a connection that nobody closed. *)
Sent(n) ==
    IF n.shut
    THEN [n EXCEPT !.lost = IF n.changed THEN @ \cup {n.cookie} ELSE @]
    ELSE [n EXCEPT !.answers =
                       Append(@, [r |-> n.cur, headers |-> n.headersOut, items |-> n.items]),
                   !.jar = IF n.changed THEN n.cookie ELSE @]

(* Fault: what arrived meanwhile is left waiting. *)
Respond_NoRetry(n) == [Sent(n) EXCEPT !.responded = TRUE, !.shut = @ \/ script[n.cur] = "last"]

(* client_respond.  The graceful close of a "last" connection never ends, since the *)
(* request stream is linked to the socket for good; it only refuses more writes.    *)
Respond(n) ==
    LET s == Sent(Broken(n, "answered twice", n.responded))
    IN  Retry([s EXCEPT !.responded = TRUE, !.shut = @ \/ script[n.cur] = "last"])

(* What the application's hook does: it reads the items, uses the session, sets a     *)
(* header, and may finish the request; else, unless that is automatic, it keeps it.   *)
UseSession(n) ==
    CASE n.op = "write" -> lw_ws_req_session_write(n)
      [] n.op = "renew" -> lw_ws_req_session_write(lw_ws_session_close(n))
      [] OTHER -> n

Left(n) ==
    CASE n.finish -> Respond(n) [] auto /\ ~n.finish -> n [] OTHER -> [n EXCEPT !.held = @ + 1]

Hook(n) == Left(AddHeader(UseSession(PostItems(n))))

(* lwp_ws_req_after_handler *)
AfterHandler(n) == IF ~n.responded /\ auto THEN Respond(n) ELSE n

(* lwp_ws_req_call_hook *)
Called(n) == IF script[n.cur] = "put" THEN Respond(n) ELSE AfterHandler(Hook(n))

CallHook(n) == Called(BeforeHandler(n))

---------------------------------------------------------------------------
(* Multipart bodies. *)

(* The hook may answer at once, and what waited is sunk within that answer. *)
AfterHook(n, m) ==
    IF m.sinking /\ ~n.sinking THEN [m EXCEPT !.nested = TRUE] ELSE AfterHandler(m)

(* lwp_ws_multipart_call_hook: once all files that were seen are closed, even if there *)
(* is more to come.                                                                     *)
CallUploads(n) ==
    IF n.multipart.called \/ n.multipart.open THEN n
    ELSE AfterHook(n, Hook(BeforeHandler([n EXCEPT !.multipart.called = TRUE])))

(* on_autosave_close *)
AutosaveClose(n) == CallUploads([n EXCEPT !.multipart.open = FALSE])

(* on_part_data of a part without a filename. *)
PartData(n) == Broken([n EXCEPT !.items = @ \cup {n.cur}], "too late", n.multipart.called)

(* on_part_data_end of a file, which the application saves or takes in chunks. *)
PartEnd(n) ==
    CASE script[n.cur] = "chunks" -> n
      [] script[n.cur] # "chunks" /\ slow ->
             [n EXCEPT !.multipart.open = TRUE, !.closing = @ \cup {n.cur}]
      [] OTHER -> AutosaveClose(n)

(* on_body_end *)
BodyEnd(n) == CallUploads([n EXCEPT !.multipart.done = TRUE])

(* lwp_ws_multipart_process *)
MultipartToken(n, t) ==
    CASE Is(t) = "item" -> PartData(n)
      [] Is(t) = "file" -> n
      [] Is(t) = "over" -> PartEnd(n)
      [] Is(t) = "end"  -> BodyEnd(n)

---------------------------------------------------------------------------
(* What the HTTP parser reports. *)

Lost(n) == [n EXCEPT !.lost = IF n.changed /\ ~n.responded THEN @ \cup {n.cookie} ELSE @]

(* Fault: the request is cleaned before it is asked whether it was answered. *)
Cleanup_CleansFirst(n) == LET m == Clean(Lost(n)) IN [m EXCEPT !.told = ~m.responded]

(* client_cleanup, and the request is deleted. *)
Cleanup(n) == Clean([Lost(n) EXCEPT !.told = ~n.responded])

(* on_disconnect: the connection ends, by either side or for an error. *)
Disconnect(n) ==
    [Cleanup(n) EXCEPT !.open = FALSE, !.front = n.at, !.sinking = FALSE,
                       !.multipart = NoMultipart]

Saving(n) == n.multipart.there /\ n.multipart.done /\ ~n.multipart.called

(* on_message_begin *)
MessageBegin(n, t) == [Clean(Broken(n, "while saving", Saving(n))) EXCEPT !.cur = t.r]

(* on_url: a URL with two dots in a row is refused. *)
Url(n, t) == IF script[t.r] = "traversal" THEN Disconnect(n) ELSE n

(* lwp_ws_req_in_header: a host name that is too long is refused. *)
Hostname(n, t) == IF script[t.r] = "hostname" THEN Disconnect(n) ELSE n

(* parse_cookie_header *)
Cookies(n, t) ==
    IF n.open /\ n.sent[t.r] # 0 THEN SetCookie(n, n.sent[t.r], FALSE) ELSE n

(* on_headers_complete *)
HeadersComplete(n, t) ==
    IF ~n.open THEN n
    ELSE [n EXCEPT !.parsing = FALSE,
                   !.multipart = IF script[t.r] \in Uploads THEN MultipartNew(t.r) ELSE @]

(* on_body.  A multipart parser that is there takes every body, also of a later *)
(* request of another kind.                                                     *)
OnBody(n, t) ==
    IF n.multipart.there THEN IF Is(t) = "body" THEN n ELSE MultipartToken(n, t)
    ELSE [n EXCEPT !.body = @ \cup {t.r}]

(* on_message_complete: so does it keep the hook of one from being called. *)
Answered(n) ==
    IF n.multipart.there THEN Broken(n, "no hook", script[n.cur] \notin Uploads)
    ELSE CallHook(n)

MessageComplete(n) ==
    [Answered([n EXCEPT !.complete = @ + 1]) EXCEPT !.parsing = TRUE]

Reported(n, t) ==
    CASE Is(t) = "first" -> Url(MessageBegin(n, t), t)
      [] Is(t) = "headers" -> HeadersComplete(Cookies(Hostname(n, t), t), t)
      [] OTHER -> OnBody(n, t)

Ended(n, t) == IF n.open /\ Last(t) THEN MessageComplete(n) ELSE n

Parse(n, t) == Ended(Reported(n, t), t)

---------------------------------------------------------------------------
(* The steps of the sink. *)

(* The sink ends, and with it the answer of a hook that it was part of. *)
Rest(n) == IF n.sinking \/ ~n.nested THEN n ELSE AfterHandler([n EXCEPT !.nested = FALSE])

(* Headers are parsed line by line, to the end of the last whole line.  Whether the *)
(* request that one of them completes was answered is not asked before the next.    *)
AfterLine(n) ==
    LET m == Broken(n, "not answered yet", n.parsing /\ Unanswered(n) /\ HasLine(n))
    IN  Rest([m EXCEPT !.sinking = n.open /\ HasLine(n)])

(* A body is parsed to its end and no further; a request that follows in the same *)
(* chunk has to wait for another chunk, or for this one's answer.                  *)
AfterByte(n, t) ==
    LET over == n.open /\ Last(t)
        m == Broken(n, "left waiting", over /\ ~Unanswered(n) /\ HasLine(n))
    IN  Rest([m EXCEPT !.sinking = n.open /\ ~over /\ HasLine(n)])

---------------------------------------------------------------------------
(* lwp_ws_httpclient_new: the request is as if answered. *)
Client(n, at) ==
    [Clean(n) EXCEPT !.open = TRUE, !.shut = FALSE, !.parsing = TRUE, !.cur = 0,
                     !.multipart = NoMultipart, !.held = 0, !.told = FALSE,
                     !.complete = 0, !.answers = <<>>,
                     !.front = at, !.at = at, !.base = at.r]

(* lw_ws_new; op and finish say what the application's hooks do in the step being *)
(* taken.                                                                          *)
Init ==
    /\ auto \in BOOLEAN /\ slow \in BOOLEAN
    /\ script \in [1..MaxRequests -> Kinds]
    /\ net = [responded |-> TRUE, cur |-> 0, body |-> {}, items |-> {}, parsed |-> FALSE,
              headersOut |-> {}, cookie |-> 0, changed |-> FALSE,
              open |-> FALSE, shut |-> FALSE, parsing |-> TRUE, sinking |-> FALSE,
              nested |-> FALSE, multipart |-> NoMultipart, held |-> 0, told |-> FALSE,
              complete |-> 0, answers |-> <<>>, front |-> Place(1, 1), at |-> Place(1, 1),
              base |-> 1, connections |-> 0, jar |-> 0, next |-> 1, ahead |-> FALSE,
              sent |-> [r \in 1..MaxRequests |-> 0],
              sessions |-> {}, lost |-> {}, closing |-> {}, broken |-> {},
              op |-> "none", finish |-> FALSE]

Becomes(n) ==
    /\ net.broken = {}
    /\ net' = [n EXCEPT !.op = "none", !.finish = FALSE]
    /\ UNCHANGED <<auto, slow, script>>

(* The application's hooks may do one of these. *)
Doing(op, finish) == [net EXCEPT !.op = op, !.finish = finish]
Ops == {"none", "write", "renew"}

(* on_connect: the browser gives up what it has not sent, and goes on with the next. *)
Connect ==
    LET at == IF net.at.j = 1 THEN net.at ELSE Place(net.at.r + 1, 1)
    IN  /\ ~net.open /\ net.connections < MaxConnections /\ at.r <= MaxRequests
        /\ Becomes(Client([net EXCEPT !.connections = @ + 1], at))

(* The last request of which something is sent up to a place. *)
Sending(t) == IF t.j = 1 THEN t.r - 1 ELSE t.r

(* Bytes come in one chunk, up to the end of a request that is the last. *)
Arrive ==
    \E to \in Places :
        LET now(r) == ~Before(Place(r, 3), net.at) /\ Before(Place(r, 3), to)
        IN  /\ net.open /\ ~net.sinking /\ Before(net.at, to)
            /\ \A r \in net.base..Sending(to) - 1 : script[r] # "last"
            /\ Becomes(Sunk([net EXCEPT
                   !.at = to,
                   !.sent = [r \in 1..MaxRequests |->
                                IF now(r) THEN net.jar ELSE net.sent[r]],
                   !.ahead = @ \/ Sending(to) > net.base + Len(net.answers)]))

(* A step of the sink. *)
SinkLine ==
    \E op \in Ops, finish \in BOOLEAN :
        LET t == LineEnd(net)
        IN  /\ net.sinking /\ net.parsing
            /\ Becomes(AfterLine(Parse([Doing(op, finish) EXCEPT !.front = After(t)], t)))

SinkByte ==
    \E op \in Ops, finish \in BOOLEAN :
        LET t == net.front
        IN  /\ net.sinking /\ ~net.parsing
            /\ Becomes(AfterByte(Parse([Doing(op, finish) EXCEPT !.front = After(t)], t), t))

(* lw_ws_req_finish: the application answers a request that it kept, unless it was *)
(* told that the browser is gone.                                                  *)
Finish ==
    \E op \in Ops, finish \in BOOLEAN :
        /\ net.open /\ ~net.sinking /\ net.held > 0
        /\ Becomes(Respond([Doing(op, finish) EXCEPT !.held = @ - 1]))

(* The close of a file ends.  If the connection ended before, its client is freed. *)
FileClosed ==
    \E r \in net.closing, op \in Ops, finish \in BOOLEAN :
        LET n == [Doing(op, finish) EXCEPT !.closing = @ \ {r}]
            here == net.open /\ net.multipart.there /\ net.multipart.r = r
        IN  /\ ~net.sinking
            /\ Becomes(IF here THEN AutosaveClose(n) ELSE Broken(n, "freed", TRUE))

(* The browser hangs up, or the application disconnects a request that it kept. *)
Hangup == net.open /\ ~net.sinking /\ Becomes(Disconnect(net))

lw_ws_req_disconnect ==
    net.open /\ ~net.sinking /\ net.held > 0 /\ Becomes(Disconnect(net))

Next ==
    \/ Connect \/ Arrive \/ SinkLine \/ SinkByte
    \/ Finish \/ FileClosed \/ Hangup \/ lw_ws_req_disconnect

Spec == Init /\ [][Next]_vars

---------------------------------------------------------------------------
(* A connection on which nothing went wrong. *)
Sound == net.open /\ net.broken = {}

(* A browser gets one answer to each of its requests, in the order of the requests, *)
(* with the items of that request and no header or item of another, although one    *)
(* object serves them all; the only ones without an answer are the one that the      *)
(* application keeps and an upload whose file is being closed.                        *)
InTurn ==
    LET early == net.multipart.there /\ net.multipart.called /\ ~net.multipart.done
        waiting == (IF net.responded THEN 0 ELSE 1) + (IF Saving(net) THEN 1 ELSE 0)
    IN  /\ net.broken \cap {"unanswered", "answered twice"} = {}
        /\ net.broken = {} => \A i \in DOMAIN net.answers :
               LET a == net.answers[i] IN
               /\ a.r = net.base + i - 1
               /\ a.items = IF script[a.r] \in {"post", "form"} THEN {a.r} ELSE a.items \cap {a.r}
               /\ a.headers \subseteq {a.r}
        /\ Sound /\ ~net.shut =>
               Len(net.answers) + waiting = net.complete + (IF early THEN 1 ELSE 0)

(* When a connection ends, the application is told if it keeps its request, which *)
(* is freed then, and only if it does.                                             *)
Told == net.broken = {} /\ ~net.open => (net.told <=> net.held > 0)

(* Once a request is answered and the sink has ended, nothing of the next waits in *)
(* the queue that could be parsed: no whole line, or within a body no byte.        *)
Prompt ==
    Sound /\ net.responded /\ ~net.sinking =>
        IF net.parsing THEN ~HasLine(net) ELSE net.front = net.at

(* A browser that waits for its answers has one session, however often the           *)
(* application writes it or closes it: each that lives is the one that its cookie     *)
(* names, or will name with the answer it waits for, unless that answer was lost.     *)
OneSession ==
    net.broken = {} /\ ~net.ahead =>
        net.sessions \ net.lost \subseteq
            {net.jar} \cup (IF net.changed THEN {net.cookie} ELSE {})
=============================================================================
