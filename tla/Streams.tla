------------------------------ MODULE Streams ------------------------------
(***************************************************************************)
(* The streams of src/Lacewing/src/stream.c, the graph that links them     *)
(* (streamgraph.c), a pipe (pipe.c) and the streams over a file descriptor *)
(* of both back ends (windows/fdstream.c, unix/fdstream.c).                *)
(*                                                                         *)
(* "out" is a socket that is written to, "in" a file or a socket that may  *)
(* be written into it, "filter" a pipe that may filter "out".              *)
(*                                                                         *)
(* A call runs to its end on the pump's thread, whatever it calls in turn, *)
(* so the state is one record and a function of the code maps one record   *)
(* to the next.  A byte is a number: those accepted for "out" are numbered *)
(* in the order in which they should leave it.                             *)
(***************************************************************************)
EXTENDS Integers, Sequences, FiniteSets, TLC

CONSTANTS MaxUnits,     \* bytes accepted for "out" in a behaviour
          FileSize,     \* bytes in "in"
          Room          \* bytes a Unix kernel takes before the peer has read any

ASSUME StreamAssumption ==
    {MaxUnits, FileSize, Room} \subseteq Nat \ {0}

VARIABLES build,        \* the back end
          kind,         \* what "in" is
          hook,         \* the data hook on "in": none, one that looks on, one that closes "in"
          deletes,      \* whether the close hook of "out" deletes it
          net           \* everything else

vars == <<build, kind, hook, deletes, net>>

Streams == {"in", "out", "filter"}
Fds == {"in", "out"}
All == -1

Min2(a, b) == IF a < b THEN a ELSE b
From(q, i) == SubSeq(q, i, Len(q))

Flag(n, s, f) == f \in n.flags[s]
Mark(n, s, f) == [n EXCEPT !.flags[s] = @ \cup {f}]
Unmark(n, s, f) == [n EXCEPT !.flags[s] = @ \ {f}]

---------------------------------------------------------------------------
(* The graph.  A filter spec and a link are records; a stream's upstream   *)
(* filters come before it in the expanded graph and downstream ones after. *)

Filters(n, s, up) ==
    LET f == SelectSeq(n.filters, LAMBDA x : x.stream = s /\ x.up = up)
    IN  [i \in DOMAIN f |-> f[i].filter]

Chain(n, s) == Filters(n, s, TRUE) \o <<s>> \o Filters(n, s, FALSE)

Host(n, s) ==
    LET f == SelectSeq(n.filters, LAMBDA x : x.filter = s)
    IN  IF f = <<>> THEN s ELSE f[1].stream

Prev(n, s) == SelectSeq(n.links, LAMBDA l : l.to = s)
Next_(n, s) == SelectSeq(n.links, LAMBDA l : l.from = s)

Internal == [from |-> "none", to |-> "none", left |-> All, base |-> 0, delete |-> FALSE]

(* What comes out of a stream whose source was deleted under it goes nowhere: *)
(* the stream is not a root of the graph any more.                            *)
Lost(n, s) == \E i \in DOMAIN Prev(n, s) : Flag(n, Prev(n, s)[i].from, "dead")

(* next_expanded: where a byte goes from s, and the link it goes through. *)
NextExpanded(n, s) ==
    LET host == Host(n, s)
        c == Chain(n, host)
        i == CHOOSE j \in DOMAIN c : c[j] = s
        after == IF i < Len(c) THEN <<[to |-> c[i + 1], link |-> Internal]>>
                 ELSE LET l == Next_(n, host)
                      IN  [j \in DOMAIN l |-> [to |-> Chain(n, l[j].to)[1], link |-> l[j]]]
    IN  IF Lost(n, host) THEN <<>> ELSE after

(* The last of a chain calls the data hooks. *)
Hooked(n, s) ==
    LET c == Chain(n, "in") IN s = c[Len(c)] /\ hook # "none" /\ ~Flag(n, "in", "dead")

(* Any change of the graph re-expands it, and forgets what was to be written directly. *)
ClearExpanded(n) == [n EXCEPT !.direct = "none"]
Expanded(n) == [ClearExpanded(n) EXCEPT !.expand = @ + 1]

Transparent(n, s) ==
    /\ s = "filter" /\ ~Hooked(n, s)
    /\ n.front[s] = <<>> /\ n.back[s] = <<>>
    /\ ~Flag(n, s, "queueing")

MayClose(n, s) == Prev(n, s) = <<>> /\ n.front[s] = <<>> /\ n.back[s] = <<>>

---------------------------------------------------------------------------
(* The file descriptors on Windows. *)

Valid(n, s) == n.fd[s].open /\ ~n.fd[s].asap

Remaining(n, s) == IF s = "in" /\ kind = "file" THEN FileSize - n.fd[s].offset ELSE All
BytesLeftWindows(n, s) == IF Valid(n, s) THEN Remaining(n, s) ELSE All

AddPending(n, s) == [n EXCEPT !.fd[s].writes = @ + 1]

(* Everything is swallowed, even what WriteFile refuses.  The test for a close in *)
(* progress reads the flags of the stream, where its bit means deleted.           *)
SinkWindows(n, s, data) ==
    [n |-> IF n.fd[s].open /\ ~Flag(n, s, "dead")
           THEN [AddPending(n, s) EXCEPT !.sent = @ \o data] ELSE n,
     count |-> Len(data)]

(* TransmitFile takes all of a file for a socket, one at a time. *)
SinkStreamWindows(n, to, from, wanted, data) ==
    LET size == IF wanted = All THEN BytesLeftWindows(n, from) ELSE wanted
        m == [n EXCEPT !.sent = @ \o SubSeq(data, 1, size), !.fd[from].offset = @ + size,
                       !.transmit = TRUE]
    IN  IF size = All \/ kind = "socket" \/ n.transmit \/ ~n.fd[from].open \/ ~n.fd[to].open
        THEN [n |-> n, count |-> All]
        ELSE [n |-> AddPending(AddPending(m, to), from), count |-> size]

(* Pending writes are given up with the descriptor, but not their count: their *)
(* completions come.                                                           *)
CloseFd(n, s) == [n EXCEPT !.fd[s].open = FALSE]

---------------------------------------------------------------------------
(* The file descriptors on Unix. *)

BytesLeftUnix(n, s) == IF n.fd[s].open THEN Remaining(n, s) ELSE All

(* The kernel takes what it has room for, and tells when there is room again if *)
(* there was not enough.                                                        *)
Taken(n, data, k) ==
    [n EXCEPT !.sent = @ \o SubSeq(data, 1, k), !.room = @ - k,
              !.short = @ \/ k < Len(data)]

(* An error is as good as no room. *)
SinkUnix(n, s, data) ==
    LET k == IF n.fd[s].open THEN Min2(n.room, Len(data)) ELSE 0
    IN  [n |-> IF n.fd[s].open THEN Taken(n, data, k) ELSE n, count |-> k]

Sendfile(n, to, from, size, data) ==
    LET k == Min2(Min2(n.room, size), FileSize - n.fd[from].offset)
    IN  IF kind = "socket" \/ ~n.fd[from].open \/ ~n.fd[to].open
        THEN [n |-> n, count |-> All]
        ELSE [n |-> [Taken(n, SubSeq(data, 1, size), k) EXCEPT !.fd[from].offset = @ + k],
              count |-> k]

SinkStreamUnix(n, to, from, wanted, data) ==
    LET size == IF wanted = All THEN BytesLeftUnix(n, from) ELSE wanted
    IN  IF size = All THEN [n |-> n, count |-> All] ELSE Sendfile(n, to, from, size, data)

(* The watch goes with the descriptor. *)
CloseUnix(n, s) == [n EXCEPT !.fd[s].open = FALSE]

BytesLeft(n, s) == IF build = "windows" THEN BytesLeftWindows(n, s) ELSE BytesLeftUnix(n, s)
SinkData(n, s, data) ==
    IF build = "windows" THEN SinkWindows(n, s, data) ELSE SinkUnix(n, s, data)
SinkStream(n, to, from, wanted, data) ==
    IF build = "windows" THEN SinkStreamWindows(n, to, from, wanted, data)
    ELSE SinkStreamUnix(n, to, from, wanted, data)

---------------------------------------------------------------------------
(* Queues. *)

(* The ways in which bytes do not leave in the order in which they were accepted. *)
Astray(n, how, bad) == IF bad THEN [n EXCEPT !.astray = @ \cup {how}] ELSE n

Data_(data) == [type |-> "data", data |-> data, size |-> 0, base |-> 0, delete |-> FALSE]
Marker == [Data_(<<>>) EXCEPT !.type = "marker"]

Queued(n, q, s, data) ==
    LET old == n[q][s]
    IN  IF old = <<>> \/ old[Len(old)].type # "data"
        THEN [n EXCEPT ![q][s] = Append(@, Data_(data))]
        ELSE [n EXCEPT ![q][s][Len(old)].data = @ \o data]

(* What a stream that was told to ignore its queue could not sink goes back in *)
(* front of it: into the buffer of the first item if that is empty, although   *)
(* the item may be a stream, which never looks at it.                          *)
PutBack(n, s, data) ==
    LET old == n.back[s]
    IN  IF old = <<>> THEN [n EXCEPT !.crashed = "no item"]
        ELSE IF old[1].data = <<>> THEN Astray([n EXCEPT !.back[s][1].data = data], "lost", TRUE)
             ELSE [n EXCEPT !.back[s] = <<Data_(data)>> \o @]

RECURSIVE Write(_, _, _, _), Data(_, _, _), Push(_, _, _, _), PushLinks(_, _, _, _, _),
          WriteStream(_, _, _, _), WriteQueue(_, _, _), WriteQueued(_, _), WriteDirect(_, _),
          Close(_, _, _, _), CloseAll(_, _), Delete(_, _), DeleteAll(_, _),
          GraphRead(_, _), ReadFrom(_, _, _), ReadWindows(_, _, _), ReadUnix(_, _, _),
          IssueRead(_, _), ReadOver(_, _),
          ReadReady(_, _), ReadLoop(_, _), Reread(_), Unhooked(_, _, _), Drained(_, _),
          Onward(_, _, _, _, _), Dequeued(_, _, _), WriteBack(_, _), Queueless(_, _),
          CloseTogether(_, _, _), Closed(_, _, _), CloseHook(_, _), HasRead(_, _),
          ReadAll(_, _), Directly(_, _, _)

(* What becomes of a write: its guards, in the order of the code. *)
Refuses(n, s) == n.flags[s] \cap {"dead", "closing", "closeASAP"} # {}

(* Fault: data overtakes what is queued. *)
Waits_UnlessQueueing(n, s, flags) ==
    IF Prev(n, s) # <<>> THEN "busy" \notin flags
    ELSE "queue" \notin flags /\ Flag(n, s, "queueing")

Waits(n, s, flags) ==
    IF Prev(n, s) # <<>>
    THEN \/ "busy" \notin flags
         \/ "queue" \notin flags /\ n.front[s] # <<>>
    ELSE "queue" \notin flags /\ (Flag(n, s, "queueing") \/ n.back[s] # <<>>)

Write(n, s, data, flags) ==
    LET whole == Len(data)
        heads == Filters(n, s, TRUE)
        queue == IF Prev(n, s) # <<>> /\ "busy" \in flags THEN "front" ELSE "back"
    IN  IF Refuses(n, s) \/ data = <<>> THEN [n |-> n, count |-> 0]
        ELSE IF "filters" \notin flags /\ heads # <<>>
        THEN LET m == Astray(n, "through a filter", Prev(n, s) # <<>>)
                 r == Write(m, heads[1], data, flags \cap {"partial"})
             IN  IF "partial" \in flags THEN r ELSE [r EXCEPT !.count = whole]
        ELSE IF Waits(n, s, flags)
        THEN IF "partial" \in flags THEN [n |-> n, count |-> 0]
             ELSE [n |-> Queued(n, queue, s, data), count |-> whole]
        ELSE IF s = "filter" THEN [n |-> Data(n, s, data), count |-> whole]
        ELSE LET r == SinkData(Astray(n, "before the front queue",
                                  Prev(n, s) = <<>> /\ n.front[s] # <<>> /\ "partial" \notin flags),
                               s, data)
                 rest == From(data, r.count + 1)
             IN  IF "partial" \in flags \/ rest = <<>> THEN r
                 ELSE [n |-> IF Prev(n, s) # <<>> \/ "queue" \notin flags
                             THEN Queued(r.n, queue, s, rest) ELSE PutBack(r.n, s, rest),
                       count |-> whole]

(* Data comes out of s: its hooks, then the streams after it. *)
Data(n, s, data) ==
    Unhooked(IF Hooked(n, s) /\ hook = "stop" THEN Close(n, "in", TRUE, TRUE) ELSE n, s, data)

Unhooked(n, s, data) == IF Flag(n, s, "dead") THEN n ELSE Push(n, s, data, TRUE)

Push(n, s, data, real) ==
    IF NextExpanded(n, s) = <<>> THEN n
    ELSE Drained(PushLinks(n, s, data, real, NextExpanded(n, s)), s)

(* A close that waited for what just went is done. *)
Drained(n, s) ==
    IF ~Flag(n, s, "dead") /\ Flag(n, s, "closeASAP") /\ MayClose(n, s)
    THEN Close(n, s, TRUE, TRUE) ELSE n

(* A link expires when as much went through as it was made for, or, if it was *)
(* made for all there is, when nothing is left.                               *)
Expired(n, l, k) == IF l.left = All THEN BytesLeft(n, l.from) = 0 ELSE l.left = k

(* Nobody writes what was queued in the meantime, unless room comes back. *)
Unlinked(n, gone) ==
    LET links == {n.links[i] : i \in DOMAIN n.links}
        bad == \E l \in links \cap gone : n.back[l.to] # <<>> /\ ~n.short /\ ~n.ready
    IN  Expanded(Astray([n EXCEPT !.links = SelectSeq(@, LAMBDA x : x \notin gone)],
                        "left behind", bad))

(* What is handed to a stream goes through it, or is written to it. *)
Handed(n, to, bytes, real) ==
    IF Transparent(n, to) THEN Push(n, to, bytes, real)
    ELSE IF real THEN Write(n, to, bytes, {"filters", "busy"}).n ELSE n

(* The link that k bytes went through, if it is there still. *)
Counted(n, l, k) ==
    LET moved == [l EXCEPT !.base = @ + k, !.left = IF @ = All THEN All ELSE @ - k]
    IN  IF l = Internal \/ l \notin {n.links[i] : i \in DOMAIN n.links} THEN n
        ELSE IF ~Expired(n, l, k)
        THEN [n EXCEPT !.links = [i \in DOMAIN @ |-> IF @[i] = l THEN moved ELSE @[i]]]
        ELSE IF l.delete THEN Delete(n, l.from) ELSE Reread(Unlinked(n, {l}))

Reread(n) == GraphRead(n, n.expand)

PushLinks(n, s, data, real, todo) ==
    IF todo = <<>> \/ Flag(n, s, "dead") THEN n
    ELSE LET l == todo[1].link
             k == IF l.left # All /\ l.left < Len(data) THEN l.left ELSE Len(data)
             bytes == IF l = Internal THEN SubSeq(data, 1, k)
                      ELSE [i \in 1..k |-> l.base + i - 1]
         IN  Onward(Counted(Handed(n, todo[1].to, bytes, real), l, k), s, data, real, Tail(todo))

(* Of the links that were there at first, those that are there still. *)
Onward(n, s, data, real, todo) ==
    LET there == {NextExpanded(n, s)[i] : i \in DOMAIN NextExpanded(n, s)}
    IN  IF Flag(n, s, "dead") THEN n
        ELSE PushLinks(n, s, data, real, SelectSeq(todo, LAMBDA x : x \in there))

(* A stream is written into another: queued, or linked and read. *)
WriteStream(n, s, item, flags) ==
    IF \/ "queue" \notin flags /\ (n.back[s] # <<>> \/ Flag(n, s, "queueing"))
       \/ "busy" \notin flags /\ Prev(n, s) # <<>>
    THEN [n EXCEPT !.back[s] = Append(@, item)]
    ELSE LET l == [from |-> "in", to |-> s, left |-> item.size, base |-> item.base,
                   delete |-> item.delete]
         IN  Reread(Expanded([n EXCEPT !.links = Append(@, l)]))

(* What is queued behind a stream is not kept back until that has been written, *)
(* and what was queued in a filtered stream goes through the filter, again.      *)
(* Neither comes out in order (astray); nor does what is written through a       *)
(* filter while the stream is linked, since the filter is not busy, nor the head *)
(* of a queue, which is not kept back either.                                    *)
WriteQueue(n, q, s) ==
    IF n[q][s] = <<>> \/ n.crashed # "no" THEN n
    ELSE LET item == Head(n[q][s])
             popped == [n EXCEPT ![q][s] = Tail(@)]
         IN  CASE item.type = "marker" -> Mark(popped, s, "queueing")
               [] item.type = "data" ->
                    LET a == Astray(n, "filtered again", Filters(n, s, TRUE) # <<>>)
                        m == Astray(a, "behind a stream", q = "back" /\ Prev(n, s) # <<>>)
                    IN  Dequeued(Write(m, s, item.data, {"queue", "partial", "busy"}), q, s)
               [] item.type = "stream" ->
                    WriteQueue(WriteStream(popped, s, item, {"queue"}), q, s)

(* Of the item in front, what was written is gone. *)
Dequeued(r, q, s) ==
    LET rest == From(r.n[q][s][1].data, r.count + 1)
    IN  IF Flag(r.n, s, "dead") THEN r.n
        ELSE IF rest # <<>> THEN [r.n EXCEPT ![q][s][1].data = rest]
        ELSE WriteQueue([r.n EXCEPT ![q][s] = Tail(@)], q, s)

WriteQueued(n, s) ==
    IF Flag(n, s, "queueing") \/ Flag(n, s, "draining") THEN n
    ELSE WriteBack(WriteQueue(Mark(n, s, "draining"), "front", s), s)

(* The back queue has its turn once the front one is empty. *)
WriteBack(n, s) ==
    IF Flag(n, s, "dead") THEN n
    ELSE Queueless(IF n.front[s] = <<>> /\ Prev(n, s) = <<>> THEN WriteQueue(n, "back", s) ELSE n,
                   s)

Queueless(n, s) == IF Flag(n, s, "dead") THEN n ELSE Unmark(Drained(n, s), s, "draining")

(* The graph's stream before s may be moved to it without being read. *)
WriteDirect(n, s) ==
    IF n.direct = "none" THEN [n |-> n, ok |-> TRUE]
    ELSE LET l == Next_(n, n.direct)[1]
             r == SinkStream(n, s, n.direct, n.directLeft, [i \in 1..FileSize |-> l.base + i - 1])
             m == [r.n EXCEPT !.directLeft = IF @ = All THEN All ELSE @ - r.count]
         IN  IF r.count = All THEN [n |-> n, ok |-> FALSE]
             ELSE [n |-> Push(m, n.direct, [i \in 1..r.count |-> 0], FALSE), ok |-> TRUE]

Retry(n, s) == WriteQueued(WriteDirect(n, s).n, s)

---------------------------------------------------------------------------
(* Closing and deleting. *)

Together(n, s) ==
    SelectSeq(n.filters, LAMBDA x : x.together /\ (x.stream = s \/ x.filter = s))

CloseAll(n, todo) ==
    IF todo = <<>> THEN n ELSE CloseAll(Close(n, Head(todo), TRUE, FALSE), Tail(todo))

(* Fault: it never asks. *)
FdWaits_Never(n, s, immediate) == FALSE

(* The descriptor of a stream may ask for its own time: on Windows, until *)
(* pending writes are over and the read is cancelled.                     *)
FdWaits(n, s, immediate) ==
    build = "windows" /\ s \in Fds /\ ~immediate /\ n.fd[s].writes > 0

Close(n, s, immediate, outer) ==
    IF Flag(n, s, "closing") THEN n
    ELSE IF ~immediate /\ ~MayClose(n, s) THEN Mark(n, s, "closeASAP")
    ELSE IF Flag(n, s, "dead") THEN n
    ELSE IF FdWaits(n, s, immediate) THEN [n EXCEPT !.fd[s].asap = TRUE]
    ELSE LET f == IF s \notin Fds THEN n
                  ELSE IF build = "windows" THEN CloseFd(n, s) ELSE CloseUnix(n, s)
             links == {f.links[i] : i \in DOMAIN f.links}
             u == Unlinked(Mark(f, s, "closing"), {l \in links : s \in {l.from, l.to}})
         IN  Closed(CloseTogether(u, s, Together(u, s)), s, outer)

CloseTogether(n, s, ts) ==
    CloseAll(n, [i \in DOMAIN ts |-> IF ts[i].stream = s THEN ts[i].filter ELSE ts[i].stream])

(* The streams that are left are read again, then the close hook runs. *)
Closed(n, s, outer) ==
    CloseHook([IF outer THEN Reread(Expanded(n)) ELSE n EXCEPT !.closes[s] = @ + 1], s)

CloseHook(n, s) == Unmark(IF s = "out" /\ deletes THEN Delete(n, s) ELSE n, s, "closing")

(* Only Windows closes the descriptor of a stream that is deleted. *)
Cleanup(n, s) == IF build = "windows" /\ s \in Fds THEN CloseFd(n, s) ELSE n

(* delete() marks the stream first, so that the close() it then calls returns at *)
(* once and leaves the links as they are.                                        *)
DeleteAll(n, todo) == IF todo = <<>> THEN n ELSE DeleteAll(Delete(n, Head(todo)), Tail(todo))

(* Fault: the stream is not marked as deleted. *)
Delete_Unmarked(n, s) ==
    [n EXCEPT !.filters = SelectSeq(@, LAMBDA x : s \notin {x.stream, x.filter}),
              !.links = SelectSeq(@, LAMBDA l : s \notin {l.from, l.to}),
              !.front[s] = <<>>, !.back[s] = <<>>]

Delete(n, s) ==
    IF Flag(n, s, "dead") THEN n
    ELSE LET own == SelectSeq(n.filters, LAMBDA x : x.stream = s /\ x.delete)
             bare == [n EXCEPT !.filters = SelectSeq(@, LAMBDA x : s \notin {x.stream, x.filter}),
                               !.flags[s] = @ \cup {"dead", "closing"}]
             m == DeleteAll(bare, [i \in DOMAIN own |-> own[i].filter])
         IN  Expanded([Cleanup(m, s) EXCEPT !.front[s] = <<>>, !.back[s] = <<>>])

---------------------------------------------------------------------------
(* Reading. *)

(* Only "in" has anything to read, and reading is given up once the graph has been *)
(* expanded anew, since that read it.                                              *)
GraphRead(n, expand) ==
    IF n.expand # expand \/ Flag(n, "in", "dead") THEN n
    ELSE ReadFrom(n, "in", NextExpanded(n, "in"))

(* The one stream that follows s and is not transparent, or none. *)
NextDirect(n, nexts) ==
    IF Len(nexts) = 1 /\ ~Transparent(n, nexts[1].to) /\ n.direct = "none"
    THEN nexts[1].to ELSE "none"

ReadFrom(n, s, nexts) ==
    LET to == NextDirect(n, nexts)
        tried == [n EXCEPT !.direct = s, !.directLeft = nexts[1].link.left]
    IN  IF nexts = <<>> THEN n
        ELSE IF Hooked(n, s) \/ to \notin Fds THEN ReadAll(n, s)
        ELSE Directly(WriteDirect(tried, to), n, s)

(* A stream that cannot be moved is read. *)
Directly(r, n, s) == IF r.ok THEN r.n ELSE ReadAll(n, s)

ReadAll(n, s) == IF build = "windows" THEN ReadWindows(n, s, All) ELSE ReadUnix(n, s, All)

(* def_read, of either back end. *)
ReadWindows(n, s, bytes) ==
    LET m == [n EXCEPT !.fd[s].wanted =
                IF bytes = All THEN BytesLeftWindows(n, s) ELSE @ + bytes]
    IN  IF n.fd[s].wanted # 0 THEN m ELSE IssueRead(m, s)

(* A file's offset moves when the read is issued.  A read that fails at once has *)
(* ended, and nobody hears of it.                                                 *)
IssueRead(n, s) ==
    LET k == IF s = "in" /\ kind = "file"
             THEN Min2(n.fd[s].wanted, FileSize - n.fd[s].offset) ELSE 0
    IN  IF ~n.fd[s].open \/ n.fd[s].reading THEN n
        ELSE IF n.fd[s].refuses THEN ReadOver([n EXCEPT !.fd[s].refuses = FALSE], s)
        ELSE [n EXCEPT !.fd[s].reading = TRUE, !.fd[s].offset = @ + k,
                       !.got = IF s = "in" THEN k ELSE @]

(* Fault: nobody closes it then. *)
ReadOver_LeavesOpen(n, s) == [n EXCEPT !.fd[s].reading = FALSE]

(* read_completed: the last operation of a descriptor that waits for it. *)
ReadOver(n, s) ==
    LET m == [n EXCEPT !.fd[s].reading = FALSE]
    IN  IF m.fd[s].asap /\ m.fd[s].writes = 0 THEN Close(m, s, TRUE, TRUE) ELSE m

ReadUnix(n, s, bytes) ==
    LET m == [n EXCEPT !.fd[s].wanted = IF bytes = All THEN BytesLeftUnix(n, s) ELSE @ + bytes]
    IN  IF n.fd[s].wanted # 0 THEN m ELSE ReadReady(m, s)

(* Unix reads until there is no more, or no more is wanted. *)
ReadReady(n, s) ==
    IF n.fd[s].reading THEN n
    ELSE HasRead(ReadLoop([n EXCEPT !.fd[s].reading = TRUE], s), s)

HasRead(r, s) ==
    LET m == [r.n EXCEPT !.fd[s].reading = FALSE]
    IN  IF r.end /\ ~Flag(m, s, "dead") THEN Close(m, s, TRUE, TRUE) ELSE m

ReadLoop(n, s) ==
    LET there == n.arrived - n.fd[s].offset
        k == IF n.fd[s].wanted = All THEN there ELSE Min2(n.fd[s].wanted, there)
        m == [n EXCEPT !.fd[s].offset = @ + k,
                       !.fd[s].wanted = IF @ = All THEN All ELSE @ - k]
    IN  IF n.fd[s].wanted = 0 \/ ~n.fd[s].open THEN [n |-> n, end |-> FALSE]
        ELSE IF there = 0 THEN [n |-> n, end |-> kind = "file" \/ n.eof]
        ELSE ReadLoop(Data(m, s, [i \in 1..k |-> 0]), s)

---------------------------------------------------------------------------
(* The program: calls of the user, and what the pump brings. *)

(* lwp_stream_init: a stream is a root of its own graph, with nothing queued. *)
Streamless ==
    [flags |-> [s \in Streams |-> {}],
     front |-> [s \in Streams |-> <<>>], back |-> [s \in Streams |-> <<>>],
     filters |-> <<>>, links |-> <<>>, expand |-> 0, direct |-> "none", directLeft |-> 0,
     closes |-> [s \in Streams |-> 0]]

(* lwp_fdstream_init: nothing is read nor written, and lw_fdstream_set_fd: a socket *)
(* on Windows may have been read before it was given its descriptor.  A descriptor  *)
(* that refuses is one whose next read fails when it is issued.                     *)
Fd(reads) ==
    [open |-> TRUE, asap |-> FALSE, reading |-> reads, refuses |-> FALSE,
     wanted |-> 0, offset |-> 0, writes |-> 0]

SetFdWindows == {[s \in Fds |-> Fd(reads /\ s = "out")] : reads \in BOOLEAN}

(* On Unix a file is not watched: it is read when it is asked to. *)
SetFdUnix == {[s \in Fds |-> Fd(FALSE)]}

Outside ==
    [transmit |-> FALSE, got |-> 0,
     arrived |-> IF kind = "file" THEN FileSize ELSE 0, eof |-> FALSE,
     room |-> Room, short |-> FALSE, ready |-> FALSE,
     sent |-> <<>>, owed |-> {}, next |-> 1, head |-> <<>>, written |-> FALSE,
     why |-> "open", astray |-> {}, crashed |-> "no"]

(* Bound: with a hook on "in" from the start, "out" is deleted in its close hook. *)
Init ==
    /\ build \in {"windows", "unix"}
    /\ kind \in {"file", "socket"}
    /\ hook \in IF kind = "file" THEN {"none", "watch"} ELSE {"none", "stop"}
    /\ deletes \in IF hook = "none" THEN BOOLEAN ELSE {TRUE}
    /\ \E fds \in IF build = "windows" THEN SetFdWindows ELSE SetFdUnix :
         net = Streamless @@ Outside @@ [fd |-> fds]

(* What is owed to a close that is not graceful any more is forgotten. *)
Becomes(n) ==
    /\ net.crashed = "no"
    /\ net' = [n EXCEPT !.expand = 0, !.owed = IF n.why \in {"open", "graceful"} THEN @ ELSE {}]
    /\ UNCHANGED <<build, kind, hook, deletes>>

(* The user learns of the close from the hook and leaves the stream alone then; *)
(* what it does with a stream whose bytes went astray is not followed.          *)
Usable == net.closes["out"] = 0 /\ ~Flag(net, "out", "dead") /\ net.astray = {}

Numbers(k) == [i \in 1..k |-> net.next + i - 1]
Numbered(k) == [net EXCEPT !.next = @ + k]
Owing(n, data) ==
    [n EXCEPT !.owed = IF n.why = "open" THEN @ \cup {data[i] : i \in DOMAIN data} ELSE @]
Fits(k) == net.next + k <= MaxUnits + 1

lw_stream_write ==
    \E k \in 1..2 :
        /\ Usable /\ Fits(k) /\ ~Refuses(net, "out")
        /\ Becomes(Write(Owing(Numbered(k), Numbers(k)), "out", Numbers(k), {}).n)

Item(k, all, delete) ==
    [type |-> "stream", data |-> <<>>, size |-> IF all THEN All ELSE k,
     base |-> net.next, delete |-> delete]

(* A stream is written once: for all it has, or for less. *)
Written(k, item) ==
    \E refuses \in IF build = "windows" THEN BOOLEAN ELSE {FALSE} :
        /\ Usable /\ net.why = "open" /\ ~net.written /\ Fits(k)
        /\ Becomes(WriteStream([Numbered(k) EXCEPT !.written = TRUE, !.fd["in"].refuses = refuses],
                               "out", item, {}))

lw_stream_write_stream ==
    \E k \in 1..FileSize, all, delete \in BOOLEAN :
        (all => k = FileSize) /\ Written(k, Item(k, all, delete))

(* A file that was opened for it is written whole, and deleted. *)
lw_stream_write_file == kind = "file" /\ Written(FileSize, Item(FileSize, TRUE, TRUE))

(* A queue is begun for what has to be written before it, its head. *)
lw_stream_begin_queue ==
    \E k \in 0..1 :
        /\ Usable /\ net.why = "open" /\ Fits(k)
        /\ ~Flag(net, "out", "queueing") /\ net.head = <<>>
        /\ \A i \in DOMAIN net.back["out"] : net.back["out"][i].type # "marker"
        /\ LET m == [Numbered(k) EXCEPT !.head = Numbers(k)]
           IN  Becomes(IF net.front["out"] = <<>> /\ net.back["out"] = <<>>
                       THEN Mark(m, "out", "queueing")
                       ELSE [m EXCEPT !.back["out"] = Append(@, Marker)])

lw_stream_end_queue ==
    /\ Usable /\ Flag(net, "out", "queueing")
    /\ LET h == Astray([net EXCEPT !.head = <<>>], "head",
                       net.head # <<>> /\ Prev(net, "out") # <<>>)
           m == Write(Owing(h, net.head), "out", net.head, {"queue", "busy"}).n
       IN  Becomes(WriteQueued(Unmark(m, "out", "queueing"), "out"))

(* A filter is added before anything is written, as a secure socket does, or *)
(* in the middle of a stream that is being written.                          *)
Filtered(up) ==
    \E together \in BOOLEAN :
        /\ Usable /\ net.why = "open" /\ net.filters = <<>>
        /\ net.closes["filter"] = 0 /\ net.flags["filter"] = {}
        /\ net.next = 1 \/ net.links # <<>>
        /\ LET m == Expanded([net EXCEPT !.filters =
                       <<[stream |-> "out", filter |-> "filter", up |-> up,
                          delete |-> together, together |-> together]>>])
           IN  Becomes(GraphRead(m, m.expand))

lw_stream_add_filter_upstream == Filtered(TRUE)
lw_stream_add_filter_downstream == Filtered(FALSE)

(* A hook added while the stream is written directly stops that, and nobody reads *)
(* the stream instead.                                                            *)
lw_stream_add_hook_data ==
    /\ kind = "file" /\ hook = "none" /\ net.crashed = "no" /\ Usable
    /\ net.why = "open" /\ net.direct = "in"
    /\ hook' = "watch" /\ net' = [Expanded(net) EXCEPT !.expand = 0]
    /\ UNCHANGED <<build, kind, deletes>>

(* A close of "out" is graceful if whoever asks for it lets writes end.  One that *)
(* finds something queued or linked is late: it waits with closeASAP set, and     *)
(* then nothing that is queued can be written any more.                           *)
Closing(immediate) ==
    IF immediate THEN "cut" ELSE IF ~MayClose(net, "out") THEN "late"
    ELSE IF net.why = "open" THEN "graceful" ELSE net.why

(* Bound: "in" is closed while it is being written into another stream. *)
lw_stream_close ==
    \E s \in Streams, immediate \in BOOLEAN :
        /\ Usable /\ net.closes[s] = 0 /\ ~Flag(net, s, "closeASAP")
        /\ s # "out" => immediate
        /\ s = "in" => net.links # <<>>
        /\ s = "filter" => net.filters # <<>>
        /\ Becomes(Close([net EXCEPT !.why = IF s = "out" THEN Closing(immediate)
                                             ELSE IF s = "filter" THEN "cut" ELSE @],
                         s, immediate, TRUE))

---------------------------------------------------------------------------
(* Windows: completions. *)

(* write_completed: the last write of a descriptor that waits for it. *)
WriteOver(n, s) ==
    LET m == [n EXCEPT !.fd[s].writes = @ - 1]
    IN  IF m.fd[s].writes = 0 /\ m.fd[s].asap /\ ~m.fd[s].reading
        THEN Close(CloseFd(m, s), s, TRUE, TRUE) ELSE m

WriteCompleted ==
    \E s \in Fds :
        net.fd[s].writes > (IF net.transmit THEN 1 ELSE 0) /\ Becomes(WriteOver(net, s))

(* The completion of a TransmitFile goes through transmit_file_from, but *)
(* def_sink_stream has set transmitfile_from.                            *)
TransmitCompleted == net.transmit /\ Becomes([net EXCEPT !.crashed = "transmit"])

(* A read ends with bytes, or with an error after which the other end may be *)
(* unreachable or not; the end of a file is of the second kind.  One that was *)
(* cancelled, with its descriptor or for a close, is aborted, unless it had   *)
(* ended before that and its completion waits in the port.  The read that     *)
(* follows bytes may fail when it is issued.                                   *)
ReadCompleted ==
    \E s \in Fds, outcome \in {"bytes", "fatal", "error", "aborted"}, refused \in BOOLEAN :
        LET m == ReadOver(net, s)
            k == IF s = "out" THEN 0 ELSE IF kind = "file" THEN net.got
                 ELSE Min2(1, FileSize - net.fd["in"].offset)
            why == IF s = "in" \/ m.closes["out"] > 0 THEN net.why
                   ELSE Closing(outcome = "fatal")
            t == IF kind = "socket" /\ s = "in" THEN [m EXCEPT !.fd[s].offset = @ + k] ELSE m
            d == Data(t, s, [i \in 1..k |-> 0])
        IN  /\ build = "windows" /\ net.fd[s].reading /\ (s = "in" => Usable)
            /\ outcome = "aborted" => ~net.fd[s].open \/ net.fd[s].asap
            /\ outcome = "bytes" => k > 0 \/ s = "out"
            /\ refused => outcome = "bytes" /\ net.fd[s].open
            /\ (s = "in" /\ kind = "file" /\ outcome \in {"fatal", "error"})
               => outcome = "error" /\ k = 0
            /\ Becomes(IF outcome = "aborted" \/ Flag(m, s, "dead") THEN m
                       ELSE IF outcome = "bytes" THEN IssueRead([d EXCEPT !.fd[s].refuses = refused], s)
                       ELSE Close([m EXCEPT !.why = why], s, outcome = "fatal", TRUE))

---------------------------------------------------------------------------
(* Unix: readiness, told once each time it comes back. *)

(* The peer reads what the kernel has. *)
PeerReads ==
    /\ build = "unix" /\ net.room < Room
    /\ Becomes([net EXCEPT !.room = Room, !.ready = @ \/ net.short, !.short = FALSE])

WriteReady ==
    /\ net.ready /\ net.fd["out"].open
    /\ Becomes(Retry([net EXCEPT !.ready = FALSE], "out"))

(* Bytes, or the end, reach the socket "in"; the end reaches "out". *)
ReadReadyIn ==
    \E end \in BOOLEAN :
        /\ build = "unix" /\ kind = "socket" /\ Usable /\ net.fd["in"].open /\ ~net.eof
        /\ ~end => net.arrived < FileSize
        /\ Becomes(ReadReady(IF end THEN [net EXCEPT !.eof = TRUE]
                             ELSE [net EXCEPT !.arrived = @ + 1], "in"))

ReadReadyOut ==
    /\ build = "unix" /\ net.fd["out"].open
    /\ Becomes(Close([net EXCEPT !.why = "cut"], "out", TRUE, TRUE))

Next ==
    \/ lw_stream_write \/ lw_stream_write_stream \/ lw_stream_write_file
    \/ lw_stream_begin_queue \/ lw_stream_end_queue \/ lw_stream_close
    \/ lw_stream_add_filter_upstream \/ lw_stream_add_filter_downstream
    \/ lw_stream_add_hook_data
    \/ WriteCompleted \/ TransmitCompleted \/ ReadCompleted
    \/ PeerReads \/ WriteReady \/ ReadReadyIn \/ ReadReadyOut

Spec == Init /\ [][Next]_vars

---------------------------------------------------------------------------
(* What is accepted for a socket leaves it in the order in which it was, through *)
(* plain writes, queues and linked streams, on either back end, except in the   *)
(* ways that astray names.                                                       *)
InOrder == net.astray = {} => \A i \in 1..Len(net.sent) - 1 : net.sent[i] < net.sent[i + 1]

(* A close that lets writes end, and that nothing overtakes: everything accepted *)
(* before it was handed to the system when the close hook runs, and no write is  *)
(* pending then.  What overtakes it is a close at once, the user's or that of a   *)
(* read that had ended, with the connection, before it could be cancelled.        *)
GracefulLosesNothing ==
    net.astray = {} /\ net.why = "graceful" /\ net.closes["out"] > 0 =>
        net.owed \subseteq {net.sent[i] : i \in DOMAIN net.sent} /\ net.fd["out"].writes = 0

(* The close hook of a stream that is deleted in it runs once, however many ways *)
(* of closing the stream meet: the user, a read that fails, a filter that closes *)
(* together with it, the last write of a close that waited.                      *)
ClosedOnce == deletes => net.closes["out"] <= 1

(* The descriptor waits for its pending operations before it closes. *)
Held == net.fd["out"].asap /\ net.closes["out"] = 0

(* Bytes that wait in a queue of a Unix socket that may write them. *)
Unsent ==
    /\ build = "unix" /\ net.fd["out"].open /\ net.astray = {}
    /\ net.front["out"] # <<>> \/ (net.back["out"] # <<>> /\ Prev(net, "out") = <<>>)
    /\ net.flags["out"] \cap {"queueing", "closeASAP"} = {}

(* No wake-up is lost: what waits, waits for something that will be told, the    *)
(* end of an operation on Windows, or room in the kernel on Unix, where it is     *)
(* told once each time it comes back.                                             *)
Awaits ==
    /\ Held => net.fd["out"].writes > 0 \/ net.fd["out"].reading
    /\ Unsent => net.short \/ net.ready
=============================================================================
