------------------------------ MODULE EventPump -----------------------------
(***************************************************************************)
(* The event pump: src/pump.c with its two implementations,                *)
(* src/windows/eventpump.c over a completion port and                      *)
(* src/unix/eventpump.c over a signal pipe and one of three event queues   *)
(* (epoll.c, kqueue.c, select.c), and the timers of both, which post to    *)
(* it.                                                                     *)
(*                                                                         *)
(* A program runs the pump in one of two ways: its main thread runs the    *)
(* event loop, or ("sleepy ticking") a watcher thread waits for events,    *)
(* asks for a tick, and the main thread, once for each time it is asked,   *)
(* ticks.  The program's own part is any callback that posts a call, takes *)
(* a watch down or stops the timer.                                        *)
(***************************************************************************)
EXTENDS FiniteSets, Integers, Sequences, SequencesExt

CONSTANTS
    Fds,         \* what the program watches: sockets, by file descriptor or handle
    Calls,       \* functions the program posts, each at most once
    MaxEvents,   \* max_events
    MaxArrivals, \* how often a socket becomes readable, a bound of the model
    MaxTicks     \* how often the timer expires, a bound of the model

ASSUME PumpAssumption ==
    /\ IsFiniteSet(Fds) /\ {"signals", "timer"} \cap Fds = {}
    /\ MaxTicks \in Nat

VARIABLES
    build,     \* "windows", or the event queue of a Unix build
    mode,      \* "loop" or "sleepy" (a program of its own: Application)
    p,         \* the pump's queues and watches, a record (see PumpInit)
    at,        \* where the main thread is
    batch,     \* the events it has drained and not processed
    finished,  \* Windows: the exit signal has been processed
    wat,       \* where the watcher thread is
    held,      \* watcher.events, or the completion in watcher.overlapped
    num,       \* watcher.num_events
    asked,     \* on_tick_needed was called
    resume,    \* watcher.resume_event
    timer,     \* struct _lw_timer
    ran,       \* history: the posted calls that ran, in order
    stale      \* history: a watch was used after it was freed

watcher == <<wat, held, num, asked, resume>>
pumpvars == <<build, mode, p, at, batch, finished, watcher, timer, ran, stale>>

Unix == build # "windows"
Edge == build \in {"epoll", "kqueue"}

(* lwp_pump_init and the constructors of the two pumps: the signal pipe is *)
(* watched from the start.                                                 *)
PumpInit ==
    /\ build \in {"windows", "epoll", "kqueue", "select"}
    /\ p = [pipe |-> <<>>,              \* signals written and not read
            params |-> <<>>,            \* signalparams
            port |-> <<>>,              \* the completion port
            watched |-> {},             \* in the event queue, or bound to the port
            readable |-> {},
            armed |-> {},               \* epoll, kqueue: has an event to report
            seen |-> {},                \* select: read_ready_set
            watch |-> [f \in Fds |-> "none"],
            exit |-> FALSE,             \* the end of the loop was posted
            posted |-> <<>>,            \* history: the calls posted, in order
            arrivals |-> 0]
    /\ wat = "off"
    /\ batch = <<>> /\ held = <<>> /\ num = 0
    /\ finished = FALSE /\ asked = FALSE /\ resume = 0
    /\ ran = <<>> /\ stale = FALSE

(* struct _lw_timer.  On Windows its thread runs from the start and waits  *)
(* for the timer object; on Unix, where there is one, from lw_timer_start. *)
lw_timer_new_windows == [started |-> FALSE, left |-> MaxTicks, thread |-> "wait"]
lw_timer_new_unix == [started |-> FALSE, left |-> MaxTicks, thread |-> "off"]
lw_timer_new == IF Unix THEN lw_timer_new_unix ELSE lw_timer_new_windows

lw_timer_start_windows(tm) == [tm EXCEPT !.started = TRUE]
lw_timer_start_unix(tm) ==
    [tm EXCEPT !.started = TRUE, !.thread = IF Edge THEN @ ELSE "wait"]
lw_timer_start(tm) == IF Unix THEN lw_timer_start_unix(tm) ELSE lw_timer_start_windows(tm)

Init ==
    /\ mode \in {"loop", "sleepy"}
    /\ PumpInit
    /\ at = "setup"
    /\ timer = lw_timer_new

(***************************************************************************)
(* What is called on a pump, from any thread.  sync_signals, held here     *)
(* from the first line to the last, makes each one step.                   *)
(***************************************************************************)

Signal(q, signal, entries) ==
    [q EXCEPT !.pipe = Append(@, signal),
              !.params = @ \o entries,
              !.armed = IF Edge THEN @ \cup {"signals"} ELSE @]

def_post_unix(q, f) == Signal(q, "post", f)
def_post_windows(q, f) == [q EXCEPT !.port = Append(@, <<"post">> \o f)]

lw_pump_post(q, f) ==
    [(IF Unix THEN def_post_unix(q, f) ELSE def_post_windows(q, f))
        EXCEPT !.posted = Append(@, f)]

(* What the queues do for a descriptor they are given, anew or not: epoll  *)
(* and kqueue report it if it can be read now, reported before or not.     *)
lwp_eventqueue_update_epoll(q, fd) ==
    [q EXCEPT !.watched = @ \cup {fd}, !.armed = @ \cup ({fd} \cap q.readable)]
lwp_eventqueue_update_kqueue(q, fd) ==
    [q EXCEPT !.watched = @ \cup {fd}, !.armed = @ \cup ({fd} \cap q.readable)]
lwp_eventqueue_update_select(q, fd) == [q EXCEPT !.watched = @ \cup {fd}]

def_update_callbacks_unix(q, fd) ==
    CASE build = "epoll" -> lwp_eventqueue_update_epoll(q, fd)
      [] build = "kqueue" -> lwp_eventqueue_update_kqueue(q, fd)
      [] OTHER -> lwp_eventqueue_update_select(q, fd)

def_add_unix(q, fd) == [def_update_callbacks_unix(q, fd) EXCEPT !.watch[fd] = "live"]
def_add_windows(q, fd) == [q EXCEPT !.watch[fd] = "live", !.watched = @ \cup {fd}]
lw_pump_add(q, fd) == IF Unix THEN def_add_unix(q, fd) ELSE def_add_windows(q, fd)

(* Unix: the watch has no callbacks from here, and is freed when the       *)
(* signal is read.  Its file descriptor stays in the event queue until it  *)
(* is closed.                                                              *)
def_remove_unix(q, fd) == Signal([q EXCEPT !.watch[fd] = "removed"], "remove", <<fd>>)
def_remove_windows(q, fd) == [q EXCEPT !.watch[fd] = "freed"]

lw_pump_remove(q, fd) == IF Unix THEN def_remove_unix(q, fd) ELSE def_remove_windows(q, fd)

lw_pump_post_remove(q, fd) == lw_pump_post(q, <<"remove_proc", fd>>)

exit_unix(q) == Signal(q, "exit", <<>>)
exit_windows(q) == [q EXCEPT !.port = Append(@, <<"exit">>)]

lw_eventpump_post_eventloop_exit(q) ==
    [(IF Unix THEN exit_unix(q) ELSE exit_windows(q)) EXCEPT !.exit = TRUE]

(* External: close(2) takes a descriptor out of every event queue. *)
Closed(q, fd) == [q EXCEPT !.watched = @ \ {fd}, !.readable = @ \ {fd},
                           !.armed = @ \ {fd}, !.seen = @ \ {fd}]

(* External: a socket becomes readable, or an operation on it completes. *)
Arrive(fd, most) ==
    /\ fd \in p.watched \/ (Unix /\ p.watch[fd] = "none")
    /\ p.arrivals < most
    /\ p' = [p EXCEPT !.arrivals = @ + 1,
                      !.readable = IF Unix THEN @ \cup {fd} ELSE @,
                      !.armed = IF Edge THEN @ \cup ({fd} \cap p.watched) ELSE @,
                      !.port = IF Unix THEN @ ELSE Append(@, <<"io", fd>>)]
    /\ UNCHANGED <<build, mode, at, batch, finished, watcher, timer, ran, stale>>

(* An event: a pipe that holds a byte for each signal on Unix, and is read *)
(* until it is empty; a flag on Windows.                                   *)
lw_event_signal_unix(e) == e + 1
lw_event_unsignal_unix == 0
lw_event_signal_windows(e) == IF e = 0 THEN 1 ELSE e
lw_event_unsignal_windows == 0
lw_event_signalled(e) == e > 0

(***************************************************************************)
(* Timers.  A thread posts the ticks on Windows and in a select build; a   *)
(* timerfd (epoll) or the event queue (kqueue) reports them otherwise.     *)
(***************************************************************************)

timer_expires ==
    /\ timer.started /\ timer.left > 0
    /\ \/ timer.thread = "wait"
          /\ timer' = [timer EXCEPT !.thread = "posting", !.left = @ - 1]
          /\ UNCHANGED p
       \/ Edge
          /\ timer' = [timer EXCEPT !.left = @ - 1]
          /\ p' = [p EXCEPT !.armed = @ \cup {"timer"}, !.readable = @ \cup {"timer"}]
    /\ UNCHANGED <<build, mode, at, batch, finished, watcher, ran, stale>>

timer_thread ==
    /\ timer.thread = "posting" /\ at # "stuck"
    /\ timer' = [timer EXCEPT !.thread = "wait"]
    /\ p' = lw_pump_post(p, <<"tick", "timer">>)
    /\ UNCHANGED <<build, mode, at, batch, finished, watcher, ran, stale>>

(* Windows: the thread goes on, with nothing to wait for but its end. *)
lw_timer_stop_windows(tm) == [tm EXCEPT !.started = FALSE]

(* Unix: the thread is joined; timerfd_settime or EV_DELETE disarm the     *)
(* others.                                                                 *)
lw_timer_stop_unix(tm) == [tm EXCEPT !.started = FALSE, !.thread = "off"]
Disarmed(q) == [q EXCEPT !.armed = @ \ {"timer"}, !.readable = @ \ {"timer"}]

Joins == build = "select" /\ timer.thread = "posting"

(***************************************************************************)
(* The program's part of a callback, with q the pump so far.  A posted     *)
(* call runs with sync_signals held: if it stops a timer whose thread is   *)
(* about to post, each waits for the other.                                *)
(***************************************************************************)

Hook(q, locked) ==
    \/ p' = q /\ UNCHANGED <<timer, at>>
    \/ \E c \in Calls : /\ \A i \in 1..Len(q.posted) : q.posted[i] # <<"call", c>>
                        /\ p' = lw_pump_post(q, <<"call", c>>)
                        /\ UNCHANGED <<timer, at>>
    \/ \E fd \in q.watched \cap q.readable :
          p' = def_update_callbacks_unix(q, fd) /\ UNCHANGED <<timer, at>>
    \/ \E fd \in q.watched :
          /\ \/ p' = lw_pump_post_remove(Closed(q, fd), fd)
             \/ Unix /\ p' = Closed(lw_pump_remove(q, fd), fd)
          /\ UNCHANGED <<timer, at>>
    \/ /\ timer.started /\ ~Joins
       /\ timer' = IF Unix THEN lw_timer_stop_unix(timer) ELSE lw_timer_stop_windows(timer)
       /\ p' = Disarmed(q)
       /\ UNCHANGED at
    \/ /\ timer.started /\ Joins /\ locked
       /\ p' = q /\ at' = "stuck"
       /\ UNCHANGED timer

(* A watch is called back, and reads what there is, unless it has no       *)
(* callback any more.                                                      *)
OnReady(q, fd) ==
    /\ stale' = (stale \/ q.watch[fd] = "freed")
    /\ IF q.watch[fd] = "live"
       THEN Hook([q EXCEPT !.readable = @ \ {fd}], FALSE)
       ELSE p' = q /\ UNCHANGED <<timer, at>>
    /\ UNCHANGED ran

(* remove_proc, timer_tick or timer_completion, or a call of the program's. *)
Run(q, f) ==
    /\ ran' = Append(ran, f)
    /\ UNCHANGED stale
    /\ CASE f[1] = "call" -> Hook(q, Unix)
         [] f[1] = "tick" -> p' = q /\ UNCHANGED <<timer, at>>
         [] f[1] = "remove_proc" -> p' = lw_pump_remove(q, f[2]) /\ UNCHANGED <<timer, at>>
         [] OTHER -> p' = q /\ UNCHANGED <<timer, at>>

(***************************************************************************)
(* Unix: what the event queue reports.                                     *)
(***************************************************************************)

Readable(q) == q.readable \cup (IF q.pipe # <<>> THEN {"signals"} ELSE {})

(* epoll_wait, EPOLLET: of what had an edge and still has something to     *)
(* read, MaxEvents in any order.  However many signals were written, the   *)
(* pipe is reported once.                                                  *)
lwp_eventqueue_drain_epoll(q) ==
    LET ready == q.armed \cap Readable(q)
        fits(s) == Cardinality(s) <= MaxEvents /\ (s = ready \/ Cardinality(s) = MaxEvents)
    IN  {<<s, [q EXCEPT !.armed = ready \ s]>> : s \in {x \in SUBSET ready : fits(x)}}

(* kevent, EV_CLEAR: a timer needs no descriptor. *)
lwp_eventqueue_drain_kqueue(q) ==
    LET ready == q.armed \cap (Readable(q) \cup {"timer"})
        fits(s) == Cardinality(s) <= MaxEvents /\ (s = ready \/ Cardinality(s) = MaxEvents)
    IN  {<<s, [q EXCEPT !.armed = ready \ s]>> : s \in {x \in SUBSET ready : fits(x)}}

(* select.c makes edges of levels: a descriptor that was reported is not   *)
(* selected on again until a drain finds it unreadable.  What arrives      *)
(* after the callback has read everything and before that drain is never   *)
(* reported.                                                               *)
Pruned(q) == [q EXCEPT !.seen = @ \cap Readable(q)]

lwp_eventqueue_drain_select(q) ==
    LET ready == ((q.watched \cup {"signals"}) \cap Readable(q)) \ q.seen
    IN  {<<ready, [q EXCEPT !.seen = @ \cup ready]>>}

lwp_eventqueue_drain(q) ==
    CASE build = "epoll" -> lwp_eventqueue_drain_epoll(q)
      [] build = "kqueue" -> lwp_eventqueue_drain_kqueue(q)
      [] OTHER -> lwp_eventqueue_drain_select(q)

(***************************************************************************)
(* Unix: the main thread.                                                  *)
(***************************************************************************)

(* Fault: everything in the pipe is read for one event. *)
Rest_ReadsAll == IF Head(batch) = "signals" /\ Len(p.pipe) > 1 THEN batch ELSE Tail(batch)

(* One signal is read for an event of the pipe, and the next event follows. *)
Rest == Tail(batch)

(* Fault: a removal leaves its watch in signalparams. *)
Freed_LeavesParams(q) ==
    [q EXCEPT !.pipe = Tail(@), !.watch[Head(q.params)] = "freed"]

Freed(q) ==
    [q EXCEPT !.pipe = Tail(@), !.params = Tail(@), !.watch[Head(q.params)] = "freed"]

(* Only the event loop stops for an exit: a tick ignores what              *)
(* process_event returns.                                                  *)
process_signal ==
    LET q == [p EXCEPT !.pipe = Tail(@)] IN
    CASE p.pipe = <<>> -> UNCHANGED <<p, at, timer, ran, stale>>
      [] p.pipe # <<>> /\ Head(p.pipe) = "exit" ->
            /\ p' = q
            /\ at' = IF at = "run" THEN "ended" ELSE at
            /\ UNCHANGED <<timer, ran, stale>>
      [] p.pipe # <<>> /\ Head(p.pipe) = "remove" ->
            p' = Freed(p) /\ UNCHANGED <<at, timer, ran, stale>>
      [] OTHER ->
            Run([q EXCEPT !.params = Tail(Tail(@))], <<Head(p.params), Head(Tail(p.params))>>)

process_event ==
    /\ Unix /\ at \in {"run", "held", "rest"} /\ batch # <<>>
    /\ \/ Head(batch) \in Fds /\ OnReady(p, Head(batch))
       \/ /\ Head(batch) = "timer"
          /\ p' = [p EXCEPT !.readable = @ \ {"timer"}]
          /\ UNCHANGED <<at, timer, ran, stale>>
       \/ Head(batch) = "signals" /\ process_signal
    /\ batch' = IF at' = "ended" THEN <<>> ELSE Rest
    /\ UNCHANGED <<build, mode, finished, watcher>>

(* select blocks on sets it made before: pruning is a step of its own. *)
lw_eventpump_start_eventloop_unix ==
    /\ Unix /\ batch = <<>>
    /\ \/ at = "run" /\ build = "select" /\ p' = Pruned(p) /\ at' = "select" /\ UNCHANGED batch
       \/ /\ at = IF build = "select" THEN "select" ELSE "run"
          /\ \E o \in lwp_eventqueue_drain(p) :
                /\ o[1] # {} /\ p' = o[2] /\ at' = "run"
                /\ batch' \in SetToSeqs(o[1])
    /\ UNCHANGED <<build, mode, finished, watcher, timer, ran, stale>>

(* A tick processes what the watcher drained, then drains without waiting, *)
(* and lets the watcher go on.                                             *)
lw_eventpump_tick_unix ==
    /\ Unix /\ batch = <<>>
    /\ \/ /\ at = "idle" /\ asked
          /\ asked' = FALSE /\ batch' = held /\ at' = "held"
          /\ UNCHANGED <<p, held, num, resume>>
       \/ /\ at = "held"
          /\ \E o \in lwp_eventqueue_drain(IF build = "select" THEN Pruned(p) ELSE p) :
                p' = o[2] /\ batch' \in SetToSeqs(o[1])
          /\ held' = <<>> /\ num' = 0 /\ at' = "rest"
          /\ UNCHANGED <<asked, resume>>
       \/ /\ at = "rest"
          /\ resume' = lw_event_signal_unix(resume) /\ at' = "idle"
          /\ UNCHANGED <<p, batch, held, num, asked>>
    /\ UNCHANGED <<build, mode, finished, wat, timer, ran, stale>>

(***************************************************************************)
(* Windows: the main thread.                                               *)
(***************************************************************************)

(* process(), with q the pump without the packet. *)
process(q, packet) ==
    CASE packet[1] = "post" -> Run(q, Tail(packet)) /\ UNCHANGED finished
      [] packet[1] = "exit" -> /\ finished' = (at = "run" \/ finished)
                               /\ p' = q
                               /\ UNCHANGED <<at, timer, ran, stale>>
      [] packet[1] = "io" -> OnReady(q, packet[2]) /\ UNCHANGED finished
      [] OTHER -> p' = q /\ UNCHANGED <<at, timer, ran, stale, finished>>

Dequeued(q) == [q EXCEPT !.port = Tail(@)]

(* After the exit signal the loop goes on until the port is empty. *)
lw_eventpump_start_eventloop_windows ==
    /\ ~Unix /\ mode = "loop" /\ at = "run"
    /\ \/ p.port # <<>> /\ process(Dequeued(p), Head(p.port))
       \/ p.port = <<>> /\ finished /\ at' = "ended" /\ UNCHANGED <<p, finished, timer, ran, stale>>
    /\ UNCHANGED <<build, mode, batch, watcher>>

(* Fault: the watcher is not told to go on. *)
Resumed_Not == resume
Resumed == lw_event_signal_windows(resume)

lw_eventpump_tick_windows ==
    /\ ~Unix
    /\ \/ /\ at = "idle" /\ asked
          /\ asked' = FALSE /\ at' = "held"
          /\ UNCHANGED <<p, finished, timer, ran, stale, held, resume>>
       \/ /\ at = "held" /\ held # <<>>
          /\ process(p, held) /\ held' = <<>> /\ UNCHANGED <<asked, resume>>
       \/ /\ at = "held" /\ held = <<>> /\ p.port # <<>>
          /\ process(Dequeued(p), Head(p.port)) /\ UNCHANGED <<asked, held, resume>>
       \/ /\ at = "held" /\ held = <<>> /\ p.port = <<>>
          /\ at' = "idle" /\ resume' = Resumed
          /\ UNCHANGED <<p, finished, timer, ran, stale, asked, held>>
    /\ UNCHANGED <<build, mode, batch, wat, num>>

(***************************************************************************)
(* The watcher thread of sleepy ticking.                                   *)
(***************************************************************************)

Unsignalled == IF Unix THEN lw_event_unsignal_unix ELSE lw_event_unsignal_windows

Deleted == at \in {"joining", "over"}

watcher_unix ==
    /\ Unix
    /\ \/ /\ wat = "drain" /\ build = "select" /\ ~Deleted
          /\ p' = Pruned(p) /\ wat' = "select"
          /\ UNCHANGED <<held, num, asked, resume>>
       \/ /\ wat = (IF build = "select" THEN "select" ELSE "drain") /\ ~Deleted
          /\ \E o \in lwp_eventqueue_drain(p) :
                /\ o[1] # {} /\ p' = o[2]
                /\ held' \in SetToSeqs(o[1])
          /\ wat' = "got" /\ UNCHANGED <<num, asked, resume>>
       \/ /\ wat = "drain" /\ Deleted /\ num = 0
          /\ wat' = "over" /\ UNCHANGED <<p, held, num, asked, resume>>
       \/ /\ wat = "got"
          /\ num' = Len(held) /\ wat' = "ask" /\ UNCHANGED <<p, held, asked, resume>>
       \/ /\ wat = "ask"
          /\ asked' = TRUE /\ wat' = "wait" /\ UNCHANGED <<p, held, num, resume>>
       \/ /\ wat = "wait" /\ lw_event_signalled(resume)
          /\ wat' = "resumed" /\ UNCHANGED <<p, held, num, asked, resume>>
       \/ /\ wat = "resumed"
          /\ resume' = Unsignalled /\ wat' = "drain" /\ UNCHANGED <<p, held, num, asked>>
    /\ UNCHANGED <<build, mode, at, batch, finished, timer, ran, stale>>

watcher_windows ==
    /\ ~Unix
    /\ \/ /\ wat = "drain" /\ p.port # <<>>
          /\ held' = Head(p.port) /\ p' = Dequeued(p)
          /\ wat' = IF Head(p.port) = <<"end">> THEN "over" ELSE "ask"
          /\ UNCHANGED <<asked, resume>>
       \/ /\ wat = "ask"
          /\ asked' = TRUE /\ wat' = "wait" /\ UNCHANGED <<p, held, resume>>
       \/ /\ wat = "wait" /\ lw_event_signalled(resume)
          /\ wat' = "resumed" /\ UNCHANGED <<p, held, asked, resume>>
       \/ /\ wat = "resumed"
          /\ resume' = Unsignalled /\ wat' = "drain" /\ UNCHANGED <<p, held, asked>>
    /\ UNCHANGED <<build, mode, at, batch, finished, num, timer, ran, stale>>

lw_eventpump_start_sleepy_ticking == IF mode = "sleepy" THEN "drain" ELSE "off"

(***************************************************************************)
(* The program, outside the pump: its main thread, which sets the pump up  *)
(* and acts between two ticks, and the thread that ends the loop.          *)
(***************************************************************************)

Setup ==
    /\ at = "setup"
    /\ \/ \E fd \in Fds : /\ p.watch[fd] = "none"
                          /\ p' = lw_pump_add(p, fd)
                          /\ UNCHANGED <<at, wat, timer>>
       \/ /\ \A fd \in Fds : p.watch[fd] # "none"
          /\ timer' = lw_timer_start(timer)
          /\ at' = IF mode = "loop" THEN "run" ELSE "idle"
          /\ wat' = lw_eventpump_start_sleepy_ticking
          /\ UNCHANGED p
    /\ UNCHANGED <<build, mode, batch, finished, held, num, asked, resume, ran, stale>>

Outside ==
    /\ at = "idle"
    /\ Hook(p, FALSE)
    /\ UNCHANGED <<build, mode, batch, finished, watcher, ran, stale>>

PostExit ==
    /\ mode = "loop" /\ at # "setup" /\ ~p.exit
    /\ p' = lw_eventpump_post_eventloop_exit(p)
    /\ UNCHANGED <<build, mode, at, batch, finished, watcher, timer, ran, stale>>

(* def_cleanup: the watcher is told to go on and joined.  One that is      *)
(* asleep in a Unix queue is not woken, and one that finds another packet  *)
(* before the end signal waits for a tick that does not come.              *)
Cleanup_unix ==
    /\ Unix /\ mode = "sleepy" /\ at = "idle" /\ ~asked
    /\ resume' = lw_event_signal_unix(resume) /\ at' = "joining"
    /\ UNCHANGED <<build, mode, p, batch, finished, wat, held, num, asked, timer, ran, stale>>

Cleanup_windows ==
    /\ ~Unix /\ mode = "sleepy" /\ at = "idle" /\ ~asked
    /\ p' = [p EXCEPT !.port = Append(@, <<"end">>)]
    /\ resume' = lw_event_signal_windows(resume) /\ at' = "joining"
    /\ UNCHANGED <<build, mode, batch, finished, wat, held, num, asked, timer, ran, stale>>

Joined ==
    /\ at = "joining" /\ wat = "over" /\ at' = "over"
    /\ UNCHANGED <<build, mode, p, batch, finished, watcher, timer, ran, stale>>

Pump ==
    \/ process_event
    \/ lw_eventpump_start_eventloop_unix
    \/ lw_eventpump_tick_unix
    \/ lw_eventpump_start_eventloop_windows
    \/ lw_eventpump_tick_windows

Watcher == watcher_unix \/ watcher_windows

Next ==
    \/ Pump \/ Watcher
    \/ \E fd \in Fds : Arrive(fd, MaxArrivals)
    \/ timer_expires \/ timer_thread
    \/ Setup \/ Outside \/ PostExit
    \/ Cleanup_unix \/ Cleanup_windows \/ Joined

(* Threads that can run do run. *)
Spec == Init /\ [][Next]_pumpvars
            /\ WF_pumpvars(Pump) /\ WF_pumpvars(Watcher)

(***************************************************************************)
(* Properties.                                                             *)
(***************************************************************************)

Stopped == at \in {"ended", "joining", "over"}

(* Posted calls run in the order of their posts, each once and each with   *)
(* the parameter it was posted with: signals and signalparams, two queues  *)
(* written by several threads, stay in step through posts and removals     *)
(* (src/unix/eventpump.c), and a completion the watcher took is neither    *)
(* overtaken, nor overwritten by the next (src/windows/eventpump.c).       *)
InOrder == ran = SubSeq(p.posted, 1, Len(ran))

(* No event is delivered to a watch that was freed.  On Unix a callback    *)
(* may remove and close what a later event of the same batch is for: the   *)
(* watch outlives the batch only because its removal waits in the pipe,    *)
(* behind a signal for each event of the pipe that was drained.  On        *)
(* Windows it outlives the completions queued before its removal, if the   *)
(* removal is posted (lw_pump_post_remove), and if, as here, the kernel    *)
(* queues those of the operations it cancels before the post.              *)
(* A timer is not a watch: nothing keeps one that is deleted until a tick  *)
(* it has posted ran, and no callback here deletes one.                    *)
NoStaleWatch == ~stale

(* A post that has not run, or the end of the loop, which was asked for. *)
Owed == Len(ran) < Len(p.posted) \/ p.exit

(* On Windows a posted call runs, and a posted exit ends the loop, unless  *)
(* the pump stops first, in the event loop and under sleepy ticking, where *)
(* main thread and watcher wait for one another.  On Unix neither is so:   *)
(* signals written before a drain are reported once, one is read for a     *)
(* report, and what is left waits for another signal.                      *)
PostsRun == (~Unix /\ Owed) ~> (~Owed \/ Stopped)
=============================================================================
