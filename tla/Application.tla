----------------------------- MODULE Application ----------------------------
(***************************************************************************)
(* The program, src/Main.cpp, on its event pump: main() from its first     *)
(* line to its last, the hooks it sets on the relay server and on its      *)
(* timer, and the console's handler, which Windows runs on a thread of its *)
(* own.  The other programs of EventPump share the state and the run.      *)
(*                                                                         *)
(* Every client here calls from one address: bans are looked up by it.     *)
(***************************************************************************)
EXTENDS EventPump

CONSTANTS
    MaxWasted,   \* server messages a client may waste before it is banned: 5
    MaxDropped,  \* disconnects at which a ban starts to refuse: 3
    Clients,     \* the clients of main(), among Fds
    MaxPackets   \* what the clients of main() send, a bound of the model

ASSUME ClientsAssumption == Clients \subseteq Fds

VARIABLES
    doing,       \* the line of main() being run
    object,      \* globalpump, globalserver, globalmsgrecvcounttimer
    console,     \* what is left of Shutdown, and what becomes of the process
    shutdowned,
    hosting,
    server,      \* where each client is with the relay server
    clientdata,  \* the clients listed in it
    wasted,      \* wastedServerMessages of each
    exceeded,    \* over TCP_CLIENT_UPLOAD_CAP, in a build that has it
    bans,        \* banIPList: the entries for the address, and by how it is spelt
    policy,      \* the Flash policy file: is it there, is it hosted, is it ours
    using,       \* the clientdata entry a hook has found and not yet used
    threw,       \* history: an exception ended the loop
    late         \* history: what another thread used after it was deleted

hookvars == <<server, clientdata, wasted, exceeded, bans, using>>
appvars == <<doing, object, console, shutdowned, hosting, policy, threw, late, hookvars>>
allvars == <<pumpvars, appvars>>

NewObjects == [pump |-> "none", server |-> "none", timer |-> "none"]

AppInit ==
    /\ \/ Init
       \/ /\ mode = "main" /\ build = "windows" /\ at = "main"
          /\ PumpInit
          /\ timer = lw_timer_new
    /\ doing = IF mode = "main" THEN "new" ELSE "other"
    /\ object = NewObjects
    /\ console = <<>> /\ shutdowned = FALSE /\ hosting = FALSE
    /\ server = [f \in Fds |-> "away"]
    /\ clientdata = {} /\ exceeded = {} /\ wasted = [f \in Fds |-> 0]
    /\ bans = <<>>
    /\ policy \in IF mode = "main" THEN {"absent", "found"} ELSE {"absent"}
    /\ using = {} /\ threw = FALSE /\ late = {}

Used(objects) == late' = late \cup {o \in objects : object[o] = "deleted"}

(***************************************************************************)
(* main(), outside the event loop.                                         *)
(***************************************************************************)

New ==
    /\ doing = "new"
    /\ \E o \in {"pump", "server", "timer"} :
          /\ object[o] = "none" /\ (o # "pump" => object.pump = "made")
          /\ (o = "timer" => object.server = "made")
          /\ object' = [object EXCEPT ![o] = "made"]
          /\ doing' = IF o = "timer" THEN "policy" ELSE "new"
    /\ UNCHANGED <<pumpvars, console, shutdowned, hosting, policy, threw, late, hookvars>>

(* A file that is there is used; one is written otherwise, which may fail, *)
(* and is the program's to remove.                                         *)
GenerateFlashPolicy ==
    /\ doing = "policy" /\ doing' = "host"
    /\ policy' \in IF policy = "found" THEN {"found"} ELSE {"absent", "made"}
    /\ UNCHANGED <<pumpvars, object, console, shutdowned, hosting, threw, late, hookvars>>

(* From here on clients connect: a packet stands for what one does. *)
Host ==
    /\ doing = "host" /\ doing' = "start"
    /\ hosting' = TRUE
    /\ p' = [p EXCEPT !.watched = Clients]
    /\ UNCHANGED <<build, mode, at, batch, finished, watcher, timer, ran, stale>>
    /\ UNCHANGED <<object, console, shutdowned, policy, threw, late, hookvars>>

Start ==
    /\ doing = "start" /\ doing' = "loop" /\ at' = "run"
    /\ timer' = lw_timer_start(timer)
    /\ UNCHANGED <<build, mode, p, batch, finished, watcher, ran, stale>>
    /\ UNCHANGED <<object, console, shutdowned, hosting, policy, threw, late, hookvars>>

(* lw_timer_delete waits for the thread, which may be about to post. *)
TimerEnds == timer.thread = "wait"

timer_delete ==
    /\ doing = "loop" /\ at = "ended" /\ TimerEnds
    /\ doing' = "server"
    /\ timer' = [timer EXCEPT !.started = FALSE, !.thread = IF @ = "wait" THEN "over" ELSE @]
    /\ object' = [object EXCEPT !.timer = "deleted"]
    /\ UNCHANGED <<build, mode, p, at, batch, finished, watcher, ran, stale>>
    /\ UNCHANGED <<console, shutdowned, hosting, policy, threw, late, hookvars>>

(* ~relayserver takes its hooks off before it unhosts: no client is        *)
(* reported as it goes.  clientdata keeps what it has until the process is *)
(* over, when ~client still refers to the server.                          *)
DeleteServer ==
    /\ doing = "server" /\ doing' = "pump"
    /\ object' = [object EXCEPT !.server = "deleted"]
    /\ hosting' = FALSE
    /\ server' = [f \in Fds |-> "away"]
    /\ UNCHANGED <<pumpvars, console, shutdowned, policy, threw, late>>
    /\ UNCHANGED <<clientdata, wasted, exceeded, bans, using>>

DeletePump ==
    /\ doing = "pump" /\ doing' = "getchar"
    /\ object' = [object EXCEPT !.pump = "deleted"]
    /\ policy' = IF policy = "made" THEN "absent" ELSE policy
    /\ UNCHANGED <<pumpvars, console, shutdowned, hosting, threw, late, hookvars>>

Main ==
    /\ at # "over"
    /\ \/ New \/ GenerateFlashPolicy \/ Host \/ Start
       \/ timer_delete \/ DeleteServer \/ DeletePump

(***************************************************************************)
(* The hooks, on the thread of the event loop.  One that looks a client up *)
(* in clientdata uses what it found in a second step.                      *)
(***************************************************************************)

(* A ban that has lapsed is dropped, one of more than MaxDropped           *)
(* disconnects refuses and grows, any other lets the client in.  An entry  *)
(* made for the raw address is never found by the one that is looked up.   *)
Found == {i \in 1..Len(bans) : bans[i].spelt = "pretty"}
Entry == CHOOSE i \in Found : \A j \in Found : i <= j
Refuses == Found # {} /\ bans[Entry].disconnects > MaxDropped

connect_response(f) == IF hosting THEN "approved" ELSE "refused"

OnConnectRequest(f) ==
    /\ server[f] = "away"
    /\ \/ /\ Refuses
          /\ bans' = [bans EXCEPT ![Entry].disconnects = @ + 1]
          /\ server' = [server EXCEPT ![f] = "refused"]
          /\ UNCHANGED clientdata
       \/ /\ \/ ~Refuses /\ UNCHANGED bans
             \/ Found # {} /\ bans' = RemoveAt(bans, Entry)
          /\ server' = [server EXCEPT ![f] = connect_response(f)]
          /\ clientdata' = clientdata \cup {f}
    /\ wasted' = [wasted EXCEPT ![f] = 0]
    /\ UNCHANGED <<exceeded, using>>

(* Only a client that was approved is reported, and only while the server  *)
(* is hosting.                                                             *)
OnDisconnect(f) ==
    /\ server[f] # "away"
    /\ server' = [server EXCEPT ![f] = "away"]
    /\ IF server[f] = "approved" /\ hosting
       THEN clientdata' = clientdata \ {f} /\ exceeded' = exceeded \ {f}
       ELSE UNCHANGED <<clientdata, exceeded>>
    /\ UNCHANGED <<wasted, bans, using>>

(* Messages to the server, of the wrong kind: counted, and in the end the  *)
(* client is banned, once for each further message, and disconnected.      *)
OnServerMessage(f) ==
    /\ server[f] = "approved" /\ f \in clientdata
    /\ using' = {f}
    /\ wasted' = [wasted EXCEPT ![f] = IF @ > MaxWasted THEN @ ELSE @ + 1]
    /\ bans' = IF wasted[f] > MaxWasted
               THEN Append(bans, [spelt |-> "pretty", disconnects |-> 1]) ELSE bans
    /\ UNCHANGED <<server, clientdata, exceeded>>

(* Messages to a channel or a peer: beyond the upload cap, if there is     *)
(* one, they are dropped and the client is marked.                         *)
IncrementClient(f) ==
    /\ server[f] = "approved" /\ f \in clientdata
    /\ using' = {f}
    /\ exceeded' \in {exceeded, exceeded \cup {f}}
    /\ UNCHANGED <<server, clientdata, wasted, bans>>

(* One client over the cap is banned and disconnected in a tick. *)
OnTimerTick ==
    \/ exceeded = {} /\ UNCHANGED hookvars
    \/ \E f \in exceeded :
          /\ using' = {f}
          /\ bans' = IF Found = {} THEN Append(bans, [spelt |-> "raw", disconnects |-> 1])
                     ELSE [bans EXCEPT ![Entry].disconnects = @ + 1]
          /\ UNCHANGED <<server, clientdata, wasted, exceeded>>

Client(f) ==
    \/ OnConnectRequest(f) \/ OnDisconnect(f)
    \/ OnServerMessage(f) \/ IncrementClient(f)

Bounded == Len(bans) < 2

(* The event loop of main().  What a client sends once the server is       *)
(* unhosted reaches no hook.  In a release build an exception ends the     *)
(* loop.                                                                   *)
start_eventloop ==
    /\ doing = "loop" /\ at = "run" /\ using = {}
    /\ \/ /\ p.port # <<>>
          /\ LET packet == Head(p.port) IN
             \/ /\ packet[1] = "io"
                /\ Bounded /\ Client(packet[2])
                /\ p' = Dequeued(p) /\ UNCHANGED <<at, timer, finished, ran, stale>>
             \/ /\ packet[1] = "io"
                /\ ~hosting \/ ~Bounded \/ packet[2] \notin clientdata
                /\ p' = Dequeued(p) /\ UNCHANGED <<at, timer, finished, ran, stale, hookvars>>
             \/ /\ packet[1] # "io"
                /\ process(Dequeued(p), packet)
                /\ IF packet[1] = "post" /\ Bounded THEN OnTimerTick ELSE UNCHANGED hookvars
          /\ UNCHANGED threw
       \/ /\ p.port = <<>> /\ finished
          /\ at' = "ended" /\ UNCHANGED <<p, finished, timer, ran, stale, threw, hookvars>>
       \/ /\ p.port # <<>> /\ Head(p.port)[1] = "io"
          /\ p' = Dequeued(p) /\ at' = "ended" /\ threw' = TRUE
          /\ UNCHANGED <<finished, timer, ran, stale, hookvars>>
    /\ UNCHANGED <<build, mode, batch, watcher>>
    /\ UNCHANGED <<doing, object, console, shutdowned, hosting, policy, late>>

(* An entry that the console's thread has cleared meanwhile is freed       *)
(* memory: the program goes on, or dies of it.                             *)
Use ==
    /\ using # {} /\ using' = {} /\ at # "over"
    /\ at' \in IF using \subseteq clientdata THEN {at} ELSE {at, "over"}
    /\ UNCHANGED <<build, mode, p, batch, finished, watcher, timer, ran, stale>>
    /\ UNCHANGED <<doing, object, console, shutdowned, hosting, policy, threw, late>>
    /\ UNCHANGED <<server, clientdata, wasted, exceeded, bans>>

(***************************************************************************)
(* The console's thread.                                                   *)
(***************************************************************************)

(* Fault: the loop is told to end before everything else. *)
Shutdown_ExitFirst == <<"clear", "exit", "stop", "unhost">>

(* Shutdown: globalpump->post_eventloop_exit() is its last call. *)
Shutdown == <<"clear", "stop", "unhost", "exit">>

(* The first Ctrl-C or Close runs Shutdown; a second is left to Windows,   *)
(* which ends the process.  Ctrl-Break is ignored.                         *)
CloseHandler ==
    /\ mode = "main" /\ console = <<>> /\ at # "over"
    /\ IF shutdowned
       THEN at' = "over" /\ UNCHANGED <<console, shutdowned>>
       ELSE /\ shutdowned' = TRUE
            /\ console' \in {Shutdown, Shutdown \o <<"kill">>}
            /\ UNCHANGED at
    /\ UNCHANGED <<build, mode, p, batch, finished, watcher, timer, ran, stale>>
    /\ UNCHANGED <<doing, object, hosting, policy, threw, late, hookvars>>

Step(s) == console # <<>> /\ Head(console) = s /\ console' = Tail(console) /\ at # "over"

Clear ==
    /\ Step("clear")
    /\ clientdata' = {} /\ exceeded' = {}
    /\ UNCHANGED <<pumpvars, doing, object, shutdowned, hosting, policy, threw, late>>
    /\ UNCHANGED <<server, wasted, bans, using>>

(* A call on an object main() has not made yet ends the process. *)
Dies(o) == IF object[o] = "none" THEN "over" ELSE at

StopTimer ==
    /\ Step("stop") /\ Used({"timer"})
    /\ at' = Dies("timer")
    /\ timer' = lw_timer_stop_windows(timer)
    /\ UNCHANGED <<build, mode, p, batch, finished, watcher, ran, stale>>
    /\ UNCHANGED <<doing, object, shutdowned, hosting, policy, threw, hookvars>>

(* The server and its Flash policy server.  Its clients go, unreported. *)
Unhost ==
    /\ Step("unhost") /\ Used({"server"})
    /\ at' = Dies("server")
    /\ hosting' = FALSE
    /\ server' = [f \in Fds |-> "away"]
    /\ UNCHANGED <<build, mode, p, batch, finished, watcher, timer, ran, stale>>
    /\ UNCHANGED <<doing, object, shutdowned, policy, threw>>
    /\ UNCHANGED <<clientdata, wasted, exceeded, bans, using>>

PostEventloopExit ==
    /\ Step("exit") /\ Used({"pump"})
    /\ at' = Dies("pump")
    /\ p' = lw_eventpump_post_eventloop_exit(p)
    /\ UNCHANGED <<build, mode, batch, finished, watcher, timer, ran, stale>>
    /\ UNCHANGED <<doing, object, shutdowned, hosting, policy, threw, hookvars>>

(* External: after Close, Windows ends the process as soon as the handler  *)
(* has returned; any key does at the end of main().                        *)
Kill ==
    /\ \/ Step("kill")
       \/ doing = "getchar" /\ at # "over" /\ UNCHANGED console
    /\ at' = "over"
    /\ UNCHANGED <<build, mode, p, batch, finished, watcher, timer, ran, stale>>
    /\ UNCHANGED <<doing, object, shutdowned, hosting, policy, threw, late, hookvars>>

Console == Clear \/ StopTimer \/ Unhost \/ PostEventloopExit \/ Kill

(***************************************************************************)
(* The timer's thread, and the connections.                                *)
(***************************************************************************)

TimerThread ==
    /\ at # "over"
    /\ timer_thread /\ Used(IF mode = "main" THEN {"pump"} ELSE {})
    /\ UNCHANGED <<doing, object, console, shutdowned, hosting, policy, threw, hookvars>>

Call(f) ==
    /\ at # "over" /\ object.pump # "deleted"
    /\ Arrive(f, IF mode = "main" THEN MaxPackets ELSE MaxArrivals)
    /\ UNCHANGED appvars

Expire ==
    /\ at # "over"
    /\ timer_expires
    /\ UNCHANGED appvars

Other ==
    /\ mode # "main"
    /\ Pump \/ Setup \/ Outside \/ PostExit \/ Cleanup_unix \/ Cleanup_windows \/ Joined
    /\ UNCHANGED appvars

Watch == Watcher /\ UNCHANGED appvars

AppNext ==
    \/ Main \/ start_eventloop \/ Use
    \/ CloseHandler \/ Console
    \/ TimerThread \/ Expire
    \/ \E f \in Fds : Call(f)
    \/ Other \/ Watch

(* Threads that can run do run; clients, timers and the console need not. *)
AppSpec == /\ AppInit /\ [][AppNext]_allvars
           /\ WF_allvars(Pump /\ UNCHANGED appvars)
           /\ WF_allvars(Watch)
           /\ WF_allvars(Main \/ start_eventloop \/ Use)

(* Neither the console's thread nor the timer's uses the pump, the server  *)
(* or the timer after main() has deleted them: the loop ends only on the   *)
(* last call of Shutdown, and the timer's thread is joined before anything *)
(* else goes.  Not so after an exception has ended the loop of a release   *)
(* build: main() deletes everything, and Ctrl-C still runs Shutdown.       *)
Outlives == late = {} \/ threw
=============================================================================
