-------------------------- MODULE EndpointsProofs ---------------------------
(***************************************************************************)
(* Theorems about Endpoints, for every number of connections, datagrams,   *)
(* attempts and pending receives, and about the server of Listener, which  *)
(* is one of the endpoints, for every number of accepts, sockets and       *)
(* addresses.  Each endpoint has an invariant of its own, which its steps  *)
(* keep; EndInv, at the end, puts them together.                           *)
(***************************************************************************)
EXTENDS Endpoints, FiniteSetTheorems, SequenceTheorems, TLAPS

(***************************************************************************)
(* The server of the Unix build.                                           *)
(***************************************************************************)
ServerState == {"none", "shaking", "open", "closed"}

ServerType ==
    [socket : {"none", "deaf", "listening"}, backlog : Seq(Calls), edge : BOOLEAN,
     stranded : BOOLEAN, accepting : BOOLEAN, clients : SUBSET Calls,
     state : [Calls -> ServerState], secure : BOOLEAN, on_data : BOOLEAN,
     hooked : SUBSET Calls, reads : SUBSET Calls, deleted : BOOLEAN,
     joins : [Calls -> Nat], leaves : [Calls -> Nat], came : Nat, attempts : Nat,
     wrong : SUBSET {"server freed", "no hook"}]

(* What the user was told of a client, by how far it got. *)
Known(n, c) ==
    /\ n.joins[c] <= 1
    /\ n.leaves[c] = IF n.state[c] = "closed" THEN n.joins[c] ELSE 0
    /\ c \in n.clients <=> n.state[c] = "open"
    /\ n.state[c] = "open" => n.joins[c] = 1
    /\ n.state[c] \in {"none", "shaking"} => n.joins[c] = 0

(* Connections in the kernel are told apart and none of them has a client yet; only a *)
(* socket that listens has any.                                                       *)
Waiting(n) ==
    /\ n.came <= MaxCalls
    /\ \A i \in 1..Len(n.backlog) : n.backlog[i] <= n.came /\ n.state[n.backlog[i]] = "none"
    /\ \A i, j \in 1..Len(n.backlog) : n.backlog[i] = n.backlog[j] => i = j
    /\ \A c \in Calls : c > n.came => n.state[c] = "none"
    /\ n.socket # "listening" => n.backlog = <<>>
    /\ n.backlog # <<>> => n.edge \/ n.stranded \/ n.accepting

ServerOK(n) == n \in ServerType /\ Waiting(n) /\ \A c \in Calls : Known(n, c)

(* m is n with nothing changed but its client c, and perhaps unhosted. *)
Alike(n, m, d) ==
    /\ m.state[d] = n.state[d] /\ m.joins[d] = n.joins[d] /\ m.leaves[d] = n.leaves[d]
    /\ d \in m.clients <=> d \in n.clients

Touched(n, m, c) ==
    /\ m \in ServerType /\ m.came = n.came /\ m.accepting = n.accepting
    /\ \/ m.backlog = <<>>
       \/ m.backlog = n.backlog /\ m.socket = n.socket /\ m.edge = n.edge /\ m.stranded = n.stranded
    /\ \A d \in Calls \ {c} : Alike(n, m, d)

(* The bounds are numbers, and there is a first connection. *)
LEMMA CallsAreNat == Calls \subseteq Nat /\ MaxCalls \in Nat /\ 1 \in Calls
  BY EndpointAssumption DEF Calls

(* No connections are a backlog. *)
LEMMA NothingWaits == <<>> \in Seq(Calls)
  OBVIOUS

(* Two steps that touch one client are one such step. *)
LEMMA TouchedTwice ==
    ASSUME NEW n, NEW m, NEW o, NEW c, Touched(n, m, c), Touched(m, o, c)
    PROVE  Touched(n, o, c)
  BY DEF Touched, Alike

(* unhost leaves what is known of the clients alone. *)
LEMMA UnhostTouches ==
    ASSUME NEW n \in ServerType, NEW c \in Calls
    PROVE  Touched(n, lw_server_unhost(n), c) /\ Alike(n, lw_server_unhost(n), c)
<1> DEFINE r == lw_server_unhost(n)
<1>1. r \in ServerType
  BY NothingWaits DEF lw_server_unhost, ServerType
<1>2. /\ r.state = n.state /\ r.joins = n.joins /\ r.leaves = n.leaves /\ r.clients = n.clients
      /\ r.came = n.came /\ r.accepting = n.accepting /\ r.backlog = <<>>
  BY DEF lw_server_unhost, ServerType
<1> HIDE DEF r
<1>3. Touched(n, r, c) /\ Alike(n, r, c)
  BY <1>1, <1>2 DEF Touched, Alike
<1>4. QED
  BY <1>3 DEF r

(* A code's error changes nothing else. *)
Faulted(n, m) ==
    /\ m \in ServerType /\ m.state = n.state /\ m.joins = n.joins /\ m.leaves = n.leaves
    /\ m.clients = n.clients /\ m.came = n.came /\ m.accepting = n.accepting
    /\ m.backlog = n.backlog /\ m.socket = n.socket /\ m.edge = n.edge
    /\ m.stranded = n.stranded

(* Noting an error is all that noting one does. *)
LEMMA UnfitFaults ==
    ASSUME NEW n \in ServerType, NEW how \in {"server freed", "no hook"}, NEW bad
    PROVE  Faulted(n, Unfit(n, how, bad))
<1>1. CASE bad
  <2> DEFINE w == n.wrong \cup {how}
             r == [n EXCEPT !.wrong = w]
  <2>1. w \in SUBSET {"server freed", "no hook"}
    BY DEF ServerType
  <2> HIDE DEF w
  <2>2. Faulted(n, r)
    BY <2>1 DEF Faulted, ServerType
  <2>3. QED
    BY <1>1, <2>2 DEF Unfit, w
<1>2. CASE ~bad
  BY <1>2 DEF Unfit, Faulted
<1>3. QED
  BY <1>1, <1>2

(* A client that was closed, as the user knows it. *)
Ended(n, m, c) ==
    /\ m.state[c] = "closed" /\ m.joins[c] = n.joins[c] /\ c \notin m.clients
    /\ m.leaves[c] = IF n.joins[c] > 0 THEN n.leaves[c] + 1 ELSE n.leaves[c]

(* Closing a client touches no other, and its user hears of it if it had come. *)
LEMMA CloseTouches ==
    ASSUME NEW n \in ServerType, NEW c \in Calls
    PROVE  Touched(n, on_client_close_unix(n, c), c) /\ Ended(n, on_client_close_unix(n, c), c)
<1> DEFINE m == Unfit(n, "server freed", n.deleted)
           told == n.joins[c] > 0
           l == [m.leaves EXCEPT ![c] = IF told THEN m.leaves[c] + 1 ELSE m.leaves[c]]
           s == [m.state EXCEPT ![c] = "closed"]
           r == [m EXCEPT !.leaves = l, !.state = s, !.clients = m.clients \ {c},
                          !.hooked = m.hooked \ {c}, !.reads = m.reads \ {c}]
<1>1. on_client_close_unix(n, c) = r
  BY DEF on_client_close_unix
<1>2. Faulted(n, m)
  BY UnfitFaults
<1> HIDE DEF m
<1>3. l \in [Calls -> Nat] /\ s \in [Calls -> ServerState] /\ m \in ServerType
  <2>1. m \in ServerType
    BY <1>2 DEF Faulted
  <2>2. m.leaves \in [Calls -> Nat] /\ m.state \in [Calls -> ServerState]
    BY <2>1 DEF ServerType
  <2>3. QED
    BY <2>1, <2>2 DEF ServerState
<1>4. /\ s[c] = "closed" /\ l[c] = IF told THEN n.leaves[c] + 1 ELSE n.leaves[c]
      /\ \A d \in Calls \ {c} : s[d] = n.state[d] /\ l[d] = n.leaves[d]
  BY <1>2 DEF Faulted, ServerType
<1> HIDE DEF l, s
<1>5. r \in ServerType
  BY <1>3 DEF ServerType
<1>6. /\ r.state = s /\ r.joins = n.joins /\ r.leaves = l /\ r.clients = n.clients \ {c}
      /\ r.came = n.came /\ r.accepting = n.accepting /\ r.backlog = n.backlog
      /\ r.socket = n.socket /\ r.edge = n.edge /\ r.stranded = n.stranded
  BY <1>2, <1>3 DEF Faulted, ServerType
<1> HIDE DEF r
<1>7. Touched(n, r, c)
  BY <1>4, <1>5, <1>6 DEF Touched, Alike
<1>8. Ended(n, r, c)
  BY <1>4, <1>6 DEF Ended
<1>9. QED
  BY <1>1, <1>7, <1>8

(* A field of a client, or the sets of clients, as the functions of the code set them. *)
LEMMA StateSet ==
    ASSUME NEW n \in ServerType, NEW c \in Calls, NEW x \in ServerState
    PROVE  LET r == [n EXCEPT !.state[c] = x]
           IN  /\ Touched(n, r, c) /\ r.state[c] = x /\ r.joins = n.joins
               /\ r.leaves = n.leaves /\ r.clients = n.clients /\ r.secure = n.secure
<1> DEFINE s == [n.state EXCEPT ![c] = x]
           r == [n EXCEPT !.state = s]
<1>1. s \in [Calls -> ServerState] /\ s[c] = x /\ \A d \in Calls \ {c} : s[d] = n.state[d]
  BY DEF ServerType
<1> HIDE DEF s
<1>2. r \in ServerType
  BY <1>1 DEF ServerType
<1>3. /\ r.state = s /\ r.joins = n.joins /\ r.leaves = n.leaves /\ r.clients = n.clients
      /\ r.came = n.came /\ r.accepting = n.accepting /\ r.backlog = n.backlog
      /\ r.socket = n.socket /\ r.edge = n.edge /\ r.stranded = n.stranded
      /\ r.secure = n.secure
  BY DEF ServerType
<1> HIDE DEF r
<1>4. Touched(n, r, c)
  BY <1>1, <1>2, <1>3 DEF Touched, Alike
<1>5. QED
  BY <1>1, <1>3, <1>4 DEF r, s

(* Telling of a client touches that one. *)
LEMMA JoinsSet ==
    ASSUME NEW n \in ServerType, NEW c \in Calls
    PROVE  LET r == [n EXCEPT !.joins[c] = @ + 1]
           IN  /\ Touched(n, r, c) /\ r.joins[c] = n.joins[c] + 1 /\ r.state = n.state
               /\ r.leaves = n.leaves /\ r.clients = n.clients
<1> DEFINE j == [n.joins EXCEPT ![c] = n.joins[c] + 1]
           r == [n EXCEPT !.joins = j]
<1>1. /\ j \in [Calls -> Nat] /\ j[c] = n.joins[c] + 1
      /\ \A d \in Calls \ {c} : j[d] = n.joins[d]
  <2>1. n.joins \in [Calls -> Nat]
    BY DEF ServerType
  <2>2. QED
    BY <2>1
<1> HIDE DEF j
<1>2. r \in ServerType
  BY <1>1 DEF ServerType
<1>3. /\ r.state = n.state /\ r.joins = j /\ r.leaves = n.leaves /\ r.clients = n.clients
      /\ r.came = n.came /\ r.accepting = n.accepting /\ r.backlog = n.backlog
      /\ r.socket = n.socket /\ r.edge = n.edge /\ r.stranded = n.stranded
  BY DEF ServerType
<1> HIDE DEF r
<1>4. Touched(n, r, c)
  BY <1>1, <1>2, <1>3 DEF Touched, Alike
<1>5. QED
  BY <1>1, <1>3, <1>4 DEF r, j

(* Listing a client touches that one. *)
LEMMA ClientsSet ==
    ASSUME NEW n \in ServerType, NEW c \in Calls
    PROVE  LET r == [n EXCEPT !.clients = n.clients \cup {c}]
           IN  /\ Touched(n, r, c) /\ c \in r.clients /\ r.state = n.state
               /\ r.leaves = n.leaves /\ r.joins = n.joins
<1> DEFINE r == [n EXCEPT !.clients = n.clients \cup {c}]
<1>2. r \in ServerType
  BY DEF ServerType
<1>3. /\ r.state = n.state /\ r.joins = n.joins /\ r.leaves = n.leaves
      /\ r.clients = n.clients \cup {c}
      /\ r.came = n.came /\ r.accepting = n.accepting /\ r.backlog = n.backlog
      /\ r.socket = n.socket /\ r.edge = n.edge /\ r.stranded = n.stranded
  BY DEF ServerType
<1> HIDE DEF r
<1>4. Touched(n, r, c)
  BY <1>2, <1>3 DEF Touched, Alike
<1>5. QED
  BY <1>3, <1>4 DEF r

(* Which clients have a hook, and which are read, the user is not told. *)
Rehooked(n, r, c) ==
    /\ Touched(n, r, c) /\ r.clients = n.clients /\ r.state = n.state
    /\ r.leaves = n.leaves /\ r.joins = n.joins /\ r.secure = n.secure

(* Hooks and reads are no part of what the user knows. *)
LEMMA HooksSet ==
    ASSUME NEW n \in ServerType, NEW c \in Calls, NEW h, h \subseteq Calls,
           NEW d, d \subseteq Calls
    PROVE  Rehooked(n, [n EXCEPT !.hooked = h, !.reads = d], c)
<1> DEFINE r == [n EXCEPT !.hooked = h, !.reads = d]
<1>2. r \in ServerType
  BY DEF ServerType
<1>3. /\ r.state = n.state /\ r.joins = n.joins /\ r.leaves = n.leaves
      /\ r.clients = n.clients /\ r.secure = n.secure
      /\ r.came = n.came /\ r.accepting = n.accepting /\ r.backlog = n.backlog
      /\ r.socket = n.socket /\ r.edge = n.edge /\ r.stranded = n.stranded
  BY DEF ServerType
<1> HIDE DEF r
<1>4. Touched(n, r, c)
  BY <1>2, <1>3 DEF Touched, Alike
<1>5. Rehooked(n, r, c)
  BY <1>3, <1>4 DEF Rehooked
<1>6. QED
  BY <1>5 DEF r

(* The user has been told of a client that is open or was, and of nothing else. *)
Settled(m, c) == Known(m, c) /\ m.state[c] \in {"open", "closed"}

(* An open client that was not yet told of is, by its hook, and listed if it is *)
(* still there.                                                                 *)
LEMMA HookSettles ==
    ASSUME NEW n \in ServerType, NEW c \in Calls, NEW does,
           n.state[c] = "open", n.joins[c] = 0, n.leaves[c] = 0, c \notin n.clients
    PROVE  /\ Touched(n, Joined(ConnectHook(n, c, does), c), c)
           /\ Settled(Joined(ConnectHook(n, c, does), c), c)
<1> DEFINE m == [n EXCEPT !.joins[c] = @ + 1]
           k == ConnectHook(n, c, does)
           r == Joined(k, c)
<1>1. /\ Touched(n, m, c) /\ m.joins[c] = 1 /\ m.state = n.state
      /\ m.leaves = n.leaves /\ m.clients = n.clients
  BY JoinsSet
<1>2. m \in ServerType
  BY <1>1 DEF Touched
<1> HIDE DEF m
<1>3. CASE does = "refuse"
  <2>1. k = on_client_close_unix(m, c)
    BY <1>3 DEF ConnectHook, m
  <2>2. Touched(m, k, c) /\ Ended(m, k, c)
    BY <2>1, <1>2, CloseTouches
  <2> HIDE DEF k
  <2>3. r = k
    BY <2>2 DEF Ended, Joined, Alive
  <2>4. Touched(n, k, c)
    BY <1>1, <2>2, TouchedTwice
  <2>5. Settled(k, c)
    BY <1>1, <2>2 DEF Settled, Known, Ended
  <2>6. QED
    BY <2>3, <2>4, <2>5 DEF k
<1>4. CASE does # "refuse"
  <2>1. k = IF does = "unhost" THEN lw_server_unhost(m) ELSE m
    BY <1>4 DEF ConnectHook, m
  <2>2. Touched(m, m, c) /\ Alike(m, m, c)
    BY <1>2 DEF Touched, Alike
  <2>3. Touched(m, k, c) /\ Alike(m, k, c)
    BY <1>2, <2>1, <2>2, UnhostTouches
  <2>4. k \in ServerType
    BY <2>3 DEF Touched
  <2> HIDE DEF k
  <2> DEFINE o == [k EXCEPT !.clients = k.clients \cup {c}]
  <2>5. k.state[c] = "open" /\ k.joins[c] = 1 /\ k.leaves[c] = 0
    BY <1>1, <2>3 DEF Alike
  <2>6. r = o
    BY <2>5 DEF Joined, Alive
  <2>7. Touched(k, o, c) /\ c \in o.clients /\ o.state = k.state
        /\ o.leaves = k.leaves /\ o.joins = k.joins
    BY <2>4, ClientsSet
  <2> HIDE DEF o
  <2>8. Touched(n, o, c)
    BY <1>1, <2>3, <2>7, TouchedTwice
  <2>9. Settled(o, c)
    BY <2>5, <2>7 DEF Settled, Known
  <2>10. QED
    BY <2>6, <2>8, <2>9 DEF k
<1>5. QED
  BY <1>3, <1>4

(* A client whose handshake is complete. *)
LEMMA HandshookSettles ==
    ASSUME NEW n \in ServerType, NEW c \in Calls, NEW does, Known(n, c), n.state[c] = "shaking"
    PROVE  Touched(n, on_ssl_handshook(n, c, does), c) /\ Settled(on_ssl_handshook(n, c, does), c)
<1> DEFINE m == [n EXCEPT !.state[c] = "open"]
           r == Joined(ConnectHook(m, c, does), c)
<1>1. /\ Touched(n, m, c) /\ m.state[c] = "open" /\ m.joins = n.joins
      /\ m.leaves = n.leaves /\ m.clients = n.clients
  BY StateSet DEF ServerState
<1>2. m \in ServerType /\ m.joins[c] = 0 /\ m.leaves[c] = 0 /\ c \notin m.clients
  BY <1>1 DEF Touched, Known
<1> HIDE DEF m
<1>3. Touched(m, r, c) /\ Settled(r, c)
  BY <1>1, <1>2, HookSettles
<1>4. r = on_ssl_handshook(n, c, does)
  BY DEF on_ssl_handshook, m
<1> HIDE DEF r
<1>5. QED
  BY <1>1, <1>3, <1>4, TouchedTwice

(* Closing a client that the user knows of, or knows nothing of. *)
LEMMA CloseSettles ==
    ASSUME NEW n \in ServerType, NEW c \in Calls, Known(n, c), Alive(n, c)
    PROVE  Touched(n, on_client_close_unix(n, c), c) /\ Settled(on_client_close_unix(n, c), c)
<1> DEFINE r == on_client_close_unix(n, c)
<1>1. Touched(n, r, c) /\ Ended(n, r, c)
  BY CloseTouches
<1> HIDE DEF r
<1>2. n.joins[c] \in Nat
  BY DEF ServerType
<1>3. Settled(r, c)
  BY <1>1, <1>2 DEF Ended, Known, Settled, Alive
<1>4. QED
  BY <1>1, <1>3 DEF r

(* The data hook of an open client. *)
LEMMA DataSettles ==
    ASSUME NEW n \in ServerType, NEW c \in Calls, NEW does, Known(n, c), n.state[c] = "open"
    PROVE  Touched(n, on_client_data(n, c, does), c) /\ Settled(on_client_data(n, c, does), c)
<1> DEFINE m == Unfit(n, "no hook", c \in n.hooked /\ ~n.on_data)
           r == on_client_data(n, c, does)
<1>1. Faulted(n, m)
  BY UnfitFaults
<1>2. Touched(n, m, c) /\ m \in ServerType /\ Known(m, c) /\ m.state[c] = "open"
  BY <1>1 DEF Faulted, Touched, Alike, Known
<1>3. r = on_client_close_unix(m, c) \/ r = m
  BY DEF on_client_data
<1> HIDE DEF m
<1>4. CASE r = m
  BY <1>2, <1>4 DEF Settled
<1>5. CASE r = on_client_close_unix(m, c)
  <2>1. Touched(m, r, c) /\ Settled(r, c)
    BY <1>2, <1>5, CloseSettles DEF Alive
  <2> HIDE DEF r
  <2>2. Touched(n, r, c)
    BY <1>2, <2>1, TouchedTwice
  <2>3. QED
    BY <2>1, <2>2 DEF r
<1>6. QED
  BY <1>3, <1>4, <1>5

(* What a client reads first, or next. *)
LEMMA ReadSettles ==
    ASSUME NEW n \in ServerType, NEW c \in Calls, NEW does, Known(n, c), Alive(n, c)
    PROVE  /\ Touched(n, ClientRead(n, c, does), c) /\ Known(ClientRead(n, c, does), c)
           /\ ClientRead(n, c, does).state[c] # "none"
<1> DEFINE r == ClientRead(n, c, does)
<1>1. Touched(n, n, c) /\ n.state[c] # "none"
  BY DEF Touched, Alike, Alive
<1>2. \/ r = n \/ r = on_client_close_unix(n, c)
      \/ n.state[c] = "shaking" /\ r = on_ssl_handshook(n, c, does)
      \/ n.state[c] = "open" /\ r = on_client_data(n, c, does)
  BY DEF ClientRead, Alive
<1>3. r = n \/ (Touched(n, r, c) /\ Settled(r, c))
  BY <1>2, CloseSettles, HandshookSettles, DataSettles
<1> HIDE DEF r
<1>4. QED
  BY <1>1, <1>3 DEF Settled, r

(* The connection that was in front is taken from the kernel. *)
Taken(n, m) ==
    /\ m \in ServerType /\ m.backlog = Tail(n.backlog) /\ m.came = n.came
    /\ m.state = n.state /\ m.joins = n.joins /\ m.leaves = n.leaves /\ m.clients = n.clients
    /\ m.socket = n.socket /\ m.edge = n.edge /\ m.stranded = n.stranded
    /\ m.accepting = n.accepting

(* Accepting takes the connection in front. *)
LEMMA TailTakes ==
    ASSUME NEW n \in ServerType, n.backlog # <<>>
    PROVE  Taken(n, [n EXCEPT !.backlog = Tail(@)])
<1> DEFINE b == Tail(n.backlog)
<1>1. b \in Seq(Calls)
  <2>1. n.backlog \in Seq(Calls)
    BY DEF ServerType
  <2>2. QED
    BY <2>1
<1> HIDE DEF b
<1>2. Taken(n, [n EXCEPT !.backlog = b])
  <2>1. [n EXCEPT !.backlog = b] \in ServerType
    BY <1>1 DEF ServerType
  <2>2. QED
    BY <2>1 DEF Taken, ServerType, b
<1>3. QED
  BY <1>2 DEF b

(* A connection that is accepted: what its client's hooks do, and its first read. *)
LEMMA AcceptSettles ==
    ASSUME NEW n \in ServerType, NEW c \in Calls, NEW does,
           n.backlog # <<>>, Known(n, c), n.state[c] = "none"
    PROVE  \E t : /\ Taken(n, t) /\ Touched(t, Accepted(n, c, does), c)
                  /\ Known(Accepted(n, c, does), c) /\ Accepted(n, c, does).state[c] # "none"
<1> DEFINE t == [n EXCEPT !.backlog = Tail(@)]
           m == lwp_server_client_new(t, c)
           d == IF m.on_data THEN [m EXCEPT !.hooked = @ \cup {c}, !.reads = @ \cup {c}] ELSE m
           x == IF n.secure THEN "shaking" ELSE "open"
           j == IF m.secure THEN [d EXCEPT !.reads = @ \cup {c}]
                ELSE Joined(ConnectHook(d, c, does), c)
           r == IF Alive(j, c) THEN ClientRead(j, c, does) ELSE j
<1>1. Taken(n, t) /\ t \in ServerType /\ t.secure = n.secure
  BY TailTakes DEF Taken, ServerType
<1>2. r = Accepted(n, c, does)
  BY DEF Accepted
<1> HIDE DEF t
<1>3. /\ Touched(t, m, c) /\ m.state[c] = (IF t.secure THEN "shaking" ELSE "open")
      /\ m.joins = t.joins /\ m.leaves = t.leaves /\ m.clients = t.clients
      /\ m.secure = t.secure
  <2>1. x \in ServerState
    BY DEF ServerState
  <2>2. m = [t EXCEPT !.state[c] = x]
    BY <1>1 DEF lwp_server_client_new
  <2> HIDE DEF m, x
  <2>3. QED
    BY <1>1, <2>1, <2>2, StateSet DEF x
<1>4. /\ m \in ServerType /\ m.joins[c] = 0 /\ m.leaves[c] = 0 /\ c \notin m.clients
      /\ m.state[c] = IF m.secure THEN "shaking" ELSE "open"
  BY <1>1, <1>3 DEF Touched, Taken, Known
<1> HIDE DEF m
<1>5. /\ Touched(m, d, c) /\ d.state[c] = (IF d.secure THEN "shaking" ELSE "open")
      /\ d.joins[c] = 0 /\ d.leaves[c] = 0 /\ c \notin d.clients /\ d.secure = m.secure
  <2>1. CASE ~m.on_data
    <3>1. d = m
      BY <2>1
    <3>2. Touched(m, m, c)
      BY <1>4 DEF Touched, Alike
    <3> HIDE DEF d
    <3>3. QED
      BY <1>4, <3>1, <3>2
  <2>2. CASE m.on_data
    <3> DEFINE h == m.hooked \cup {c}
               e == m.reads \cup {c}
    <3>1. d = [m EXCEPT !.hooked = h, !.reads = e]
      BY <2>2
    <3>2. h \subseteq Calls /\ e \subseteq Calls
      BY <1>4 DEF ServerType
    <3> HIDE DEF d, h, e
    <3>3. Rehooked(m, d, c)
      BY <1>4, <3>1, <3>2, HooksSet
    <3>4. QED
      BY <1>4, <3>3 DEF Rehooked
  <2>3. QED
    BY <2>1, <2>2
<1>6. d \in ServerType
  BY <1>5 DEF Touched
<1> HIDE DEF d
<1>7. Touched(d, j, c) /\ Known(j, c) /\ j.state[c] # "none"
  <2>1. CASE m.secure
    <3> DEFINE e == d.reads \cup {c}
               o == [d EXCEPT !.hooked = d.hooked, !.reads = e]
    <3>1. j = [d EXCEPT !.reads = e] /\ [d EXCEPT !.reads = e] = o
      BY <2>1, <1>6 DEF ServerType
    <3>2. d.hooked \subseteq Calls /\ e \subseteq Calls
      BY <1>6 DEF ServerType
    <3> HIDE DEF e
    <3>3. Rehooked(d, o, c)
      BY <1>6, <3>2, HooksSet
    <3> HIDE DEF o, j
    <3>4. QED
      BY <1>5, <2>1, <3>1, <3>3 DEF Known, Rehooked
  <2>2. CASE ~m.secure
    <3>1. j = Joined(ConnectHook(d, c, does), c)
      BY <2>2
    <3>2. d.state[c] = "open"
      BY <1>5, <2>2
    <3> HIDE DEF j
    <3>3. Touched(d, j, c) /\ Settled(j, c)
      BY <1>5, <1>6, <3>1, <3>2, HookSettles
    <3>4. QED
      BY <3>3 DEF Settled
  <2>3. QED
    BY <2>1, <2>2
<1>8. j \in ServerType
  BY <1>7 DEF Touched
<1> HIDE DEF j
<1>9. Touched(j, r, c) /\ Known(r, c) /\ r.state[c] # "none"
  <2>1. CASE Alive(j, c)
    BY <1>7, <1>8, <2>1, ReadSettles
  <2>2. CASE ~Alive(j, c)
    BY <1>7, <1>8, <2>2 DEF Touched, Alike
  <2>3. QED
    BY <2>1, <2>2
<1> HIDE DEF r
<1>10. Touched(t, r, c)
  BY <1>3, <1>5, <1>7, <1>9, TouchedTwice
<1>11. QED
  BY <1>1, <1>2, <1>9, <1>10

(* A client of which all is known, and that is not in the kernel any more, leaves the *)
(* server in order.                                                                   *)
LEMMA TouchKeeps ==
    ASSUME NEW n \in ServerType, NEW m, NEW c \in Calls, Waiting(n), Touched(n, m, c),
           c <= n.came, \A i \in 1..Len(n.backlog) : n.backlog[i] # c,
           \A d \in Calls \ {c} : Known(n, d), Known(m, c)
    PROVE  ServerOK(m)
<1>1. \A d \in Calls : Known(m, d)
  BY DEF Touched, Alike, Known
<1>2. n.backlog \in Seq(Calls) /\ n.came \in Nat /\ m \in ServerType
  BY DEF ServerType, Touched
<1>3. CASE m.backlog = <<>>
  <2>1. Len(m.backlog) = 0
    BY <1>3
  <2>2. Waiting(m)
    BY <1>2, <1>3, <2>1, CallsAreNat DEF Waiting, Touched, Alike
  <2>3. QED
    BY <1>1, <1>2, <2>2 DEF ServerOK
<1>4. CASE /\ m.backlog = n.backlog /\ m.socket = n.socket
           /\ m.edge = n.edge /\ m.stranded = n.stranded
  <2>1. \A i \in 1..Len(n.backlog) : n.backlog[i] \in Calls \ {c}
    BY <1>2
  <2>2. \A i \in 1..Len(m.backlog) : m.state[m.backlog[i]] = "none"
    BY <1>4, <2>1 DEF Waiting, Touched, Alike
  <2>3. \A d \in Calls : d > m.came => m.state[d] = "none"
    BY <1>2, CallsAreNat DEF Waiting, Touched, Alike
  <2>4. m.came = n.came /\ m.accepting = n.accepting
    BY DEF Touched
  <2>5. Waiting(m)
    BY <1>4, <2>2, <2>3, <2>4 DEF Waiting
  <2>6. QED
    BY <1>1, <1>2, <2>5 DEF ServerOK
<1>5. QED
  BY <1>3, <1>4 DEF Touched

(* A server of which no client, and at most the socket, has changed. *)
Unchanged(n, m) ==
    /\ m \in ServerType /\ m.came = n.came /\ m.state = n.state /\ m.joins = n.joins
    /\ m.leaves = n.leaves /\ m.clients = n.clients
    /\ \/ m.backlog = <<>>
       \/ /\ m.backlog = n.backlog /\ m.socket = n.socket
          /\ n.edge \/ n.stranded \/ n.accepting => m.edge \/ m.stranded \/ m.accepting

(* A call that changes no client keeps what is known of them. *)
LEMMA UnchangedKeeps ==
    ASSUME NEW n, NEW m, ServerOK(n), Unchanged(n, m)
    PROVE  ServerOK(m)
<1>1. \A d \in Calls : Known(m, d)
  BY DEF Unchanged, Known, ServerOK
<1>2. n \in ServerType /\ m \in ServerType
  BY DEF ServerOK, Unchanged
<1>3. CASE m.backlog = <<>>
  <2>1. Len(m.backlog) = 0
    BY <1>3
  <2>2. Waiting(m)
    BY <1>2, <1>3, <2>1 DEF Waiting, Unchanged, ServerOK
  <2>3. QED
    BY <1>1, <1>2, <2>2 DEF ServerOK
<1>4. CASE /\ m.backlog = n.backlog /\ m.socket = n.socket
           /\ n.edge \/ n.stranded \/ n.accepting => m.edge \/ m.stranded \/ m.accepting
  BY <1>1, <1>2, <1>4 DEF ServerOK, Waiting, Unchanged
<1>5. QED
  BY <1>3, <1>4 DEF Unchanged

(* The loop takes one connection more, or ends. *)
LEMMA AcceptNextKeeps ==
    ASSUME NEW n, NEW does, ServerOK(n), n.accepting
    PROVE  ServerOK(AcceptNext(n, does))
<1> DEFINE r == AcceptNext(n, does)
<1>1. n \in ServerType /\ n.backlog \in Seq(Calls)
  BY DEF ServerOK, ServerType
<1>2. CASE n.socket # "listening" \/ n.backlog = <<>>
  <2>1. n.backlog = <<>>
    BY <1>2 DEF ServerOK, Waiting
  <2>2. r = [n EXCEPT !.accepting = FALSE]
    BY <1>2 DEF AcceptNext
  <2>3. Unchanged(n, r)
    BY <1>1, <2>1, <2>2 DEF Unchanged, ServerType
  <2>4. QED
    BY <2>3, UnchangedKeeps
<1>3. CASE n.socket = "listening" /\ n.backlog # <<>>
  <2> DEFINE c == Head(n.backlog)
             m == Accepted(n, c, does)
  <2>1. /\ c \in Calls /\ c <= n.came /\ Known(n, c) /\ n.state[c] = "none"
        /\ c = n.backlog[1] /\ Len(n.backlog) \in Nat \ {0}
    BY <1>1, <1>3 DEF ServerOK, Waiting
  <2>2. r = IF Alive(m, c) THEN m
            ELSE [m EXCEPT !.stranded = m.backlog # <<>>, !.accepting = FALSE]
    BY <1>3 DEF AcceptNext
  <2> HIDE DEF c
  <2>3. PICK t : /\ Taken(n, t) /\ Touched(t, m, c) /\ Known(m, c)
    BY <1>1, <1>3, <2>1, AcceptSettles
  <2> HIDE DEF m
  <2>4. /\ Len(t.backlog) = Len(n.backlog) - 1
        /\ \A i \in 1..Len(t.backlog) : i + 1 \in 2..Len(n.backlog) /\ t.backlog[i] = n.backlog[i + 1]
    <3>1. t.backlog = Tail(n.backlog)
      BY <2>3 DEF Taken
    <3>2. QED
      BY <1>1, <1>3, <3>1
  <2>5. \A i \in 1..Len(t.backlog) : t.backlog[i] # c
    BY <2>1, <2>4 DEF ServerOK, Waiting
  <2>6. Waiting(t)
    <3>1. t.came <= MaxCalls /\ \A d \in Calls : d > t.came => t.state[d] = "none"
      BY <2>3 DEF Taken, ServerOK, Waiting
    <3>2. \A i \in 1..Len(t.backlog) :
             t.backlog[i] <= t.came /\ t.state[t.backlog[i]] = "none"
      BY <2>3, <2>4 DEF Taken, ServerOK, Waiting
    <3>3. \A i, j \in 1..Len(t.backlog) : t.backlog[i] = t.backlog[j] => i = j
      BY <2>1, <2>4 DEF ServerOK, Waiting
    <3>4. t.socket = "listening" /\ t.accepting
      BY <1>3, <2>3 DEF Taken
    <3>5. QED
      BY <3>1, <3>2, <3>3, <3>4 DEF Waiting
  <2>7. \A d \in Calls : Known(t, d)
    BY <2>3 DEF ServerOK, Taken, Known
  <2>8. ServerOK(m)
    <3>1. t \in ServerType /\ c <= t.came
      BY <2>1, <2>3 DEF Taken
    <3>2. QED
      BY <2>1, <2>3, <2>5, <2>6, <2>7, <3>1, TouchKeeps
  <2>9. CASE Alive(m, c)
    BY <2>2, <2>8, <2>9
  <2>10. CASE ~Alive(m, c)
    <3>1. r = [m EXCEPT !.stranded = m.backlog # <<>>, !.accepting = FALSE]
      BY <2>2, <2>10
    <3>2. m \in ServerType
      BY <2>8 DEF ServerOK
    <3> HIDE DEF r
    <3>3. Unchanged(m, r)
      <4>1. (m.backlog # <<>>) \in BOOLEAN
        OBVIOUS
      <4>2. /\ r \in ServerType /\ r.came = m.came /\ r.state = m.state /\ r.joins = m.joins
            /\ r.leaves = m.leaves /\ r.clients = m.clients /\ r.backlog = m.backlog
            /\ r.socket = m.socket
        BY <3>1, <3>2, <4>1 DEF ServerType
      <4>3. r.stranded = (m.backlog # <<>>)
        BY <3>1, <3>2 DEF ServerType
      <4>4. QED
        BY <4>2, <4>3 DEF Unchanged
    <3>4. QED
      BY <2>8, <3>3, UnchangedKeeps DEF r
  <2>11. QED
    BY <2>9, <2>10
<1>4. QED
  BY <1>2, <1>3

(* A client that is there, and that a step changes. *)
LEMMA ClientKeeps ==
    ASSUME NEW n, NEW m, NEW c \in Calls, ServerOK(n), n.state[c] # "none",
           Touched(n, m, c), Known(m, c)
    PROVE  ServerOK(m)
<1>1. n \in ServerType /\ n.came \in Nat
  BY DEF ServerOK, ServerType
<1>2. c <= n.came
  BY <1>1, CallsAreNat DEF ServerOK, Waiting
<1>3. \A i \in 1..Len(n.backlog) : n.backlog[i] # c
  BY DEF ServerOK, Waiting
<1>4. QED
  BY <1>1, <1>2, <1>3, TouchKeeps DEF ServerOK

(* Each call to the server, and each callback of it, keeps it in order. *)
LEMMA ServerSteps ==
    ASSUME ServerOK(end),
           \/ listen_socket_read_ready \/ lw_server_host_filter \/ lw_server_load_cert_file
           \/ ServerCalls \/ Call \/ ClientReady
    PROVE  ServerOK(end')
<1> DEFINE n == end
<1>0. n \in ServerType /\ n.came \in Nat /\ n.backlog \in Seq(Calls)
  BY DEF ServerOK, ServerType
<1>1. CASE listen_socket_read_ready
  <2>1. CASE end' = [n EXCEPT !.edge = FALSE, !.accepting = TRUE]
    <3>1. Unchanged(n, end')
      BY <1>0, <2>1 DEF Unchanged, ServerType
    <3>2. QED
      BY <3>1, UnchangedKeeps
  <2>2. CASE n.accepting /\ \E does \in Does : end' = AcceptNext(n, does)
    BY <2>2, AcceptNextKeeps
  <2>3. QED
    BY <1>1, <2>1, <2>2 DEF listen_socket_read_ready, Becomes
<1>2. CASE lw_server_host_filter
  <2>1. PICK outcome \in {"none", "deaf", "listening"} :
           end' = [lw_server_unhost(n) EXCEPT !.socket = outcome, !.attempts = @ + 1]
    BY <1>2 DEF lw_server_host_filter, Becomes
  <2>2. end' = [n EXCEPT !.socket = outcome, !.edge = FALSE, !.stranded = FALSE,
                         !.backlog = <<>>, !.attempts = n.attempts + 1]
    BY <1>0, <2>1 DEF lw_server_unhost, ServerType
  <2> DEFINE a == n.attempts + 1
  <2>3. a \in Nat
    <3>1. n.attempts \in Nat
      BY <1>0 DEF ServerType
    <3>2. QED
      BY <3>1
  <2> HIDE DEF a
  <2>4. end' \in ServerType
    BY <1>0, <2>2, <2>3, NothingWaits DEF ServerType, a
  <2>5. /\ end'.came = n.came /\ end'.state = n.state /\ end'.joins = n.joins
        /\ end'.leaves = n.leaves /\ end'.clients = n.clients /\ end'.backlog = <<>>
    BY <1>0, <2>2 DEF ServerType
  <2>6. Unchanged(n, end')
    BY <2>4, <2>5 DEF Unchanged
  <2>7. QED
    BY <2>6, UnchangedKeeps
<1>3. CASE lw_server_load_cert_file
  <2>1. PICK good \in BOOLEAN : end' = [n EXCEPT !.secure = good]
    BY <1>3 DEF lw_server_load_cert_file, Becomes
  <2>2. Unchanged(n, end')
    BY <1>0, <2>1 DEF Unchanged, ServerType
  <2>3. QED
    BY <2>2, UnchangedKeeps
<1>4. CASE ServerCalls
  <2>1. CASE end' = lw_server_unhost(n)
    <3>1. Unchanged(n, end')
      BY <1>0, <2>1, NothingWaits DEF Unchanged, lw_server_unhost, ServerType
    <3>2. QED
      BY <3>1, UnchangedKeeps
  <2>2. CASE \E hook \in BOOLEAN : end' = lw_server_on_data(n, hook)
    <3>1. PICK hook \in BOOLEAN : end' = lw_server_on_data(n, hook)
      BY <2>2
    <3> DEFINE h == IF hook THEN n.hooked ELSE n.hooked \ n.clients
    <3>2. h \in SUBSET Calls
      BY <1>0 DEF ServerType
    <3>3. end' = [n EXCEPT !.on_data = hook, !.hooked = h]
      BY <3>1 DEF lw_server_on_data
    <3> HIDE DEF h
    <3>4. Unchanged(n, end')
      BY <1>0, <3>2, <3>3 DEF Unchanged, ServerType
    <3>5. QED
      BY <3>4, UnchangedKeeps
  <2>3. CASE end' = lw_server_delete(n)
    <3>1. end' = [n EXCEPT !.socket = "none", !.edge = FALSE, !.stranded = FALSE,
                           !.backlog = <<>>, !.deleted = TRUE]
      BY <1>0, <2>3 DEF lw_server_delete, lw_server_unhost, ServerType
    <3>2. Unchanged(n, end')
      BY <1>0, <3>1, NothingWaits DEF Unchanged, ServerType
    <3>3. QED
      BY <3>2, UnchangedKeeps
  <2>4. CASE \E c \in n.clients : end' = on_client_close_unix(n, c)
    <3>1. PICK c \in n.clients : end' = on_client_close_unix(n, c)
      BY <2>4
    <3>2. c \in Calls
      BY <1>0 DEF ServerType
    <3>3. Known(n, c) /\ n.state[c] = "open"
      BY <3>2 DEF ServerOK, Known
    <3>4. Touched(n, end', c) /\ Settled(end', c)
      BY <1>0, <3>1, <3>2, <3>3, CloseSettles DEF Alive
    <3>5. QED
      BY <3>2, <3>3, <3>4, ClientKeeps DEF Settled
  <2>5. QED
    BY <1>4, <2>1, <2>2, <2>3, <2>4 DEF ServerCalls, Becomes
<1>5. CASE Call
  <2> DEFINE k == n.came + 1
             b == Append(n.backlog, k)
  <2>1. k \in Calls /\ k <= MaxCalls /\ n.came < k
    <3>1. n.came < MaxCalls
      BY <1>5 DEF Call
    <3>2. QED
      BY <1>0, <3>1, CallsAreNat DEF Calls
  <2>2. /\ b \in Seq(Calls) /\ Len(b) = Len(n.backlog) + 1 /\ Len(n.backlog) \in Nat
        /\ b[Len(b)] = k /\ \A i \in 1..Len(n.backlog) : b[i] = n.backlog[i]
        /\ \A i \in 1..Len(b) : i \in 1..Len(n.backlog) \/ i = Len(b)
    BY <1>0, <2>1
  <2>3. end' = [n EXCEPT !.came = k, !.backlog = b, !.edge = TRUE, !.stranded = FALSE]
    BY <1>5 DEF Call, Becomes
  <2>4. n.state[k] = "none" /\ \A i \in 1..Len(n.backlog) : n.backlog[i] <= n.came
    BY <2>1 DEF ServerOK, Waiting
  <2> HIDE DEF b
  <2>5. k \in Nat
    BY <1>0
  <2> HIDE DEF k
  <2>6. /\ end' \in ServerType /\ end'.state = n.state /\ end'.joins = n.joins
        /\ end'.leaves = n.leaves /\ end'.clients = n.clients /\ end'.came = k
        /\ end'.backlog = b /\ end'.edge = TRUE /\ end'.socket = "listening"
    BY <1>0, <1>5, <2>2, <2>3, <2>5 DEF ServerType, Call
  <2> DEFINE m == end'
  <2> HIDE DEF m
  <2>7. \A i \in 1..Len(b) : b[i] <= k /\ n.state[b[i]] = "none"
    <3>1. \A i \in 1..Len(n.backlog) : n.backlog[i] \in Calls
      BY <1>0
    <3>2. QED
      <4>1. \A i \in 1..Len(n.backlog) : b[i] <= k /\ n.state[b[i]] = "none"
        <5>1. \A i \in 1..Len(n.backlog) : n.state[n.backlog[i]] = "none"
          BY DEF ServerOK, Waiting
        <5>2. \A i \in 1..Len(n.backlog) : n.backlog[i] \in Nat /\ n.backlog[i] <= n.came
          BY <2>4, <3>1, CallsAreNat
        <5>3. \A i \in 1..Len(n.backlog) : n.backlog[i] <= k
          BY <1>0, <2>1, <2>5, <5>2
        <5>4. QED
          BY <2>2, <5>1, <5>3
      <4>2. b[Len(b)] <= k /\ n.state[b[Len(b)]] = "none"
        BY <2>2, <2>4, <2>5
      <4>3. QED
        BY <2>2, <4>1, <4>2
  <2>8. \A i, j \in 1..Len(b) : b[i] = b[j] => i = j
    <3>1. \A i \in 1..Len(n.backlog) : n.backlog[i] \in Nat /\ n.backlog[i] # k
      <4>1. \A i \in 1..Len(n.backlog) : n.backlog[i] \in Calls
        BY <1>0
      <4>2. \A i \in 1..Len(n.backlog) : n.backlog[i] \in Nat /\ n.backlog[i] <= n.came
        BY <2>4, <4>1, CallsAreNat
      <4>3. QED
        BY <1>0, <2>1, <2>5, <4>2
    <3>2. QED
      BY <2>2, <3>1 DEF ServerOK, Waiting
  <2>9. \A c \in Calls : c > k => n.state[c] = "none"
    BY <1>0, <2>1, <2>5, CallsAreNat DEF ServerOK, Waiting
  <2>10. Waiting(end')
    BY <2>1, <2>6, <2>7, <2>8, <2>9 DEF Waiting
  <2>11. \A c \in Calls : Known(end', c)
    BY <2>6 DEF ServerOK, Known
  <2>12. QED
    BY <2>6, <2>10, <2>11 DEF ServerOK
<1>6. CASE ClientReady
  <2>1. PICK c \in Calls, does \in {"data", "refuse", "reject", "ends"} :
           Alive(n, c) /\ end' = ClientRead(n, c, does)
    BY <1>6 DEF ClientReady, Becomes
  <2>2. Known(n, c) /\ n.state[c] # "none"
    BY <2>1 DEF ServerOK, Alive
  <2>3. Touched(n, end', c) /\ Known(end', c)
    BY <1>0, <2>1, <2>2, ReadSettles
  <2>4. QED
    BY <2>2, <2>3, ClientKeeps
<1>7. QED
  BY <1>1, <1>2, <1>3, <1>4, <1>5, <1>6

-----------------------------------------------------------------------------
(***************************************************************************)
(* A client socket.                                                        *)
(***************************************************************************)
ClientType ==
    [connecting : BOOLEAN, socket : {"none", "connecting", "answered", "failed", "open"},
     stuck : BOOLEAN, freed : BOOLEAN, on_data : BOOLEAN, joins : Nat, leaves : Nat,
     unasked : Nat, attempts : Nat, wrong : SUBSET {"client freed"}]

(* What the user was told, but for the closes it asked for in vain. *)
Counted(n) == n.joins = n.leaves - n.unasked + (IF lw_client_connected(n) THEN 1 ELSE 0)

(* A connect that failed unnoticed has no socket to wait for. *)
ClientOK(n) ==
    /\ n \in ClientType /\ Counted(n)
    /\ n.connecting <=> Underway(n) \/ n.stuck
    /\ n.stuck => n.socket = "none"

(* A close is told of, and ends a connection if there is one. *)
LEMMA CloseCounts ==
    ASSUME NEW n, ClientOK(n)
    PROVE  ClientOK(on_close(n)) /\ on_close(n).freed = n.freed
<1> DEFINE s == IF n.socket = "open" THEN "none" ELSE n.socket
           u == IF n.socket = "open" THEN n.unasked ELSE n.unasked + 1
           l == n.leaves + 1
           r == [n EXCEPT !.socket = s, !.leaves = l, !.unasked = u]
<1>1. on_close(n) = r
  BY DEF on_close, lw_client_connected
<1>2. n \in ClientType
  BY DEF ClientOK
<1>3. n.leaves \in Nat /\ n.unasked \in Nat /\ n.joins \in Nat
  BY <1>2 DEF ClientType
<1>4. l \in Nat /\ u \in Nat /\ n.joins = l - u + (IF s = "open" THEN 1 ELSE 0)
  BY <1>3 DEF ClientOK, Counted, lw_client_connected
<1>5. s \in {"none", "connecting", "answered", "failed"} /\ (n.socket # "open" => s = n.socket)
      /\ (n.socket = "open" => s = "none")
  BY <1>2 DEF ClientType
<1> HIDE DEF s, u, l
<1>6. r \in ClientType
  BY <1>2, <1>4, <1>5 DEF ClientType
<1>7. /\ r.socket = s /\ r.leaves = l /\ r.unasked = u /\ r.joins = n.joins
      /\ r.connecting = n.connecting /\ r.stuck = n.stuck /\ r.freed = n.freed
  BY <1>2 DEF ClientType
<1> HIDE DEF r
<1>8. Counted(r)
  BY <1>4, <1>7 DEF Counted, lw_client_connected
<1>9. ClientOK(r)
  BY <1>5, <1>6, <1>7, <1>8 DEF ClientOK, Underway
<1>10. QED
  BY <1>1, <1>7, <1>9

(* Every step of a client socket, whatever the connect's outcome and the hooks. *)
LEMMA ClientSteps ==
    ASSUME ClientOK(end),
           \/ lw_client_connect_addr \/ ConnectEnds \/ connect_completed \/ ClientCalls
           \/ on_stream_data
    PROVE  ClientOK(end')
<1> DEFINE n == end
           m == end'
<1>1. /\ n \in ClientType /\ n.leaves \in Nat /\ n.unasked \in Nat /\ n.joins \in Nat
      /\ n.attempts \in Nat
  BY DEF ClientOK, ClientType
<1>2. CASE lw_client_connect_addr
  <2>1. PICK outcome \in Outcomes :
           /\ m = Attempted([n EXCEPT !.attempts = @ + 1], outcome)
           /\ n.socket # "open" /\ ~n.connecting
    BY <1>2 DEF lw_client_connect_addr, Becomes, lw_client_connected
  <2> DEFINE a == n.attempts + 1
             k == [n EXCEPT !.attempts = a]
  <2>2. a \in Nat
    BY <1>1
  <2> HIDE DEF a
  <2>3. k \in ClientType /\ k.socket = n.socket /\ k.joins = n.joins /\ k.leaves = n.leaves
        /\ k.unasked = n.unasked /\ k.connecting = n.connecting /\ k.stuck = n.stuck
    BY <1>1, <2>2 DEF ClientType
  <2>4. m = Attempted(k, outcome)
    BY <2>1 DEF a
  <2> HIDE DEF k
  <2>5. n.socket = "none" /\ ~n.stuck
    BY <1>1, <2>1 DEF ClientOK, Underway, ClientType
  <2>6. CASE outcome = "refused"
    <3>1. m = k
      BY <2>4, <2>6 DEF Attempted
    <3>2. QED
      BY <2>3, <3>1 DEF ClientOK, Counted, lw_client_connected, Underway
  <2>7. CASE outcome = "connecting"
    <3>1. m = [k EXCEPT !.connecting = TRUE, !.socket = "connecting"]
      BY <2>4, <2>7 DEF Attempted
    <3>2. m \in ClientType /\ m.socket = "connecting" /\ m.joins = n.joins /\ m.leaves = n.leaves
          /\ m.unasked = n.unasked /\ m.connecting = TRUE /\ m.stuck = n.stuck
      BY <2>3, <3>1 DEF ClientType
    <3> HIDE DEF m
    <3>3. QED
      BY <2>5, <3>2 DEF ClientOK, Counted, lw_client_connected, Underway, m
  <2>8. CASE outcome \notin {"refused", "connecting"}
    <3>1. m = [k EXCEPT !.connecting = TRUE, !.stuck = TRUE]
      BY <2>4, <2>8 DEF Attempted
    <3>2. m \in ClientType /\ m.socket = "none" /\ m.joins = n.joins /\ m.leaves = n.leaves
          /\ m.unasked = n.unasked /\ m.connecting = TRUE /\ m.stuck = TRUE
      BY <2>3, <2>5, <3>1 DEF ClientType
    <3> HIDE DEF m
    <3>3. QED
      BY <2>5, <3>2 DEF ClientOK, Counted, lw_client_connected, Underway, m
  <2>9. QED
    BY <2>6, <2>7, <2>8
<1>3. CASE ConnectEnds
  <2>1. PICK outcome \in {"answered", "failed"} :
           m = [n EXCEPT !.socket = outcome] /\ n.socket = "connecting"
    BY <1>3 DEF ConnectEnds, Becomes
  <2>2. m \in ClientType /\ m.socket = outcome /\ m.joins = n.joins /\ m.leaves = n.leaves
        /\ m.unasked = n.unasked /\ m.connecting = n.connecting /\ m.stuck = n.stuck
    BY <1>1, <2>1 DEF ClientType
  <2> HIDE DEF m
  <2>3. QED
    BY <2>1, <2>2 DEF ClientOK, Counted, lw_client_connected, Underway, m
<1>4. CASE connect_completed
  <2> DEFINE f == Unfit(n, "client freed", n.freed)
  <2>1. PICK does \in {"nothing", "close", "ends"} :
           /\ n.socket \in {"answered", "failed"}
           /\ m = IF f.socket = "failed" \/ f.freed THEN connect_failed(f)
                  ELSE on_connect([f EXCEPT !.socket = "open", !.connecting = FALSE], does)
    BY <1>4 DEF connect_completed, Becomes
  <2>2. f \in ClientType /\ f.socket = n.socket /\ f.joins = n.joins /\ f.leaves = n.leaves
        /\ f.unasked = n.unasked /\ f.connecting = n.connecting /\ f.stuck = n.stuck
    <3>1. CASE n.freed
      <4> DEFINE w == n.wrong \cup {"client freed"}
      <4>1. w \in SUBSET {"client freed"} /\ f = [n EXCEPT !.wrong = w]
        BY <1>1, <3>1 DEF ClientType, Unfit
      <4> HIDE DEF f, w
      <4>2. QED
        BY <1>1, <4>1 DEF ClientType
    <3>2. CASE ~n.freed
      BY <1>1, <3>2 DEF Unfit
    <3>3. QED
      BY <3>1, <3>2
  <2> HIDE DEF f
  <2>3. ~f.stuck /\ f.joins = f.leaves - f.unasked /\ f.joins \in Nat /\ f.leaves \in Nat
        /\ f.unasked \in Nat
    BY <1>1, <2>1, <2>2 DEF ClientOK, Counted, lw_client_connected
  <2>4. CASE m = connect_failed(f)
    <3>1. m \in ClientType /\ m.socket = "none" /\ m.joins = f.joins /\ m.leaves = f.leaves
          /\ m.unasked = f.unasked /\ m.connecting = FALSE /\ m.stuck = f.stuck
      BY <2>2, <2>4 DEF ClientType, connect_failed
    <3> HIDE DEF m
    <3>2. QED
      BY <2>3, <3>1 DEF ClientOK, Counted, lw_client_connected, Underway, m
  <2>5. CASE m = on_connect([f EXCEPT !.socket = "open", !.connecting = FALSE], does)
    <3> DEFINE k == [f EXCEPT !.socket = "open", !.connecting = FALSE]
               j == k.joins + 1
               o == [k EXCEPT !.joins = j]
    <3>1. m = o \/ m = on_close(o)
      BY <2>5 DEF on_connect
    <3>2. k \in ClientType /\ k.socket = "open" /\ k.joins = f.joins /\ k.leaves = f.leaves
          /\ k.unasked = f.unasked /\ k.connecting = FALSE /\ k.stuck = f.stuck
      BY <2>2 DEF ClientType
    <3> HIDE DEF k
    <3>3. j \in Nat /\ j = f.leaves - f.unasked + 1
      BY <2>3, <3>2
    <3> HIDE DEF j
    <3>4. o \in ClientType /\ o.socket = "open" /\ o.joins = j /\ o.leaves = f.leaves
          /\ o.unasked = f.unasked /\ o.connecting = FALSE /\ o.stuck = f.stuck
      BY <3>2, <3>3 DEF ClientType
    <3> HIDE DEF o
    <3>5. ClientOK(o)
      BY <2>3, <3>3, <3>4 DEF ClientOK, Counted, lw_client_connected, Underway
    <3>6. QED
      BY <3>1, <3>5, CloseCounts
  <2>6. QED
    BY <2>1, <2>4, <2>5
<1>5. CASE ClientCalls
  <2>1. CASE m = lw_client_on_data
    <3>1. m \in ClientType /\ m.socket = n.socket /\ m.joins = n.joins /\ m.leaves = n.leaves
          /\ m.unasked = n.unasked /\ m.connecting = n.connecting /\ m.stuck = n.stuck
      BY <1>1, <2>1 DEF ClientType, lw_client_on_data
    <3> HIDE DEF m
    <3>2. QED
      BY <3>1 DEF ClientOK, Counted, lw_client_connected, Underway, m
  <2>2. CASE m = lw_client_delete
    <3> DEFINE k == on_close(n)
    <3>1. ClientOK(k) /\ m = [k EXCEPT !.freed = TRUE]
      BY <2>2, CloseCounts DEF lw_client_delete
    <3> HIDE DEF k
    <3>2. k \in ClientType
      BY <3>1 DEF ClientOK
    <3>3. m \in ClientType /\ m.socket = k.socket /\ m.joins = k.joins /\ m.leaves = k.leaves
          /\ m.unasked = k.unasked /\ m.connecting = k.connecting /\ m.stuck = k.stuck
      BY <3>1, <3>2 DEF ClientType
    <3> HIDE DEF m
    <3>4. QED
      BY <3>1, <3>3 DEF ClientOK, Counted, lw_client_connected, Underway, m
  <2>3. QED
    BY <1>5, <2>1, <2>2, CloseCounts DEF ClientCalls, Becomes
<1>6. CASE on_stream_data
  BY <1>6, CloseCounts DEF on_stream_data, Becomes
<1>7. QED
  BY <1>2, <1>3, <1>4, <1>5, <1>6

-----------------------------------------------------------------------------
(***************************************************************************)
(* A UDP socket of the Windows build.                                      *)
(***************************************************************************)
UdpType ==
    [hosting : BOOLEAN, kernel : Nat, queue : [Results -> Nat], receives_posted : Nat,
     sends : Nat, writes_posted : Nat, short : BOOLEAN, lost : BOOLEAN,
     deleted : BOOLEAN, freed : BOOLEAN, came : Nat, attempts : Nat, wrong : SUBSET {}]

(* A receive that was posted is in the kernel or in the queue, or is the one whose *)
(* completion runs ("seen" is 1); a write that was posted is underway or lost.     *)
Held(n, seen) ==
    /\ n \in UdpType
    /\ n.receives_posted = n.kernel + Queue(n) + seen
    /\ n.receives_posted <= Ideal
    /\ n.sends <= n.writes_posted /\ (n.lost <=> n.sends < n.writes_posted)
    /\ ~n.hosting => n.kernel = 0
    /\ n.hosting /\ ~n.short => n.receives_posted = Ideal

(* A deleted object is there while it is referred to, and does not host. *)
Lives(n) ==
    /\ n.freed <=> References(n) = 0
    /\ n.deleted /\ ~n.freed => ~n.hosting

UdpOK(n) == Held(n, 0) /\ Lives(n)

(* Some receives are to be pending. *)
LEMMA IdealIsNat == Ideal \in Nat /\ Ideal > 0
  BY EndpointAssumption

(* The fields of a UDP socket, each of its type. *)
LEMMA HeldFields ==
    ASSUME NEW n \in UdpType
    PROVE  /\ n.kernel \in Nat /\ n.receives_posted \in Nat /\ n.sends \in Nat
           /\ n.writes_posted \in Nat /\ n.came \in Nat /\ n.attempts \in Nat
           /\ n.queue \in [Results -> Nat] /\ Queue(n) \in Nat
           /\ n.hosting \in BOOLEAN /\ n.short \in BOOLEAN /\ n.lost \in BOOLEAN
           /\ n.deleted \in BOOLEAN /\ n.freed \in BOOLEAN
<1>1. n.queue \in [Results -> Nat]
  BY DEF UdpType
<1>2. n.queue["aborted"] \in Nat /\ n.queue["peer"] \in Nat /\ n.queue["stranger"] \in Nat
  BY <1>1 DEF Results
<1>3. Queue(n) \in Nat
  BY <1>2 DEF Queue
<1>4. QED
  BY <1>1, <1>3 DEF UdpType

(* One result more, or less, of the pump's queue. *)
LEMMA QueueSet ==
    ASSUME NEW n \in UdpType, NEW q, NEW r \in Results, NEW x \in Int,
           q[r] = n.queue[r] + x, \A o \in Results \ {r} : q[o] = n.queue[o]
    PROVE  q["aborted"] + q["peer"] + q["stranger"] = Queue(n) + x
<1>1. n.queue \in [Results -> Nat]
  BY DEF UdpType
<1>2. n.queue["aborted"] \in Nat /\ n.queue["peer"] \in Nat /\ n.queue["stranger"] \in Nat
  BY <1>1 DEF Results
<1>3. CASE r = "aborted"
  BY <1>1, <1>2, <1>3 DEF Queue, Results
<1>4. CASE r = "peer"
  BY <1>1, <1>2, <1>4 DEF Queue, Results
<1>5. CASE r = "stranger"
  BY <1>1, <1>2, <1>5 DEF Queue, Results
<1>6. QED
  BY <1>3, <1>4, <1>5 DEF Results

(* Receives are topped up, as far as they can be. *)
LEMMA PostHolds ==
    ASSUME NEW n \in UdpType, NEW seen \in Nat, NEW can \in Nat,
           n.receives_posted = n.kernel + Queue(n) + seen, n.receives_posted <= Ideal,
           n.sends <= n.writes_posted, n.lost <=> n.sends < n.writes_posted,
           ~n.hosting => n.kernel = 0
    PROVE  LET m == post_receives(n, can)
           IN  /\ Held(m, seen) /\ m.deleted = n.deleted /\ m.freed = n.freed
               /\ m.hosting = n.hosting /\ m.receives_posted >= n.receives_posted
               /\ m.writes_posted = n.writes_posted /\ m.receives_posted \in Nat
<1> DEFINE need == IF n.receives_posted < Ideal THEN Ideal - n.receives_posted ELSE 0
           got == IF ~n.hosting THEN 0 ELSE IF can < need THEN can ELSE need
           k == n.kernel + got
           p == n.receives_posted + got
           s == n.hosting /\ got < need
           m == [n EXCEPT !.kernel = k, !.receives_posted = p, !.short = s]
<1>1. m = post_receives(n, can)
  BY DEF post_receives
<1>2. need \in Nat /\ need = Ideal - n.receives_posted
  BY HeldFields, IdealIsNat
<1> HIDE DEF need
<1>3. got \in Nat /\ got <= need /\ (~n.hosting => got = 0)
  BY <1>2
<1> HIDE DEF got
<1>4. /\ k \in Nat /\ p \in Nat /\ p = k + Queue(n) + seen /\ p <= Ideal
      /\ p >= n.receives_posted
  BY <1>2, <1>3, HeldFields, IdealIsNat
<1>5. n.hosting /\ ~s => p = Ideal
  BY <1>2, <1>3, HeldFields, IdealIsNat
<1>6. ~n.hosting => k = 0
  BY <1>3
<1>7. s \in BOOLEAN
  BY HeldFields
<1> HIDE DEF k, p, s
<1>8. m \in UdpType
  BY <1>4, <1>7 DEF UdpType
<1>9. /\ m.kernel = k /\ m.receives_posted = p /\ m.short = s /\ m.queue = n.queue
      /\ m.hosting = n.hosting /\ m.sends = n.sends /\ m.writes_posted = n.writes_posted
      /\ m.lost = n.lost /\ m.deleted = n.deleted /\ m.freed = n.freed
  BY DEF UdpType
<1> HIDE DEF m
<1>10. Queue(m) = Queue(n)
  BY <1>9 DEF Queue
<1>11. Held(m, seen)
  BY <1>4, <1>5, <1>6, <1>8, <1>9, <1>10 DEF Held
<1>12. QED
  BY <1>1, <1>4, <1>9, <1>11

(* unhost moves what the kernel had to the queue. *)
LEMMA UnhostHolds ==
    ASSUME NEW n, NEW seen \in Nat, Held(n, seen)
    PROVE  LET m == lw_udp_unhost_windows(n)
           IN  /\ Held(m, seen) /\ m.deleted = n.deleted /\ m.freed = n.freed
               /\ ~m.hosting /\ m.receives_posted = n.receives_posted
               /\ m.writes_posted = n.writes_posted /\ m.attempts = n.attempts
<1> DEFINE q == [n.queue EXCEPT !["aborted"] = n.queue["aborted"] + n.kernel]
           m == [n EXCEPT !.hosting = FALSE, !.kernel = 0, !.short = FALSE, !.queue = q]
<1>1. m = lw_udp_unhost_windows(n)
  BY DEF lw_udp_unhost_windows
<1>2. n \in UdpType
  BY DEF Held
<1>3. n.kernel \in Nat /\ n.queue \in [Results -> Nat]
  BY <1>2, HeldFields
<1>4. n.queue["aborted"] + n.kernel \in Nat /\ "aborted" \in Results
  BY <1>3 DEF Results
<1>5. q \in [Results -> Nat]
  BY <1>3, <1>4
<1>6. q["aborted"] + q["peer"] + q["stranger"] = Queue(n) + n.kernel
  <2>1. /\ q["aborted"] = n.queue["aborted"] + n.kernel
        /\ q["peer"] = n.queue["peer"] /\ q["stranger"] = n.queue["stranger"]
    BY <1>3 DEF Results
  <2>2. n.queue["aborted"] \in Nat /\ n.queue["peer"] \in Nat /\ n.queue["stranger"] \in Nat
    BY <1>3 DEF Results
  <2> HIDE DEF q
  <2>3. QED
    BY <1>3, <2>1, <2>2 DEF Queue
<1> HIDE DEF q
<1>7. m \in UdpType
  BY <1>2, <1>5 DEF UdpType
<1>8. /\ m.kernel = 0 /\ m.receives_posted = n.receives_posted /\ m.queue = q
      /\ m.hosting = FALSE /\ m.sends = n.sends /\ m.writes_posted = n.writes_posted
      /\ m.lost = n.lost /\ m.deleted = n.deleted /\ m.freed = n.freed
      /\ m.attempts = n.attempts
  BY <1>2 DEF UdpType
<1> HIDE DEF m
<1>9. Queue(m) = Queue(n) + n.kernel
  BY <1>6, <1>8 DEF Queue
<1>10. m.receives_posted = m.kernel + Queue(m) + seen
  <2>1. n.receives_posted = n.kernel + Queue(n) + seen /\ Queue(n) \in Nat
    BY <1>2, HeldFields DEF Held
  <2>2. QED
    BY <1>3, <1>8, <1>9, <2>1
<1>11. Held(m, seen)
  BY <1>7, <1>8, <1>10 DEF Held
<1>12. QED
  BY <1>1, <1>8, <1>11

(* An object that was not deleted lives. *)
LEMMA UndeletedLives ==
    ASSUME NEW n, NEW seen, Held(n, seen), ~n.deleted, ~n.freed
    PROVE  Lives(n)
<1>1. n.receives_posted \in Nat /\ n.writes_posted \in Nat
  BY HeldFields DEF Held
<1>2. References(n) # 0
  BY <1>1 DEF References
<1>3. QED
  BY <1>2 DEF Lives

(* Nobody frees what was not deleted. *)
LEMMA UndeletedUnfreed ==
    ASSUME NEW n, NEW seen, Held(n, seen), Lives(n), ~n.deleted
    PROVE  ~n.freed
<1>1. n.receives_posted \in Nat /\ n.writes_posted \in Nat
  BY HeldFields DEF Held
<1>2. References(n) # 0
  BY <1>1 DEF References
<1>3. QED
  BY <1>2 DEF Lives

(* A reference let go of: the object goes with the last. *)
LEMMA ReleaseFrees ==
    ASSUME NEW n \in UdpType
    PROVE  LET m == Released(n)
           IN  /\ m \in UdpType /\ (m.freed <=> References(m) = 0)
               /\ m.kernel = n.kernel /\ m.receives_posted = n.receives_posted
               /\ m.queue = n.queue /\ m.sends = n.sends /\ m.writes_posted = n.writes_posted
               /\ m.short = n.short /\ m.lost = n.lost /\ m.hosting = n.hosting
               /\ m.deleted = n.deleted /\ Queue(m) = Queue(n)
<1> DEFINE f == References(n) = 0
           m == [n EXCEPT !.freed = f]
<1>1. m = Released(n)
  BY DEF Released
<1>2. f \in BOOLEAN
  OBVIOUS
<1>3. /\ m \in UdpType /\ m.freed = f
      /\ m.kernel = n.kernel /\ m.receives_posted = n.receives_posted
      /\ m.queue = n.queue /\ m.sends = n.sends /\ m.writes_posted = n.writes_posted
      /\ m.short = n.short /\ m.lost = n.lost /\ m.hosting = n.hosting
      /\ m.deleted = n.deleted
  <2> HIDE DEF f
  <2>1. QED
    BY <1>2 DEF UdpType
<1> HIDE DEF m
<1>4. References(m) = References(n) /\ Queue(m) = Queue(n)
  BY <1>3 DEF References, Queue
<1>5. QED
  BY <1>1, <1>3, <1>4

(* Hosting anew: what an earlier socket had is still to be seen. *)
LEMMA HostKeeps ==
    ASSUME NEW n, NEW seen \in Nat, NEW can \in Nat, Held(n, seen), Lives(n), ~n.deleted
    PROVE  LET m == lw_udp_host_windows(n, can) IN Held(m, seen) /\ Lives(m)
<1> DEFINE u == lw_udp_unhost_windows(n)
           h == [u EXCEPT !.hosting = TRUE]
           m == post_receives(h, can)
<1>1. Held(u, seen) /\ u.deleted = n.deleted /\ u.freed = n.freed
  BY UnhostHolds
<1>2. m = lw_udp_host_windows(n, can)
  BY DEF lw_udp_host_windows
<1> HIDE DEF u
<1>3. u \in UdpType
  BY <1>1 DEF Held
<1>4. /\ h \in UdpType /\ h.kernel = u.kernel /\ h.receives_posted = u.receives_posted
      /\ h.queue = u.queue /\ h.sends = u.sends /\ h.writes_posted = u.writes_posted
      /\ h.lost = u.lost /\ h.hosting = TRUE /\ h.deleted = u.deleted /\ h.freed = u.freed
  BY <1>3 DEF UdpType
<1> HIDE DEF h
<1>5. Queue(h) = Queue(u)
  BY <1>4 DEF Queue
<1>6. Held(m, seen) /\ m.deleted = h.deleted /\ m.freed = h.freed
  BY <1>1, <1>4, <1>5, PostHolds DEF Held
<1> HIDE DEF m
<1>7. ~n.freed
  BY UndeletedUnfreed
<1>8. Lives(m)
  BY <1>1, <1>4, <1>6, <1>7, UndeletedLives
<1>9. QED
  BY <1>2, <1>6, <1>8

(* A deleted socket is freed when nothing of it is pending. *)
LEMMA DeleteKeeps ==
    ASSUME NEW n, NEW seen \in Nat, Held(n, seen), Lives(n)
    PROVE  LET m == lw_udp_delete_windows(n) IN Held(m, seen) /\ Lives(m)
<1> DEFINE d == [n EXCEPT !.deleted = TRUE]
           m == Released(d)
           r == IF m.freed \/ ~m.hosting THEN m ELSE lw_udp_unhost_windows(m)
<1>1. r = lw_udp_delete_windows(n)
  BY DEF lw_udp_delete_windows
<1>2. n \in UdpType
  BY DEF Held
<1>3. /\ d \in UdpType /\ d.deleted = TRUE
      /\ d.kernel = n.kernel /\ d.receives_posted = n.receives_posted
      /\ d.queue = n.queue /\ d.sends = n.sends /\ d.writes_posted = n.writes_posted
      /\ d.short = n.short /\ d.lost = n.lost /\ d.hosting = n.hosting
  BY <1>2 DEF UdpType
<1> HIDE DEF d
<1>4. Queue(d) = Queue(n)
  BY <1>3 DEF Queue
<1>5. /\ m \in UdpType /\ (m.freed <=> References(m) = 0)
      /\ m.kernel = n.kernel /\ m.receives_posted = n.receives_posted
      /\ m.sends = n.sends /\ m.writes_posted = n.writes_posted
      /\ m.short = n.short /\ m.lost = n.lost /\ m.hosting = n.hosting
      /\ m.deleted = TRUE /\ Queue(m) = Queue(n)
  BY <1>3, <1>4, ReleaseFrees
<1> HIDE DEF m
<1>6. Held(m, seen)
  BY <1>5 DEF Held
<1>7. CASE m.freed \/ ~m.hosting
  <2>1. Lives(m)
    BY <1>5, <1>7 DEF Lives
  <2>2. QED
    BY <1>1, <1>6, <1>7, <2>1
<1>8. CASE ~m.freed /\ m.hosting
  <2> DEFINE u == lw_udp_unhost_windows(m)
  <2>1. /\ Held(u, seen) /\ u.deleted = m.deleted /\ u.freed = m.freed /\ ~u.hosting
        /\ u.receives_posted = m.receives_posted /\ u.writes_posted = m.writes_posted
    BY <1>6, UnhostHolds
  <2>2. r = u
    BY <1>8
  <2> HIDE DEF u, r
  <2>3. References(u) = References(m)
    BY <2>1 DEF References
  <2>4. Lives(u)
    BY <1>5, <2>1, <2>3 DEF Lives
  <2>5. QED
    BY <1>1, <2>1, <2>2, <2>4
<1>9. QED
  BY <1>7, <1>8

(* A send is underway, or lost for good. *)
LEMMA SendKeeps ==
    ASSUME NEW n, NEW seen \in Nat, NEW fails \in BOOLEAN, Held(n, seen), Lives(n), ~n.deleted
    PROVE  LET m == lw_udp_send_windows(n, fails) IN Held(m, seen) /\ Lives(m)
<1> DEFINE m == lw_udp_send_windows(n, fails)
           w == n.writes_posted + 1
           s == n.sends + 1
<1>1. n \in UdpType /\ n.sends \in Nat /\ n.writes_posted \in Nat
  BY HeldFields DEF Held
<1>2. w \in Nat /\ s \in Nat /\ n.sends < w /\ n.sends <= w /\ s <= w
      /\ (n.lost <=> s < w)
  BY <1>1 DEF Held
<1>3. CASE m = [n EXCEPT !.writes_posted = w, !.lost = TRUE]
  <2> HIDE DEF w
  <2>1. /\ m \in UdpType /\ m.kernel = n.kernel /\ m.receives_posted = n.receives_posted
        /\ m.queue = n.queue /\ m.sends = n.sends /\ m.writes_posted = w
        /\ m.short = n.short /\ m.lost = TRUE /\ m.hosting = n.hosting
        /\ m.deleted = n.deleted /\ m.freed = n.freed
    BY <1>1, <1>2, <1>3 DEF UdpType
  <2> HIDE DEF m
  <2>2. Queue(m) = Queue(n)
    BY <2>1 DEF Queue
  <2>3. Held(m, seen)
    BY <1>2, <2>1, <2>2 DEF Held
  <2>4. Lives(m)
    BY <2>1, <2>3, UndeletedLives, UndeletedUnfreed
  <2>5. QED
    BY <2>3, <2>4 DEF m
<1>4. CASE m = [n EXCEPT !.writes_posted = w, !.sends = s]
  <2> HIDE DEF w, s
  <2>1. /\ m \in UdpType /\ m.kernel = n.kernel /\ m.receives_posted = n.receives_posted
        /\ m.queue = n.queue /\ m.sends = s /\ m.writes_posted = w
        /\ m.short = n.short /\ m.lost = n.lost /\ m.hosting = n.hosting
        /\ m.deleted = n.deleted /\ m.freed = n.freed
    BY <1>1, <1>2, <1>4 DEF UdpType
  <2> HIDE DEF m
  <2>2. Queue(m) = Queue(n)
    BY <2>1 DEF Queue
  <2>3. Held(m, seen)
    BY <1>2, <2>1, <2>2 DEF Held
  <2>4. Lives(m)
    BY <2>1, <2>3, UndeletedLives, UndeletedUnfreed
  <2>5. QED
    BY <2>3, <2>4 DEF m
<1>5. QED
  BY <1>3, <1>4 DEF lw_udp_send_windows

(* A call from outside, or from the data hook of a receive that is still counted. *)
LEMMA CallKeeps ==
    ASSUME NEW n, NEW seen \in Nat, NEW does, NEW can \in Nat, Held(n, seen), Lives(n),
           does \in Permitted(n)
    PROVE  LET m == WinUdpCall(n, does, can) IN Held(m, seen) /\ Lives(m)
<1> DEFINE m == WinUdpCall(n, does, can)
           a == n.attempts + 1
           k == [n EXCEPT !.attempts = a]
<1>1. does # "nothing" => ~n.deleted
  BY DEF Permitted
<1>2. n \in UdpType /\ n.attempts \in Nat
  BY HeldFields DEF Held
<1>3. a \in Nat
  BY <1>2
<1>4. Held(k, seen) /\ Lives(k) /\ k.deleted = n.deleted
  <2> HIDE DEF a
  <2>1. /\ k \in UdpType /\ k.kernel = n.kernel /\ k.receives_posted = n.receives_posted
        /\ k.queue = n.queue /\ k.sends = n.sends /\ k.writes_posted = n.writes_posted
        /\ k.short = n.short /\ k.lost = n.lost /\ k.hosting = n.hosting
        /\ k.deleted = n.deleted /\ k.freed = n.freed
    BY <1>2, <1>3 DEF UdpType
  <2> HIDE DEF k
  <2>2. Queue(k) = Queue(n) /\ References(k) = References(n)
    BY <2>1 DEF Queue, References
  <2>3. QED
    BY <2>1, <2>2 DEF Held, Lives
<1> HIDE DEF k
<1>5. CASE does = "host"
  <2>1. m = lw_udp_host_windows(k, can)
    BY <1>5 DEF WinUdpCall, k
  <2> HIDE DEF m
  <2>2. QED
    BY <1>1, <1>4, <1>5, <2>1, HostKeeps DEF m
<1>6. CASE does = "unhost"
  <2>1. m = IF n.hosting THEN lw_udp_unhost_windows(n) ELSE n
    BY <1>6 DEF WinUdpCall
  <2>2. ~n.deleted /\ ~n.freed
    BY <1>1, <1>6, UndeletedUnfreed
  <2>3. CASE n.hosting
    <3>1. m = lw_udp_unhost_windows(n)
      BY <2>1, <2>3
    <3> HIDE DEF m
    <3>2. Held(m, seen) /\ m.deleted = n.deleted /\ m.freed = n.freed
      BY <3>1, UnhostHolds
    <3>3. Lives(m)
      BY <2>2, <3>2, UndeletedLives
    <3>4. QED
      BY <3>2, <3>3 DEF m
  <2>4. CASE ~n.hosting
    BY <2>1, <2>4
  <2>5. QED
    BY <2>3, <2>4
<1>7. CASE does = "delete"
  <2>1. m = lw_udp_delete_windows(n)
    BY <1>7 DEF WinUdpCall
  <2> HIDE DEF m
  <2>2. QED
    BY <2>1, DeleteKeeps DEF m
<1>8. CASE does \in {"send", "misfire"}
  <2>1. PICK fails \in BOOLEAN : m = lw_udp_send_windows(k, fails)
    BY <1>8 DEF WinUdpCall, k
  <2> HIDE DEF m
  <2>2. ~k.deleted
    BY <1>1, <1>4, <1>8
  <2>3. QED
    BY <1>4, <2>1, <2>2, SendKeeps DEF m
<1>9. CASE does = "nothing"
  <2>1. m = n
    BY <1>9 DEF WinUdpCall
  <2>2. QED
    BY <2>1
<1>10. QED
  BY <1>5, <1>6, <1>7, <1>8, <1>9 DEF Permitted

(* A receive that was seen is not counted any more, and others take its place. *)
LEMMA SeenKeeps ==
    ASSUME NEW n, NEW can \in Nat, Held(n, 1), Lives(n)
    PROVE  LET c == read_completed(n)
               m == IF c.freed THEN c ELSE post_receives(c, can)
           IN  UdpOK(m)
<1> DEFINE p == n.receives_posted - 1
           k == [n EXCEPT !.receives_posted = p]
           c == Released(k)
           m == IF c.freed THEN c ELSE post_receives(c, can)
<1>1. c = read_completed(n)
  BY DEF read_completed
<1>2. /\ n \in UdpType /\ n.kernel \in Nat /\ Queue(n) \in Nat /\ n.receives_posted \in Nat
      /\ n.writes_posted \in Nat
  BY HeldFields DEF Held
<1>3. p \in Nat /\ p = n.kernel + Queue(n) + 0 /\ p <= Ideal
  BY <1>2, IdealIsNat DEF Held
<1>4. n.deleted => ~n.hosting
  <2>1. n.receives_posted >= 1
    BY <1>2 DEF Held
  <2>2. References(n) # 0
    BY <1>2, <2>1 DEF References
  <2>3. QED
    BY <2>2 DEF Lives
<1> HIDE DEF p
<1>5. /\ k \in UdpType /\ k.kernel = n.kernel /\ k.receives_posted = p
      /\ k.queue = n.queue /\ k.sends = n.sends /\ k.writes_posted = n.writes_posted
      /\ k.lost = n.lost /\ k.hosting = n.hosting /\ k.deleted = n.deleted
  BY <1>2, <1>3 DEF UdpType
<1> HIDE DEF k
<1>6. Queue(k) = Queue(n)
  BY <1>5 DEF Queue
<1>7. /\ c \in UdpType /\ (c.freed <=> References(c) = 0)
      /\ c.kernel = n.kernel /\ c.receives_posted = p /\ Queue(c) = Queue(n)
      /\ c.sends = n.sends /\ c.writes_posted = n.writes_posted /\ c.lost = n.lost
      /\ c.hosting = n.hosting /\ c.deleted = n.deleted
  BY <1>5, <1>6, ReleaseFrees
<1> HIDE DEF c
<1>8. /\ c.receives_posted = c.kernel + Queue(c) + 0 /\ c.receives_posted <= Ideal
      /\ c.sends <= c.writes_posted /\ (c.lost <=> c.sends < c.writes_posted)
      /\ (~c.hosting => c.kernel = 0)
  BY <1>3, <1>7 DEF Held
<1>9. CASE c.freed
  <2>1. c.deleted
    BY <1>2, <1>3, <1>7, <1>9 DEF References
  <2>2. Held(c, 0) /\ Lives(c)
    BY <1>4, <1>7, <1>8, <1>9, <2>1 DEF Held, Lives
  <2>3. QED
    BY <1>1, <1>9, <2>2 DEF UdpOK
<1>10. CASE ~c.freed
  <2> DEFINE o == post_receives(c, can)
  <2>1. /\ Held(o, 0) /\ o.deleted = c.deleted /\ o.freed = c.freed
        /\ o.hosting = c.hosting /\ o.receives_posted >= c.receives_posted
        /\ o.writes_posted = c.writes_posted /\ o.receives_posted \in Nat
    BY <1>7, <1>8, PostHolds
  <2> HIDE DEF o
  <2>2. References(o) # 0
    <3> DEFINE x == c.receives_posted
               y == o.receives_posted
               w == c.writes_posted
               g == IF c.deleted THEN 0 ELSE 1
    <3>1. x \in Nat /\ y \in Nat /\ w \in Nat /\ y >= x /\ g \in Nat
      BY <1>2, <1>3, <1>7, <2>1
    <3>2. References(c) = g + x + w /\ References(o) = g + y + w
      BY <2>1 DEF References
    <3>3. References(c) # 0
      BY <1>7, <1>10
    <3> HIDE DEF x, y, w, g
    <3>4. QED
      BY <3>1, <3>2, <3>3
  <2>3. Lives(o)
    BY <1>4, <1>7, <1>10, <2>1, <2>2 DEF Lives
  <2>4. QED
    BY <1>1, <1>10, <2>1, <2>3 DEF UdpOK, o
<1>11. QED
  BY <1>9, <1>10

(* Each call to the UDP socket, and each completion, keeps what it holds. *)
LEMMA WinUdpSteps ==
    ASSUME UdpOK(end),
           udp_receive_completed \/ udp_send_completed \/ WinUdpCalls \/ Datagram
    PROVE  UdpOK(end')
<1> DEFINE n == end
           m == end'
<1>1. /\ n \in UdpType /\ n.kernel \in Nat /\ Queue(n) \in Nat /\ n.receives_posted \in Nat
      /\ n.sends \in Nat /\ n.writes_posted \in Nat /\ n.came \in Nat
      /\ n.queue \in [Results -> Nat]
  BY HeldFields DEF UdpOK, Held
<1>2. CASE udp_receive_completed
  <2>1. PICK r \in Results, can \in 0..Ideal, does \in Permitted(end) :
           /\ n.queue[r] > 0
           /\ LET c == read_completed(WinUdpCall([n EXCEPT !.queue[r] = @ - 1], does, can))
              IN  m = IF c.freed THEN c ELSE post_receives(c, can)
    <3>1. "nothing" \in Permitted(end)
      BY DEF Permitted
    <3>2. QED
      BY <1>2, <3>1 DEF udp_receive_completed, Becomes
  <2> DEFINE q == [n.queue EXCEPT ![r] = n.queue[r] - 1]
             k == [n EXCEPT !.queue = q]
             o == WinUdpCall(k, does, can)
  <2>2. q \in [Results -> Nat]
    BY <1>1, <2>1
  <2>3. q["aborted"] + q["peer"] + q["stranger"] = Queue(n) - 1
    <3>1. n.queue[r] \in Nat
      BY <1>1, <2>1
    <3>2. q[r] = n.queue[r] + (0 - 1) /\ \A x \in Results \ {r} : q[x] = n.queue[x]
      BY <1>1, <2>1, <3>1
    <3>3. 0 - 1 \in Int
      OBVIOUS
    <3> HIDE DEF q
    <3>4. q["aborted"] + q["peer"] + q["stranger"] = Queue(n) + (0 - 1)
      BY <1>1, <2>1, <3>2, <3>3, QueueSet
    <3>5. QED
      BY <1>1, <3>4
  <2> HIDE DEF q
  <2>4. /\ k \in UdpType /\ k.kernel = n.kernel /\ k.receives_posted = n.receives_posted
        /\ k.queue = q /\ k.sends = n.sends /\ k.writes_posted = n.writes_posted
        /\ k.short = n.short /\ k.lost = n.lost /\ k.hosting = n.hosting
        /\ k.deleted = n.deleted /\ k.freed = n.freed /\ k.attempts = n.attempts
    BY <1>1, <2>2 DEF UdpType
  <2>5. m = LET c == read_completed(o) IN IF c.freed THEN c ELSE post_receives(c, can)
    BY <2>1 DEF q
  <2> HIDE DEF k
  <2>6. Queue(k) = Queue(n) - 1 /\ References(k) = References(n)
    BY <2>3, <2>4 DEF Queue, References
  <2>7. k.receives_posted = k.kernel + Queue(k) + 1
    <3>1. n.receives_posted = n.kernel + Queue(n) + 0
      BY DEF UdpOK, Held
    <3>2. QED
      BY <1>1, <2>4, <2>6, <3>1
  <2>8. Held(k, 1) /\ Lives(k)
    BY <2>4, <2>6, <2>7 DEF UdpOK, Held, Lives
  <2>9. does \in Permitted(k)
    BY <2>4 DEF Permitted
  <2>10. can \in Nat
    BY IdealIsNat
  <2>11. Held(o, 1) /\ Lives(o)
    BY <2>8, <2>9, <2>10, CallKeeps
  <2> HIDE DEF o, m
  <2>12. UdpOK(m)
    BY <2>5, <2>10, <2>11, SeenKeeps
  <2>13. QED
    BY <2>12 DEF m
<1>3. CASE udp_send_completed
  <2> DEFINE w == n.writes_posted - 1
             s == n.sends - 1
             k == [n EXCEPT !.writes_posted = w, !.sends = s]
  <2>1. m = Released(k) /\ ~n.freed /\ n.sends > 0
    BY <1>3 DEF udp_send_completed, Becomes, write_completed
  <2>2. w \in Nat /\ s \in Nat /\ s <= w /\ (n.lost <=> s < w)
    BY <1>1, <2>1 DEF UdpOK, Held
  <2> HIDE DEF w, s
  <2>3. /\ k \in UdpType /\ k.kernel = n.kernel /\ k.receives_posted = n.receives_posted
        /\ k.queue = n.queue /\ k.sends = s /\ k.writes_posted = w
        /\ k.short = n.short /\ k.lost = n.lost /\ k.hosting = n.hosting
        /\ k.deleted = n.deleted
    BY <1>1, <2>2 DEF UdpType
  <2> HIDE DEF k, m
  <2>4. Queue(k) = Queue(n)
    BY <2>3 DEF Queue
  <2>5. /\ m \in UdpType /\ (m.freed <=> References(m) = 0)
        /\ m.kernel = n.kernel /\ m.receives_posted = n.receives_posted
        /\ m.sends = s /\ m.writes_posted = w
        /\ m.short = n.short /\ m.lost = n.lost /\ m.hosting = n.hosting
        /\ m.deleted = n.deleted /\ Queue(m) = Queue(n)
    BY <2>1, <2>3, <2>4, ReleaseFrees
  <2>6. Held(m, 0)
    BY <2>2, <2>5 DEF UdpOK, Held
  <2>7. Lives(m)
    BY <2>1, <2>5 DEF UdpOK, Lives
  <2>8. QED
    BY <2>6, <2>7 DEF UdpOK, m
<1>4. CASE WinUdpCalls
  <2>1. PICK does \in Permitted(n), can \in 0..Ideal : m = WinUdpCall(n, does, can)
    BY <1>4 DEF WinUdpCalls, Becomes
  <2>2. can \in Nat /\ 0 \in Nat
    BY IdealIsNat
  <2>3. QED
    BY <2>1, <2>2, CallKeeps DEF UdpOK
<1>5. CASE Datagram
  <2>1. PICK r \in {"peer", "stranger"} :
           /\ n.kernel > 0
           /\ m = [n EXCEPT !.came = @ + 1, !.kernel = @ - 1, !.queue[r] = @ + 1]
    BY <1>5 DEF Datagram, Becomes
  <2> DEFINE q == [n.queue EXCEPT ![r] = n.queue[r] + 1]
             k == n.kernel - 1
             a == n.came + 1
  <2>2. r \in Results
    BY DEF Results
  <2>3. q \in [Results -> Nat] /\ k \in Nat /\ a \in Nat
    BY <1>1, <2>1, <2>2
  <2>4. q["aborted"] + q["peer"] + q["stranger"] = Queue(n) + 1
    <3>1. q[r] = n.queue[r] + 1 /\ \A x \in Results \ {r} : q[x] = n.queue[x]
      BY <1>1, <2>2
    <3> HIDE DEF q
    <3>2. QED
      BY <1>1, <2>2, <3>1, QueueSet
  <2>5. m = [n EXCEPT !.came = a, !.kernel = k, !.queue = q]
    BY <2>1
  <2>6. k + (Queue(n) + 1) = n.kernel + Queue(n)
    BY <1>1
  <2> HIDE DEF q, k, a
  <2>7. /\ m \in UdpType /\ m.kernel = k /\ m.receives_posted = n.receives_posted
        /\ m.queue = q /\ m.sends = n.sends /\ m.writes_posted = n.writes_posted
        /\ m.short = n.short /\ m.lost = n.lost /\ m.hosting = n.hosting
        /\ m.deleted = n.deleted /\ m.freed = n.freed
    BY <1>1, <2>3, <2>5 DEF UdpType
  <2> HIDE DEF m
  <2>8. Queue(m) = Queue(n) + 1 /\ References(m) = References(n)
    BY <2>4, <2>7 DEF Queue, References
  <2>9. n.hosting
    BY <1>1, <2>1 DEF UdpOK, Held
  <2>10. m.receives_posted = m.kernel + Queue(m) + 0
    <3>1. n.receives_posted = n.kernel + Queue(n) + 0
      BY DEF UdpOK, Held
    <3>2. QED
      BY <1>1, <2>3, <2>6, <2>7, <2>8, <3>1
  <2>11. UdpOK(m)
    BY <2>7, <2>8, <2>9, <2>10 DEF UdpOK, Held, Lives
  <2>12. QED
    BY <2>11 DEF m
<1>6. QED
  BY <1>2, <1>3, <1>4, <1>5

-----------------------------------------------------------------------------
(***************************************************************************)
(* A UDP socket of the Unix build.                                         *)
(***************************************************************************)
UnixUdpType ==
    [hosting : BOOLEAN, backlog : Seq({"peer", "stranger"}), edge : BOOLEAN,
     stranded : BOOLEAN, reading : BOOLEAN, deleted : BOOLEAN, came : Nat, attempts : Nat,
     wrong : SUBSET {"udp freed"}]

(* Only a socket has datagrams, and of those that nobody has read the pump is to *)
(* be told, or the loop that reads them goes on, or a stranger's ended it.       *)
UnixUdpOK(n) ==
    /\ n \in UnixUdpType
    /\ ~n.hosting => n.backlog = <<>>
    /\ n.backlog # <<>> => n.edge \/ n.stranded \/ n.reading

(* No datagrams are a backlog. *)
LEMMA NothingCame == <<>> \in Seq({"peer", "stranger"})
  OBVIOUS

(* Whatever ends the hosting leaves nothing to wait for. *)
LEMMA UnixUnhosted ==
    ASSUME NEW n \in UnixUdpType
    PROVE  UnixUdpOK(lw_udp_unhost_unix(n))
<1> DEFINE m == lw_udp_unhost_unix(n)
<1>1. m \in UnixUdpType /\ m.hosting = FALSE /\ m.backlog = <<>>
  BY NothingCame DEF UnixUdpType, lw_udp_unhost_unix
<1> HIDE DEF m
<1>2. QED
  BY <1>1 DEF UnixUdpOK, m

(* One turn of the loop that reads, whatever the data hook does. *)
LEMMA ReadNextKeeps ==
    ASSUME NEW n, NEW does, UnixUdpOK(n), n.reading
    PROVE  UnixUdpOK(ReadNext(n, does))
<1> DEFINE r == ReadNext(n, does)
           b == Tail(n.backlog)
           m == [n EXCEPT !.backlog = b]
<1>1. n \in UnixUdpType /\ n.backlog \in Seq({"peer", "stranger"})
  BY DEF UnixUdpOK, UnixUdpType
<1>2. CASE ~n.hosting \/ n.backlog = <<>>
  <2>1. r = [n EXCEPT !.reading = FALSE] /\ n.backlog = <<>>
    BY <1>2 DEF ReadNext, UnixUdpOK
  <2>2. r \in UnixUdpType /\ r.backlog = <<>>
    BY <1>1, <2>1 DEF UnixUdpType
  <2>3. QED
    BY <2>2 DEF UnixUdpOK
<1>3. CASE n.hosting /\ n.backlog # <<>>
  <2>1. b \in Seq({"peer", "stranger"})
    BY <1>1, <1>3
  <2>2. r = IF Head(n.backlog) = "stranger"
            THEN [m EXCEPT !.stranded = m.backlog # <<>>, !.reading = FALSE]
            ELSE CASE does = "unhost" -> lw_udp_unhost_unix(m)
                   [] does = "delete" -> Unfit(lw_udp_delete_unix(m), "udp freed", TRUE)
                   [] OTHER -> m
    BY <1>3 DEF ReadNext
  <2> HIDE DEF b
  <2>3. m \in UnixUdpType /\ m.hosting = n.hosting /\ m.reading = n.reading
    BY <1>1, <2>1 DEF UnixUdpType
  <2> HIDE DEF m, r
  <2>4. CASE Head(n.backlog) = "stranger"
    <3> DEFINE s == m.backlog # <<>>
    <3>1. s \in BOOLEAN
      OBVIOUS
    <3>2. r = [m EXCEPT !.stranded = s, !.reading = FALSE]
      BY <2>2, <2>4
    <3> HIDE DEF s
    <3>3. r \in UnixUdpType /\ r.stranded = s /\ r.backlog = m.backlog /\ r.hosting = n.hosting
      BY <2>3, <3>1, <3>2 DEF UnixUdpType
    <3>4. UnixUdpOK(r)
      BY <1>3, <3>3 DEF UnixUdpOK, s
    <3>5. QED
      BY <3>4 DEF r
  <2>5. CASE Head(n.backlog) # "stranger" /\ does = "unhost"
    <3>1. r = lw_udp_unhost_unix(m)
      BY <2>2, <2>5
    <3>2. QED
      BY <2>3, <3>1, UnixUnhosted DEF r
  <2>6. CASE Head(n.backlog) # "stranger" /\ does = "delete"
    <3> DEFINE u == lw_udp_unhost_unix(m)
               d == [u EXCEPT !.deleted = TRUE]
               w == d.wrong \cup {"udp freed"}
    <3>1. UnixUdpOK(u)
      BY <2>3, UnixUnhosted
    <3>2. r = [d EXCEPT !.wrong = w]
      BY <2>2, <2>6 DEF Unfit, lw_udp_delete_unix
    <3>3. u.hosting = FALSE /\ u.backlog = <<>>
      BY <2>3 DEF lw_udp_unhost_unix, UnixUdpType
    <3> HIDE DEF u
    <3>4. d \in UnixUdpType /\ d.hosting = FALSE /\ d.backlog = <<>>
      BY <3>1, <3>3 DEF UnixUdpOK, UnixUdpType
    <3> HIDE DEF d
    <3>5. w \in SUBSET {"udp freed"}
      BY <3>4 DEF UnixUdpType
    <3> HIDE DEF w
    <3>6. r \in UnixUdpType /\ r.hosting = FALSE /\ r.backlog = <<>>
      BY <3>2, <3>4, <3>5 DEF UnixUdpType
    <3>7. QED
      BY <3>6 DEF UnixUdpOK, r
  <2>7. CASE Head(n.backlog) # "stranger" /\ does \notin {"unhost", "delete"}
    <3>1. r = m
      BY <2>2, <2>7
    <3>2. QED
      BY <1>3, <2>3, <3>1 DEF UnixUdpOK, r
  <2>8. QED
    BY <2>4, <2>5, <2>6, <2>7
<1>4. QED
  BY <1>2, <1>3

(* Every step of a Unix UDP socket. *)
LEMMA UnixUdpSteps ==
    ASSUME UnixUdpOK(end), read_ready \/ UnixUdpCalls \/ DatagramComes
    PROVE  UnixUdpOK(end')
<1> DEFINE n == end
           m == end'
<1>1. /\ n \in UnixUdpType /\ n.backlog \in Seq({"peer", "stranger"}) /\ n.came \in Nat
      /\ n.attempts \in Nat
  BY DEF UnixUdpOK, UnixUdpType
<1>2. CASE read_ready
  <2>1. CASE m = [n EXCEPT !.edge = FALSE, !.reading = TRUE]
    <3>1. m \in UnixUdpType /\ m.hosting = n.hosting /\ m.backlog = n.backlog /\ m.reading = TRUE
      BY <1>1, <2>1 DEF UnixUdpType
    <3> HIDE DEF m
    <3>2. QED
      BY <3>1 DEF UnixUdpOK, m
  <2>2. CASE n.reading /\ \E does \in {"nothing", "unhost", "delete"} : m = ReadNext(n, does)
    BY <2>2, ReadNextKeeps
  <2>3. QED
    BY <1>2, <2>1, <2>2 DEF read_ready, Becomes
<1>3. CASE UnixUdpCalls
  <2> DEFINE u == lw_udp_unhost_unix(n)
  <2>1. UnixUdpOK(u) /\ u.backlog = <<>> /\ u.attempts = n.attempts
    BY <1>1, UnixUnhosted DEF lw_udp_unhost_unix, UnixUdpType
  <2>2. \/ m = u \/ m = [u EXCEPT !.deleted = TRUE]
        \/ m = [u EXCEPT !.hosting = TRUE, !.attempts = u.attempts + 1]
    BY <1>3 DEF UnixUdpCalls, Becomes, lw_udp_host_unix, lw_udp_delete_unix
  <2> HIDE DEF u
  <2>3. m \in UnixUdpType /\ m.backlog = <<>>
    <3> DEFINE a == u.attempts + 1
    <3>1. a \in Nat /\ u \in UnixUdpType
      BY <1>1, <2>1 DEF UnixUdpOK
    <3>2. \/ m = u \/ m = [u EXCEPT !.deleted = TRUE]
          \/ m = [u EXCEPT !.hosting = TRUE, !.attempts = a]
      BY <2>2
    <3> HIDE DEF a, m
    <3>3. QED
      BY <2>1, <3>1, <3>2 DEF UnixUdpType
  <2> HIDE DEF m
  <2>4. QED
    BY <2>3 DEF UnixUdpOK, m
<1>4. CASE DatagramComes
  <2>1. PICK from \in {"peer", "stranger"} :
           /\ n.hosting
           /\ m = [n EXCEPT !.came = @ + 1, !.backlog = Append(@, from),
                            !.edge = TRUE, !.stranded = FALSE]
    BY <1>4 DEF DatagramComes, Becomes
  <2> DEFINE a == n.came + 1
             b == Append(n.backlog, from)
  <2>2. a \in Nat /\ b \in Seq({"peer", "stranger"})
    BY <1>1
  <2>3. m = [n EXCEPT !.came = a, !.backlog = b, !.edge = TRUE, !.stranded = FALSE]
    BY <2>1
  <2> HIDE DEF a, b
  <2>4. m \in UnixUdpType /\ m.hosting = n.hosting /\ m.edge = TRUE
    BY <1>1, <2>2, <2>3 DEF UnixUdpType
  <2> HIDE DEF m
  <2>5. QED
    BY <2>1, <2>4 DEF UnixUdpOK, m
<1>5. QED
  BY <1>2, <1>3, <1>4

-----------------------------------------------------------------------------
(***************************************************************************)
(* Secure sockets.                                                         *)
(***************************************************************************)
Piece == [message : Nat, last : BOOLEAN]

(* The records among the first messages, those after the handshake. *)
RecordsOf(t) == IF t < 2 THEN <<>> ELSE [i \in 1..t - 2 |-> i + 2]

(* What the peer sends is pieces, two to a message. *)
LEMMA WirePieces ==
    /\ Wire \in Seq(Piece) /\ Len(Wire) = 2 * MaxCalls
    /\ \A i \in 1..2 * MaxCalls : Wire[i] = [message |-> (i + 1) \div 2, last |-> i % 2 = 0]
<1>1. MaxCalls \in Nat /\ 2 * MaxCalls \in Nat
  BY CallsAreNat
<1>2. \A i \in 1..2 * MaxCalls : Wire[i] = [message |-> (i + 1) \div 2, last |-> i % 2 = 0]
  BY DEF Wire, Pieces
<1>3. \A i \in 1..2 * MaxCalls : (i + 1) \div 2 \in Nat
  BY <1>1
<1>4. \A i \in 1..2 * MaxCalls : Wire[i] \in Piece
  <2> SUFFICES ASSUME NEW i \in 1..2 * MaxCalls PROVE Wire[i] \in Piece
    OBVIOUS
  <2> DEFINE x == (i + 1) \div 2
             y == i % 2 = 0
  <2>1. x \in Nat /\ y \in BOOLEAN /\ Wire[i] = [message |-> x, last |-> y]
    BY <1>2, <1>3
  <2> HIDE DEF x, y
  <2>2. QED
    BY <2>1 DEF Piece
<1>5. Wire = [i \in 1..2 * MaxCalls |-> Wire[i]]
  BY DEF Wire, Pieces
<1>6. Wire \in [1..2 * MaxCalls -> Piece]
  BY <1>4, <1>5
<1>7. Wire \in Seq(Piece) /\ Len(Wire) = 2 * MaxCalls
  <2> HIDE DEF Wire
  <2>1. DOMAIN Wire = 1..2 * MaxCalls
    BY <1>6
  <2>2. Wire \in Seq(Piece)
    BY <1>1, <1>6, SeqDef
  <2>3. Len(Wire) \in Nat /\ DOMAIN Wire = 1..Len(Wire)
    BY <2>2, LenProperties
  <2>4. QED
    BY <1>1, <2>1, <2>2, <2>3
<1>8. QED
  BY <1>2, <1>7

(* A chunk is what the peer sent, from where the last one ended. *)
LEMMA ChunkCut ==
    ASSUME NEW a \in Nat, NEW k \in Nat, k >= 1, a + k <= 2 * MaxCalls
    PROVE  LET c == SubSeq(Wire, a + 1, a + k)
           IN  c \in Seq(Piece) /\ Len(c) = k /\ \A i \in 1..k : c[i] = Wire[a + i]
<1> DEFINE x == a + 1
           y == a + k
           c == SubSeq(Wire, x, y)
<1>1. x \in Int /\ y \in Int /\ x <= y /\ y - x + 1 = k
  OBVIOUS
<1>2. \A i \in x..y : Wire[i] \in Piece
  <2>1. x..y \subseteq 1..2 * MaxCalls
    BY CallsAreNat
  <2>2. \A i \in 1..Len(Wire) : Wire[i] \in Piece
    BY WirePieces, ElementOfSeq
  <2>3. QED
    BY <2>1, <2>2, WirePieces
<1>3. \A i \in 1..k : x + i - 1 = a + i
  OBVIOUS
<1>4. c = SubSeq(Wire, x, y)
  OBVIOUS
<1> HIDE DEF x, y, c
<1>5. /\ c \in Seq(Piece) /\ Len(c) = (IF x <= y THEN y - x + 1 ELSE 0)
      /\ \A i \in 1..y - x + 1 : c[i] = Wire[x + i - 1]
  BY <1>1, <1>2, <1>4, SubSeqProperties
<1>6. c \in Seq(Piece) /\ Len(c) = k /\ \A i \in 1..k : c[i] = Wire[a + i]
  BY <1>1, <1>3, <1>5
<1>7. QED
  BY <1>6 DEF c, x, y

(* The first piece of a message. *)
LEMMA FirstPiece ==
    ASSUME NEW t \in Nat, 2 * t + 1 \in 1..2 * MaxCalls
    PROVE  Wire[2 * t + 1].message = t + 1 /\ Wire[2 * t + 1].last = FALSE
<1> DEFINE k == 2 * t + 1
<1>1. (k + 1) \div 2 = t + 1 /\ (k % 2 = 0) = FALSE /\ k \in 1..2 * MaxCalls
  OBVIOUS
<1> HIDE DEF k
<1>2. Wire[k] = [message |-> (k + 1) \div 2, last |-> k % 2 = 0]
  BY <1>1, WirePieces
<1>3. Wire[k] = [message |-> t + 1, last |-> FALSE]
  BY <1>1, <1>2
<1>4. QED
  BY <1>3 DEF k

(* One message more is one record more, after the handshake. *)
LEMMA RecordsGrow ==
    ASSUME NEW t \in Nat, t >= 2
    PROVE  Append(RecordsOf(t), t + 1) = RecordsOf(t + 1)
<1> DEFINE a == RecordsOf(t)
           b == RecordsOf(t + 1)
           k == t - 2
<1>1. k \in Nat /\ t = k + 2
  OBVIOUS
<1>2. a = [i \in 1..k |-> i + 2] /\ b = [i \in 1..k + 1 |-> i + 2]
  <2>1. t + 1 - 2 = k + 1 /\ ~(t < 2) /\ ~(t + 1 < 2)
    OBVIOUS
  <2>2. QED
    BY <2>1 DEF RecordsOf
<1> HIDE DEF a, b, k
<1>3. a \in Seq(Nat) /\ Len(a) = k /\ \A i \in 1..k : a[i] = i + 2
  BY <1>1, <1>2
<1>4. b \in Seq(Nat) /\ Len(b) = k + 1 /\ \A i \in 1..k + 1 : b[i] = i + 2
  BY <1>1, <1>2
<1>5. Append(a, t + 1) = b
  BY <1>1, <1>3, <1>4
<1>6. QED
  BY <1>5 DEF a, b

(* A message of the handshake is no record. *)
LEMMA HandshakeDelivers ==
    ASSUME NEW t \in Nat, ~(t >= 2)
    PROVE  RecordsOf(t + 1) = RecordsOf(t)
<1>1. CASE t = 0
  BY <1>1 DEF RecordsOf
<1>2. CASE t = 1
  <2> DEFINE z == [i \in 1..0 |-> i + 2]
  <2>1. RecordsOf(t + 1) = z /\ RecordsOf(t) = <<>>
    BY <1>2 DEF RecordsOf
  <2>2. z = <<>>
    OBVIOUS
  <2>3. QED
    BY <2>1, <2>2
<1>3. QED
  BY <1>1, <1>2

(* Records are numbers of messages. *)
LEMMA RecordsTyped ==
    ASSUME NEW t \in Nat
    PROVE  RecordsOf(t) \in Seq(Nat)
<1>1. CASE t < 2
  BY <1>1 DEF RecordsOf
<1>2. CASE t >= 2
  <2> DEFINE k == t - 2
  <2>1. k \in Nat /\ RecordsOf(t) = [i \in 1..k |-> i + 2]
    BY <1>2 DEF RecordsOf
  <2> HIDE DEF k
  <2>2. QED
    BY <2>1
<1>3. QED
  BY <1>1, <1>2

(* What a secure client of OpenSSL is: of what came, so many messages were taken, *)
(* and the rest waits to be read; the handshake is over with its two; what came   *)
(* whole after that was delivered.                                                *)
OpenSSLType ==
    [shook : BOOLEAN, bio : Seq(Piece), up : Nat, sent : Nat, waiting : BOOLEAN,
     delivered : Seq(Nat), at : Nat, pumping : BOOLEAN, dead : BOOLEAN, freed : BOOLEAN,
     leaked : BOOLEAN, wrong : SUBSET {}]

Tracks(n, t) ==
    /\ n.at <= 2 * MaxCalls /\ Len(n.bio) = n.at - 2 * t
    /\ \A i \in 1..Len(n.bio) : n.bio[i] = Wire[2 * t + i]
    /\ n.shook <=> t >= 2
    /\ n.delivered = RecordsOf(t)

OpenSSLOK(n) ==
    /\ n \in OpenSSLType
    /\ \E t \in Nat : Tracks(n, t)
    /\ ~n.dead /\ n.up > 0 => n.waiting
    /\ ~n.dead => ~n.freed /\ ~n.leaked
    /\ ~Pumping(n) => /\ ~n.dead => Len(n.bio) < 2
                      /\ n.dead => (n.freed <=> ~n.leaked)
    /\ Pumping(n) => ~n.freed
    /\ n.leaked => n.pumping

(* Nothing of it has changed that a step of the pump may change. *)
Steady(n, m) ==
    /\ m \in OpenSSLType /\ m.at = n.at /\ m.bio = n.bio /\ m.shook = n.shook
    /\ m.delivered = n.delivered

(* How far it got does not depend on the rest of its state. *)
LEMMA SteadyTracks ==
    ASSUME NEW n, NEW m, NEW t, Tracks(n, t), Steady(n, m)
    PROVE  Tracks(m, t)
  BY DEF Tracks, Steady

(* Deleting it frees it, unless the pump is to. *)
LEMMA DeleteSteady ==
    ASSUME NEW n \in OpenSSLType
    PROVE  LET m == lwp_sslclient_delete(n)
           IN  /\ Steady(n, m) /\ m.dead /\ m.pumping = n.pumping /\ m.leaked = n.leaked
               /\ m.freed = IF n.pumping THEN n.freed ELSE TRUE
<1> DEFINE m == lwp_sslclient_delete(n)
<1>1. CASE n.pumping
  <2>1. m = [n EXCEPT !.dead = TRUE]
    BY <1>1 DEF lwp_sslclient_delete
  <2>2. QED
    BY <1>1, <2>1 DEF Steady, OpenSSLType
<1>2. CASE ~n.pumping
  <2>1. m = [n EXCEPT !.dead = TRUE, !.freed = TRUE]
    BY <1>2 DEF lwp_sslclient_delete
  <2>2. QED
    BY <1>2, <2>1 DEF Steady, OpenSSLType
<1>3. QED
  BY <1>1, <1>2

(* What is queued is written, or waits to be tried again. *)
LEMMA WriteSteady ==
    ASSUME NEW n \in OpenSSLType, NEW wants \in BOOLEAN, ~n.dead
    PROVE  LET m == upstream_sink_data(n, wants)
           IN  /\ Steady(n, m) /\ m.dead = n.dead /\ m.pumping = n.pumping
               /\ m.leaked = n.leaked /\ m.freed = n.freed /\ (m.up > 0 => m.waiting)
<1> DEFINE m == upstream_sink_data(n, wants)
           s == n.sent + n.up
<1>1. CASE wants
  <2>1. m = [n EXCEPT !.waiting = TRUE]
    BY <1>1 DEF upstream_sink_data
  <2>2. QED
    BY <2>1 DEF Steady, OpenSSLType
<1>2. CASE ~wants
  <2>1. m = [n EXCEPT !.sent = s, !.up = 0]
    BY <1>2 DEF upstream_sink_data
  <2>2. s \in Nat
    BY DEF OpenSSLType
  <2> HIDE DEF s, m
  <2>3. /\ Steady(n, m) /\ m.dead = n.dead /\ m.pumping = n.pumping
        /\ m.leaked = n.leaked /\ m.freed = n.freed /\ m.up = 0
    BY <2>1, <2>2 DEF Steady, OpenSSLType
  <2>4. ~(m.up > 0)
    BY <2>3
  <2>5. QED
    BY <2>3, <2>4 DEF m
<1>3. QED
  BY <1>1, <1>2

(* After data, what waited is written, or waits on. *)
LEMMA RetrySteady ==
    ASSUME NEW n \in OpenSSLType, NEW wants \in BOOLEAN, ~n.dead, n.up > 0 => n.waiting
    PROVE  LET m == AfterData(n, wants)
           IN  /\ Steady(n, m) /\ m.dead = n.dead /\ m.pumping = n.pumping
               /\ m.leaked = n.leaked /\ m.freed = n.freed /\ (m.up > 0 => m.waiting)
<1> DEFINE k == [n EXCEPT !.waiting = FALSE]
           m == AfterData(n, wants)
           u == upstream_sink_data(k, wants)
<1>1. CASE ~n.waiting
  <2>1. m = n
    BY <1>1 DEF AfterData
  <2>2. QED
    BY <2>1 DEF Steady
<1>2. CASE n.waiting
  <2>1. m = IF k.up = 0 THEN k ELSE u
    BY <1>2 DEF AfterData, lw_stream_retry
  <2>2. /\ Steady(n, k) /\ k.dead = n.dead /\ k.pumping = n.pumping
        /\ k.leaked = n.leaked /\ k.freed = n.freed
    BY DEF Steady, OpenSSLType
  <2>3. k \in OpenSSLType
    BY <2>2 DEF Steady
  <2> HIDE DEF k, m
  <2>4. /\ Steady(k, u) /\ u.dead = k.dead /\ u.pumping = k.pumping
        /\ u.leaked = k.leaked /\ u.freed = k.freed /\ (u.up > 0 => u.waiting)
    BY <2>2, <2>3, WriteSteady
  <2> HIDE DEF u
  <2>5. k.up = 0 => ~(k.up > 0)
    OBVIOUS
  <2>6. QED
    BY <2>1, <2>2, <2>4, <2>5 DEF Steady, m
<1>3. QED
  BY <1>1, <1>2

(* A message that is whole is the next; without it the rest is what comes after it. *)
LEMMA TakeMessage ==
    ASSUME NEW n \in OpenSSLType, NEW t \in Nat, Tracks(n, t)
    PROVE  /\ Whole(n.bio) <=> Len(n.bio) >= 2
           /\ Whole(n.bio) =>
                /\ n.bio[1].message = t + 1
                /\ Rest(n.bio, 2) \in Seq(Piece)
                /\ Len(Rest(n.bio, 2)) = n.at - 2 * (t + 1)
                /\ \A i \in 1..Len(Rest(n.bio, 2)) : Rest(n.bio, 2)[i] = Wire[2 * (t + 1) + i]
<1> DEFINE b == n.bio
           l == Len(n.bio)
           r == Rest(n.bio, 2)
<1>1. b \in Seq(Piece) /\ l \in Nat /\ n.at \in Nat
  BY DEF OpenSSLType
<1>2. l >= 2 => b[1].message = t + 1 /\ b[1].last = FALSE
  <2> SUFFICES ASSUME l >= 2 PROVE b[1].message = t + 1 /\ b[1].last = FALSE
    OBVIOUS
  <2>1. b[1] = Wire[2 * t + 1]
    BY <1>1 DEF Tracks
  <2>2. 2 * t + 1 \in 1..2 * MaxCalls
    BY <1>1, CallsAreNat DEF Tracks
  <2>3. QED
    BY <2>1, <2>2, FirstPiece
<1>3. Whole(b) <=> l >= 2
  BY <1>2 DEF Whole
<1>4. l >= 2 => /\ r \in Seq(Piece) /\ Len(r) = n.at - 2 * (t + 1)
                /\ \A i \in 1..Len(r) : r[i] = Wire[2 * (t + 1) + i]
  <2> SUFFICES ASSUME l >= 2
               PROVE  /\ r \in Seq(Piece) /\ Len(r) = n.at - 2 * (t + 1)
                      /\ \A i \in 1..Len(r) : r[i] = Wire[2 * (t + 1) + i]
    OBVIOUS
  <2>1. r = SubSeq(b, 3, l)
    BY DEF Rest
  <2>2. \A i \in 3..l : b[i] \in Piece
    BY <1>1
  <2> HIDE DEF r, b, l
  <2>3. /\ r \in Seq(Piece) /\ Len(r) = (IF 3 <= l THEN l - 3 + 1 ELSE 0)
        /\ \A i \in 1..l - 3 + 1 : r[i] = b[3 + i - 1]
    BY <1>1, <2>1, <2>2, SubSeqProperties
  <2>4. Len(r) = l - 2
    BY <1>1, <2>3
  <2>5. l = n.at - 2 * t
    BY DEF Tracks, l
  <2>6. Len(r) = n.at - 2 * (t + 1)
    BY <1>1, <2>4, <2>5
  <2>7. ASSUME NEW i \in 1..Len(r) PROVE r[i] = Wire[2 * (t + 1) + i]
    <3>1. i \in 1..l - 3 + 1 /\ i + 2 \in 1..l /\ 3 + i - 1 = i + 2
      BY <1>1, <2>4, <2>7
    <3>2. r[i] = b[i + 2]
      BY <2>3, <3>1
    <3>3. b[i + 2] = Wire[2 * t + (i + 2)]
      BY <3>1 DEF Tracks, b, l
    <3>4. 2 * t + (i + 2) = 2 * (t + 1) + i
      BY <2>7
    <3>5. QED
      BY <3>2, <3>3, <3>4
  <2>8. QED
    BY <2>3, <2>6, <2>7
<1>5. QED
  BY <1>2, <1>3, <1>4

(* After a push: the hook may have deleted the client, and then the pump is left. *)
LEMMA PushKeeps ==
    ASSUME NEW n \in OpenSSLType, NEW t \in Nat, NEW does, Tracks(n, t),
           n.pumping, ~n.leaked, ~n.freed, ~n.dead /\ n.up > 0 => n.waiting
    PROVE  LET d == SslHook(n, does) IN OpenSSLOK(d) /\ (d.dead => OpenSSLOK(Abandoned(d)))
<1> DEFINE d == SslHook(n, does)
           x == lwp_sslclient_delete(n)
           a == Abandoned(d)
<1>1. d = n \/ d = x
  BY DEF SslHook
<1>2. Steady(n, x) /\ x.dead /\ x.pumping = n.pumping /\ x.leaked = n.leaked /\ x.freed = n.freed
  BY DeleteSteady
<1> HIDE DEF x, d
<1>3. /\ Steady(n, d) /\ d.pumping /\ ~d.leaked /\ ~d.freed
      /\ (~d.dead /\ d.up > 0 => d.waiting)
  BY <1>1, <1>2 DEF Steady
<1>4. Tracks(d, t) /\ d \in OpenSSLType
  BY <1>3, SteadyTracks DEF Steady
<1>5. OpenSSLOK(d)
  BY <1>3, <1>4 DEF OpenSSLOK, Pumping
<1>6. ASSUME d.dead PROVE OpenSSLOK(a)
  <2>1. Steady(d, a) /\ a.dead = d.dead /\ a.pumping = d.pumping /\ a.leaked /\ a.freed = d.freed
    BY <1>4 DEF Abandoned, Steady, OpenSSLType
  <2> HIDE DEF a
  <2>2. Tracks(a, t) /\ a \in OpenSSLType
    BY <1>4, <2>1, SteadyTracks DEF Steady
  <2>3. QED
    BY <1>3, <1>6, <2>1, <2>2 DEF OpenSSLOK, Pumping
<1>7. QED
  BY <1>5, <1>6 DEF d

(* One turn of the pump. *)
LEMMA PumpKeeps ==
    ASSUME NEW n, NEW does, NEW answers, NEW wants \in BOOLEAN, OpenSSLOK(n), Pumping(n)
    PROVE  OpenSSLOK(pump(n, does, answers, wants))
<1> DEFINE m == pump(n, does, answers, wants)
           b == Rest(n.bio, 2)
<1>1. PICK t \in Nat : Tracks(n, t)
  BY DEF OpenSSLOK
<1>2. n \in OpenSSLType /\ n.pumping /\ ~n.leaked /\ ~n.freed
  BY DEF OpenSSLOK, Pumping
<1>3. CASE ~Whole(n.bio)
  <2> DEFINE p == [n EXCEPT !.pumping = FALSE]
             x == lwp_sslclient_delete(p)
             u == AfterData(p, wants)
  <2>1. m = IF p.dead THEN x ELSE u
    BY <1>3 DEF pump, Pumped
  <2>2. /\ Steady(n, p) /\ p.dead = n.dead /\ p.leaked = n.leaked /\ p.freed = n.freed
        /\ p.pumping = FALSE /\ p.up = n.up /\ p.waiting = n.waiting
    BY <1>2 DEF Steady, OpenSSLType
  <2> HIDE DEF p, m
  <2>3. Tracks(p, t) /\ p \in OpenSSLType /\ Len(p.bio) < 2
    <3>1. Len(n.bio) \in Nat
      BY <1>2 DEF OpenSSLType
    <3>2. QED
      BY <1>1, <1>2, <1>3, <2>2, <3>1, SteadyTracks, TakeMessage DEF Steady
  <2>4. CASE p.dead
    <3>1. Steady(p, x) /\ x.dead /\ x.pumping = p.pumping /\ x.leaked = p.leaked /\ x.freed
      BY <2>2, <2>3, DeleteSteady
    <3> HIDE DEF x
    <3>2. Tracks(x, t) /\ x \in OpenSSLType
      BY <2>3, <3>1, SteadyTracks DEF Steady
    <3>3. OpenSSLOK(x)
      BY <1>2, <2>2, <3>1, <3>2 DEF OpenSSLOK, Pumping
    <3>4. QED
      BY <2>1, <2>4, <3>3 DEF m
  <2>5. CASE ~p.dead
    <3>1. p.up > 0 => p.waiting
      BY <2>2, <2>5 DEF OpenSSLOK
    <3>2. /\ Steady(p, u) /\ u.dead = p.dead /\ u.pumping = p.pumping
          /\ u.leaked = p.leaked /\ u.freed = p.freed /\ (u.up > 0 => u.waiting)
      BY <2>3, <2>5, <3>1, RetrySteady
    <3> HIDE DEF u
    <3>3. Tracks(u, t) /\ u \in OpenSSLType /\ Len(u.bio) < 2
      BY <2>3, <3>2, SteadyTracks DEF Steady
    <3>4. OpenSSLOK(u)
      BY <1>2, <2>2, <2>5, <3>2, <3>3 DEF OpenSSLOK, Pumping
    <3>5. QED
      BY <2>1, <2>5, <3>4 DEF m
  <2>6. QED
    BY <2>4, <2>5
<1>4. CASE Whole(n.bio)
  <2>1. /\ n.bio[1].message = t + 1 /\ b \in Seq(Piece) /\ Len(b) = n.at - 2 * (t + 1)
        /\ \A i \in 1..Len(b) : b[i] = Wire[2 * (t + 1) + i]
    BY <1>1, <1>2, <1>4, TakeMessage
  <2>2. t + 1 \in Nat
    OBVIOUS
  <2>3. CASE n.shook
    <3> DEFINE e == Append(n.delivered, t + 1)
               k == [n EXCEPT !.bio = b, !.delivered = e]
               d == SslHook(k, does)
    <3>1. m = IF d.dead THEN Abandoned(d) ELSE d
      BY <1>4, <2>1, <2>3 DEF pump, SSL_read
    <3>2. t >= 2 /\ n.delivered = RecordsOf(t)
      BY <1>1, <2>3 DEF Tracks
    <3>3. e = RecordsOf(t + 1) /\ e \in Seq(Nat)
      BY <2>2, <3>2, RecordsGrow, RecordsTyped
    <3> HIDE DEF e, b
    <3>4. /\ k \in OpenSSLType /\ k.bio = b /\ k.delivered = e /\ k.shook = n.shook
          /\ k.at = n.at /\ k.pumping = n.pumping /\ k.leaked = n.leaked /\ k.freed = n.freed
          /\ k.dead = n.dead /\ k.up = n.up /\ k.waiting = n.waiting
      BY <1>2, <2>1, <3>3 DEF OpenSSLType
    <3> HIDE DEF k, m
    <3>5. t + 1 >= 2
      BY <3>2
    <3>6. Tracks(k, t + 1)
      BY <1>1, <2>1, <2>3, <3>3, <3>4, <3>5 DEF Tracks
    <3>7. OpenSSLOK(d) /\ (d.dead => OpenSSLOK(Abandoned(d)))
      <4>1. ~k.dead /\ k.up > 0 => k.waiting
        BY <3>4 DEF OpenSSLOK
      <4>2. QED
        BY <1>2, <2>2, <3>4, <3>6, <4>1, PushKeeps
    <3> HIDE DEF d
    <3>8. QED
      BY <3>1, <3>7 DEF m
  <2>4. CASE ~n.shook
    <3> DEFINE last == IsRecord(t + 2)
               k == [n EXCEPT !.bio = b, !.shook = last]
               how == IF last /\ does = "refuse" THEN "delete" ELSE "keep"
               d == SslHook(k, how)
    <3>1. m = IF d.dead /\ answers THEN Abandoned(d) ELSE d
      <4>1. t + 1 + 1 = t + 2
        OBVIOUS
      <4>2. QED
        BY <1>4, <2>1, <2>4, <4>1 DEF pump, SSL_do_handshake
    <3>2. ~(t >= 2) /\ n.delivered = RecordsOf(t)
      BY <1>1, <2>4 DEF Tracks
    <3>3. last \in BOOLEAN /\ (last <=> t + 1 >= 2)
      BY <3>2 DEF IsRecord, Handshake
    <3>4. RecordsOf(t + 1) = RecordsOf(t)
      BY <3>2, HandshakeDelivers
    <3> HIDE DEF last, b, how
    <3>5. /\ k \in OpenSSLType /\ k.bio = b /\ k.delivered = n.delivered /\ k.shook = last
          /\ k.at = n.at /\ k.pumping = n.pumping /\ k.leaked = n.leaked /\ k.freed = n.freed
          /\ k.dead = n.dead /\ k.up = n.up /\ k.waiting = n.waiting
      BY <1>2, <2>1, <3>3 DEF OpenSSLType
    <3> HIDE DEF k, m
    <3>6. Tracks(k, t + 1)
      BY <1>1, <2>1, <3>2, <3>3, <3>4, <3>5 DEF Tracks
    <3>7. OpenSSLOK(d) /\ (d.dead => OpenSSLOK(Abandoned(d)))
      <4>1. ~k.dead /\ k.up > 0 => k.waiting
        BY <3>5 DEF OpenSSLOK
      <4>2. QED
        BY <1>2, <2>2, <3>5, <3>6, <4>1, PushKeeps
    <3> HIDE DEF d
    <3>8. QED
      BY <3>1, <3>7 DEF m
  <2>5. QED
    BY <2>3, <2>4
<1>5. QED
  BY <1>3, <1>4

(* What comes, each turn of the pump, and what the user does. *)
LEMMA OpenSSLSteps ==
    ASSUME OpenSSLOK(end), OpenSSLReads \/ OpenSSLPumps \/ OpenSSLCalls
    PROVE  OpenSSLOK(end')
<1> DEFINE n == end
           m == end'
<1>1. PICK t \in Nat : Tracks(n, t)
  BY DEF OpenSSLOK
<1>2. n \in OpenSSLType /\ n.at \in Nat /\ n.bio \in Seq(Piece) /\ Len(n.bio) \in Nat
      /\ n.up \in Nat
  BY DEF OpenSSLOK, OpenSSLType
<1>3. CASE OpenSSLReads
  <2>1. PICK k \in 1..Len(Wire) - n.at :
           /\ ~n.dead /\ ~n.pumping
           /\ m = BIO_write([n EXCEPT !.at = @ + k], SubSeq(Wire, n.at + 1, n.at + k))
    BY <1>3 DEF OpenSSLReads, Becomes, Chunk
  <2> DEFINE c == SubSeq(Wire, n.at + 1, n.at + k)
             a == n.at + k
             b == n.bio \o c
  <2>2. m = [n EXCEPT !.at = a, !.bio = b, !.pumping = TRUE]
    BY <1>2, <2>1 DEF BIO_write, OpenSSLType
  <2>3. k \in Nat /\ k >= 1 /\ n.at + k <= 2 * MaxCalls /\ a \in Nat /\ MaxCalls \in Nat
    <3> DEFINE x == n.at
    <3>1. x \in Nat /\ MaxCalls \in Nat /\ k \in 1..2 * MaxCalls - x
      BY <1>2, <2>1, WirePieces, CallsAreNat
    <3> HIDE DEF x
    <3>2. k \in Nat /\ k >= 1 /\ x + k <= 2 * MaxCalls /\ x + k \in Nat
      BY <3>1
    <3>3. QED
      BY <3>1, <3>2 DEF x
  <2>4. /\ c \in Seq(Piece) /\ Len(c) = k
        /\ \A i \in 1..k : c[i] = Wire[n.at + i]
    BY <1>2, <2>3, ChunkCut
  <2> HIDE DEF c
  <2>5. /\ b \in Seq(Piece) /\ Len(b) = Len(n.bio) + k
        /\ \A i \in 1..Len(n.bio) + k :
              b[i] = IF i <= Len(n.bio) THEN n.bio[i] ELSE c[i - Len(n.bio)]
    BY <1>2, <2>4, ConcatProperties
  <2>6. Len(n.bio) = n.at - 2 * t
    BY <1>1 DEF Tracks
  <2> HIDE DEF b
  <2>7. Len(b) = a - 2 * t
    BY <1>2, <2>3, <2>5, <2>6
  <2>8. ASSUME NEW i \in 1..Len(b) PROVE b[i] = Wire[2 * t + i]
    <3> DEFINE l == Len(n.bio)
    <3>1. l \in Nat /\ l = n.at - 2 * t /\ i \in 1..l + k
      BY <1>2, <2>5, <2>6, <2>8
    <3>2. b[i] = IF i <= l THEN n.bio[i] ELSE c[i - l]
      BY <2>5, <3>1
    <3>3. \A j \in 1..l : n.bio[j] = Wire[2 * t + j]
      BY <1>1 DEF Tracks
    <3> HIDE DEF l
    <3>4. CASE i <= l
      <4>1. i \in 1..l
        BY <2>3, <3>1, <3>4
      <4>2. QED
        BY <3>2, <3>3, <3>4, <4>1
    <3>5. CASE ~(i <= l)
      <4>1. i - l \in 1..k /\ n.at + (i - l) = 2 * t + i
        <5> DEFINE p == 2 * t
                   x == n.at
        <5>1. x \in Nat /\ p \in Nat /\ l = x - p /\ i \in Nat
          BY <1>2, <2>3, <3>1
        <5>2. i - l \in 1..k
          BY <2>3, <3>1, <3>5
        <5> HIDE DEF p, x
        <5>3. x + (i - l) = p + i
          BY <3>1, <5>1
        <5>4. QED
          BY <5>2, <5>3 DEF p, x
      <4>2. b[i] = c[i - l]
        BY <3>2, <3>5
      <4>3. QED
        BY <2>4, <4>1, <4>2
    <3>6. QED
      BY <3>4, <3>5
  <2> HIDE DEF a
  <2>9. /\ m \in OpenSSLType /\ m.at = a /\ m.bio = b /\ m.shook = n.shook
        /\ m.delivered = n.delivered /\ m.pumping = TRUE /\ m.dead = n.dead
        /\ m.leaked = n.leaked /\ m.freed = n.freed /\ m.up = n.up /\ m.waiting = n.waiting
    BY <1>2, <2>2, <2>3, <2>5 DEF OpenSSLType
  <2> HIDE DEF m
  <2>10. Tracks(m, t)
    BY <1>1, <2>3, <2>7, <2>8, <2>9 DEF Tracks, a
  <2>11. OpenSSLOK(m)
    BY <2>1, <2>9, <2>10 DEF OpenSSLOK, Pumping
  <2>12. QED
    BY <2>11 DEF m
<1>4. CASE OpenSSLPumps
  BY <1>4, PumpKeeps DEF OpenSSLPumps, Becomes
<1>5. CASE OpenSSLCalls
  <2>1. ~n.dead /\ ~n.freed /\ ~n.leaked
    BY <1>5 DEF OpenSSLCalls, OpenSSLOK
  <2>2. CASE ~n.pumping /\ m = lwp_sslclient_delete(n)
    <3>1. Steady(n, m) /\ m.dead /\ m.pumping = n.pumping /\ m.leaked = n.leaked /\ m.freed
      BY <1>2, <2>2, DeleteSteady
    <3> HIDE DEF m
    <3>2. Tracks(m, t) /\ m \in OpenSSLType
      BY <1>1, <3>1, SteadyTracks DEF Steady
    <3>3. OpenSSLOK(m)
      BY <2>1, <2>2, <3>1, <3>2 DEF OpenSSLOK, Pumping
    <3>4. QED
      BY <3>3 DEF m
  <2>3. CASE \E wants \in BOOLEAN : m = UpstreamSsl(n, wants)
    <3>1. PICK wants \in BOOLEAN : m = UpstreamSsl(n, wants)
      BY <2>3
    <3> DEFINE v == n.up + 1
               k == [n EXCEPT !.up = v]
               u == upstream_sink_data(k, wants)
    <3>2. m = IF n.up > 0 THEN k ELSE u
      BY <3>1 DEF UpstreamSsl
    <3>3. v \in Nat
      BY <1>2
    <3> HIDE DEF v
    <3>4. /\ Steady(n, k) /\ k.dead = n.dead /\ k.leaked = n.leaked /\ k.freed = n.freed
          /\ k.pumping = n.pumping /\ k.waiting = n.waiting
      BY <1>2, <3>3 DEF Steady, OpenSSLType
    <3>5. k \in OpenSSLType
      BY <3>4 DEF Steady
    <3> HIDE DEF k, m
    <3>6. /\ Steady(k, u) /\ u.dead = k.dead /\ u.pumping = k.pumping
          /\ u.leaked = k.leaked /\ u.freed = k.freed /\ (u.up > 0 => u.waiting)
      BY <2>1, <3>4, <3>5, WriteSteady
    <3> HIDE DEF u
    <3>7. /\ Steady(n, m) /\ m.dead = n.dead /\ m.leaked = n.leaked /\ m.freed = n.freed
          /\ m.pumping = n.pumping /\ (m.up > 0 => m.waiting)
      <4>1. CASE n.up > 0
        BY <2>1, <3>2, <3>4, <4>1 DEF OpenSSLOK
      <4>2. CASE ~(n.up > 0)
        <5>1. m = u
          BY <3>2, <4>2
        <5>2. QED
          BY <3>4, <3>6, <5>1 DEF Steady
      <4>3. QED
        BY <4>1, <4>2
    <3>8. Tracks(m, t) /\ m \in OpenSSLType /\ m.bio = n.bio
      BY <1>1, <3>7, SteadyTracks DEF Steady
    <3>9. OpenSSLOK(m)
      BY <2>1, <3>7, <3>8 DEF OpenSSLOK, Pumping
    <3>10. QED
      BY <3>9 DEF m
  <2>4. QED
    BY <1>5, <2>2, <2>3 DEF OpenSSLCalls, Becomes
<1>6. QED
  BY <1>3, <1>4, <1>5

-----------------------------------------------------------------------------
SchannelType ==
    [shook : BOOLEAN, failed : BOOLEAN, down : Seq(Piece), up : Nat, sent : Nat,
     delivered : Seq(Nat), at : Nat, plain : BOOLEAN, early : BOOLEAN, wrong : SUBSET {}]

(* As long as every chunk was a message, nothing of what came is kept back. *)
Plainly(n, t) ==
    /\ n.at = 2 * t /\ n.down = <<>> /\ (n.shook <=> t >= 2) /\ n.delivered = RecordsOf(t)

SchannelOK(n) ==
    /\ n \in SchannelType /\ n.at <= 2 * MaxCalls
    /\ n.plain /\ ~n.failed => \E t \in Nat : Plainly(n, t)
    /\ ~n.early => n.up = 0

(* What the filter does with data changes only how far the handshake and the records *)
(* got.                                                                               *)
Read(n, m) ==
    /\ m \in SchannelType /\ m.at = n.at /\ m.up = n.up /\ m.early = n.early
    /\ m.plain = n.plain /\ m.down = n.down

(* Reading as a record. *)
LEMMA RecordRead ==
    ASSUME NEW n \in SchannelType, NEW data \in Seq(Piece)
    PROVE  LET r == proc_message_data(n, data)
           IN  /\ Read(n, r.n) /\ r.count \in Nat /\ r.n.shook = n.shook
               /\ r.n.failed = n.failed
<1> DEFINE r == proc_message_data(n, data)
<1>1. CASE Whole(data)
  <2> DEFINE e == Append(n.delivered, data[1].message)
  <2>1. Len(data) >= 2 /\ data[1] \in Piece
    BY <1>1 DEF Whole
  <2>2. data[1].message \in Nat /\ n.delivered \in Seq(Nat)
    BY <2>1 DEF Piece, SchannelType
  <2>3. e \in Seq(Nat)
    BY <2>2
  <2>4. r = [n |-> [n EXCEPT !.delivered = e], count |-> 2]
    BY <1>1 DEF proc_message_data
  <2> HIDE DEF e
  <2> DEFINE k == [n EXCEPT !.delivered = e]
  <2>5. Read(n, k) /\ k.shook = n.shook /\ k.failed = n.failed
    BY <2>3 DEF Read, SchannelType
  <2>6. r.n = k /\ r.count = 2
    BY <2>4
  <2> HIDE DEF r, k
  <2>7. QED
    BY <2>5, <2>6 DEF r
<1>2. CASE ~Whole(data)
  <2>1. r = [n |-> n, count |-> Len(data)]
    BY <1>2 DEF proc_message_data
  <2>2. r.n = n /\ r.count = Len(data) /\ Len(data) \in Nat
    BY <2>1
  <2> HIDE DEF r
  <2>3. QED
    BY <2>2 DEF Read, r
<1>3. QED
  BY <1>1, <1>2

(* Reading as a message of the handshake. *)
LEMMA HandshakeRead ==
    ASSUME NEW n \in SchannelType, NEW data \in Seq(Piece), NEW good
    PROVE  LET r == proc_handshake_data(n, data, good)
           IN  Read(n, r.n) /\ r.count \in Nat /\ r.n.delivered = n.delivered
<1> DEFINE r == proc_handshake_data(n, data, good)
<1>1. Len(data) \in Nat
  OBVIOUS
<1>2. CASE ~good
  <2> DEFINE k == [n EXCEPT !.failed = TRUE]
  <2>1. r.n = k /\ r.count = Len(data)
    BY <1>2 DEF proc_handshake_data
  <2>2. Read(n, k) /\ k.delivered = n.delivered
    BY DEF Read, SchannelType
  <2> HIDE DEF r, k
  <2>3. QED
    BY <1>1, <2>1, <2>2 DEF r
<1>3. CASE good /\ ~Whole(data)
  <2>1. r.n = n /\ r.count = 0
    BY <1>3 DEF proc_handshake_data
  <2> HIDE DEF r
  <2>2. QED
    BY <2>1 DEF r, Read
<1>4. CASE good /\ Whole(data)
  <2> DEFINE s == IsRecord(data[1].message + 1)
             k == [n EXCEPT !.shook = s]
  <2>1. r.n = k /\ r.count = 2
    BY <1>4 DEF proc_handshake_data
  <2>2. s \in BOOLEAN
    BY DEF IsRecord
  <2> HIDE DEF s
  <2>3. Read(n, k) /\ k.delivered = n.delivered
    BY <2>2 DEF Read, SchannelType
  <2> HIDE DEF r, k
  <2>4. QED
    BY <2>1, <2>3 DEF r
<1>5. QED
  BY <1>2, <1>3, <1>4

(* What is left of pieces is pieces. *)
LEMMA RestTyped ==
    ASSUME NEW data \in Seq(Piece), NEW k \in Nat
    PROVE  Rest(data, k) \in Seq(Piece)
<1> DEFINE l == Len(data)
<1>1. l \in Nat /\ k + 1 \in Int
  OBVIOUS
<1>2. \A i \in k + 1..l : data[i] \in Piece
  OBVIOUS
<1>3. SubSeq(data, k + 1, l) \in Seq(Piece)
  <2> HIDE DEF l
  <2>1. l \in Int
    BY <1>1
  <2>2. QED
    BY <1>1, <1>2, <2>1, SubSeqProperties
<1>4. QED
  BY <1>3 DEF Rest

(* Reading, in the handshake and after it. *)
LEMMA SinkRead ==
    ASSUME NEW n \in SchannelType, NEW data \in Seq(Piece), NEW good
    PROVE  LET r == downstream_sink_data(n, data, good)
           IN  Read(n, r.n) /\ r.count \in Nat
<1> DEFINE r == downstream_sink_data(n, data, good)
           h == proc_handshake_data(n, data, good)
           d == Rest(data, h.count)
           x == proc_message_data(h.n, d)
<1>1. r = IF n.shook THEN proc_message_data(n, data)
          ELSE IF ~h.n.shook THEN h ELSE [n |-> x.n, count |-> h.count + x.count]
  BY DEF downstream_sink_data
<1>2. Read(n, h.n) /\ h.count \in Nat
  BY HandshakeRead
<1> HIDE DEF h, r
<1>3. d \in Seq(Piece) /\ h.n \in SchannelType
  BY <1>2, RestTyped DEF Read
<1> HIDE DEF d
<1>4. Read(h.n, x.n) /\ x.count \in Nat
  BY <1>3, RecordRead
<1> HIDE DEF x
<1>5. CASE n.shook
  BY <1>1, <1>5, RecordRead DEF r
<1>6. CASE ~n.shook /\ ~h.n.shook
  BY <1>1, <1>2, <1>6 DEF r
<1>7. CASE ~n.shook /\ h.n.shook
  <2>1. r.n = x.n /\ r.count = h.count + x.count
    BY <1>1, <1>7
  <2>2. QED
    BY <1>2, <1>4, <2>1 DEF Read, r
<1>8. QED
  BY <1>5, <1>6, <1>7

(* A chunk that is the next message is taken whole, and nothing is left of it. *)
LEMMA PlainRead ==
    ASSUME NEW n \in SchannelType, NEW t \in Nat, NEW data \in Seq(Piece), NEW good,
           Len(data) = 2, data[1].message = t + 1, ~data[1].last,
           n.shook <=> t >= 2, n.delivered = RecordsOf(t)
    PROVE  LET r == downstream_sink_data(n, data, good)
           IN  \/ r.n.failed
               \/ /\ r.count = 2 /\ (r.n.shook <=> t + 1 >= 2)
                  /\ r.n.delivered = RecordsOf(t + 1)
<1> DEFINE r == downstream_sink_data(n, data, good)
           h == proc_handshake_data(n, data, good)
           d == Rest(data, h.count)
           x == proc_message_data(h.n, d)
<1>1. r = IF n.shook THEN proc_message_data(n, data)
          ELSE IF ~h.n.shook THEN h ELSE [n |-> x.n, count |-> h.count + x.count]
  BY DEF downstream_sink_data
<1>2. Whole(data)
  BY DEF Whole
<1>3. CASE n.shook
  <2> DEFINE e == Append(n.delivered, t + 1)
             k == [n EXCEPT !.delivered = e]
  <2>1. r.n = k /\ r.count = 2
    BY <1>1, <1>2, <1>3 DEF proc_message_data
  <2>2. k.shook = n.shook /\ k.delivered = e
    BY DEF SchannelType
  <2>3. e = RecordsOf(t + 1)
    BY <1>3, RecordsGrow
  <2>4. t + 1 >= 2
    BY <1>3
  <2> HIDE DEF r, k, e
  <2>5. QED
    BY <1>3, <2>1, <2>2, <2>3, <2>4 DEF r
<1>4. CASE ~n.shook /\ ~good
  <2> DEFINE k == [n EXCEPT !.failed = TRUE]
  <2>1. h.n = k
    BY <1>4 DEF proc_handshake_data
  <2>2. k.failed /\ k.shook = n.shook
    BY DEF SchannelType
  <2> HIDE DEF h, k, r
  <2>3. r = h
    BY <1>1, <1>4, <2>1, <2>2
  <2>4. QED
    BY <2>1, <2>2, <2>3 DEF r
<1>5. CASE ~n.shook /\ good
  <2> DEFINE last == IsRecord(t + 2)
             k == [n EXCEPT !.shook = last]
  <2>1. h.n = k /\ h.count = 2
    <3>1. t + 1 + 1 = t + 2
      OBVIOUS
    <3>2. QED
      BY <1>2, <1>5, <3>1 DEF proc_handshake_data
  <2>2. last \in BOOLEAN /\ (last <=> t + 1 >= 2)
    BY <1>5 DEF IsRecord, Handshake
  <2> HIDE DEF last
  <2>3. k.shook = last /\ k.delivered = n.delivered /\ k \in SchannelType
    BY <2>2 DEF SchannelType
  <2> HIDE DEF h, k
  <2>4. Len(d) = 0
    <3>1. d = SubSeq(data, 3, 2)
      BY <2>1 DEF Rest
    <3>2. \A i \in 3..2 : data[i] \in Piece
      OBVIOUS
    <3>3. Len(SubSeq(data, 3, 2)) = (IF 3 <= 2 THEN 2 - 3 + 1 ELSE 0)
      BY <3>2, SubSeqProperties
    <3>4. QED
      BY <3>1, <3>3
  <2> HIDE DEF d
  <2>5. x.n = h.n /\ x.count = 0
    <3>1. ~Whole(d)
      BY <2>4 DEF Whole
    <3>2. QED
      BY <2>4, <3>1 DEF proc_message_data
  <2> HIDE DEF x, r
  <2>6. r.n = k /\ r.count = 2
    BY <1>1, <1>5, <2>1, <2>5
  <2>7. RecordsOf(t + 1) = RecordsOf(t)
    BY <1>5, HandshakeDelivers
  <2>8. QED
    BY <2>2, <2>3, <2>6, <2>7 DEF r
<1>6. QED
  BY <1>3, <1>4, <1>5

(* What is queued upstream was written before the handshake was over, or after what *)
(* was.                                                                              *)
LEMMA UpstreamKeeps ==
    ASSUME NEW n, SchannelOK(n)
    PROVE  SchannelOK(Upstream(n))
<1> DEFINE m == Upstream(n)
           s == n.sent + 1
           u == n.up + 1
           y == n.early \/ ~n.shook
<1>1. n \in SchannelType /\ n.up \in Nat /\ n.sent \in Nat /\ n.early \in BOOLEAN
  BY DEF SchannelOK, SchannelType
<1>2. s \in Nat /\ u \in Nat /\ y \in BOOLEAN
  BY <1>1
<1>3. m = IF n.up = 0 /\ n.shook THEN [n EXCEPT !.sent = s] ELSE [n EXCEPT !.up = u, !.early = y]
  BY <1>1 DEF Upstream, SchannelType
<1>4. ~y => n.up = 0 /\ n.shook
  BY DEF SchannelOK
<1> HIDE DEF s, u, y
<1>5. CASE n.up = 0 /\ n.shook
  <2> DEFINE k == [n EXCEPT !.sent = s]
  <2>1. /\ k \in SchannelType /\ k.at = n.at /\ k.plain = n.plain /\ k.failed = n.failed
        /\ k.down = n.down /\ k.shook = n.shook /\ k.delivered = n.delivered
        /\ k.up = n.up /\ k.early = n.early
    BY <1>1, <1>2 DEF SchannelType
  <2> HIDE DEF k
  <2>2. SchannelOK(k)
    BY <2>1 DEF SchannelOK, Plainly
  <2>3. QED
    BY <1>3, <1>5, <2>2 DEF k
<1>6. CASE ~(n.up = 0 /\ n.shook)
  <2> DEFINE k == [n EXCEPT !.up = u, !.early = y]
  <2>1. /\ k \in SchannelType /\ k.at = n.at /\ k.plain = n.plain /\ k.failed = n.failed
        /\ k.down = n.down /\ k.shook = n.shook /\ k.delivered = n.delivered
        /\ k.early = y
    BY <1>1, <1>2 DEF SchannelType
  <2> HIDE DEF k
  <2>2. y
    BY <1>4, <1>6
  <2>3. SchannelOK(k)
    BY <2>1, <2>2 DEF SchannelOK, Plainly
  <2>4. QED
    BY <1>3, <1>6, <2>3 DEF k
<1>7. QED
  BY <1>5, <1>6

(* What comes, and what the user writes. *)
LEMMA SchannelSteps ==
    ASSUME SchannelOK(end), SchannelReads \/ SchannelWrites
    PROVE  SchannelOK(end')
<1>1. CASE SchannelWrites
  BY <1>1, UpstreamKeeps DEF SchannelWrites, Becomes
<1>2. CASE SchannelReads
  <2> DEFINE n == end
             m == end'
  <2>1. n \in SchannelType /\ n.at \in Nat /\ n.plain \in BOOLEAN /\ ~n.failed
    BY <1>2 DEF SchannelOK, SchannelType, SchannelReads
  <2>2. PICK k \in 1..Len(Wire) - n.at, good \in BOOLEAN :
           /\ good \/ ~n.shook
           /\ m = Downstream([n EXCEPT !.at = @ + k, !.plain = @ /\ k = 2 /\ n.at % 2 = 0],
                             SubSeq(Wire, n.at + 1, n.at + k), good)
    BY <1>2 DEF SchannelReads, Becomes, Chunk
  <2>3. k \in Nat /\ k >= 1 /\ n.at + k <= 2 * MaxCalls
    <3> DEFINE x == n.at
    <3>1. x \in Nat /\ MaxCalls \in Nat /\ k \in 1..2 * MaxCalls - x
      BY <2>1, <2>2, WirePieces, CallsAreNat
    <3> HIDE DEF x
    <3>2. k \in Nat /\ k >= 1 /\ x + k <= 2 * MaxCalls
      BY <3>1
    <3>3. QED
      BY <3>2 DEF x
  <2> DEFINE a == n.at + k
             y == n.plain /\ k = 2 /\ n.at % 2 = 0
             o == [n EXCEPT !.at = a, !.plain = y]
             c == SubSeq(Wire, n.at + 1, n.at + k)
             r == downstream_sink_data(o, c, good)
             q == n.down \o c
             z == Rest(c, r.count)
  <2>4. m = IF o.down # <<>> THEN [o EXCEPT !.down = q] ELSE [r.n EXCEPT !.down = z]
    BY <2>1, <2>2 DEF Downstream, SchannelType
  <2>5. /\ c \in Seq(Piece) /\ Len(c) = k /\ \A i \in 1..k : c[i] = Wire[n.at + i]
    BY <2>1, <2>3, ChunkCut
  <2>6. a \in Nat /\ a <= 2 * MaxCalls /\ y \in BOOLEAN
    BY <2>1, <2>3
  <2> HIDE DEF a, c, m
  <2>7. y => n.plain /\ k = 2
    OBVIOUS
  <2>8. n.plain /\ k = 2 /\ y => \E t \in Nat : Plainly(n, t)
    BY <2>1 DEF SchannelOK
  <2> HIDE DEF y
  <2>9. /\ o \in SchannelType /\ o.at = a /\ o.plain = y /\ o.down = n.down /\ o.up = n.up
        /\ o.early = n.early /\ o.shook = n.shook /\ o.delivered = n.delivered
        /\ o.failed = n.failed
    BY <2>1, <2>6 DEF SchannelType
  <2> HIDE DEF o
  <2>10. Read(o, r.n) /\ r.count \in Nat
    BY <2>5, <2>9, SinkRead
  <2>11. CASE o.down # <<>>
    <3>1. q \in Seq(Piece)
      BY <2>1, <2>5 DEF SchannelType
    <3> HIDE DEF q
    <3> DEFINE w == [o EXCEPT !.down = q]
    <3>2. w \in SchannelType /\ w.at = a /\ w.plain = y /\ w.up = n.up /\ w.early = n.early
      BY <2>9, <3>1 DEF SchannelType
    <3> HIDE DEF w
    <3>3. ~y
      BY <2>7, <2>8, <2>9, <2>11 DEF Plainly
    <3>4. SchannelOK(w)
      BY <2>6, <3>2, <3>3 DEF SchannelOK
    <3>5. m = w
      BY <2>4, <2>11 DEF w
    <3>6. QED
      BY <3>4, <3>5 DEF m
  <2>12. CASE ~(o.down # <<>>)
    <3>1. z \in Seq(Piece)
      BY <2>5, <2>10, RestTyped
    <3> DEFINE w == [r.n EXCEPT !.down = z]
    <3>2. ASSUME y, ~r.n.failed
          PROVE  \E t \in Nat : /\ a = 2 * t /\ z = <<>> /\ (r.n.shook <=> t >= 2)
                                /\ r.n.delivered = RecordsOf(t)
      <4>1. PICK t \in Nat : Plainly(n, t)
        BY <2>7, <2>8, <3>2
      <4>2. k = 2 /\ n.at = 2 * t
        BY <2>7, <3>2, <4>1 DEF Plainly
      <4>3. 2 * t + 1 \in 1..2 * MaxCalls
        BY <2>3, <4>2, CallsAreNat
      <4>4. c[1].message = t + 1 /\ ~c[1].last
        <5>1. c[1] = Wire[2 * t + 1]
          BY <2>5, <4>2
        <5>2. QED
          BY <4>3, <5>1, FirstPiece
      <4>5. (o.shook <=> t >= 2) /\ o.delivered = RecordsOf(t) /\ Len(c) = 2
        BY <2>5, <2>9, <4>1, <4>2 DEF Plainly
      <4>6. r.count = 2 /\ (r.n.shook <=> t + 1 >= 2) /\ r.n.delivered = RecordsOf(t + 1)
        BY <2>5, <2>9, <3>2, <4>4, <4>5, PlainRead
      <4> HIDE DEF r
      <4>7. z = <<>>
        <5>1. z = SubSeq(c, 3, 2)
          BY <4>5, <4>6 DEF Rest
        <5>2. \A i \in 3..2 : c[i] \in Piece
          OBVIOUS
        <5>3. SubSeq(c, 3, 2) \in Seq(Piece)
              /\ Len(SubSeq(c, 3, 2)) = (IF 3 <= 2 THEN 2 - 3 + 1 ELSE 0)
          BY <5>2, SubSeqProperties
        <5>4. Len(z) = 0
          BY <5>1, <5>3
        <5> HIDE DEF z
        <5>5. QED
          BY <3>1, <5>4, EmptySeq
      <4>8. a = 2 * (t + 1)
        BY <4>2 DEF a
      <4>9. QED
        BY <4>6, <4>7, <4>8
    <3> HIDE DEF z, r
    <3>3. r.n \in SchannelType
      BY <2>10 DEF Read
    <3>4. /\ w \in SchannelType /\ w.down = z /\ w.at = a /\ w.plain = y /\ w.up = n.up
          /\ w.early = n.early /\ w.shook = r.n.shook /\ w.delivered = r.n.delivered
          /\ w.failed = r.n.failed
      BY <2>9, <2>10, <3>1, <3>3 DEF SchannelType, Read
    <3> HIDE DEF w
    <3>5. w.plain /\ ~w.failed => \E t \in Nat : Plainly(w, t)
      BY <3>2, <3>4 DEF Plainly
    <3>6. ~w.early => w.up = 0
      BY <3>4 DEF SchannelOK
    <3>7. SchannelOK(w)
      BY <2>6, <3>4, <3>5, <3>6 DEF SchannelOK
    <3>8. m = w
      BY <2>4, <2>12 DEF w
    <3>9. QED
      BY <3>7, <3>8 DEF m
  <2>13. QED
    BY <2>11, <2>12
<1>3. QED
  BY <1>1, <1>2

-----------------------------------------------------------------------------
(***************************************************************************)
(* All endpoints: the invariant of each, where it is the one that runs.    *)
(***************************************************************************)
EndInv ==
    /\ part = "unix server" => ServerOK(end)
    /\ IsClient => ClientOK(end)
    /\ part = "windows udp" => UdpOK(end)
    /\ part = "unix udp" => UnixUdpOK(end)
    /\ part = "windows tls" => SchannelOK(end)
    /\ part = "openssl" => OpenSSLOK(end)

ServerStep ==
    \/ listen_socket_read_ready \/ lw_server_host_filter \/ lw_server_load_cert_file
    \/ ServerCalls \/ Call \/ ClientReady

ClientStep ==
    \/ lw_client_connect_addr \/ ConnectEnds \/ connect_completed \/ ClientCalls
    \/ on_stream_data

WinUdpStep == udp_receive_completed \/ udp_send_completed \/ WinUdpCalls \/ Datagram
UnixUdpStep == read_ready \/ UnixUdpCalls \/ DatagramComes
SchannelStep == SchannelReads \/ SchannelWrites
OpenSSLStep == OpenSSLReads \/ OpenSSLPumps \/ OpenSSLCalls

(* A step is of the endpoint whose turn it is, and leaves the server of Listener *)
(* alone, unless it is that server's.                                            *)
Alone == part' = part /\ UNCHANGED vars

(* Each action is that of one endpoint. *)
LEMMA StepsAreOfTheirPart ==
    /\ ServerStep => part = "unix server" /\ Alone
    /\ ClientStep => IsClient /\ Alone
    /\ WinUdpStep => part = "windows udp" /\ Alone
    /\ UnixUdpStep => part = "unix udp" /\ Alone
    /\ SchannelStep => part = "windows tls" /\ Alone
    /\ OpenSSLStep => part = "openssl" /\ Alone
<1> USE DEF Becomes, Alone
<1>1. ServerStep => part = "unix server" /\ Alone
  BY DEF ServerStep, listen_socket_read_ready, lw_server_host_filter,
         lw_server_load_cert_file, ServerCalls, Call, ClientReady
<1>2. ClientStep => IsClient /\ Alone
  BY DEF ClientStep, lw_client_connect_addr, ConnectEnds, connect_completed, ClientCalls,
         on_stream_data
<1>3. WinUdpStep => part = "windows udp" /\ Alone
  BY DEF WinUdpStep, udp_receive_completed, udp_send_completed, WinUdpCalls, Datagram
<1>4. UnixUdpStep => part = "unix udp" /\ Alone
  BY DEF UnixUdpStep, read_ready, UnixUdpCalls, DatagramComes
<1>5. SchannelStep => part = "windows tls" /\ Alone
  BY DEF SchannelStep, SchannelReads, SchannelWrites
<1>6. OpenSSLStep => part = "openssl" /\ Alone
  BY DEF OpenSSLStep, OpenSSLReads, OpenSSLPumps, OpenSSLCalls
<1>7. QED
  BY <1>1, <1>2, <1>3, <1>4, <1>5, <1>6

(* The steps there are. *)
LEMMA StepsOfEndNext ==
    ASSUME [EndNext]_<<vars, endvars>>
    PROVE  \/ part = "listener" /\ Next /\ UNCHANGED endvars
           \/ UNCHANGED <<vars, endvars>>
           \/ ServerStep \/ ClientStep \/ WinUdpStep \/ UnixUdpStep \/ SchannelStep
           \/ OpenSSLStep
  BY DEF EndNext, ServerStep, ClientStep, WinUdpStep, UnixUdpStep, SchannelStep, OpenSSLStep

(* What each endpoint starts as. *)
LEMMA EndInitInv ==
    ASSUME EndInit
    PROVE  EndInv
<1>1. ServerOK(Server)
  <2>1. Server \in ServerType
    BY NothingWaits DEF Server, ServerType, ServerState
  <2>2. Waiting(Server)
    BY CallsAreNat DEF Server, Waiting
  <2>3. \A c \in Calls : Known(Server, c)
    BY DEF Server, Known
  <2>4. QED
    BY <2>1, <2>2, <2>3 DEF ServerOK
<1>2. ClientOK(NewClient)
  BY DEF NewClient, ClientOK, ClientType, Counted, lw_client_connected, Underway
<1>3. UdpOK(WinUdp)
  <2>1. Queue(WinUdp) = 0 /\ References(WinUdp) = 1
    BY DEF WinUdp, Queue, References, Results
  <2>2. WinUdp \in UdpType
    BY DEF WinUdp, UdpType
  <2>3. Held(WinUdp, 0)
    BY <2>1, <2>2, IdealIsNat DEF Held, WinUdp
  <2>4. Lives(WinUdp)
    BY <2>1 DEF Lives, WinUdp
  <2>5. QED
    BY <2>3, <2>4 DEF UdpOK
<1>4. UnixUdpOK(UnixUdp)
  BY NothingCame DEF UnixUdpOK, UnixUdp, UnixUdpType
<1>5. SchannelOK(lwp_ssl_init)
  <2> DEFINE n == lwp_ssl_init
  <2>1. n \in SchannelType /\ n.at = 0 /\ n.up = 0
    BY DEF lwp_ssl_init, SchannelType
  <2>2. Plainly(n, 0)
    BY DEF lwp_ssl_init, Plainly, RecordsOf
  <2>3. 0 <= 2 * MaxCalls
    BY CallsAreNat
  <2> HIDE DEF n
  <2>4. SchannelOK(n)
    BY <2>1, <2>2, <2>3 DEF SchannelOK
  <2>5. QED
    BY <2>4 DEF n
<1>6. OpenSSLOK(lwp_sslclient_new)
  <2> DEFINE n == lwp_sslclient_new
  <2>1. n \in OpenSSLType /\ Len(n.bio) = 0 /\ n.at = 0 /\ n.up = 0 /\ ~n.pumping /\ ~n.dead
        /\ ~n.freed /\ ~n.leaked /\ ~n.shook /\ n.delivered = <<>>
    BY DEF lwp_sslclient_new, OpenSSLType
  <2>2. 0 <= 2 * MaxCalls
    BY CallsAreNat
  <2> HIDE DEF n
  <2>3. Tracks(n, 0)
    BY <2>1, <2>2 DEF Tracks, RecordsOf
  <2>4. OpenSSLOK(n)
    BY <2>1, <2>3 DEF OpenSSLOK, Pumping
  <2>5. QED
    BY <2>4 DEF n
<1>7. QED
  BY <1>1, <1>2, <1>3, <1>4, <1>5, <1>6 DEF EndInit, EndInv, IsClient

(* Each step keeps the invariant of its endpoint, and there is no other. *)
LEMMA EndInvStep ==
    ASSUME EndInv, [EndNext]_<<vars, endvars>>
    PROVE  EndInv'
<1>1. CASE UNCHANGED endvars
  BY <1>1 DEF EndInv, endvars, IsClient
<1>2. CASE ServerStep
  BY <1>2, ServerSteps, StepsAreOfTheirPart DEF ServerStep, Alone, EndInv, IsClient
<1>3. CASE ClientStep
  BY <1>3, ClientSteps, StepsAreOfTheirPart DEF ClientStep, Alone, EndInv, IsClient
<1>4. CASE WinUdpStep
  BY <1>4, WinUdpSteps, StepsAreOfTheirPart DEF WinUdpStep, Alone, EndInv, IsClient
<1>5. CASE UnixUdpStep
  BY <1>5, UnixUdpSteps, StepsAreOfTheirPart DEF UnixUdpStep, Alone, EndInv, IsClient
<1>6. CASE SchannelStep
  BY <1>6, SchannelSteps, StepsAreOfTheirPart DEF SchannelStep, Alone, EndInv, IsClient
<1>7. CASE OpenSSLStep
  BY <1>7, OpenSSLSteps, StepsAreOfTheirPart DEF OpenSSLStep, Alone, EndInv, IsClient
<1>8. QED
  BY <1>1, <1>2, <1>3, <1>4, <1>5, <1>6, <1>7, StepsOfEndNext

(* The invariants hold of every endpoint at all times. *)
LEMMA EndInvHolds == EndSpec => []EndInv
<1>1. EndInit => EndInv
  BY EndInitInv
<1>2. EndInv /\ [EndNext]_<<vars, endvars>> => EndInv'
  BY EndInvStep
<1>3. QED
  BY <1>1, <1>2, PTL DEF EndSpec

(* So many messages that came whole are so many records. *)
LEMMA RecordsAre ==
    ASSUME NEW n, NEW t \in Nat, n.at \div 2 = t
    PROVE  Records(n) = RecordsOf(t)
<1> DEFINE w == t - 2
<1>1. Records(n) = IF w < 0 THEN <<>> ELSE [i \in 1..w |-> i + 2]
  BY DEF Records
<1>2. RecordsOf(t) = IF t < 2 THEN <<>> ELSE [i \in 1..w |-> i + 2]
  BY DEF RecordsOf
<1>3. w < 0 <=> t < 2
  OBVIOUS
<1> HIDE DEF w
<1>4. QED
  BY <1>1, <1>2, <1>3

(* What is pending keeps a deleted UDP socket, and what is not over is ideal. *)
LEMMA HeldIsAttended ==
    ASSUME NEW n, Held(n, 0), Lives(n)
    PROVE  /\ n.freed <=> n.deleted /\ ~n.lost /\ n.kernel + Queue(n) + n.sends = 0
           /\ n.hosting /\ ~n.short /\ Queue(n) = 0 => n.kernel = Ideal
<1> DEFINE k == n.kernel
           q == Queue(n)
           r == n.receives_posted
           x == n.sends
           w == n.writes_posted
<1>1. n \in UdpType
  BY DEF Held
<1>2. /\ k \in Nat /\ q \in Nat /\ r \in Nat /\ x \in Nat /\ w \in Nat
      /\ n.lost \in BOOLEAN /\ n.deleted \in BOOLEAN /\ n.freed \in BOOLEAN
  BY <1>1, HeldFields
<1>3. /\ r = k + q + 0
      /\ x <= w /\ (n.lost <=> x < w)
      /\ n.hosting /\ ~n.short => r = Ideal
  BY DEF Held
<1>4. n.freed <=> (IF n.deleted THEN 0 ELSE 1) + r + w = 0
  BY DEF Lives, References
<1> HIDE DEF k, q, r, x, w
<1>5. r = k + q
  BY <1>2, <1>3
<1>6. r + w = 0 <=> ~(x < w) /\ k + q + x = 0
  BY <1>2, <1>3, <1>5
<1>7. (IF n.deleted THEN 0 ELSE 1) + r + w = 0 <=> n.deleted /\ r + w = 0
  BY <1>2
<1>8. n.freed <=> n.deleted /\ ~n.lost /\ k + q + x = 0
  BY <1>3, <1>4, <1>6, <1>7
<1>9. q = 0 => r = k
  BY <1>2, <1>5
<1>10. n.hosting /\ ~n.short /\ q = 0 => k = Ideal
  BY <1>3, <1>9
<1>11. QED
  BY <1>8, <1>10 DEF k, q, x

(* The user of the Unix server is told of each connection once, and of its end    *)
(* exactly if it was told of its coming, through accepts that any hook ends, TLS   *)
(* handshakes and unhosts; the server lists those it was told of; and a client     *)
(* socket counts right, for every number of connections and connects.              *)
THEOREM ToldHolds == EndSpec => []Told
<1>1. EndInv => Told
  BY DEF EndInv, Told, ServerOK, Known, ClientOK, Counted
<1>2. QED
  BY <1>1, EndInvHolds, PTL

(* What nobody accepted or read is still to come, what TLS took in it gives out, a  *)
(* connect is underway or stuck, and the receives of a UDP socket are at their      *)
(* ideal number, whatever that is: no endpoint waits for what never comes, but in   *)
(* the ways that Attended names.                                                    *)
THEOREM AttendedHolds == EndSpec => []Attended
<1>1. EndInv => UdpAttended
  BY HeldIsAttended DEF EndInv, UdpOK, UdpAttended
<1>2. ASSUME EndInv PROVE SecureAttended
  <2> DEFINE n == end
  <2>1. ASSUME part = "windows tls"
        PROVE  /\ n.plain /\ ~n.failed => n.down = <<>> /\ n.delivered = Records(n)
               /\ ~n.early => n.up = 0
    <3>1. SchannelOK(n)
      BY <1>2, <2>1 DEF EndInv
    <3>2. ASSUME n.plain, ~n.failed PROVE n.down = <<>> /\ n.delivered = Records(n)
      <4>1. PICK t \in Nat : Plainly(n, t)
        BY <3>1, <3>2 DEF SchannelOK
      <4>2. n.at \div 2 = t
        BY <4>1 DEF Plainly
      <4>3. QED
        BY <4>1, <4>2, RecordsAre DEF Plainly
    <3>3. QED
      BY <3>1, <3>2 DEF SchannelOK
  <2>2. ASSUME part = "openssl", ~Pumping(n)
        PROVE  /\ ~n.dead => n.delivered = Records(n) /\ (n.up > 0 => n.waiting)
               /\ n.dead => (n.freed <=> ~n.leaked)
    <3>1. OpenSSLOK(n)
      BY <1>2, <2>2 DEF EndInv
    <3>2. ASSUME ~n.dead PROVE n.delivered = Records(n)
      <4>1. PICK t \in Nat : Tracks(n, t)
        BY <3>1 DEF OpenSSLOK
      <4>2. Len(n.bio) < 2 /\ Len(n.bio) \in Nat /\ n.at \in Nat
        BY <2>2, <3>1, <3>2 DEF OpenSSLOK, OpenSSLType
      <4>3. n.at = 2 * t + Len(n.bio)
        BY <4>1, <4>2 DEF Tracks
      <4>4. n.at \div 2 = t
        <5> DEFINE a == n.at
                   l == Len(n.bio)
        <5>1. a \in Nat /\ l \in Nat /\ l < 2 /\ a = 2 * t + l
          BY <4>2, <4>3
        <5> HIDE DEF a, l
        <5>2. a \div 2 = t
          BY <5>1
        <5>3. QED
          BY <5>2 DEF a
      <4>5. QED
        BY <4>1, <4>4, RecordsAre DEF Tracks
    <3>3. QED
      BY <2>2, <3>1, <3>2 DEF OpenSSLOK
  <2>3. QED
    BY <2>1, <2>2 DEF SecureAttended
<1>3. EndInv => Attended
  BY <1>1, <1>2 DEF EndInv, Attended, ServerOK, Waiting, UnixUdpOK, ClientOK
<1>4. QED
  BY <1>3, EndInvHolds, PTL

-----------------------------------------------------------------------------
(***************************************************************************)
(* The server of Listener, by itself and as one of the endpoints.          *)
(***************************************************************************)
(* A closed set of clients leaves both lists at once. *)
LEMMA CloseMirrors ==
    ASSUME NEW closed, RelayMirrorsServer, on_client_close(closed)
    PROVE  RelayMirrorsServer'
  BY DEF RelayMirrorsServer, on_client_close

(* A client that is new to the server is new to the relay server, and goes *)
(* to one of the two sets.                                                 *)
LEMMA ConnectMirrors ==
    ASSUME NEW s, s \notin listed, RelayMirrorsServer,
           generic_handlerconnect(s), listed' = listed \cup {s}
    PROVE  RelayMirrorsServer'
  BY DEF RelayMirrorsServer, generic_handlerconnect

(* The hooks keep the relay server's list in step with the listening       *)
(* server's through every accept, close and unhost, including those of a   *)
(* client whose accept was completed before an unhost and run after it.    *)
THEOREM MirrorKept == Spec => []RelayMirrorsServer
<1>1. Init => RelayMirrorsServer
  BY DEF Init, RelayMirrorsServer
<1>2. RelayMirrorsServer /\ [Next]_vars => RelayMirrorsServer'
  <2> SUFFICES ASSUME RelayMirrorsServer, [Next]_vars
               PROVE  RelayMirrorsServer'
    OBVIOUS
  <2>1. CASE Host
    BY <2>1 DEF Host, RelayMirrorsServer
  <2>2. CASE Unhost
    BY <2>2, CloseMirrors DEF Unhost
  <2>3. ASSUME NEW a \in Accepts, NEW i \in Ips, Arrive(a, i)
        PROVE  RelayMirrorsServer'
    BY <2>3 DEF Arrive, RelayMirrorsServer
  <2>4. ASSUME NEW a \in Accepts, Fail(a) \/ AcceptFailed(a)
        PROVE  RelayMirrorsServer'
    BY <2>4 DEF Fail, AcceptFailed, RelayMirrorsServer
  <2>5. ASSUME NEW a \in Accepts, NEW s \in Sockets, listen_socket_completion(a, s)
        PROVE  RelayMirrorsServer'
    BY <2>5, ConnectMirrors DEF listen_socket_completion
  <2>6. ASSUME NEW s \in Sockets, Approve(s)
        PROVE  RelayMirrorsServer'
    BY <2>6 DEF Approve, RelayMirrorsServer
  <2>7. ASSUME NEW s \in Sockets, Close(s)
        PROVE  RelayMirrorsServer'
    BY <2>7, CloseMirrors DEF Close
  <2>8. CASE UNCHANGED vars
    BY <2>8 DEF vars, RelayMirrorsServer
  <2>9. QED
    BY <2>1, <2>2, <2>3, <2>4, <2>5, <2>6, <2>7, <2>8 DEF Next
<1>3. QED
  BY <1>1, <1>2, PTL DEF Spec

(* Every accept has one of four states. *)
AcceptTyped == accept \in [Accepts -> {"none", "waiting", "ready", "aborted"}]

(* No accept ever has another state. *)
LEMMA AcceptsTyped == Spec => []AcceptTyped
<1>1. Init => AcceptTyped
  BY DEF Init, AcceptTyped
<1>2. ASSUME AcceptTyped, Next
      PROVE  AcceptTyped'
  <2>1. ASSUME NEW a \in Accepts, NEW s \in Sockets, listen_socket_completion(a, s)
        PROVE  AcceptTyped'
    BY <1>2, <2>1 DEF AcceptTyped, listen_socket_completion, Reissued, Refilled
  <2>2. ASSUME NEW a \in Accepts,
               Fail(a) \/ AcceptFailed(a) \/ \E i \in Ips : Arrive(a, i)
        PROVE  AcceptTyped'
    BY <1>2, <2>2 DEF AcceptTyped, Fail, AcceptFailed, accept_completed, Arrive
  <2>3. CASE Host \/ Unhost
    BY <1>2, <2>3 DEF AcceptTyped, Host, Unhost, Refilled
  <2>4. CASE \E s \in Sockets : Approve(s) \/ Close(s)
    BY <1>2, <2>4 DEF AcceptTyped, Approve, Close
  <2>5. QED
    BY <1>2, <2>1, <2>2, <2>3, <2>4 DEF Next
<1>3. AcceptTyped /\ UNCHANGED vars => AcceptTyped'
  BY DEF AcceptTyped, vars
<1>4. QED
  BY <1>1, <1>2, <1>3, PTL DEF Spec

(* Failures are counted up to the number of accepts. *)
LostTyped == lost \in 0..Cardinality(Accepts)

(* What is missing is some of the accepts, so it can be counted.           *)
LEMMA MissingCounted ==
    /\ Missing \subseteq Accepts /\ IsFiniteSet(Missing)
    /\ Cardinality(Missing) \in Nat /\ Cardinality(Accepts) \in Nat
    /\ Cardinality(Missing) <= Cardinality(Accepts)
<1>1. Missing \subseteq Accepts /\ IsFiniteSet(Accepts)
  BY ListenerAssumption DEF Missing
<1>2. QED
  BY <1>1, FS_Subset, FS_CardinalityType

(* An accept that ends adds at most itself to what is missing, and a loop   *)
(* that ran to its end leaves nothing else missing.                         *)
LEMMA CompletionCosts ==
    ASSUME AcceptTyped, NEW a \in Accepts, NEW s \in Sockets, hosting,
           listen_socket_completion(a, s)
    PROVE  \/ Missing' \subseteq {a} /\ lost' = 0
           \/ Missing' \subseteq Missing \cup {a} /\ lost' = OneLost
<1>1. PICK issued \in SUBSET Missing :
        /\ accept' = [Reissued(issued) EXCEPT ![a] = "none"]
        /\ lost' = IF issued = Missing THEN 0 ELSE OneLost
  BY DEF listen_socket_completion
<1>2. \A x \in Accepts \ {a} : accept'[x] = IF x \in issued THEN "waiting" ELSE accept[x]
  BY <1>1 DEF Reissued, Refilled
<1>3. \A x \in Missing' \ {a} : x \in Missing \ issued
  BY <1>2 DEF Missing, Pending
<1>4. QED
  BY <1>1, <1>3

(* The count of failures keeps ahead of what is missing.                    *)
LEMMA LossCovers ==
    ASSUME NEW a, LostTyped, Cardinality(Missing) <= 1 + lost,
           Missing' \subseteq Missing \cup {a}, lost' = OneLost
    PROVE  Cardinality(Missing)' <= 1 + lost'
<1>1. Cardinality(Missing') <= Cardinality(Accepts) /\ Cardinality(Missing') \in Nat
  <2>1. Missing' \subseteq Accepts /\ IsFiniteSet(Accepts)
    BY ListenerAssumption DEF Missing
  <2>2. QED
    BY <2>1, FS_Subset, FS_CardinalityType
<1>2. CASE lost < Cardinality(Accepts)
  <2>1. IsFiniteSet(Missing \cup {a}) /\ Cardinality(Missing \cup {a}) <= Cardinality(Missing) + 1
    BY MissingCounted, FS_AddElement
  <2>2. Cardinality(Missing') <= Cardinality(Missing \cup {a}) /\ Cardinality(Missing \cup {a}) \in Nat
    BY <2>1, FS_Subset, FS_CardinalityType
  <2>3. QED
    BY <1>1, <1>2, <2>1, <2>2, MissingCounted DEF OneLost, LostTyped
<1>3. CASE ~(lost < Cardinality(Accepts))
  BY <1>1, <1>3, MissingCounted DEF OneLost, LostTyped
<1>4. QED
  BY <1>2, <1>3

(* Whatever fails, the pool misses one accept for each failure since a      *)
(* refill last ran to its end, and one more: it never dwindles by success,  *)
(* and one connection that finds sockets to be had restores all but its own. *)
THEOREM PoolKept == Spec => []PoolKeepsUp
<1>1. Init => LostTyped /\ PoolKeepsUp
  BY MissingCounted DEF Init, LostTyped, PoolKeepsUp
<1>2. AcceptTyped /\ LostTyped /\ PoolKeepsUp /\ [Next]_vars => LostTyped' /\ PoolKeepsUp'
  <2> SUFFICES ASSUME AcceptTyped, LostTyped, PoolKeepsUp, [Next]_vars
               PROVE  LostTyped' /\ PoolKeepsUp'
    OBVIOUS
  <2>0. OneLost \in 0..Cardinality(Accepts)
    BY MissingCounted DEF OneLost, LostTyped
  <2>1. CASE Host
    <3>1. PICK issued \in SUBSET Missing :
            accept' = Refilled(issued) /\ lost' = Cardinality(Missing \ issued)
      BY <2>1 DEF Host
    <3>2. Missing' \subseteq Missing \ issued
      BY <3>1 DEF Missing, Pending, Refilled
    <3>3. IsFiniteSet(Missing \ issued) /\ Cardinality(Missing \ issued) <= Cardinality(Accepts)
      BY MissingCounted, ListenerAssumption, FS_Subset
    <3>4. Cardinality(Missing') <= Cardinality(Missing \ issued)
      BY <3>2, <3>3, FS_Subset
    <3>5. Cardinality(Missing') \in Nat /\ Cardinality(Missing \ issued) \in Nat
      BY <3>2, <3>3, FS_Subset, FS_CardinalityType
    <3>6. QED
      BY <3>1, <3>3, <3>4, <3>5, MissingCounted DEF LostTyped, PoolKeepsUp
  <2>2. CASE Unhost
    BY <2>2 DEF Unhost, LostTyped, PoolKeepsUp
  <2>3. ASSUME NEW a \in Accepts, Fail(a) \/ \E i \in Ips : Arrive(a, i)
        PROVE  LostTyped' /\ PoolKeepsUp'
    <3>1. Missing' = Missing /\ lost' = lost /\ hosting' = hosting
      BY <2>3 DEF Fail, Arrive, Missing, Pending, AcceptTyped
    <3>2. QED
      BY <3>1 DEF LostTyped, PoolKeepsUp
  <2>4. ASSUME NEW a \in Accepts, AcceptFailed(a)
        PROVE  LostTyped' /\ PoolKeepsUp'
    <3>1. Missing' \subseteq Missing \cup {a} /\ lost' = OneLost /\ hosting' = hosting
      BY <2>4 DEF AcceptFailed, accept_completed, Missing, Pending, AcceptTyped
    <3>2. QED
      BY <2>0, <3>1, LossCovers DEF LostTyped, PoolKeepsUp
  <2>5. ASSUME NEW a \in Accepts, NEW s \in Sockets, listen_socket_completion(a, s)
        PROVE  LostTyped' /\ PoolKeepsUp'
    <3>1. hosting' = hosting /\ lost' \in {0, OneLost}
      BY <2>5 DEF listen_socket_completion
    <3>2. CASE hosting
      <4>1. CASE Missing' \subseteq {a} /\ lost' = 0
        <5>1. IsFiniteSet({a}) /\ Cardinality({a}) = 1
          BY FS_Singleton
        <5>2. Cardinality(Missing') <= 1
          BY <4>1, <5>1, FS_Subset
        <5>3. QED
          BY <4>1, <5>2, MissingCounted DEF LostTyped, PoolKeepsUp
      <4>2. CASE Missing' \subseteq Missing \cup {a} /\ lost' = OneLost
        BY <2>0, <3>2, <4>2, LossCovers DEF LostTyped, PoolKeepsUp
      <4>3. QED
        BY <2>5, <3>2, <4>1, <4>2, CompletionCosts
    <3>3. CASE ~hosting
      BY <2>0, <3>1, <3>3, MissingCounted DEF LostTyped, PoolKeepsUp
    <3>4. QED
      BY <3>2, <3>3
  <2>6. ASSUME NEW s \in Sockets, Approve(s) \/ Close(s)
        PROVE  LostTyped' /\ PoolKeepsUp'
    <3>1. accept' = accept /\ lost' = lost /\ hosting' = hosting
      BY <2>6 DEF Approve, Close
    <3>2. Missing' = Missing
      BY <3>1 DEF Missing, Pending
    <3>3. QED
      BY <3>1, <3>2 DEF LostTyped, PoolKeepsUp
  <2>7. CASE UNCHANGED vars
    BY <2>7 DEF vars, LostTyped, PoolKeepsUp, Missing, Pending
  <2>8. QED
    BY <2>1, <2>2, <2>3, <2>4, <2>5, <2>6, <2>7 DEF Next
<1>3. QED
  BY <1>1, <1>2, AcceptsTyped, PTL DEF Spec

(* Running beside the other endpoints, which share nothing with it but the *)
(* pump, the listening server of the Windows build behaves as it does      *)
(* alone: what holds of every behaviour of Listener holds here.            *)
THEOREM EndpointsKeepListener == EndSpec => Spec
<1>1. EndInit => Init
  BY DEF EndInit
<1>2. [EndNext]_<<vars, endvars>> => [Next]_vars
  <2> SUFFICES ASSUME [EndNext]_<<vars, endvars>> PROVE [Next]_vars
    OBVIOUS
  <2>1. Next \/ UNCHANGED vars
    BY StepsOfEndNext, StepsAreOfTheirPart DEF Alone
  <2>2. QED
    BY <2>1
<1>3. QED
  BY <1>1, <1>2, PTL DEF EndSpec, Spec

(* The relay server's list of clients is the listening server's, but for   *)
(* the refused, through every accept, close and unhost.                    *)
COROLLARY MirrorHolds == EndSpec => []RelayMirrorsServer
  BY MirrorKept, EndpointsKeepListener, PTL

(* The same of the pool of accepts, beside the other endpoints.            *)
COROLLARY PoolRefills == EndSpec => []PoolKeepsUp
  BY PoolKept, EndpointsKeepListener, PTL
=============================================================================
