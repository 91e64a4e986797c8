-------------------------- MODULE WebServerProofs --------------------------
(***************************************************************************)
(* Theorems about WebServer, for every number of requests and connections  *)
(* and every script of requests.  WebInv, below, is the inductive          *)
(* invariant: where the sink is in what the browser sent decides what the  *)
(* request object may hold.  Each function of the model has a lemma that   *)
(* says what it makes of a record that satisfies its part of WebInv, and   *)
(* each action has one that puts them together.                            *)
(***************************************************************************)
EXTENDS WebServer, SequenceTheorems, TLAPS

Spot == [r : Nat, j : Nat]
Answer == [r : Nat, headers : SUBSET Nat, items : SUBSET Nat]
Multipart == [there : BOOLEAN, r : Nat, done : BOOLEAN, called : BOOLEAN, open : BOOLEAN]
Ways == {"unanswered", "answered twice", "while saving", "no hook", "too late",
         "not answered yet", "left waiting", "freed"}

Fields ==
    {"responded", "cur", "body", "items", "parsed", "headersOut", "cookie",
     "changed", "open", "shut", "parsing", "sinking", "nested", "multipart",
     "held", "told", "complete", "answers", "front", "at", "base",
     "connections", "jar", "next", "ahead", "sent", "sessions", "lost",
     "closing", "broken", "op", "finish"}

(* A record with these fields, of the types below. *)
Rec(n) == n = [f \in Fields |-> n[f]]

Typed(n) ==
    /\ n.responded \in BOOLEAN /\ n.cur \in Nat /\ n.body \in SUBSET Nat
    /\ n.items \in SUBSET Nat /\ n.parsed \in BOOLEAN /\ n.headersOut \in SUBSET Nat
    /\ n.cookie \in Nat /\ n.changed \in BOOLEAN /\ n.open \in BOOLEAN
    /\ n.shut \in BOOLEAN /\ n.parsing \in BOOLEAN /\ n.sinking \in BOOLEAN
    /\ n.nested \in BOOLEAN /\ n.multipart \in Multipart /\ n.held \in Nat
    /\ n.told \in BOOLEAN /\ n.complete \in Nat /\ n.answers \in Seq(Answer)
    /\ n.front \in Spot /\ n.at \in Spot /\ n.base \in Nat /\ n.connections \in Nat
    /\ n.jar \in Nat /\ n.next \in Nat /\ n.ahead \in BOOLEAN
    /\ n.sent \in [1..MaxRequests -> Nat] /\ n.sessions \in SUBSET Nat
    /\ n.lost \in SUBSET Nat /\ n.closing \in SUBSET Nat /\ n.broken \in SUBSET Ways
    /\ n.op \in Ops /\ n.finish \in BOOLEAN

Net(n) == Rec(n) /\ Typed(n)

(* m is n but for the fields of F. *)
Like(m, n, F) == Rec(m) /\ \A g \in Fields \ F : m[g] = n[g]

---------------------------------------------------------------------------
(* The parts of the invariant.  Of a record n: *)

(* Each answer belongs to its request. *)
Proper(a, r) ==
    /\ a.r = r
    /\ a.items = IF script[a.r] \in {"post", "form"} THEN {a.r} ELSE a.items \cap {a.r}
    /\ a.headers \subseteq {a.r}
Answers(n) == \A i \in 1..Len(n.answers) : Proper(n.answers[i], n.base + i - 1)

(* What the request object holds of items is the current request's. *)
Whole(n, items) ==
    items = IF script[n.cur] \in {"post", "form"} THEN {n.cur} ELSE items \cap {n.cur}
Own(n) == n.cur \in 1..MaxRequests /\ Whole(n, n.items) /\ n.headersOut \subseteq {n.cur}

(* The sessions that live are those that the browser names, or will.  *)
Live(n) == n.sessions \ n.lost
Cookie(n) == ~n.changed => n.cookie = n.jar
One(n) ==
    ~n.ahead => IF n.responded THEN Live(n) \subseteq {n.jar}
                ELSE Live(n) \subseteq {n.cookie} /\ Cookie(n)

(* The headers of request r have been sent and are not parsed yet. *)
Pending(n, r) == ~Before(Place(r, 3), n.front) /\ Before(Place(r, 3), n.at)

(* Then they carry the browser's cookie of now. *)
Fresh(n) == ~n.ahead => \A r \in 1..MaxRequests : Pending(n, r) => n.sent[r] = n.jar

(* A browser that waits has not begun to send what comes after the next. *)
Waits(n) == ~n.ahead => Sending(n.at) <= n.base + Len(n.answers)

(* A request whose hook is to be called. *)
ToCall(n) ==
    /\ n.responded /\ ~n.parsed /\ n.body \subseteq {n.cur} /\ n.items \subseteq {n.cur}
    /\ ~n.ahead => n.cookie = n.jar /\ ~n.changed

(* Between two requests, a file of the last one may still be closing. *)
Between(n) ==
    /\ n.parsing /\ n.front.j = 1
    /\ n.multipart.there => n.multipart.done
    /\ Saving(n) => ToCall(n) /\ n.cur = n.multipart.r /\ n.cur = n.front.r - 1
                    /\ n.cur >= n.base
    /\ ~n.responded => n.cur = n.front.r - 1

(* Within the headers, the request object is clean. *)
Heading(n) ==
    /\ n.parsing /\ n.front.j = 3 /\ n.cur = n.front.r
    /\ n.responded /\ ~n.parsed /\ ~n.changed /\ n.cookie = 0
    /\ n.body = {} /\ n.items = {}
    /\ n.multipart.there => n.multipart.done /\ n.multipart.called

(* Within the body, the hook of a multipart one may have been called. *)
InBody(n) ==
    /\ ~n.parsing /\ n.front.j >= 4 /\ n.front.r <= MaxRequests /\ n.cur = n.front.r
    /\ IF script[n.cur] \in Uploads
       THEN /\ n.multipart.there /\ n.multipart.r = n.cur /\ ~n.multipart.done
            /\ ~n.multipart.called => ToCall(n)
            /\ script[n.cur] = "form" =>
                   ~n.multipart.called /\ (n.front.j = 5 => n.items = {n.cur})
       ELSE ToCall(n) /\ (n.multipart.there => n.multipart.done /\ n.multipart.called)

(* Requests that are complete have one answer each, but for one that waits; the one *)
(* whose body is coming may have its own.                                            *)
Early(n) == n.multipart.there /\ n.multipart.called /\ ~n.multipart.done
Awaited(n) == (IF n.responded THEN 0 ELSE 1) + (IF Saving(n) THEN 1 ELSE 0)
Counted(n) == Len(n.answers) + Awaited(n) = n.complete + (IF Early(n) THEN 1 ELSE 0)

(* What holds of an open connection, whether its sink runs or not. *)
Steady(n) ==
    /\ n.held = IF n.responded THEN 0 ELSE 1
    /\ auto => n.responded
    /\ ~n.responded => Own(n)
    /\ n.complete = n.front.r - n.base
    /\ ~n.shut => Counted(n)
    /\ Waits(n) /\ Fresh(n) /\ ~Before(n.at, n.front)
    /\ Between(n) \/ Heading(n) \/ InBody(n)

(* The sink runs as long as there is something that it may parse. *)
Sinks(n) ==
    /\ n.sinking => HasLine(n) /\ (n.parsing => n.responded)
    /\ ~n.sinking /\ n.responded => ~HasLine(n)

Closed(n) ==
    /\ n.responded /\ ~n.sinking /\ ~n.multipart.there
    /\ n.told <=> n.held > 0

Lasting(n) ==
    /\ n.front \in Places /\ n.at \in Places
    /\ \A r \in n.closing : r \in 1..MaxRequests /\ script[r] \in {"save", "mixed"}
    /\ Answers(n) /\ One(n)

Good(n) == Lasting(n) /\ IF n.open THEN Steady(n) /\ Sinks(n) ELSE Closed(n)

Bad == {"unanswered", "answered twice"}

Sure(n) == Net(n) /\ n.broken \cap Bad = {} /\ (n.broken = {} => Good(n))

WebInv ==
    /\ auto \in BOOLEAN /\ slow \in BOOLEAN /\ script \in [1..MaxRequests -> Kinds]
    /\ Sure(net)

(* A record of this model has these fields and no other. *)
LEMMA Domain ==
  ASSUME NEW n, Rec(n)
  PROVE  DOMAIN n = Fields
  BY DEF Rec

(* Writing the sessions whose cookie was lost keeps a record's type *)
(* and its other fields.                                            *)
LEMMA UpdLost ==
  ASSUME NEW n, Net(n), NEW v, v \in SUBSET Nat, NEW m,
         m = [n EXCEPT !.lost = v]
  PROVE  Net(m) /\ Like(m, n, {"lost"})
         /\ m.lost = v
<1>1. DOMAIN n = Fields
  BY Domain DEF Net
<1>2. m.lost = v
  BY <1>1 DEF Fields
<1>3. \A g \in Fields \ {"lost"} : m[g] = n[g]
  BY <1>1
<1>4. Rec(m)
  BY <1>1 DEF Rec
<1>5. Typed(m)
  BY <1>2, <1>3 DEF Net, Typed, Fields
<1> QED
  BY <1>2, <1>3, <1>4, <1>5 DEF Net, Like

(* Writing the answers and the browser's cookie keeps a record's type *)
(* and its other fields.                                              *)
LEMMA UpdAnswers ==
  ASSUME NEW n, Net(n), NEW v1, v1 \in Seq(Answer), NEW v2, v2 \in Nat, NEW m,
         m = [n EXCEPT !.answers = v1, !.jar = v2]
  PROVE  Net(m) /\ Like(m, n, {"answers", "jar"})
         /\ m.answers = v1 /\ m.jar = v2
<1>1. DOMAIN n = Fields
  BY Domain DEF Net
<1>2. m.answers = v1 /\ m.jar = v2
  BY <1>1 DEF Fields
<1>3. \A g \in Fields \ {"answers", "jar"} : m[g] = n[g]
  BY <1>1
<1>4. Rec(m)
  BY <1>1 DEF Rec
<1>5. Typed(m)
  BY <1>2, <1>3 DEF Net, Typed, Fields
<1> QED
  BY <1>2, <1>3, <1>4, <1>5 DEF Net, Like

(* Writing the answer of the request and the end of writing keeps a record's type *)
(* and its other fields.                                                          *)
LEMMA UpdResponded ==
  ASSUME NEW n, Net(n), NEW v1, v1 \in BOOLEAN, NEW v2, v2 \in BOOLEAN, NEW m,
         m = [n EXCEPT !.responded = v1, !.shut = v2]
  PROVE  Net(m) /\ Like(m, n, {"responded", "shut"})
         /\ m.responded = v1 /\ m.shut = v2
<1>1. DOMAIN n = Fields
  BY Domain DEF Net
<1>2. m.responded = v1 /\ m.shut = v2
  BY <1>1 DEF Fields
<1>3. \A g \in Fields \ {"responded", "shut"} : m[g] = n[g]
  BY <1>1
<1>4. Rec(m)
  BY <1>1 DEF Rec
<1>5. Typed(m)
  BY <1>2, <1>3 DEF Net, Typed, Fields
<1> QED
  BY <1>2, <1>3, <1>4, <1>5 DEF Net, Like

(* Writing the sink keeps a record's type *)
(* and its other fields.                  *)
LEMMA UpdSinking ==
  ASSUME NEW n, Net(n), NEW v, v \in BOOLEAN, NEW m,
         m = [n EXCEPT !.sinking = v]
  PROVE  Net(m) /\ Like(m, n, {"sinking"})
         /\ m.sinking = v
<1>1. DOMAIN n = Fields
  BY Domain DEF Net
<1>2. m.sinking = v
  BY <1>1 DEF Fields
<1>3. \A g \in Fields \ {"sinking"} : m[g] = n[g]
  BY <1>1
<1>4. Rec(m)
  BY <1>1 DEF Rec
<1>5. Typed(m)
  BY <1>2, <1>3 DEF Net, Typed, Fields
<1> QED
  BY <1>2, <1>3, <1>4, <1>5 DEF Net, Like

(* Writing the headers of the answer keeps a record's type *)
(* and its other fields.                                   *)
LEMMA UpdHeaders ==
  ASSUME NEW n, Net(n), NEW v, v \in SUBSET Nat, NEW m,
         m = [n EXCEPT !.headersOut = v]
  PROVE  Net(m) /\ Like(m, n, {"headersOut"})
         /\ m.headersOut = v
<1>1. DOMAIN n = Fields
  BY Domain DEF Net
<1>2. m.headersOut = v
  BY <1>1 DEF Fields
<1>3. \A g \in Fields \ {"headersOut"} : m[g] = n[g]
  BY <1>1
<1>4. Rec(m)
  BY <1>1 DEF Rec
<1>5. Typed(m)
  BY <1>2, <1>3 DEF Net, Typed, Fields
<1> QED
  BY <1>2, <1>3, <1>4, <1>5 DEF Net, Like

(* Writing the sessions keeps a record's type *)
(* and its other fields.                      *)
LEMMA UpdSessions ==
  ASSUME NEW n, Net(n), NEW v, v \in SUBSET Nat, NEW m,
         m = [n EXCEPT !.sessions = v]
  PROVE  Net(m) /\ Like(m, n, {"sessions"})
         /\ m.sessions = v
<1>1. DOMAIN n = Fields
  BY Domain DEF Net
<1>2. m.sessions = v
  BY <1>1 DEF Fields
<1>3. \A g \in Fields \ {"sessions"} : m[g] = n[g]
  BY <1>1
<1>4. Rec(m)
  BY <1>1 DEF Rec
<1>5. Typed(m)
  BY <1>2, <1>3 DEF Net, Typed, Fields
<1> QED
  BY <1>2, <1>3, <1>4, <1>5 DEF Net, Like

(* Writing the requests that the application keeps keeps a record's type *)
(* and its other fields.                                                 *)
LEMMA UpdHeld ==
  ASSUME NEW n, Net(n), NEW v, v \in Nat, NEW m,
         m = [n EXCEPT !.held = v]
  PROVE  Net(m) /\ Like(m, n, {"held"})
         /\ m.held = v
<1>1. DOMAIN n = Fields
  BY Domain DEF Net
<1>2. m.held = v
  BY <1>1 DEF Fields
<1>3. \A g \in Fields \ {"held"} : m[g] = n[g]
  BY <1>1
<1>4. Rec(m)
  BY <1>1 DEF Rec
<1>5. Typed(m)
  BY <1>2, <1>3 DEF Net, Typed, Fields
<1> QED
  BY <1>2, <1>3, <1>4, <1>5 DEF Net, Like

(* Writing the answer that the sink runs within keeps a record's type *)
(* and its other fields.                                              *)
LEMMA UpdNested ==
  ASSUME NEW n, Net(n), NEW v, v \in BOOLEAN, NEW m,
         m = [n EXCEPT !.nested = v]
  PROVE  Net(m) /\ Like(m, n, {"nested"})
         /\ m.nested = v
<1>1. DOMAIN n = Fields
  BY Domain DEF Net
<1>2. m.nested = v
  BY <1>1 DEF Fields
<1>3. \A g \in Fields \ {"nested"} : m[g] = n[g]
  BY <1>1
<1>4. Rec(m)
  BY <1>1 DEF Rec
<1>5. Typed(m)
  BY <1>2, <1>3 DEF Net, Typed, Fields
<1> QED
  BY <1>2, <1>3, <1>4, <1>5 DEF Net, Like

(* Writing the multipart parser keeps a record's type *)
(* and its other fields.                              *)
LEMMA UpdMultipart ==
  ASSUME NEW n, Net(n), NEW v, v \in Multipart, NEW m,
         m = [n EXCEPT !.multipart = v]
  PROVE  Net(m) /\ Like(m, n, {"multipart"})
         /\ m.multipart = v
<1>1. DOMAIN n = Fields
  BY Domain DEF Net
<1>2. m.multipart = v
  BY <1>1 DEF Fields
<1>3. \A g \in Fields \ {"multipart"} : m[g] = n[g]
  BY <1>1
<1>4. Rec(m)
  BY <1>1 DEF Rec
<1>5. Typed(m)
  BY <1>2, <1>3 DEF Net, Typed, Fields
<1> QED
  BY <1>2, <1>3, <1>4, <1>5 DEF Net, Like

(* Writing the items of the request keeps a record's type *)
(* and its other fields.                                  *)
LEMMA UpdItems ==
  ASSUME NEW n, Net(n), NEW v, v \in SUBSET Nat, NEW m,
         m = [n EXCEPT !.items = v]
  PROVE  Net(m) /\ Like(m, n, {"items"})
         /\ m.items = v
<1>1. DOMAIN n = Fields
  BY Domain DEF Net
<1>2. m.items = v
  BY <1>1 DEF Fields
<1>3. \A g \in Fields \ {"items"} : m[g] = n[g]
  BY <1>1
<1>4. Rec(m)
  BY <1>1 DEF Rec
<1>5. Typed(m)
  BY <1>2, <1>3 DEF Net, Typed, Fields
<1> QED
  BY <1>2, <1>3, <1>4, <1>5 DEF Net, Like

(* Writing the body that was read keeps a record's type *)
(* and its other fields.                                *)
LEMMA UpdBody ==
  ASSUME NEW n, Net(n), NEW v, v \in SUBSET Nat, NEW m,
         m = [n EXCEPT !.body = v]
  PROVE  Net(m) /\ Like(m, n, {"body"})
         /\ m.body = v
<1>1. DOMAIN n = Fields
  BY Domain DEF Net
<1>2. m.body = v
  BY <1>1 DEF Fields
<1>3. \A g \in Fields \ {"body"} : m[g] = n[g]
  BY <1>1
<1>4. Rec(m)
  BY <1>1 DEF Rec
<1>5. Typed(m)
  BY <1>2, <1>3 DEF Net, Typed, Fields
<1> QED
  BY <1>2, <1>3, <1>4, <1>5 DEF Net, Like

(* Writing the faults keeps a record's type *)
(* and its other fields.                    *)
LEMMA UpdBroken ==
  ASSUME NEW n, Net(n), NEW v, v \in SUBSET Ways, NEW m,
         m = [n EXCEPT !.broken = v]
  PROVE  Net(m) /\ Like(m, n, {"broken"})
         /\ m.broken = v
<1>1. DOMAIN n = Fields
  BY Domain DEF Net
<1>2. m.broken = v
  BY <1>1 DEF Fields
<1>3. \A g \in Fields \ {"broken"} : m[g] = n[g]
  BY <1>1
<1>4. Rec(m)
  BY <1>1 DEF Rec
<1>5. Typed(m)
  BY <1>2, <1>3 DEF Net, Typed, Fields
<1> QED
  BY <1>2, <1>3, <1>4, <1>5 DEF Net, Like

(* Writing the word to the application keeps a record's type *)
(* and its other fields.                                     *)
LEMMA UpdTold ==
  ASSUME NEW n, Net(n), NEW v, v \in BOOLEAN, NEW m,
         m = [n EXCEPT !.told = v]
  PROVE  Net(m) /\ Like(m, n, {"told"})
         /\ m.told = v
<1>1. DOMAIN n = Fields
  BY Domain DEF Net
<1>2. m.told = v
  BY <1>1 DEF Fields
<1>3. \A g \in Fields \ {"told"} : m[g] = n[g]
  BY <1>1
<1>4. Rec(m)
  BY <1>1 DEF Rec
<1>5. Typed(m)
  BY <1>2, <1>3 DEF Net, Typed, Fields
<1> QED
  BY <1>2, <1>3, <1>4, <1>5 DEF Net, Like

(* Writing the current request keeps a record's type *)
(* and its other fields.                             *)
LEMMA UpdCur ==
  ASSUME NEW n, Net(n), NEW v, v \in Nat, NEW m,
         m = [n EXCEPT !.cur = v]
  PROVE  Net(m) /\ Like(m, n, {"cur"})
         /\ m.cur = v
<1>1. DOMAIN n = Fields
  BY Domain DEF Net
<1>2. m.cur = v
  BY <1>1 DEF Fields
<1>3. \A g \in Fields \ {"cur"} : m[g] = n[g]
  BY <1>1
<1>4. Rec(m)
  BY <1>1 DEF Rec
<1>5. Typed(m)
  BY <1>2, <1>3 DEF Net, Typed, Fields
<1> QED
  BY <1>2, <1>3, <1>4, <1>5 DEF Net, Like

(* Writing the state of the parser keeps a record's type *)
(* and its other fields.                                 *)
LEMMA UpdParsing ==
  ASSUME NEW n, Net(n), NEW v, v \in BOOLEAN, NEW m,
         m = [n EXCEPT !.parsing = v]
  PROVE  Net(m) /\ Like(m, n, {"parsing"})
         /\ m.parsing = v
<1>1. DOMAIN n = Fields
  BY Domain DEF Net
<1>2. m.parsing = v
  BY <1>1 DEF Fields
<1>3. \A g \in Fields \ {"parsing"} : m[g] = n[g]
  BY <1>1
<1>4. Rec(m)
  BY <1>1 DEF Rec
<1>5. Typed(m)
  BY <1>2, <1>3 DEF Net, Typed, Fields
<1> QED
  BY <1>2, <1>3, <1>4, <1>5 DEF Net, Like

(* Writing the count of complete requests keeps a record's type *)
(* and its other fields.                                        *)
LEMMA UpdComplete ==
  ASSUME NEW n, Net(n), NEW v, v \in Nat, NEW m,
         m = [n EXCEPT !.complete = v]
  PROVE  Net(m) /\ Like(m, n, {"complete"})
         /\ m.complete = v
<1>1. DOMAIN n = Fields
  BY Domain DEF Net
<1>2. m.complete = v
  BY <1>1 DEF Fields
<1>3. \A g \in Fields \ {"complete"} : m[g] = n[g]
  BY <1>1
<1>4. Rec(m)
  BY <1>1 DEF Rec
<1>5. Typed(m)
  BY <1>2, <1>3 DEF Net, Typed, Fields
<1> QED
  BY <1>2, <1>3, <1>4, <1>5 DEF Net, Like

(* Writing the place of the sink keeps a record's type *)
(* and its other fields.                               *)
LEMMA UpdFront ==
  ASSUME NEW n, Net(n), NEW v, v \in Spot, NEW m,
         m = [n EXCEPT !.front = v]
  PROVE  Net(m) /\ Like(m, n, {"front"})
         /\ m.front = v
<1>1. DOMAIN n = Fields
  BY Domain DEF Net
<1>2. m.front = v
  BY <1>1 DEF Fields
<1>3. \A g \in Fields \ {"front"} : m[g] = n[g]
  BY <1>1
<1>4. Rec(m)
  BY <1>1 DEF Rec
<1>5. Typed(m)
  BY <1>2, <1>3 DEF Net, Typed, Fields
<1> QED
  BY <1>2, <1>3, <1>4, <1>5 DEF Net, Like

(* Writing the count of connections keeps a record's type *)
(* and its other fields.                                  *)
LEMMA UpdConnections ==
  ASSUME NEW n, Net(n), NEW v, v \in Nat, NEW m,
         m = [n EXCEPT !.connections = v]
  PROVE  Net(m) /\ Like(m, n, {"connections"})
         /\ m.connections = v
<1>1. DOMAIN n = Fields
  BY Domain DEF Net
<1>2. m.connections = v
  BY <1>1 DEF Fields
<1>3. \A g \in Fields \ {"connections"} : m[g] = n[g]
  BY <1>1
<1>4. Rec(m)
  BY <1>1 DEF Rec
<1>5. Typed(m)
  BY <1>2, <1>3 DEF Net, Typed, Fields
<1> QED
  BY <1>2, <1>3, <1>4, <1>5 DEF Net, Like

(* Writing the files being closed keeps a record's type *)
(* and its other fields.                                *)
LEMMA UpdClosing ==
  ASSUME NEW n, Net(n), NEW v, v \in SUBSET Nat, NEW m,
         m = [n EXCEPT !.closing = v]
  PROVE  Net(m) /\ Like(m, n, {"closing"})
         /\ m.closing = v
<1>1. DOMAIN n = Fields
  BY Domain DEF Net
<1>2. m.closing = v
  BY <1>1 DEF Fields
<1>3. \A g \in Fields \ {"closing"} : m[g] = n[g]
  BY <1>1
<1>4. Rec(m)
  BY <1>1 DEF Rec
<1>5. Typed(m)
  BY <1>2, <1>3 DEF Net, Typed, Fields
<1> QED
  BY <1>2, <1>3, <1>4, <1>5 DEF Net, Like

---------------------------------------------------------------------------
(* From a complete request to its answer: what these functions leave alone. *)
Outer(m, n) ==
    /\ m.cur = n.cur /\ m.body = n.body /\ m.open = n.open /\ m.parsing = n.parsing
    /\ m.multipart = n.multipart /\ m.told = n.told /\ m.complete = n.complete
    /\ m.front = n.front /\ m.at = n.at /\ m.base = n.base /\ m.ahead = n.ahead
    /\ m.sent = n.sent /\ m.closing = n.closing /\ m.broken = n.broken

Session(m, n) ==
    /\ m.cookie = n.cookie /\ m.changed = n.changed /\ m.sessions = n.sessions
    /\ m.lost = n.lost /\ m.jar = n.jar

Answering(m, n) ==
    /\ m.responded = n.responded /\ m.answers = n.answers /\ m.shut = n.shut
    /\ m.held = n.held /\ m.sinking = n.sinking

(* No headers that wait to be parsed carry the browser's cookie. *)
Clear(n) == ~n.ahead /\ ~n.shut => \A r \in 1..MaxRequests : ~Pending(n, r)

InOrder(n) == ~n.shut => n.cur = n.base + Len(n.answers)

(* A request that waits for its answer, and is to get it now. *)
Asked(n) ==
    /\ Net(n) /\ n.open /\ ~n.responded /\ n.held = 0
    /\ Own(n) /\ One(n) /\ Answers(n) /\ Fresh(n) /\ Clear(n) /\ InOrder(n)

(* One that is complete, before its hook is called. *)
Ready(n) ==
    /\ Net(n) /\ n.open /\ n.held = 0 /\ ToCall(n) /\ n.cur \in 1..MaxRequests
    /\ Whole(n, n.items \cup n.body)
    /\ ~n.ahead => Live(n) \subseteq {n.jar}
    /\ Answers(n) /\ Fresh(n) /\ Clear(n) /\ InOrder(n)

(* What becomes of n when its request has been answered or is kept. *)
Handled(m, n) ==
    /\ Net(m) /\ Outer(m, n) /\ Answers(m) /\ One(m) /\ Fresh(m)
    /\ m.held = (IF m.responded THEN 0 ELSE 1)
    /\ auto => m.responded
    /\ ~m.responded => Own(m) /\ m.answers = n.answers /\ m.shut = n.shut /\ m.sinking = n.sinking
    /\ m.responded => (n.shut /\ m.answers = n.answers) \/ Len(m.answers) = Len(n.answers) + 1
    /\ n.shut => m.shut
    /\ m.responded => m.sinking = (n.sinking \/ HasLine(m))

(* What comes from another record's fields comes from its own. *)
LEMMA ItemsFollow ==
  ASSUME NEW m, NEW n, Outer(m, n), m.items = n.items, m.headersOut = n.headersOut
  PROVE  Own(n) => Own(m)
  BY DEF Outer, Own, Whole

(* An answer to a request is sent, or lost if the connection is shut. *)
LEMMA SentEffect ==
  ASSUME NEW n, Net(n)
  PROVE  /\ Net(Sent(n)) /\ Outer(Sent(n), n)
         /\ Sent(n).responded = n.responded /\ Sent(n).shut = n.shut
         /\ Sent(n).held = n.held /\ Sent(n).sinking = n.sinking
         /\ Sent(n).cookie = n.cookie /\ Sent(n).changed = n.changed
         /\ Sent(n).sessions = n.sessions
         /\ n.shut => /\ Sent(n).answers = n.answers /\ Sent(n).jar = n.jar
                      /\ Sent(n).lost = IF n.changed THEN n.lost \cup {n.cookie} ELSE n.lost
         /\ ~n.shut => /\ Sent(n).answers = Append(n.answers,
                              [r |-> n.cur, headers |-> n.headersOut, items |-> n.items])
                       /\ Sent(n).jar = IF n.changed THEN n.cookie ELSE n.jar
                       /\ Sent(n).lost = n.lost
<1> DEFINE m == Sent(n)
<1>0. n.shut \in BOOLEAN
  BY DEF Net, Typed
<1>1. CASE n.shut
  <2> DEFINE l == IF n.changed THEN n.lost \cup {n.cookie} ELSE n.lost
  <2>1. l \in SUBSET Nat
    BY DEF Net, Typed
  <2>2. m = [n EXCEPT !.lost = l]
    BY <1>1 DEF Sent
  <2> HIDE DEF l, m
  <2>3. Net(m) /\ Like(m, n, {"lost"}) /\ m.lost = l
    BY <2>1, <2>2, UpdLost
  <2>5. Outer(m, n)
    BY <2>3 DEF Like, Outer, Fields
  <2>6. /\ m.responded = n.responded /\ m.shut = n.shut /\ m.held = n.held
        /\ m.sinking = n.sinking /\ m.cookie = n.cookie /\ m.changed = n.changed
        /\ m.sessions = n.sessions /\ m.answers = n.answers /\ m.jar = n.jar
    BY <2>3 DEF Like, Fields
  <2> QED
    BY <1>1, <2>3, <2>5, <2>6 DEF l, m
<1>2. CASE ~n.shut
  <2> DEFINE a == [r |-> n.cur, headers |-> n.headersOut, items |-> n.items]
             q == Append(n.answers, a)
             j == IF n.changed THEN n.cookie ELSE n.jar
  <2>1. a \in Answer /\ n.answers \in Seq(Answer)
    BY DEF Net, Typed, Answer
  <2>2. q \in Seq(Answer)
    BY <2>1, AppendProperties
  <2>3. j \in Nat
    BY DEF Net, Typed
  <2>4. m = [n EXCEPT !.answers = q, !.jar = j]
    BY <1>2 DEF Sent
  <2> HIDE DEF a, q, j, m
  <2>5. Net(m) /\ Like(m, n, {"answers", "jar"})
    <3>1. DOMAIN n = Fields
      BY Domain DEF Net
    <3>2. \A g \in Fields \ {"answers", "jar"} : m[g] = n[g]
      BY <2>4, <3>1
    <3>3. Rec(m)
      BY <2>4, <3>1 DEF Rec
    <3> QED
      BY <2>2, <2>3, <2>4, <3>2, <3>3, UpdAnswers DEF Like
  <2>6. m.answers = q /\ m.jar = j
    BY <2>4, Domain DEF Net, Fields
  <2>7. Outer(m, n)
    BY <2>5 DEF Like, Outer, Fields
  <2>8. /\ m.responded = n.responded /\ m.shut = n.shut /\ m.held = n.held
        /\ m.sinking = n.sinking /\ m.cookie = n.cookie /\ m.changed = n.changed
        /\ m.sessions = n.sessions /\ m.lost = n.lost
    BY <2>5 DEF Like, Fields
  <2> QED
    BY <1>2, <2>5, <2>6, <2>7, <2>8 DEF a, q, j, m
<1> QED
  BY <1>0, <1>1, <1>2

(* Then what waited is sunk, unless that is going on. *)
LEMMA RespondShape ==
  ASSUME NEW n, Net(n), ~n.responded, n.open
  PROVE  /\ Net(Respond(n)) /\ Outer(Respond(n), n)
         /\ Respond(n).responded /\ Respond(n).held = n.held
         /\ Respond(n).shut = (n.shut \/ script[n.cur] = "last")
         /\ Respond(n).cookie = n.cookie /\ Respond(n).changed = n.changed
         /\ Respond(n).sessions = n.sessions /\ Respond(n).answers = Sent(n).answers
         /\ Respond(n).lost = Sent(n).lost /\ Respond(n).jar = Sent(n).jar
         /\ Respond(n).sinking = (n.sinking \/ HasLine(n))
<1> DEFINE s == Sent(n)
           h == n.shut \/ script[n.cur] = "last"
           r == [s EXCEPT !.responded = TRUE, !.shut = h]
           k == n.sinking \/ HasLine(n)
           m == Respond(n)
<1>1. Net(s) /\ Outer(s, n) /\ s.shut = n.shut /\ s.held = n.held /\ s.sinking = n.sinking
      /\ s.cookie = n.cookie /\ s.changed = n.changed /\ s.sessions = n.sessions
  BY SentEffect
<1>2. h \in BOOLEAN /\ k \in BOOLEAN /\ n.sinking \in BOOLEAN
  BY DEF Net, Typed, HasLine, Before
<1>3. Broken(n, "answered twice", n.responded) = n
  BY DEF Broken
<1>4. m = Retry([s EXCEPT !.responded = TRUE, !.shut = s.shut \/ script[n.cur] = "last"])
  <2>1. s.cur = n.cur
    BY <1>1 DEF Outer
  <2> QED
    BY <1>3, <2>1 DEF Respond
<1>5. m = Retry(r)
  BY <1>1, <1>4
<1> HIDE DEF s, h, k, m
<1>6. Like(r, s, {"responded", "shut"}) /\ r.responded = TRUE /\ r.shut = h /\ Net(r)
  BY <1>1, <1>2, UpdResponded
<1> HIDE DEF r
<1>8. r.held = s.held /\ r.cookie = s.cookie /\ r.changed = s.changed
      /\ r.sessions = s.sessions /\ r.answers = s.answers /\ r.lost = s.lost /\ r.jar = s.jar
      /\ r.sinking = s.sinking /\ Outer(r, s)
  BY <1>6 DEF Like, Fields, Outer
<1>9. Outer(r, n) /\ HasLine(r) = HasLine(n)
  BY <1>1, <1>8 DEF Outer, HasLine, LineEnd
<1>10. Retry(r) = IF n.sinking THEN r ELSE [r EXCEPT !.sinking = HasLine(n)]
  <2>1. r.open /\ r.sinking = n.sinking /\ r.responded
    BY <1>1, <1>6, <1>8, <1>9 DEF Outer
  <2>2. Sunk(r) = [r EXCEPT !.sinking = r.open /\ ~(~r.responded) /\ HasLine(n)]
    BY <1>9 DEF Sunk, Unanswered
  <2>3. (r.open /\ ~(~r.responded) /\ HasLine(n)) = HasLine(n)
    BY <2>1 DEF HasLine, Before
  <2> QED
    BY <2>1, <2>2, <2>3 DEF Retry
<1>11. CASE n.sinking
  BY <1>1, <1>2, <1>5, <1>6, <1>8, <1>9, <1>10, <1>11 DEF s, h, k, m
<1>12. CASE ~n.sinking
  <2>1. m = [r EXCEPT !.sinking = k]
    BY <1>5, <1>10, <1>12 DEF k, HasLine, Before
  <2>2. Like(m, r, {"sinking"}) /\ m.sinking = k /\ Net(m)
    BY <1>2, <1>6, <2>1, UpdSinking
  <2>4. Outer(m, r)
    BY <2>2 DEF Outer, Like, Fields
  <2>5. m.responded = r.responded /\ m.shut = r.shut /\ m.held = r.held
        /\ m.cookie = r.cookie /\ m.changed = r.changed
        /\ m.sessions = r.sessions /\ m.answers = r.answers
        /\ m.lost = r.lost /\ m.jar = r.jar
    BY <2>2 DEF Like, Fields
  <2>6. Outer(m, n)
    BY <1>9, <2>4 DEF Outer
  <2> QED
    BY <1>1, <1>6, <1>8, <2>2, <2>5, <2>6 DEF s, h, k, m
<1> QED
  BY <1>2, <1>11, <1>12

(* Where the sink is and what has been sent decide what is pending. *)
LEMMA PendingFollows ==
  ASSUME NEW m, NEW n, m.front = n.front, m.at = n.at
  PROVE  \A r : Pending(m, r) <=> Pending(n, r)
  BY DEF Pending

(* Respond answers a request that waits for its answer, in its turn. *)
LEMMA RespondAnswers ==
  ASSUME NEW n, Asked(n)
  PROVE  /\ Answers(Respond(n)) /\ Len(Sent(n).answers) \in Nat
         /\ n.shut => Sent(n).answers = n.answers
         /\ ~n.shut => Len(Sent(n).answers) = Len(n.answers) + 1
<1> DEFINE m == Respond(n)
           a == [r |-> n.cur, headers |-> n.headersOut, items |-> n.items]
           b == n.base
           L == Len(n.answers)
<1>1. Net(n) /\ ~n.responded /\ n.open /\ Own(n) /\ InOrder(n) /\ Answers(n)
  BY DEF Asked
<1>2. m.answers = Sent(n).answers /\ m.base = b
  BY <1>1, RespondShape DEF Outer
<1>3. n.answers \in Seq(Answer) /\ L \in Nat /\ b \in Nat /\ n.cur \in Nat /\ n.shut \in BOOLEAN
  BY <1>1 DEF Net, Typed
<1>4. CASE n.shut
  <2>1. m.answers = n.answers
    BY <1>1, <1>2, <1>4, SentEffect
  <2> QED
    BY <1>1, <1>2, <1>3, <1>4, <2>1 DEF Answers
<1>5. CASE ~n.shut
  <2>1. m.answers = Append(n.answers, a)
    BY <1>1, <1>2, <1>5, SentEffect
  <2>2. a \in Answer
    BY <1>1 DEF Net, Typed, Answer
  <2>3. /\ Len(m.answers) = L + 1 /\ m.answers[L + 1] = a
        /\ \A i \in 1..L : m.answers[i] = n.answers[i]
    <3> HIDE DEF a, m
    <3>1. \A i \in 1..L : Append(n.answers, a)[i] = n.answers[i]
      BY <1>3, <2>2, AppendProperties
    <3> QED
      BY <1>3, <2>1, <2>2, <3>1, AppendProperties
  <2>4. n.cur = b + L
    BY <1>1, <1>5 DEF InOrder
  <2>5. Proper(a, b + L)
    BY <1>1, <2>4 DEF Proper, Own, Whole
  <2> HIDE DEF a, m, L, b
  <2>6. (L + 1) - 1 = L /\ b + (L + 1) - 1 = b + L
    BY <1>3
  <2>7. \A i \in 1..L : Proper(m.answers[i], b + i - 1)
    BY <1>1, <2>3 DEF Answers, L, b
  <2>8. \A i \in 1..(L + 1) : i \in 1..L \/ i = L + 1
    BY <1>3
  <2>9. \A i \in 1..(L + 1) : Proper(m.answers[i], b + i - 1)
    BY <2>3, <2>5, <2>6, <2>7, <2>8
  <2>10. Answers(m)
    BY <1>2, <2>3, <2>9 DEF Answers
  <2>11. Len(Sent(n).answers) = L + 1
    BY <1>2, <2>3
  <2> QED
    BY <1>3, <1>5, <2>10, <2>11 DEF m, L
<1> QED
  BY <1>3, <1>4, <1>5

(* The answer gives the browser the cookie of its session, unless the answer is lost. *)
LEMMA RespondSessions ==
  ASSUME NEW n, Asked(n)
  PROVE  One(Respond(n)) /\ Fresh(Respond(n))
<1> DEFINE m == Respond(n)
<1>1. Net(n) /\ ~n.responded /\ n.open /\ One(n) /\ Fresh(n) /\ Clear(n)
  BY DEF Asked
<1>2. /\ m.ahead = n.ahead /\ m.front = n.front /\ m.at = n.at /\ m.sent = n.sent
      /\ m.responded /\ m.sessions = n.sessions
      /\ m.lost = Sent(n).lost /\ m.jar = Sent(n).jar
  BY <1>1, RespondShape DEF Outer
<1>3. n.shut \in BOOLEAN /\ n.changed \in BOOLEAN
  BY <1>1 DEF Net, Typed
<1>4. One(m)
  <2> SUFFICES ASSUME ~n.ahead PROVE Live(m) \subseteq {m.jar}
    BY <1>2 DEF One
  <2>1. Live(n) \subseteq {n.cookie} /\ (~n.changed => n.cookie = n.jar)
    BY <1>1 DEF One, Cookie
  <2>2. CASE n.shut
    <3>0. /\ Sent(n).jar = n.jar
          /\ Sent(n).lost = IF n.changed THEN n.lost \cup {n.cookie} ELSE n.lost
      BY <1>1, <2>2, SentEffect
    <3>1. m.jar = n.jar /\ m.lost = IF n.changed THEN n.lost \cup {n.cookie} ELSE n.lost
      BY <1>2, <3>0
    <3> HIDE DEF m
    <3> QED
      BY <1>2, <1>3, <2>1, <3>1 DEF Live
  <2>3. CASE ~n.shut
    <3>1. m.lost = n.lost /\ m.jar = IF n.changed THEN n.cookie ELSE n.jar
      BY <1>1, <1>2, <2>3, SentEffect
    <3> HIDE DEF m
    <3> QED
      BY <1>2, <1>3, <2>1, <3>1 DEF Live
  <2> QED
    BY <1>3, <2>2, <2>3
<1>5. Fresh(m)
  <2> SUFFICES ASSUME ~n.ahead PROVE \A r \in 1..MaxRequests : Pending(m, r) => m.sent[r] = m.jar
    BY <1>2 DEF Fresh
  <2>1. \A r : Pending(m, r) <=> Pending(n, r)
    BY <1>2, PendingFollows
  <2>2. CASE n.shut
    <3>1. m.jar = n.jar
      BY <1>1, <1>2, <2>2, SentEffect
    <3> QED
      BY <1>1, <1>2, <2>1, <3>1 DEF Fresh
  <2>3. CASE ~n.shut
    BY <1>1, <2>1, <2>3 DEF Clear
  <2> QED
    BY <1>3, <2>2, <2>3
<1> QED
  BY <1>4, <1>5

(* client_respond: the answer to a request in its turn. *)
LEMMA RespondEffect ==
  ASSUME NEW n, Asked(n)
  PROVE  Handled(Respond(n), n) /\ Respond(n).responded
<1> DEFINE m == Respond(n)
<1>1. Net(n) /\ ~n.responded /\ n.open /\ n.held = 0
  BY DEF Asked
<1>2. /\ Net(m) /\ Outer(m, n) /\ m.responded /\ m.held = 0
      /\ m.shut = (n.shut \/ script[n.cur] = "last")
      /\ m.answers = Sent(n).answers
      /\ m.sinking = (n.sinking \/ HasLine(n))
  BY <1>1, RespondShape
<1>3. Answers(m) /\ One(m) /\ Fresh(m)
  BY RespondAnswers, RespondSessions, Zenon
<1>4. (n.shut /\ m.answers = n.answers) \/ Len(m.answers) = Len(n.answers) + 1
  <2>1. /\ n.shut => Sent(n).answers = n.answers
        /\ ~n.shut => Len(Sent(n).answers) = Len(n.answers) + 1
    BY RespondAnswers, Zenon
  <2> QED
    BY <1>2, <2>1
<1>5. HasLine(m) = HasLine(n)
  BY <1>2 DEF Outer, HasLine, LineEnd
<1> HIDE DEF m
<1>6. m.sinking = (n.sinking \/ HasLine(m)) /\ (n.shut => m.shut)
  BY <1>2, <1>5
<1>7. m.held = (IF m.responded THEN 0 ELSE 1) /\ (auto => m.responded)
  BY <1>2
<1> QED
  BY <1>2, <1>3, <1>4, <1>6, <1>7 DEF Handled, m

(* What a record keeps of its answers and of the cookie when only these fields matter. *)
LEMMA TurnFollows ==
  ASSUME NEW m, NEW n, Outer(m, n), m.jar = n.jar, m.answers = n.answers, m.shut = n.shut,
         Answers(n), Fresh(n), Clear(n), InOrder(n)
  PROVE  Answers(m) /\ Fresh(m) /\ Clear(m) /\ InOrder(m)
<1>1. \A r : Pending(m, r) <=> Pending(n, r)
  BY PendingFollows DEF Outer
<1>2. Answers(m) /\ InOrder(m)
  BY DEF Answers, InOrder, Outer
<1>3. Fresh(m)
  BY <1>1 DEF Fresh, Outer
<1>4. Clear(m)
  BY <1>1 DEF Clear, Outer
<1> QED
  BY <1>2, <1>3, <1>4

(* lwp_ws_req_before_handler: the request waits for its answer, and is told to the *)
(* application with no header of an earlier one.                                   *)
LEMMA BeforeHandlerEffect ==
  ASSUME NEW n, Ready(n)
  PROVE  LET m == BeforeHandler(n) IN
         /\ Net(m) /\ Outer(m, n) /\ Session(m, n) /\ One(m)
         /\ ~m.responded /\ m.answers = n.answers /\ m.shut = n.shut
         /\ m.held = n.held /\ m.sinking = n.sinking
         /\ m.items = n.items /\ m.parsed = n.parsed /\ m.headersOut = {}
<1> DEFINE m == BeforeHandler(n)
           h == {}
           f == FALSE
<1>1. Net(n) /\ n.responded
  BY DEF Ready, ToCall
<1>2. m = [n EXCEPT !.headersOut = h, !.responded = f] /\ h \in SUBSET Nat /\ f \in BOOLEAN
  BY <1>1 DEF BeforeHandler, Broken
<1> HIDE DEF m, h, f
<1>7. DOMAIN n = Fields
  BY <1>1, Domain DEF Net
<1>8. Rec(m) /\ m.headersOut = h /\ m.responded = f
  BY <1>2, <1>7 DEF Rec, Fields
<1>9. \A g \in Fields \ {"headersOut", "responded"} : m[g] = n[g]
  BY <1>2, <1>7
<1>10. Typed(m)
  BY <1>1, <1>2, <1>8, <1>9 DEF Net, Typed, Fields
<1>3. /\ Net(m) /\ Like(m, n, {"headersOut", "responded"})
      /\ m.headersOut = {} /\ ~m.responded
  BY <1>8, <1>9, <1>10 DEF Net, Like, h, f
<1>4. Outer(m, n) /\ Session(m, n)
  BY <1>3 DEF Like, Fields, Outer, Session
<1>5. /\ m.answers = n.answers /\ m.shut = n.shut /\ m.held = n.held
      /\ m.sinking = n.sinking /\ m.items = n.items /\ m.parsed = n.parsed
  BY <1>3 DEF Like, Fields
<1>6. One(m)
  BY <1>3, <1>4 DEF One, Cookie, Live, Ready, ToCall, Outer, Session
<1> QED
  BY <1>3, <1>4, <1>5, <1>6 DEF m

(* parse_post_data: the items that are read are the current request's. *)
LEMMA PostItemsEffect ==
  ASSUME NEW n, Net(n), ~n.parsed
  PROVE  LET m == PostItems(n) IN
         /\ Net(m) /\ Outer(m, n) /\ Session(m, n) /\ Answering(m, n)
         /\ m.headersOut = n.headersOut /\ m.items = n.items \cup n.body
<1> DEFINE m == PostItems(n)
           i == n.items \cup n.body
           p == TRUE
<1>1. i \in SUBSET Nat /\ p \in BOOLEAN
  BY DEF Net, Typed
<1>2. m = [n EXCEPT !.parsed = p, !.items = i]
  BY DEF PostItems
<1> HIDE DEF m, i, p
<1>7. DOMAIN n = Fields
  BY Domain DEF Net
<1>8. Rec(m) /\ m.parsed = p /\ m.items = i
  BY <1>2, <1>7 DEF Rec, Fields
<1>9. \A g \in Fields \ {"parsed", "items"} : m[g] = n[g]
  BY <1>2, <1>7
<1>10. Typed(m)
  BY <1>1, <1>8, <1>9 DEF Net, Typed, Fields
<1>3. Net(m) /\ Like(m, n, {"parsed", "items"}) /\ m.items = i
  BY <1>8, <1>9, <1>10 DEF Net, Like
<1>4. Outer(m, n) /\ Session(m, n)
  BY <1>3 DEF Like, Fields, Outer, Session
<1>5. Answering(m, n) /\ m.headersOut = n.headersOut
  BY <1>3 DEF Like, Fields, Answering
<1> QED
  BY <1>3, <1>4, <1>5 DEF m, i

(* lw_ws_req_add_header: so is the header that the hook sets. *)
LEMMA AddHeaderEffect ==
  ASSUME NEW n, Net(n)
  PROVE  LET m == AddHeader(n) IN
         /\ Net(m) /\ Outer(m, n) /\ Session(m, n) /\ Answering(m, n)
         /\ m.headersOut = n.headersOut \cup {n.cur} /\ m.items = n.items
<1> DEFINE m == AddHeader(n)
           h == n.headersOut \cup {n.cur}
<1>1. h \in SUBSET Nat
  BY DEF Net, Typed
<1>2. m = [n EXCEPT !.headersOut = h]
  BY DEF AddHeader
<1> HIDE DEF m, h
<1>3. Net(m) /\ Like(m, n, {"headersOut"}) /\ m.headersOut = h
  BY <1>1, <1>2, UpdHeaders
<1>4. Outer(m, n) /\ Session(m, n)
  BY <1>3 DEF Like, Fields, Outer, Session
<1>5. Answering(m, n) /\ m.items = n.items
  BY <1>3 DEF Like, Fields, Answering
<1> QED
  BY <1>3, <1>4, <1>5 DEF m, h

(* What using a session leaves alone. *)
Same(m, n) ==
    /\ Outer(m, n) /\ Answering(m, n) /\ m.headersOut = n.headersOut /\ m.items = n.items
    /\ m.lost = n.lost /\ m.jar = n.jar

(* The cookie of a session and whether an answer is to carry it; no other field. *)
LEMMA SetCookieEffect ==
  ASSUME NEW n, Net(n), NEW id, id \in Nat, NEW c, c \in BOOLEAN
  PROVE  LET m == SetCookie(n, id, c) IN
         /\ Net(m) /\ Like(m, n, {"cookie", "changed"}) /\ m.cookie = id /\ m.changed = c
<1> DEFINE m == SetCookie(n, id, c)
<1>1. DOMAIN n = Fields
  BY Domain DEF Net
<1>2. Rec(m) /\ m.cookie = id /\ m.changed = c
  BY <1>1 DEF Rec, Fields, SetCookie
<1>3. \A g \in Fields \ {"cookie", "changed"} : m[g] = n[g]
  BY <1>1 DEF SetCookie
<1>4. Typed(m)
  BY <1>2, <1>3 DEF Net, Typed, Fields
<1> QED
  BY <1>2, <1>3, <1>4 DEF Net, Like

(* A write makes a session if the request's cookie names none. *)
LEMMA WriteEffect ==
  ASSUME NEW n, Net(n), ~n.responded, One(n)
  PROVE  LET m == lw_ws_req_session_write(n) IN Net(m) /\ Same(m, n) /\ One(m)
<1> DEFINE m == lw_ws_req_session_write(n)
           id == n.next
           s == n.sessions \cup {id}
           x == id + 1
           k == [n EXCEPT !.sessions = s, !.next = x]
           c == TRUE
<1>1. CASE n.cookie \in n.sessions
  BY <1>1 DEF lw_ws_req_session_write, Same, Outer, Answering
<1>2. CASE n.cookie \notin n.sessions
  <2>1. id \in Nat /\ s \in SUBSET Nat /\ x \in Nat /\ c \in BOOLEAN
    BY DEF Net, Typed
  <2>2. m = SetCookie(k, id, c) /\ k = [n EXCEPT !.sessions = s, !.next = x]
    BY <1>2 DEF lw_ws_req_session_write, lw_ws_req_set_cookie
  <2> HIDE DEF m, s, x, k, c, id
  <2>9. DOMAIN n = Fields
    BY Domain DEF Net
  <2>10. Rec(k) /\ k.sessions = s /\ k.next = x
    BY <2>2, <2>9 DEF Rec, Fields
  <2>11. \A g \in Fields \ {"sessions", "next"} : k[g] = n[g]
    BY <2>2, <2>9
  <2>12. Typed(k)
    BY <2>1, <2>10, <2>11 DEF Net, Typed, Fields
  <2>3. Net(k) /\ Like(k, n, {"sessions", "next"}) /\ k.sessions = s
    BY <2>10, <2>11, <2>12 DEF Net, Like
  <2>4. Net(m) /\ Like(m, k, {"cookie", "changed"}) /\ m.cookie = id /\ m.changed
    BY <2>1, <2>2, <2>3, SetCookieEffect DEF c
  <2>5. Outer(m, n)
    BY <2>3, <2>4 DEF Like, Fields, Outer
  <2>6. Answering(m, n) /\ m.headersOut = n.headersOut /\ m.items = n.items
        /\ m.lost = n.lost /\ m.jar = n.jar
    BY <2>3, <2>4 DEF Like, Fields, Answering
  <2>7. m.sessions = s
    BY <2>3, <2>4 DEF Like, Fields
  <2>8. One(m)
    <3> SUFFICES ASSUME ~m.ahead PROVE Live(m) \subseteq {m.cookie}
      BY <2>4, <2>6 DEF One, Cookie, Answering
    <3>1. Live(n) \subseteq {n.cookie}
      BY <2>5 DEF One, Outer
    <3>2. Live(m) = s \ n.lost
      BY <2>6, <2>7 DEF Live
    <3> QED
      BY <1>2, <2>4, <3>1, <3>2 DEF Live, s
  <2> QED
    BY <2>4, <2>5, <2>6, <2>8 DEF Same, m
<1> QED
  BY <1>1, <1>2

(* Its close, and a write, leave the one that the cookie will name. *)
LEMMA UseSessionEffect ==
  ASSUME NEW n, Net(n), ~n.responded, One(n)
  PROVE  LET m == UseSession(n) IN Net(m) /\ Same(m, n) /\ One(m)
<1>1. CASE n.op = "write"
  BY <1>1, WriteEffect DEF UseSession
<1>2. CASE n.op = "renew"
  <2> DEFINE s == n.sessions \ {n.cookie}
             c == lw_ws_session_close(n)
  <2>1. s \in SUBSET Nat
    BY DEF Net, Typed
  <2>2. c = [n EXCEPT !.sessions = s]
    BY DEF lw_ws_session_close
  <2> HIDE DEF c, s
  <2>3. Net(c) /\ Like(c, n, {"sessions"}) /\ c.sessions = s
    BY <2>1, <2>2, UpdSessions
  <2>4. Outer(c, n)
    BY <2>3 DEF Like, Fields, Outer
  <2>5. Answering(c, n) /\ c.headersOut = n.headersOut /\ c.items = n.items
        /\ c.lost = n.lost /\ c.jar = n.jar /\ c.cookie = n.cookie /\ c.changed = n.changed
    BY <2>3 DEF Like, Fields, Answering
  <2>6. ~c.responded /\ One(c)
    BY <2>3, <2>4, <2>5 DEF One, Cookie, Live, Answering, Outer, s
  <2> DEFINE m == lw_ws_req_session_write(c)
  <2>7. Net(m) /\ Same(m, c) /\ One(m)
    BY <2>3, <2>6, WriteEffect
  <2>8. UseSession(n) = m
    BY <1>2 DEF UseSession, c
  <2> HIDE DEF m
  <2>9. Same(m, n)
    BY <2>4, <2>5, <2>7 DEF Same, Outer, Answering
  <2> QED
    BY <2>7, <2>8, <2>9
<1>3. CASE n.op \notin {"write", "renew"}
  BY <1>3 DEF UseSession, Same, Outer, Answering
<1> QED
  BY <1>1, <1>2, <1>3

(* Before it is known whether the hook finishes the request. *)
Hooked(n) == AddHeader(UseSession(PostItems(BeforeHandler(n))))

(* A hook's request waits for its answer in its turn, whatever the hook did before. *)
LEMMA HookAsks ==
  ASSUME NEW n, Ready(n)
  PROVE  LET m == Hooked(n) IN
         /\ Asked(m) /\ Outer(m, n) /\ m.answers = n.answers
         /\ m.shut = n.shut /\ m.sinking = n.sinking
<1> DEFINE b == BeforeHandler(n)
           p == PostItems(b)
           s == UseSession(p)
           m == AddHeader(s)
<1>1. /\ Net(b) /\ Outer(b, n) /\ Session(b, n) /\ One(b)
      /\ ~b.responded /\ b.answers = n.answers /\ b.shut = n.shut
      /\ b.held = n.held /\ b.sinking = n.sinking
      /\ b.items = n.items /\ b.parsed = n.parsed /\ b.headersOut = {}
  BY BeforeHandlerEffect
<1>2. Net(n) /\ n.open /\ n.held = 0 /\ ~n.parsed /\ n.cur \in 1..MaxRequests
  BY DEF Ready, ToCall
<1> HIDE DEF b
<1>3. /\ Net(p) /\ Outer(p, b) /\ Session(p, b) /\ Answering(p, b)
      /\ p.headersOut = b.headersOut /\ p.items = b.items \cup b.body
  BY <1>1, <1>2, PostItemsEffect
<1> HIDE DEF p
<1>4. ~p.responded /\ One(p)
  BY <1>1, <1>3 DEF One, Cookie, Live, Session, Answering, Outer
<1>5. Net(s) /\ Same(s, p) /\ One(s)
  BY <1>3, <1>4, UseSessionEffect
<1> HIDE DEF s
<1>6. /\ Net(m) /\ Outer(m, s) /\ Session(m, s) /\ Answering(m, s)
      /\ m.headersOut = s.headersOut \cup {s.cur} /\ m.items = s.items
  BY <1>5, AddHeaderEffect
<1>7. m = Hooked(n)
  BY DEF Hooked, b, p, s
<1> HIDE DEF m
<1>8. Outer(m, n)
  BY <1>1, <1>3, <1>5, <1>6 DEF Outer, Same
<1>9. /\ ~m.responded /\ m.answers = n.answers /\ m.shut = n.shut
      /\ m.held = 0 /\ m.sinking = n.sinking /\ m.jar = n.jar
  BY <1>1, <1>2, <1>3, <1>4, <1>5, <1>6 DEF Answering, Same, Session
<1>10. One(m)
  BY <1>4, <1>5, <1>6, <1>9 DEF One, Cookie, Live, Session, Answering, Outer, Same
<1>11. m.items = n.items \cup n.body /\ m.headersOut = {n.cur}
  BY <1>1, <1>3, <1>5, <1>6 DEF Same, Outer
<1>12. Own(m)
  BY <1>2, <1>8, <1>11 DEF Own, Whole, Outer, Ready
<1>13. Answers(m) /\ Fresh(m) /\ Clear(m) /\ InOrder(m)
  BY <1>8, <1>9, TurnFollows DEF Ready
<1> QED
  BY <1>2, <1>6, <1>7, <1>8, <1>9, <1>10, <1>12, <1>13 DEF Asked, Outer

(* A request that is kept is held, and has no answer. *)
LEMMA KeepEffect ==
  ASSUME NEW n, Asked(n), ~auto, NEW m, m = [n EXCEPT !.held = 1]
  PROVE  Handled(m, n)
<1> DEFINE v == 1
<1>1. v \in Nat /\ Net(n) /\ m = [n EXCEPT !.held = v]
  BY DEF Asked
<1> HIDE DEF v
<1>2. Net(m) /\ Like(m, n, {"held"}) /\ m.held = v
  BY <1>1, UpdHeld
<1>3. Outer(m, n) /\ Session(m, n)
  BY <1>2 DEF Like, Fields, Outer, Session
<1>4. /\ m.responded = n.responded /\ m.answers = n.answers /\ m.shut = n.shut
      /\ m.sinking = n.sinking /\ m.items = n.items /\ m.headersOut = n.headersOut
  BY <1>2 DEF Like, Fields
<1>5. ~n.responded /\ Own(n) /\ One(n) /\ Answers(n) /\ Fresh(n) /\ Clear(n) /\ InOrder(n)
  BY DEF Asked
<1>6. Answers(m) /\ Fresh(m)
  BY <1>3, <1>4, <1>5, TurnFollows DEF Session
<1>7. Own(m)
  BY <1>3, <1>4, <1>5, ItemsFollow
<1>8. One(m)
  BY <1>3, <1>4, <1>5 DEF One, Cookie, Live, Session, Outer
<1>9. m.held = IF m.responded THEN 0 ELSE 1
  BY <1>2, <1>4, <1>5 DEF v
<1> QED
  BY <1>2, <1>3, <1>4, <1>5, <1>6, <1>7, <1>8, <1>9 DEF Handled

(* What holds of the record that the hook was called with holds of the one before. *)
LEMMA HandledFollows ==
  ASSUME NEW k, NEW m, NEW n, Handled(k, m), Outer(m, n), m.answers = n.answers,
         m.shut = n.shut, m.sinking = n.sinking
  PROVE  Handled(k, n)
<1>1. Outer(k, n)
  BY DEF Handled, Outer
<1> QED
  BY <1>1 DEF Handled

(* The hook answers the request, or it is answered after it, or it is kept. *)
LEMMA HookEffect ==
  ASSUME NEW n, Ready(n)
  PROVE  LET m == Hook(BeforeHandler(n)) IN
         /\ Handled(AfterHandler(m), n)
         /\ m.sinking = n.sinking \/ (Handled(m, n) /\ m.responded)
<1> DEFINE h == Hooked(n)
           m == Hook(BeforeHandler(n))
<1>1. /\ Asked(h) /\ Outer(h, n) /\ h.answers = n.answers
      /\ h.shut = n.shut /\ h.sinking = n.sinking
  BY HookAsks
<1>2. m = Left(h)
  BY DEF Hook, Hooked
<1> HIDE DEF h, m
<1>3. Net(h) /\ ~h.responded /\ h.held = 0 /\ h.finish \in BOOLEAN
  BY <1>1 DEF Asked, Net, Typed
<1>4. Handled(Respond(h), n) /\ Respond(h).responded
  BY <1>1, RespondEffect, HandledFollows
<1>5. CASE h.finish
  <2>1. m = Respond(h)
    BY <1>2, <1>5 DEF Left
  <2> QED
    BY <1>4, <2>1 DEF AfterHandler, m
<1>6. CASE ~h.finish /\ auto
  <2>1. m = h
    BY <1>2, <1>6 DEF Left
  <2>2. AfterHandler(m) = Respond(h)
    BY <1>3, <1>6, <2>1 DEF AfterHandler
  <2> QED
    BY <1>1, <1>4, <2>1, <2>2 DEF m
<1>7. CASE ~h.finish /\ ~auto
  <2>1. m = [h EXCEPT !.held = 1]
    BY <1>2, <1>3, <1>7 DEF Left
  <2>2. Handled(m, h)
    BY <1>1, <1>7, <2>1, KeepEffect
  <2>3. Handled(m, n)
    BY <1>1, <2>2, HandledFollows
  <2>4. AfterHandler(m) = m
    BY <1>7 DEF AfterHandler
  <2>5. m.sinking = n.sinking
    <3>1. DOMAIN h = Fields
      BY <1>3, Domain DEF Net
    <3>2. m.sinking = h.sinking
      BY <2>1, <3>1 DEF Fields
    <3> QED
      BY <1>1, <3>2
  <2> QED
    BY <2>3, <2>4, <2>5 DEF m
<1> QED
  BY <1>3, <1>5, <1>6, <1>7

(* A request that is complete is answered in its turn, or kept. *)
LEMMA CallHookEffect ==
  ASSUME NEW n, Ready(n)
  PROVE  Handled(CallHook(n), n)
<1> DEFINE b == BeforeHandler(n)
<1>1. /\ Net(b) /\ Outer(b, n) /\ Session(b, n) /\ One(b)
      /\ ~b.responded /\ b.answers = n.answers /\ b.shut = n.shut
      /\ b.held = n.held /\ b.sinking = n.sinking
      /\ b.items = n.items /\ b.parsed = n.parsed /\ b.headersOut = {}
  BY BeforeHandlerEffect
<1>2. CASE script[b.cur] = "put"
  <2>1. Own(b)
    <3>1. b.cur = n.cur /\ n.items \subseteq {n.cur} /\ n.cur \in 1..MaxRequests
      BY <1>1 DEF Outer, Ready, ToCall
    <3> HIDE DEF b
    <3>2. Whole(b, b.items)
      BY <1>1, <1>2, <3>1 DEF Whole
    <3> QED
      BY <1>1, <3>1, <3>2 DEF Own
  <2>2. Answers(b) /\ Fresh(b) /\ Clear(b) /\ InOrder(b)
    BY <1>1, TurnFollows DEF Ready, Session
  <2>3. Asked(b)
    BY <1>1, <2>1, <2>2 DEF Asked, Outer, Ready
  <2>4. CallHook(n) = Respond(b)
    BY <1>2 DEF CallHook, Called
  <2> QED
    BY <1>1, <2>3, <2>4, RespondEffect, HandledFollows
<1>3. CASE script[b.cur] # "put"
  <2>1. CallHook(n) = AfterHandler(Hook(b))
    BY <1>3 DEF CallHook, Called
  <2> QED
    BY <2>1, HookEffect
<1> QED
  BY <1>2, <1>3

(* So is one whose hook is called for its uploads, and what waited may then be sunk. *)
LEMMA AfterHookEffect ==
  ASSUME NEW n, Ready(n)
  PROVE  Handled(AfterHook(n, Hook(BeforeHandler(n))), n)
<1> DEFINE m == Hook(BeforeHandler(n))
<1>1. /\ Handled(AfterHandler(m), n)
      /\ m.sinking = n.sinking \/ (Handled(m, n) /\ m.responded)
  BY HookEffect
<1> HIDE DEF m
<1>2. CASE ~(m.sinking /\ ~n.sinking)
  BY <1>1, <1>2 DEF AfterHook, m
<1>3. CASE m.sinking /\ ~n.sinking
  <2> DEFINE v == TRUE
             k == [m EXCEPT !.nested = v]
  <2>1. Handled(m, n) /\ m.responded /\ v \in BOOLEAN
    BY <1>1, <1>3
  <2>2. k = AfterHook(n, m)
    BY <1>3 DEF AfterHook
  <2> HIDE DEF v
  <2>3. Net(k) /\ Like(k, m, {"nested"})
    BY <2>1, UpdNested DEF Handled
  <2> HIDE DEF k
  <2>4. Outer(k, m) /\ Session(k, m) /\ Answering(k, m)
    BY <2>3 DEF Like, Fields, Outer, Session, Answering
  <2>5. Outer(k, n)
    BY <2>1, <2>4 DEF Handled, Outer
  <2>6. \A r : Pending(k, r) <=> Pending(m, r)
    BY <2>4, PendingFollows DEF Outer
  <2>7. Answers(k) /\ One(k) /\ Fresh(k)
    BY <2>1, <2>4, <2>6 DEF Handled, Outer, Session, Answering, Answers, One, Live, Cookie, Fresh
  <2>8. HasLine(k) = HasLine(m)
    BY <2>4 DEF HasLine, LineEnd, Outer
  <2>9. Handled(k, n)
    BY <2>1, <2>3, <2>4, <2>5, <2>7, <2>8 DEF Handled, Answering
  <2> QED
    BY <2>2, <2>9 DEF m
<1> QED
  BY <1>2, <1>3

(* lwp_ws_multipart_call_hook, when the hook is called. *)
LEMMA UploadsEffect ==
  ASSUME NEW n, Ready(n), n.multipart.there, ~n.multipart.called, ~n.multipart.open,
         NEW k, k = [n EXCEPT !.multipart = [n.multipart EXCEPT !.called = TRUE]]
  PROVE  /\ Ready(k) /\ Like(k, n, {"multipart"})
         /\ k.multipart = [n.multipart EXCEPT !.called = TRUE]
         /\ Handled(CallUploads(n), k)
<1> DEFINE v == [n.multipart EXCEPT !.called = TRUE]
<1>1. Net(n) /\ v \in Multipart /\ k = [n EXCEPT !.multipart = v]
  BY DEF Ready, Net, Typed, Multipart
<1> HIDE DEF v
<1>2. Net(k) /\ Like(k, n, {"multipart"}) /\ k.multipart = v
  BY <1>1, UpdMultipart
<1>3. /\ k.cur = n.cur /\ k.body = n.body /\ k.open = n.open
      /\ k.front = n.front /\ k.at = n.at /\ k.base = n.base /\ k.ahead = n.ahead
      /\ k.sent = n.sent /\ Session(k, n) /\ Answering(k, n) /\ k.items = n.items
      /\ k.parsed = n.parsed
  BY <1>2 DEF Like, Fields, Session, Answering
<1>4. \A r : Pending(k, r) <=> Pending(n, r)
  BY <1>3, PendingFollows
<1>5. Answers(n) /\ Fresh(n) /\ Clear(n) /\ InOrder(n)
  BY DEF Ready
<1>6. Answers(k) /\ InOrder(k)
  BY <1>3, <1>5 DEF Answers, InOrder, Answering
<1>7. Fresh(k) /\ Clear(k)
  BY <1>3, <1>4, <1>5 DEF Fresh, Clear, Answering, Session
<1>8. ToCall(k) /\ Whole(k, k.items \cup k.body)
  BY <1>3 DEF Ready, ToCall, Whole, Answering, Session
<1>9. k.held = 0 /\ k.open /\ k.cur \in 1..MaxRequests /\ (~k.ahead => Live(k) \subseteq {k.jar})
  BY <1>3 DEF Ready, Live, Answering, Session
<1>10. Ready(k)
  BY <1>2, <1>6, <1>7, <1>8, <1>9 DEF Ready
<1>11. CallUploads(n) = AfterHook(k, Hook(BeforeHandler(k)))
  <2>1. [n EXCEPT !.multipart.called = TRUE] = k
    BY <1>1 DEF v
  <2>2. CallUploads(n) = AfterHook(n, Hook(BeforeHandler(k)))
    BY <2>1 DEF CallUploads
  <2> QED
    BY <1>3, <2>2 DEF AfterHook, Answering
<1> QED
  BY <1>2, <1>10, <1>11, AfterHookEffect DEF v

---------------------------------------------------------------------------
(* Places in what the browser sends. *)
Scripted == script \in [1..MaxRequests -> Kinds]

(* A request has between three and seven tokens. *)
LEMMA Lengths ==
  ASSUME Scripted, NEW r, r \in 1..MaxRequests
  PROVE  /\ script[r] \in Kinds /\ Length(r) \in 3..7
         /\ Length(r) = CASE script[r] = "post" -> 4 [] script[r] = "form" -> 5
                          [] script[r] = "chunks" -> 7 [] script[r] = "save" -> 6
                          [] script[r] = "mixed" -> 7 [] OTHER -> 3
<1>1. script[r] \in Kinds
  BY DEF Scripted
<1>2. Length(r) = CASE script[r] = "post" -> 4 [] script[r] = "form" -> 5
                    [] script[r] = "chunks" -> 7 [] script[r] = "save" -> 6
                    [] script[r] = "mixed" -> 7 [] OTHER -> 3
  BY <1>1 DEF Kinds, Uploads, Body, Length
<1> QED
  BY <1>1, <1>2 DEF Kinds, Uploads

(* A place is within its request, or at the beginning of the one after the last. *)
LEMMA Spots ==
  ASSUME Scripted, NEW t, t \in Places
  PROVE  /\ t \in Spot /\ t = Place(t.r, t.j)
         /\ t.r \in 1..(MaxRequests + 1) /\ t.j \in 1..7
         /\ t.r <= MaxRequests => t.r \in 1..MaxRequests /\ t.j <= Length(t.r)
         /\ ~(t.r <= MaxRequests) => t.r = MaxRequests + 1 /\ t.j = 1
<1>1. MaxRequests \in Nat
  BY WebAssumption
<1>2. t \in [r : 1..MaxRequests + 1, j : 1..7] /\ t.j <= IF t.r <= MaxRequests THEN Length(t.r) ELSE 1
  BY DEF Places
<1> QED
  BY <1>1, <1>2 DEF Spot, Place

(* Each token of a request has its place, *)
LEMMA SpotIsPlace ==
  ASSUME Scripted, NEW r, r \in 1..MaxRequests, NEW j, j \in 1..Length(r)
  PROVE  Place(r, j) \in Places
<1>1. MaxRequests \in Nat /\ Length(r) \in 3..7
  BY WebAssumption, Lengths
<1> QED
  BY <1>1 DEF Places, Place

(* and so has the beginning of the one that follows it. *)
LEMMA NextPlace ==
  ASSUME Scripted, NEW r, r \in 2..(MaxRequests + 1)
  PROVE  Place(r, 1) \in Places
<1>1. MaxRequests \in Nat
  BY WebAssumption
<1>2. r \in 1..MaxRequests => Length(r) \in 3..7
  BY Lengths
<1> QED
  BY <1>1, <1>2 DEF Places, Place

(* What comes after a place that something follows is a place, and not after that. *)
LEMMA AfterPlace ==
  ASSUME Scripted, NEW t, t \in Places, t.r <= MaxRequests
  PROVE  /\ After(t) \in Places
         /\ \A u \in Places : Before(t, u) => ~Before(u, After(t))
<1>1. t.r \in 1..MaxRequests /\ t.j \in 1..7 /\ t.j <= Length(t.r) /\ MaxRequests \in Nat
  BY Spots, WebAssumption
<1>2. Length(t.r) \in 3..7
  BY <1>1, Lengths
<1>3. CASE Last(t)
  <2>1. After(t) = Place(t.r + 1, 1)
    BY <1>3 DEF After
  <2>2. t.r + 1 \in 2..(MaxRequests + 1)
    BY <1>1
  <2>3. After(t) \in Places
    BY <2>1, <2>2, NextPlace
  <2>4. ASSUME NEW u \in Places, Before(t, u) PROVE ~Before(u, After(t))
    <3>1. u.r \in Nat /\ u.j \in 1..7 /\ (u.r <= MaxRequests => u.j <= Length(u.r))
      BY Spots
    <3>2. u.r >= t.r + 1
      BY <1>1, <1>2, <1>3, <2>4, <3>1 DEF Before, Last
    <3> QED
      BY <1>1, <2>1, <3>1, <3>2 DEF Before, Place
  <2> QED
    BY <2>3, <2>4
<1>4. CASE ~Last(t)
  <2>1. After(t) = Place(t.r, t.j + 1)
    BY <1>4 DEF After
  <2>2. t.j + 1 \in 1..Length(t.r)
    BY <1>1, <1>2, <1>4 DEF Last
  <2>3. After(t) \in Places
    BY <1>1, <2>1, <2>2, SpotIsPlace
  <2>4. ASSUME NEW u \in Places, Before(t, u) PROVE ~Before(u, After(t))
    <3>1. u.r \in Nat /\ u.j \in Nat
      BY Spots
    <3> QED
      BY <1>1, <2>1, <2>4, <3>1 DEF Before, Place
  <2> QED
    BY <2>3, <2>4
<1> QED
  BY <1>3, <1>4

(* The end of a whole line that has been sent. *)
LEMMA LinePlace ==
  ASSUME Scripted, NEW n, n.front \in Places, n.at \in Places, HasLine(n)
  PROVE  /\ LineEnd(n) \in Places /\ LineEnd(n).r = n.front.r /\ Before(LineEnd(n), n.at)
         /\ n.front.r \in 1..MaxRequests
         /\ LineEnd(n).j = IF n.front.j = 1 THEN 2 ELSE n.front.j
         /\ After(LineEnd(n)) \in Places /\ ~Before(n.at, After(LineEnd(n)))
<1> DEFINE t == LineEnd(n)
<1>1. /\ n.front.r \in 1..(MaxRequests + 1) /\ n.front.j \in 1..7
      /\ n.at.r \in 1..(MaxRequests + 1) /\ n.at.j \in 1..7
      /\ ~(n.at.r <= MaxRequests) => n.at.r = MaxRequests + 1 /\ n.at.j = 1
  BY Spots
<1>2. t.r = n.front.r /\ t.j = IF n.front.j = 1 THEN 2 ELSE n.front.j
  BY DEF LineEnd, Place
<1>3. Before(t, n.at) /\ MaxRequests \in Nat
  BY WebAssumption DEF HasLine
<1> HIDE DEF t
<1>4. n.front.r \in 1..MaxRequests
  BY <1>1, <1>2, <1>3 DEF Before
<1>5. Length(n.front.r) \in 3..7
  BY <1>4, Lengths
<1>6. t \in Places
  <2>1. CASE n.front.j = 1
    <3>1. t = Place(n.front.r, 2)
      BY <2>1 DEF t, LineEnd
    <3> QED
      BY <1>4, <1>5, <3>1, SpotIsPlace
  <2>2. CASE n.front.j # 1
    BY <2>2 DEF t, LineEnd
  <2> QED
    BY <2>1, <2>2
<1>7. t.r <= MaxRequests
  BY <1>2, <1>3, <1>4
<1>8. After(t) \in Places /\ ~Before(n.at, After(t))
  BY <1>3, <1>6, <1>7, AfterPlace
<1> QED
  BY <1>2, <1>3, <1>4, <1>6, <1>8 DEF t

(* When the browser has sent nothing beyond the current request, whose headers are *)
(* parsed, no headers wait to be parsed.                                            *)
LEMMA NothingPending ==
  ASSUME Scripted, NEW n, Net(n), n.at \in Places, n.front \in Places, Waits(n), InOrder(n),
         Before(Place(n.cur, 3), n.front)
  PROVE  Clear(n)
<1> SUFFICES ASSUME ~n.ahead, ~n.shut, NEW r \in 1..MaxRequests, Pending(n, r) PROVE FALSE
  BY DEF Clear
<1>1. n.cur = n.base + Len(n.answers) /\ Sending(n.at) <= n.cur
  BY DEF InOrder, Waits
<1>2. n.at.r \in Nat /\ n.at.j \in 1..7 /\ n.front.r \in Nat /\ n.front.j \in Nat
  BY Spots
<1>3. n.cur \in Nat /\ r \in Nat
  BY DEF Net, Typed
<1>4. Before(Place(r, 3), n.at) /\ ~Before(Place(r, 3), n.front)
  BY DEF Pending
<1>5. r <= Sending(n.at)
  BY <1>2, <1>3, <1>4 DEF Before, Place, Sending
<1>6. r <= n.cur
  BY <1>1, <1>2, <1>3, <1>5 DEF Sending
<1> QED
  BY <1>2, <1>3, <1>4, <1>6 DEF Before, Place

---------------------------------------------------------------------------
(* What the hooks may do, and whether the sink runs within an answer, is no part of *)
(* the invariant.                                                                    *)
Inner == {"op", "finish", "nested"}

(* What the hooks will do, the sink and its nesting are no part of Lasting and Steady. *)
LEMMA SteadyFollows ==
  ASSUME NEW m, NEW n, Like(m, n, Inner \cup {"sinking"})
  PROVE  /\ Lasting(n) => Lasting(m)
         /\ Steady(n) => Steady(m)
<1>1. /\ m.cur = n.cur /\ m.body = n.body /\ m.open = n.open /\ m.parsing = n.parsing
      /\ m.multipart = n.multipart /\ m.told = n.told /\ m.complete = n.complete
      /\ m.front = n.front /\ m.at = n.at /\ m.base = n.base /\ m.ahead = n.ahead
      /\ m.sent = n.sent /\ m.closing = n.closing /\ m.broken = n.broken
      /\ m.cookie = n.cookie /\ m.changed = n.changed /\ m.sessions = n.sessions
      /\ m.lost = n.lost /\ m.jar = n.jar
      /\ m.responded = n.responded /\ m.answers = n.answers /\ m.shut = n.shut
      /\ m.held = n.held
      /\ m.items = n.items /\ m.parsed = n.parsed /\ m.headersOut = n.headersOut
  BY DEF Like, Fields, Inner
<1>2. Lasting(n) => Lasting(m)
  BY <1>1 DEF Lasting, Answers, One, Live, Cookie
<1>5. Steady(n) => Steady(m)
  <2>1. /\ Between(n) => Between(m)
        /\ Heading(n) => Heading(m)
        /\ InBody(n) => InBody(m)
    BY <1>1 DEF Between, Heading, InBody, ToCall, Saving
  <2>2. /\ Counted(n) => Counted(m)
        /\ Own(n) => Own(m)
    BY <1>1 DEF Counted, Awaited, Early, Saving, Own, Whole
  <2>3. /\ Waits(n) => Waits(m)
        /\ Fresh(n) => Fresh(m)
    BY <1>1 DEF Waits, Fresh, Pending
  <2> QED
    BY <1>1, <2>1, <2>2, <2>3 DEF Steady
<1> QED
  BY <1>2, <1>5

(* Nor are they, but for the sink, of Good. *)
LEMMA GoodFollows ==
  ASSUME NEW m, NEW n, Like(m, n, Inner)
  PROVE  Good(n) => Good(m)
<1>1. /\ m.open = n.open /\ m.parsing = n.parsing /\ m.multipart = n.multipart
      /\ m.told = n.told /\ m.front = n.front /\ m.at = n.at
      /\ m.responded = n.responded /\ m.held = n.held /\ m.sinking = n.sinking
  BY DEF Like, Fields, Inner
<1>2. Sinks(n) => Sinks(m)
  BY <1>1 DEF Sinks, HasLine, LineEnd
<1>3. Closed(n) => Closed(m)
  BY <1>1 DEF Closed
<1>4. Like(m, n, Inner \cup {"sinking"})
  BY DEF Like
<1>5. /\ Lasting(n) => Lasting(m)
      /\ Steady(n) => Steady(m)
  BY <1>4, SteadyFollows
<1> QED
  BY <1>1, <1>2, <1>3, <1>5 DEF Good

(* The request is cleaned. *)
Cleaned == {"responded", "body", "items", "parsed", "headersOut", "cookie", "changed"}

(* lwp_ws_req_clean: nothing of the request is left. *)
LEMMA CleanEffect ==
  ASSUME NEW n, Net(n)
  PROVE  LET m == Clean(n) IN
         /\ Net(m) /\ Like(m, n, Cleaned)
         /\ m.responded /\ m.body = {} /\ m.items = {} /\ ~m.parsed
         /\ m.headersOut = {} /\ m.cookie = 0 /\ ~m.changed
<1> DEFINE m == Clean(n)
<1>1. DOMAIN n = Fields
  BY Domain DEF Net
<1>2. /\ m.responded = TRUE /\ m.body = {} /\ m.items = {} /\ m.parsed = FALSE
      /\ m.headersOut = {} /\ m.cookie = 0 /\ m.changed = FALSE
  BY <1>1 DEF Clean, Fields
<1>3. \A g \in Fields \ Cleaned : m[g] = n[g]
  BY <1>1 DEF Clean, Cleaned
<1>4. Rec(m)
  BY <1>1 DEF Rec, Clean
<1> HIDE DEF m
<1>5. Typed(m)
  <2>1. /\ m.cur = n.cur /\ m.open = n.open /\ m.shut = n.shut /\ m.parsing = n.parsing
        /\ m.sinking = n.sinking /\ m.nested = n.nested /\ m.multipart = n.multipart
        /\ m.held = n.held /\ m.told = n.told /\ m.complete = n.complete
        /\ m.answers = n.answers /\ m.front = n.front /\ m.at = n.at /\ m.base = n.base
    BY <1>3 DEF Fields, Cleaned
  <2>2. /\ m.connections = n.connections /\ m.jar = n.jar /\ m.next = n.next
        /\ m.ahead = n.ahead /\ m.sent = n.sent /\ m.sessions = n.sessions
        /\ m.lost = n.lost /\ m.closing = n.closing /\ m.broken = n.broken
        /\ m.op = n.op /\ m.finish = n.finish
    BY <1>3 DEF Fields, Cleaned
  <2>3. Typed(n) /\ {} \in SUBSET Nat /\ 0 \in Nat
    BY DEF Net
  <2> QED
    BY <1>2, <2>1, <2>2, <2>3 DEF Typed
<1> QED
  BY <1>2, <1>3, <1>4, <1>5 DEF Net, Like, m

(* A connection that ends loses the cookie that an answer was to carry. *)
Gone == {"told", "lost", "open", "front", "sinking", "multipart"} \cup Cleaned

(* on_disconnect: the fields that it writes. *)
LEMMA DisconnectShape ==
  ASSUME NEW n, Net(n)
  PROVE  LET m == Disconnect(n) IN
         /\ Net(m) /\ Like(m, n, Gone) /\ m.responded /\ ~m.open /\ ~m.sinking
         /\ m.front = n.at /\ m.multipart = NoMultipart /\ m.told = ~n.responded
         /\ m.lost = IF n.changed /\ ~n.responded THEN n.lost \cup {n.cookie} ELSE n.lost
<1> DEFINE l == IF n.changed /\ ~n.responded THEN n.lost \cup {n.cookie} ELSE n.lost
           v == ~n.responded
           k == Lost(n)
           t == [k EXCEPT !.told = v]
           c == Clean(t)
           f == n.at
           p == NoMultipart
           m == [c EXCEPT !.open = FALSE, !.front = f, !.sinking = FALSE, !.multipart = p]
<1>1. l \in SUBSET Nat /\ v \in BOOLEAN /\ f \in Spot /\ p \in Multipart /\ k = [n EXCEPT !.lost = l]
  BY DEF Net, Typed, NoMultipart, Multipart, Lost
<1> HIDE DEF l, k, v, p
<1>2. Net(k) /\ Like(k, n, {"lost"}) /\ k.lost = l
  BY <1>1, UpdLost
<1>3. Net(t) /\ Like(t, k, {"told"}) /\ t.told = v
  BY <1>1, <1>2, UpdTold
<1> HIDE DEF t
<1>4. Net(c) /\ Like(c, t, Cleaned) /\ c.responded
  BY <1>3, CleanEffect
<1> HIDE DEF c
<1>5. DOMAIN c = Fields
  BY <1>4, Domain DEF Net
<1>6. Rec(m) /\ m.open = FALSE /\ m.front = f /\ m.sinking = FALSE /\ m.multipart = p
  BY <1>5 DEF Rec, Fields
<1>7. \A g \in Fields \ {"open", "front", "sinking", "multipart"} : m[g] = c[g]
  BY <1>5
<1>8. m = Disconnect(n)
  <2>1. c = Cleanup(n)
    BY DEF Cleanup, c, t, k, v
  <2> QED
    BY <2>1 DEF Disconnect, p
<1> HIDE DEF m
<1>9. Typed(m)
  <2>1. /\ m.responded = c.responded /\ m.cur = c.cur /\ m.body = c.body
        /\ m.items = c.items /\ m.parsed = c.parsed /\ m.headersOut = c.headersOut
        /\ m.cookie = c.cookie /\ m.changed = c.changed /\ m.shut = c.shut
        /\ m.parsing = c.parsing /\ m.nested = c.nested
        /\ m.held = c.held /\ m.told = c.told /\ m.complete = c.complete
        /\ m.answers = c.answers /\ m.at = c.at /\ m.base = c.base
    BY <1>7 DEF Fields
  <2>2. /\ m.connections = c.connections /\ m.jar = c.jar /\ m.next = c.next
        /\ m.ahead = c.ahead /\ m.sent = c.sent /\ m.sessions = c.sessions
        /\ m.lost = c.lost /\ m.closing = c.closing /\ m.broken = c.broken
        /\ m.op = c.op /\ m.finish = c.finish
    BY <1>7 DEF Fields
  <2> QED
    BY <1>1, <1>4, <1>6, <2>1, <2>2 DEF Net, Typed
<1>10. \A g \in Fields \ Gone : m[g] = n[g]
  <2>1. \A g \in Fields \ Gone : m[g] = c[g]
    BY <1>7 DEF Gone
  <2>2. \A g \in Fields \ Gone : c[g] = t[g]
    BY <1>4 DEF Like, Gone
  <2>3. \A g \in Fields \ Gone : t[g] = k[g] /\ k[g] = n[g]
    BY <1>2, <1>3 DEF Like, Gone
  <2> QED
    BY <2>1, <2>2, <2>3
<1>11. m.responded /\ m.told = v /\ m.lost = l
  <2>1. m.responded = c.responded /\ m.told = c.told /\ m.lost = c.lost
    BY <1>7 DEF Fields
  <2>2. c.told = t.told /\ c.lost = t.lost /\ t.lost = k.lost
    BY <1>3, <1>4 DEF Like, Fields, Cleaned
  <2> QED
    BY <1>2, <1>3, <1>4, <2>1, <2>2
<1> QED
  BY <1>6, <1>8, <1>9, <1>10, <1>11 DEF Net, Like, m, f, p, v, l

(* A connection that ends tells the application of the request that it keeps. *)
LEMMA DisconnectEffect ==
  ASSUME NEW n, Net(n)
  PROVE  LET m == Disconnect(n) IN
         /\ Net(m) /\ m.broken = n.broken /\ m.responded /\ ~m.open
         /\ Lasting(n) /\ n.held = (IF n.responded THEN 0 ELSE 1) => Good(m)
<1> DEFINE m == Disconnect(n)
<1>1. /\ Net(m) /\ Like(m, n, Gone) /\ m.responded /\ ~m.open /\ ~m.sinking
      /\ m.front = n.at /\ m.multipart = NoMultipart /\ m.told = ~n.responded
      /\ m.lost = IF n.changed /\ ~n.responded THEN n.lost \cup {n.cookie} ELSE n.lost
  BY DisconnectShape
<1> HIDE DEF m
<1>2. /\ m.broken = n.broken /\ m.at = n.at /\ m.closing = n.closing /\ m.answers = n.answers
      /\ m.base = n.base /\ m.ahead = n.ahead /\ m.sessions = n.sessions /\ m.jar = n.jar
      /\ m.held = n.held
  BY <1>1 DEF Like, Fields, Gone, Cleaned
<1>3. n.responded \in BOOLEAN /\ n.changed \in BOOLEAN
  BY DEF Net, Typed
<1>4. ASSUME Lasting(n), n.held = IF n.responded THEN 0 ELSE 1
      PROVE  Good(m)
  <2>1. One(m)
    BY <1>1, <1>2, <1>3, <1>4 DEF Lasting, One, Live, Cookie
  <2>2. Lasting(m)
    BY <1>1, <1>2, <1>4, <2>1 DEF Lasting, Answers
  <2>3. Closed(m)
    <3>1. m.told <=> m.held > 0
      <4>1. CASE n.responded
        <5>1. m.told = FALSE /\ m.held = 0
          BY <1>1, <1>2, <1>4, <4>1
        <5> QED
          BY <5>1
      <4>2. CASE ~n.responded
        <5>1. m.told = TRUE /\ m.held = 1
          BY <1>1, <1>2, <1>4, <4>2
        <5> QED
          BY <5>1
      <4> QED
        BY <1>3, <4>1, <4>2
    <3>2. ~m.multipart.there
      BY <1>1 DEF NoMultipart
    <3> QED
      BY <1>1, <3>1, <3>2 DEF Closed
  <2> QED
    BY <1>1, <2>2, <2>3 DEF Good
<1> QED
  BY <1>1, <1>2, <1>4 DEF m

---------------------------------------------------------------------------
(* A step of the sink: what the parser reports. *)

(* What a report leaves when nothing went wrong, or when something did. *)
Survives(m) == Net(m) /\ m.broken \cap Bad = {} /\ (auto => m.responded)
Result(m) ==
    /\ Survives(m)
    /\ m.broken = {} => Lasting(m) /\ IF m.open THEN Steady(m) ELSE Closed(m)

(* Where something goes wrong, it is noted and nothing more is said. *)
LEMMA BrokenEffect ==
  ASSUME NEW n, Net(n), NEW how, how \in Ways \ Bad, n.broken \cap Bad = {},
         NEW bad, bad \in BOOLEAN
  PROVE  LET m == Broken(n, how, bad) IN
         /\ Net(m) /\ Like(m, n, {"broken"}) /\ m.broken \cap Bad = {}
         /\ bad => m.broken # {}
         /\ ~bad => m = n
<1> DEFINE b == n.broken \cup {how}
           m == Broken(n, how, bad)
<1>1. b \in SUBSET Ways
  BY DEF Net, Typed
<1>2. CASE bad
  <2>1. m = [n EXCEPT !.broken = b]
    BY <1>2 DEF Broken
  <2> HIDE DEF m, b
  <2>2. Net(m) /\ Like(m, n, {"broken"}) /\ m.broken = b
    BY <1>1, <2>1, UpdBroken
  <2>3. b \cap Bad = {} /\ b # {}
    BY DEF b
  <2> QED
    BY <1>2, <2>2, <2>3 DEF m
<1>3. CASE ~bad
  <2>1. m = n
    BY <1>3 DEF Broken
  <2>2. Like(n, n, {"broken"})
    BY DEF Like, Net
  <2> QED
    BY <1>3, <2>1, <2>2
<1> QED
  BY <1>2, <1>3

(* on_message_begin: the request is cleaned, which is wrong while a file is closing. *)
LEMMA MessageBeginEffect ==
  ASSUME NEW n, Net(n), n.broken = {}, NEW t, t.r \in Nat
  PROVE  LET m == MessageBegin(n, t) IN
         /\ Net(m) /\ Like(m, n, Cleaned \cup {"cur", "broken"}) /\ m.broken \cap Bad = {}
         /\ m.responded /\ m.body = {} /\ m.items = {} /\ ~m.parsed
         /\ m.headersOut = {} /\ m.cookie = 0 /\ ~m.changed /\ m.cur = t.r
         /\ (m.broken = {}) <=> ~Saving(n)
<1> DEFINE bad == Saving(n)
           b == Broken(n, "while saving", bad)
           c == Clean(b)
           v == t.r
           m == [c EXCEPT !.cur = v]
<1>1. bad \in BOOLEAN /\ "while saving" \in Ways \ Bad /\ n.broken \cap Bad = {} /\ v \in Nat
  BY DEF Saving, Ways, Bad, Net, Typed, Multipart
<1>2. /\ Net(b) /\ Like(b, n, {"broken"}) /\ b.broken \cap Bad = {}
      /\ bad => b.broken # {}
      /\ ~bad => b = n
  BY <1>1, BrokenEffect
<1> HIDE DEF b
<1>3. /\ Net(c) /\ Like(c, b, Cleaned)
      /\ c.responded /\ c.body = {} /\ c.items = {} /\ ~c.parsed
      /\ c.headersOut = {} /\ c.cookie = 0 /\ ~c.changed
  BY <1>2, CleanEffect
<1>4. m = MessageBegin(n, t)
  BY DEF MessageBegin, b, v
<1>11. m = [c EXCEPT !.cur = v] /\ v \in Nat
  BY DEF v
<1> HIDE DEF c, v, m
<1>5. Net(m) /\ Like(m, c, {"cur"}) /\ m.cur = v
  BY <1>3, <1>11, UpdCur
<1>6. /\ m.responded = c.responded /\ m.body = c.body /\ m.items = c.items
      /\ m.parsed = c.parsed /\ m.headersOut = c.headersOut /\ m.cookie = c.cookie
      /\ m.changed = c.changed /\ m.broken = c.broken
  BY <1>5 DEF Like, Fields
<1>7. c.broken = b.broken
  BY <1>3 DEF Like, Fields, Cleaned
<1>8. \A g \in Fields \ (Cleaned \cup {"cur", "broken"}) : m[g] = n[g]
  BY <1>2, <1>3, <1>5 DEF Like
<1>9. Like(m, n, Cleaned \cup {"cur", "broken"})
  BY <1>5, <1>8 DEF Like
<1>10. m.broken \cap Bad = {} /\ ((m.broken = {}) <=> ~bad)
  BY <1>1, <1>2, <1>6, <1>7
<1> QED
  BY <1>3, <1>4, <1>5, <1>6, <1>9, <1>10 DEF v

(* A request begins. *)
LEMMA FirstEffect ==
  ASSUME Scripted, NEW n, Net(n), n.broken = {}, Good(n), n.open, n.sinking, n.parsing, Between(n)
  PROVE  LET t == LineEnd(n) IN Result(Parse([n EXCEPT !.front = After(t)], t))
<1> DEFINE t == LineEnd(n)
           f == After(t)
           k == [n EXCEPT !.front = f]
           m == MessageBegin(k, t)
           r == n.front.r
<1>1. Lasting(n) /\ Steady(n) /\ Sinks(n) /\ HasLine(n) /\ n.responded /\ n.front.j = 1
  BY DEF Good, Sinks, Between
<1>2. /\ t \in Places /\ t.r = r /\ r \in 1..MaxRequests /\ t.j = 2
      /\ f \in Places /\ ~Before(n.at, f)
  BY <1>1, LinePlace DEF Lasting
<1>3. Length(r) \in 3..7 /\ MaxRequests \in Nat
  BY <1>2, Lengths, WebAssumption
<1>4. ~Last(t) /\ f = Place(r, 3) /\ Is(t) = "first"
  BY <1>2, <1>3 DEF Last, After, Is
<1>5. f \in Spot
  BY <1>2, Spots
<1> HIDE DEF t, f
<1>6. Net(k) /\ Like(k, n, {"front"}) /\ k.front = f
  BY <1>5, UpdFront
<1> HIDE DEF k
<1>7. k.broken = {} /\ (Saving(k) <=> Saving(n)) /\ t.r \in Nat
  BY <1>2, <1>6 DEF Like, Fields, Saving
<1>8. /\ Net(m) /\ Like(m, k, Cleaned \cup {"cur", "broken"}) /\ m.broken \cap Bad = {}
      /\ m.responded /\ m.body = {} /\ m.items = {} /\ ~m.parsed
      /\ m.headersOut = {} /\ m.cookie = 0 /\ ~m.changed /\ m.cur = r
      /\ (m.broken = {}) <=> ~Saving(n)
  BY <1>2, <1>6, <1>7, MessageBeginEffect
<1>9. Parse(k, t) = Url(m, t)
  BY <1>4 DEF Parse, Reported, Ended
<1> HIDE DEF m
<1>10. /\ m.open = k.open /\ m.parsing = k.parsing /\ m.multipart = k.multipart
       /\ m.complete = k.complete /\ m.answers = k.answers /\ m.shut = k.shut
       /\ m.front = k.front /\ m.at = k.at /\ m.base = k.base /\ m.ahead = k.ahead
       /\ m.sent = k.sent /\ m.closing = k.closing /\ m.sessions = k.sessions
       /\ m.lost = k.lost /\ m.jar = k.jar /\ m.held = k.held
  BY <1>8 DEF Like, Fields, Cleaned
<1>11. /\ m.open = n.open /\ m.parsing = n.parsing /\ m.multipart = n.multipart
       /\ m.complete = n.complete /\ m.answers = n.answers /\ m.shut = n.shut
       /\ m.front = f /\ m.at = n.at /\ m.base = n.base /\ m.ahead = n.ahead
       /\ m.sent = n.sent /\ m.closing = n.closing /\ m.sessions = n.sessions
       /\ m.lost = n.lost /\ m.jar = n.jar /\ m.held = n.held
  BY <1>6, <1>10 DEF Like, Fields
<1>12. m.held = 0
  BY <1>1, <1>11 DEF Steady
<1>13. Lasting(m)
  <2>1. One(m)
    BY <1>1, <1>8, <1>11 DEF Lasting, One, Live
  <2> QED
    BY <1>1, <1>2, <1>11, <2>1 DEF Lasting, Answers
<1>14. ASSUME ~Saving(n) PROVE Steady(m)
  <2>1. Heading(m)
    BY <1>2, <1>4, <1>8, <1>11, <1>14 DEF Heading, Between, Place, Saving
  <2>2. Waits(m)
    BY <1>1, <1>11 DEF Steady, Waits
  <2>3. Fresh(m)
    <3>1. ASSUME NEW x \in 1..MaxRequests, Pending(m, x) PROVE Pending(n, x)
      <4>1. n.front = Place(r, 1) /\ x \in Nat /\ r \in Nat
        BY <1>1, <1>2, Spots DEF Lasting
      <4> QED
        BY <1>4, <1>11, <3>1, <4>1 DEF Pending, Before, Place
    <3> QED
      BY <1>1, <1>11, <3>1 DEF Steady, Fresh
  <2>4. Counted(n) => Counted(m)
    <3>1. Awaited(n) = 0 /\ Awaited(m) = 0
      BY <1>1, <1>8, <1>11, <1>14 DEF Awaited, Saving
    <3>2. Early(n) <=> Early(m)
      BY <1>11 DEF Early
    <3> QED
      BY <1>11, <3>1, <3>2 DEF Counted
  <2>5. m.complete = m.front.r - m.base
    BY <1>1, <1>4, <1>11 DEF Steady, Place
  <2> QED
    BY <1>1, <1>2, <1>8, <1>11, <1>12, <2>1, <2>2, <2>3, <2>4, <2>5 DEF Steady
<1>15. CASE script[t.r] = "traversal"
  <2> DEFINE d == Disconnect(m)
  <2>1. d = Parse(k, t)
    BY <1>9, <1>15 DEF Url
  <2>2. Net(d) /\ d.broken = m.broken /\ d.responded /\ ~d.open /\ Good(d)
    BY <1>8, <1>12, <1>13, DisconnectEffect
  <2> HIDE DEF d
  <2>3. Result(d)
    BY <1>8, <2>2 DEF Result, Survives, Good
  <2> QED
    BY <2>1, <2>3 DEF k, f, t
<1>16. CASE script[t.r] # "traversal"
  <2>1. Parse(k, t) = m
    BY <1>9, <1>16 DEF Url
  <2>2. Result(m)
    BY <1>8, <1>11, <1>13, <1>14 DEF Result, Survives
  <2> QED
    BY <2>1, <2>2 DEF k, f, t
<1> QED
  BY <1>15, <1>16

(* A request that is not an upload is complete: its hook is called. *)
Over(n) ==
    /\ Net(n) /\ n.open /\ n.broken = {} /\ n.sinking /\ n.held = 0
    /\ n.cur \in 1..MaxRequests /\ n.front = Place(n.cur + 1, 1)
    /\ Lasting(n) /\ Waits(n) /\ Fresh(n) /\ ~Before(n.at, n.front)
    /\ n.complete + 1 = n.front.r - n.base
    /\ ~n.shut => Len(n.answers) = n.complete

(* on_message_complete of a request without uploads: the hook is called in its turn. *)
LEMMA MessageCompleteEffect ==
  ASSUME Scripted, NEW n, Over(n), ToCall(n), script[n.cur] \notin Uploads,
         ~n.multipart.there => Whole(n, n.items \cup n.body)
  PROVE  Result(MessageComplete(n))
<1> DEFINE v == n.complete + 1
           k == [n EXCEPT !.complete = v]
           a == Answered(k)
           p == TRUE
           m == [a EXCEPT !.parsing = p]
<1>1. Net(n) /\ v \in Nat /\ p \in BOOLEAN
  BY DEF Over, Net, Typed
<1>2. m = MessageComplete(n)
  BY DEF MessageComplete
<1>3. k = [n EXCEPT !.complete = v] /\ m = [a EXCEPT !.parsing = p]
  OBVIOUS
<1> HIDE DEF v, k, a, p, m
<1>4. Net(k) /\ Like(k, n, {"complete"}) /\ k.complete = v
  BY <1>1, <1>3, UpdComplete
<1>5. /\ k.cur = n.cur /\ k.body = n.body /\ k.open = n.open /\ k.multipart = n.multipart
      /\ k.front = n.front /\ k.at = n.at /\ k.base = n.base /\ k.ahead = n.ahead
      /\ k.sent = n.sent /\ k.closing = n.closing /\ k.broken = n.broken
      /\ Session(k, n) /\ Answering(k, n) /\ k.items = n.items /\ k.parsed = n.parsed
  BY <1>4 DEF Like, Fields, Session, Answering
<1>6. CASE n.multipart.there
  <2>1. "no hook" \in Ways \ Bad /\ TRUE \in BOOLEAN /\ k.broken \cap Bad = {}
    BY <1>5 DEF Over, Ways, Bad
  <2>2. a = Broken(k, "no hook", TRUE)
    BY <1>5, <1>6 DEF Answered, a
  <2>3. Net(a) /\ Like(a, k, {"broken"}) /\ a.broken \cap Bad = {} /\ a.broken # {}
    BY <1>4, <2>1, <2>2, BrokenEffect
  <2>4. Net(m) /\ Like(m, a, {"parsing"})
    BY <1>1, <1>3, <2>3, UpdParsing
  <2>5. m.broken = a.broken /\ m.responded = a.responded /\ a.responded = k.responded
    BY <2>3, <2>4 DEF Like, Fields
  <2> QED
    BY <1>2, <1>5, <2>3, <2>4, <2>5 DEF Result, Survives, ToCall, Answering
<1>7. CASE ~n.multipart.there
  <2>1. InOrder(k)
    <3>1. n.base \in Nat /\ n.cur \in Nat /\ n.front.r = n.cur + 1
      BY <1>1 DEF Net, Typed, Over, Place
    <3>2. ~n.shut => Len(n.answers) + 1 = (n.cur + 1) - n.base
      BY <3>1 DEF Over
    <3>3. n.answers \in Seq(Answer) /\ Len(n.answers) \in Nat
      BY <1>1 DEF Net, Typed
    <3> QED
      BY <1>5, <3>1, <3>2, <3>3 DEF InOrder, Answering
  <2>2. Answers(k) /\ Fresh(k) /\ One(k) /\ Waits(k)
    <3>1. Answers(n) /\ Fresh(n) /\ One(n) /\ Waits(n)
      BY DEF Over, Lasting
    <3>2. Answers(k) /\ Waits(k)
      BY <1>5, <3>1 DEF Answers, Waits, Answering
    <3>3. Fresh(k)
      BY <1>5, <3>1, PendingFollows DEF Fresh, Session
    <3>4. One(k)
      BY <1>5, <3>1 DEF One, Live, Cookie, Session, Answering
    <3> QED
      BY <3>2, <3>3, <3>4
  <2>3. Clear(k)
    <3>1. k.at \in Places /\ k.front \in Places
      BY <1>5 DEF Over, Lasting
    <3>2. Before(Place(k.cur, 3), k.front)
      <4>1. k.front.r = k.cur + 1 /\ k.cur \in Nat
        BY <1>1, <1>5 DEF Over, Place, Net, Typed
      <4> QED
        BY <4>1 DEF Before, Place
    <3> QED
      BY <1>4, <2>1, <2>2, <3>1, <3>2, NothingPending
  <2>4. k.held = 0 /\ k.open /\ k.cur \in 1..MaxRequests /\ k.responded
    BY <1>5 DEF Over, ToCall, Answering
  <2>5. ~k.ahead => Live(k) \subseteq {k.jar}
    BY <2>2, <2>4 DEF One
  <2>6. ToCall(k) /\ Whole(k, k.items \cup k.body)
    BY <1>5, <1>7 DEF ToCall, Whole, Answering, Session
  <2>7. Ready(k)
    BY <1>4, <2>1, <2>2, <2>3, <2>4, <2>5, <2>6 DEF Ready
  <2>8. a = CallHook(k)
    BY <1>5, <1>7 DEF Answered, a
  <2>9. Handled(a, k)
    BY <2>7, <2>8, CallHookEffect
  <2>10. Net(a) /\ Outer(a, k) /\ Answers(a) /\ One(a) /\ Fresh(a)
    BY <2>9 DEF Handled
  <2>11. Net(m) /\ Like(m, a, {"parsing"}) /\ m.parsing
    BY <1>1, <1>3, <2>10, UpdParsing DEF p
  <2>12. /\ m.cur = a.cur /\ m.body = a.body /\ m.open = a.open /\ m.multipart = a.multipart
         /\ m.told = a.told /\ m.complete = a.complete
         /\ m.front = a.front /\ m.at = a.at /\ m.base = a.base /\ m.ahead = a.ahead
         /\ m.sent = a.sent /\ m.closing = a.closing /\ m.broken = a.broken
         /\ Session(m, a) /\ Answering(m, a) /\ m.items = a.items
         /\ m.headersOut = a.headersOut
    BY <2>11 DEF Like, Fields, Session, Answering
  <2>13. /\ m.cur = n.cur /\ m.open /\ m.multipart = n.multipart /\ m.complete = v
         /\ m.front = n.front /\ m.at = n.at /\ m.base = n.base /\ m.ahead = n.ahead
         /\ m.closing = n.closing /\ m.broken = {}
    BY <1>4, <1>5, <2>10, <2>12 DEF Outer, Over
  <2>14. Lasting(m)
    <3>1. Answers(m)
      BY <2>10, <2>12 DEF Answers, Answering
    <3>2. One(m)
      BY <2>10, <2>12 DEF One, Live, Cookie, Session, Answering
    <3> QED
      BY <2>13, <3>1, <3>2 DEF Lasting, Over
  <2>15. Fresh(m)
    BY <2>10, <2>12, PendingFollows DEF Fresh, Session
  <2>16. ~m.responded => Own(m)
    BY <2>9, <2>12 DEF Handled, Own, Whole, Answering
  <2>17. Len(n.answers) \in Nat /\ n.complete \in Nat /\ n.base \in Nat /\ n.cur \in Nat
    BY <1>1 DEF Net, Typed
  <2>18. Len(m.answers) >= Len(n.answers) /\ Len(m.answers) \in Nat
    <3>1. (m.answers = a.answers /\ m.answers = n.answers) \/ Len(m.answers) = Len(n.answers) + 1
      BY <1>5, <2>9, <2>12 DEF Handled, Answering
    <3> QED
      BY <2>17, <3>1
  <2>19. Waits(m)
    <3>1. ~n.ahead => Sending(n.at) <= n.base + Len(n.answers)
      BY DEF Over, Waits
    <3>2. Sending(n.at) \in Int
      BY Spots DEF Over, Lasting, Sending
    <3> QED
      BY <2>13, <2>17, <2>18, <3>1, <3>2 DEF Waits
  <2>20. ~m.shut => Counted(m)
    <3> SUFFICES ASSUME ~m.shut PROVE Counted(m)
      OBVIOUS
    <3>1. ~n.shut /\ Len(n.answers) = n.complete
      BY <1>5, <2>9, <2>12 DEF Handled, Answering, Over
    <3>2. ~Early(m) /\ ~Saving(m)
      BY <1>7, <2>13 DEF Early, Saving
    <3>3. Len(m.answers) + (IF m.responded THEN 0 ELSE 1) = v
      <4>1. CASE m.responded
        BY <1>5, <2>9, <2>12, <2>17, <3>1, <4>1 DEF Handled, Answering, v
      <4>2. CASE ~m.responded
        BY <1>5, <2>9, <2>12, <2>17, <3>1, <4>2 DEF Handled, Answering, v
      <4> QED
        BY <4>1, <4>2
    <3>4. Awaited(m) = IF m.responded THEN 0 ELSE 1
      BY <3>2 DEF Awaited
    <3>5. Len(m.answers) + Awaited(m) = v /\ m.complete = v
      BY <2>13, <3>3, <3>4
    <3>6. v + (IF Early(m) THEN 1 ELSE 0) = v
      BY <1>1, <3>2
    <3> QED
      BY <3>5, <3>6 DEF Counted
  <2>21. Between(m)
    <3>1. m.front.j = 1 /\ m.front.r = n.cur + 1 /\ m.cur = m.front.r - 1
      BY <2>13, <2>17 DEF Over, Place
    <3>2. ~m.multipart.there /\ ~Saving(m)
      BY <1>7, <2>13 DEF Saving
    <3> QED
      BY <2>11, <3>1, <3>2 DEF Between
  <2>22. m.held = (IF m.responded THEN 0 ELSE 1) /\ (auto => m.responded)
    BY <2>9, <2>12 DEF Handled, Answering
  <2>23. m.complete = m.front.r - m.base /\ ~Before(m.at, m.front)
    BY <2>13 DEF Over, v
  <2>24. Steady(m)
    BY <2>15, <2>16, <2>19, <2>20, <2>21, <2>22, <2>23 DEF Steady
  <2> QED
    BY <1>2, <2>11, <2>13, <2>14, <2>22, <2>24 DEF Result, Survives
<1> QED
  BY <1>1, <1>6, <1>7 DEF Net, Typed, Multipart

(* The headers of a request are complete. *)
LEMMA HeadersEffect ==
  ASSUME Scripted, NEW n, Net(n), n.open,
         NEW t, t.r \in 1..MaxRequests, script[t.r] # "hostname"
  PROVE  LET m == HeadersComplete(Cookies(Hostname(n, t), t), t) IN
         /\ Net(m) /\ Like(m, n, {"cookie", "changed", "parsing", "multipart"}) /\ ~m.parsing
         /\ m.multipart = IF script[t.r] \in Uploads THEN MultipartNew(t.r) ELSE n.multipart
         /\ ~n.changed => ~m.changed
         /\ n.cookie = 0 => m.cookie = n.sent[t.r]
<1> DEFINE c == Cookies(n, t)
           p == FALSE
           u == IF script[t.r] \in Uploads THEN MultipartNew(t.r) ELSE n.multipart
           m == [c EXCEPT !.parsing = p, !.multipart = u]
<1>1. Hostname(n, t) = n
  BY DEF Hostname
<1>2. n.sent[t.r] \in Nat /\ t.r \in Nat
  BY WebAssumption DEF Net, Typed
<1>3. /\ Net(c) /\ Like(c, n, {"cookie", "changed"})
      /\ ~n.changed => ~c.changed
      /\ n.cookie = 0 => c.cookie = n.sent[t.r]
  <2>1. CASE n.sent[t.r] = 0
    BY <2>1 DEF Cookies, Like, Net
  <2>2. CASE n.sent[t.r] # 0
    <3> DEFINE f == FALSE
               s == SetCookie(n, n.sent[t.r], f)
    <3>1. c = s /\ f \in BOOLEAN
      BY <2>2 DEF Cookies
    <3> HIDE DEF f, c
    <3>2. Net(s) /\ Like(s, n, {"cookie", "changed"}) /\ s.cookie = n.sent[t.r] /\ s.changed = f
      BY <1>2, <3>1, SetCookieEffect
    <3> QED
      BY <3>1, <3>2 DEF f
  <2> QED
    BY <2>1, <2>2
<1>4. c.open /\ c.multipart = n.multipart /\ c.sent = n.sent
  BY <1>3 DEF Like, Fields
<1>5. u \in Multipart
  BY <1>2 DEF Net, Typed, Multipart, MultipartNew, NoMultipart
<1>6. m = HeadersComplete(c, t)
  BY <1>4 DEF HeadersComplete
<1> HIDE DEF c, u, m
<1>7. m = [c EXCEPT !.parsing = FALSE, !.multipart = u] /\ DOMAIN c = Fields
  BY <1>3, Domain DEF Net, m
<1>8. Rec(m) /\ m.parsing = FALSE /\ m.multipart = u
  BY <1>7 DEF Rec, Fields
<1>9. \A g \in Fields \ {"parsing", "multipart"} : m[g] = c[g]
  BY <1>7
<1>10. Typed(m)
  BY <1>3, <1>5, <1>8, <1>9 DEF Net, Typed, Fields
<1>11. m.cookie = c.cookie /\ m.changed = c.changed
  BY <1>9 DEF Fields
<1>12. Like(m, n, {"cookie", "changed", "parsing", "multipart"})
  <2>1. \A g \in Fields \ {"cookie", "changed", "parsing", "multipart"} : m[g] = n[g]
    BY <1>3, <1>9 DEF Like
  <2> QED
    BY <1>8, <2>1 DEF Like
<1>13. HeadersComplete(Cookies(Hostname(n, t), t), t) = m
  BY <1>1, <1>6 DEF c
<1> QED
  BY <1>3, <1>8, <1>10, <1>11, <1>12, <1>13 DEF Net, u

(* Then its body is to come, or its hook is called. *)
LEMMA HeadingEffect ==
  ASSUME Scripted, NEW n, Net(n), n.broken = {}, Good(n), n.open, n.sinking, n.parsing, Heading(n)
  PROVE  LET t == LineEnd(n) IN Result(Parse([n EXCEPT !.front = After(t)], t))
<1> DEFINE t == LineEnd(n)
           f == After(t)
           k == [n EXCEPT !.front = f]
           r == n.front.r
           h == HeadersComplete(Cookies(Hostname(k, t), t), t)
<1>1. Lasting(n) /\ Steady(n) /\ Sinks(n) /\ HasLine(n) /\ n.responded /\ n.front.j = 3
  BY DEF Good, Sinks, Heading
<1>2. /\ t \in Places /\ t.r = r /\ r \in 1..MaxRequests /\ t.j = 3
      /\ f \in Places /\ ~Before(n.at, f) /\ Before(t, n.at)
  BY <1>1, LinePlace DEF Lasting
<1>3. Length(r) \in 3..7 /\ MaxRequests \in Nat /\ t = n.front
  BY <1>1, <1>2, Lengths, WebAssumption DEF LineEnd
<1>4. f = (IF Length(r) = 3 THEN Place(r + 1, 1) ELSE Place(r, 4)) /\ Is(t) = "headers"
      /\ (Last(t) <=> Length(r) = 3)
  BY <1>2, <1>3 DEF Last, After, Is
<1>5. f \in Spot
  BY <1>2, Spots
<1> HIDE DEF t, f
<1>6. Net(k) /\ Like(k, n, {"front"}) /\ k.front = f
  BY <1>5, UpdFront
<1> HIDE DEF k
<1>7. /\ k.open = n.open /\ k.parsing = n.parsing /\ k.multipart = n.multipart
      /\ k.complete = n.complete /\ k.answers = n.answers /\ k.shut = n.shut
      /\ k.front = f /\ k.at = n.at /\ k.base = n.base /\ k.ahead = n.ahead
      /\ k.sent = n.sent /\ k.closing = n.closing /\ k.sessions = n.sessions
      /\ k.lost = n.lost /\ k.jar = n.jar /\ k.held = n.held /\ k.broken = {}
      /\ k.responded /\ k.cookie = 0 /\ ~k.changed /\ k.cur = r
      /\ k.body = {} /\ k.items = {} /\ ~k.parsed /\ k.sinking
  BY <1>1, <1>6 DEF Like, Fields, Heading
<1>8. k.held = 0
  BY <1>1, <1>7 DEF Steady
<1>9. Parse(k, t) = Ended(h, t)
  BY <1>4 DEF Parse, Reported
<1>10. Lasting(k)
  <2>1. One(k)
    BY <1>1, <1>7 DEF Lasting, One, Live
  <2> QED
    BY <1>1, <1>2, <1>7, <2>1 DEF Lasting, Answers
<1>11. CASE script[t.r] = "hostname"
  <2> DEFINE d == Disconnect(k)
  <2>1. Net(d) /\ d.broken = k.broken /\ d.responded /\ ~d.open /\ Good(d)
    BY <1>6, <1>7, <1>8, <1>10, DisconnectEffect
  <2>2. Hostname(k, t) = d
    BY <1>11 DEF Hostname
  <2> HIDE DEF d
  <2>3. Cookies(d, t) = d
    BY <2>1 DEF Cookies
  <2>4. HeadersComplete(d, t) = d
    BY <2>1 DEF HeadersComplete
  <2>5. Ended(d, t) = d
    BY <2>1 DEF Ended
  <2>6. Parse(k, t) = d
    BY <1>9, <2>2, <2>3, <2>4, <2>5
  <2>7. Result(d)
    BY <1>7, <2>1 DEF Result, Survives, Good
  <2> QED
    BY <2>6, <2>7 DEF k, f, t
<1>12. CASE script[t.r] # "hostname"
  <2>1. /\ Net(h) /\ Like(h, k, {"cookie", "changed", "parsing", "multipart"}) /\ ~h.parsing
        /\ h.multipart = (IF script[t.r] \in Uploads THEN MultipartNew(t.r) ELSE k.multipart)
        /\ ~k.changed => ~h.changed
        /\ k.cookie = 0 => h.cookie = k.sent[t.r]
    <3>1. t.r \in 1..MaxRequests /\ k.open
      BY <1>2, <1>7
    <3> QED
      BY <1>6, <1>12, <3>1, HeadersEffect
  <2> HIDE DEF h
  <2>2. /\ h.open = k.open /\ h.complete = k.complete /\ h.answers = k.answers
        /\ h.shut = k.shut /\ h.front = k.front /\ h.at = k.at /\ h.base = k.base
        /\ h.ahead = k.ahead /\ h.sent = k.sent /\ h.closing = k.closing
        /\ h.sessions = k.sessions /\ h.lost = k.lost /\ h.jar = k.jar /\ h.held = k.held
        /\ h.broken = k.broken /\ h.responded = k.responded /\ h.cur = k.cur
        /\ h.body = k.body /\ h.items = k.items /\ h.parsed = k.parsed /\ h.sinking = k.sinking
    BY <2>1 DEF Like, Fields
  <2>3. ~n.ahead => n.sent[r] = n.jar
    <3>1. Pending(n, r)
      BY <1>2, <1>3 DEF Pending, Before, Place
    <3> QED
      BY <1>1, <1>2, <3>1 DEF Steady, Fresh
  <2>4. ToCall(h)
    BY <1>2, <1>7, <2>1, <2>2, <2>3 DEF ToCall
  <2>5. Lasting(h)
    <3>1. One(h)
      BY <1>7, <1>10, <2>2 DEF Lasting, One, Live
    <3> QED
      BY <1>10, <2>2, <3>1 DEF Lasting, Answers
  <2>6. Waits(h)
    BY <1>1, <1>7, <2>2 DEF Steady, Waits
  <2>7. Fresh(h)
    <3>1. ASSUME NEW x \in 1..MaxRequests, Pending(h, x) PROVE Pending(n, x)
      <4>1. x \in Nat /\ r \in Nat
        BY <1>2
      <4>2. h.front = f /\ h.at = n.at /\ n.front.r = r /\ n.front.j = 3
        BY <1>1, <1>7, <2>2
      <4>3. f.r \in Nat /\ f.r >= r
        BY <1>4, <4>1 DEF Place
      <4> QED
        BY <3>1, <4>1, <4>2, <4>3 DEF Pending, Before, Place
    <3> QED
      BY <1>1, <1>7, <2>2, <3>1 DEF Steady, Fresh
  <2>8. ~Before(h.at, h.front)
    BY <1>2, <1>7, <2>2
  <2>9. ~Saving(n) /\ ~Early(n)
    BY DEF Heading, Saving, Early
  <2>10. ~n.shut => Len(n.answers) = n.complete
    <3>1. Awaited(n) = 0
      BY <1>1, <2>9 DEF Awaited
    <3>2. Len(n.answers) \in Nat /\ n.complete \in Nat
      BY DEF Net, Typed
    <3> QED
      BY <1>1, <2>9, <3>1, <3>2 DEF Steady, Counted
  <2>11. n.complete = r - n.base /\ n.base \in Nat /\ r \in Nat
    BY <1>1, <1>2 DEF Steady, Net, Typed
  <2>12. CASE Last(t)
    <3>1. f = Place(r + 1, 1) /\ Length(r) = 3
      BY <1>4, <2>12
    <3>2. script[r] \notin Uploads /\ script[r] \notin {"post", "form"}
      BY <1>2, <3>1, Lengths DEF Uploads
    <3>3. Whole(h, h.items \cup h.body)
      BY <1>7, <2>2, <3>2 DEF Whole
    <3>4. h.front = Place(h.cur + 1, 1)
      BY <1>7, <2>2, <3>1
    <3>5. h.complete + 1 = h.front.r - h.base
      BY <1>7, <2>2, <2>11, <3>1 DEF Place
    <3>6. Over(h)
      BY <1>2, <1>7, <1>8, <2>1, <2>2, <2>5, <2>6, <2>7, <2>8, <2>10, <3>4, <3>5 DEF Over
    <3>7. Result(MessageComplete(h))
      BY <1>7, <2>2, <2>4, <3>2, <3>3, <3>6, MessageCompleteEffect
    <3>8. Ended(h, t) = MessageComplete(h)
      BY <1>7, <2>2, <2>12 DEF Ended
    <3> QED
      BY <1>9, <3>7, <3>8 DEF k, f, t
  <2>13. CASE ~Last(t)
    <3>1. f = Place(r, 4) /\ Ended(h, t) = h
      BY <1>4, <2>13 DEF Ended
    <3>2. h.front = f /\ h.cur = r /\ h.front.r = r /\ h.front.j = 4 /\ r <= MaxRequests
      BY <1>2, <1>7, <2>2, <3>1 DEF Place
    <3>3. InBody(h)
      <4>1. CASE script[r] \in Uploads
        <5>1. h.multipart.there /\ h.multipart.r = r /\ ~h.multipart.done /\ ~h.multipart.called
          BY <1>2, <2>1, <4>1 DEF MultipartNew, NoMultipart
        <5> QED
          BY <2>1, <2>4, <3>2, <4>1, <5>1 DEF InBody
      <4>2. CASE script[r] \notin Uploads
        <5>1. h.multipart = n.multipart
          BY <1>2, <1>7, <2>1, <4>2
        <5> QED
          BY <2>1, <2>4, <3>2, <4>2, <5>1 DEF InBody, Heading
      <4> QED
        BY <4>1, <4>2
    <3>4. ~Saving(h) /\ ~Early(h)
      <4>1. CASE script[r] \in Uploads
        BY <1>2, <2>1, <4>1 DEF MultipartNew, NoMultipart, Saving, Early
      <4>2. CASE script[r] \notin Uploads
        BY <1>2, <1>7, <2>1, <2>9, <4>2 DEF Saving, Early
      <4> QED
        BY <4>1, <4>2
    <3>5. ~h.shut => Counted(h)
      <4>1. Awaited(h) = 0
        BY <1>7, <2>2, <3>4 DEF Awaited
      <4>2. ~h.shut => Len(h.answers) = h.complete
        BY <1>7, <2>2, <2>10
      <4>3. h.complete \in Nat
        BY <2>1 DEF Net, Typed
      <4> QED
        BY <3>4, <4>1, <4>2, <4>3 DEF Counted
    <3>6. h.complete = h.front.r - h.base
      BY <1>7, <2>2, <2>11, <3>2
    <3>7. h.held = (IF h.responded THEN 0 ELSE 1) /\ h.responded
      BY <1>7, <1>8, <2>2
    <3>8. Steady(h)
      BY <2>6, <2>7, <2>8, <3>3, <3>5, <3>6, <3>7 DEF Steady
    <3>9. Result(h)
      BY <1>7, <2>1, <2>2, <2>5, <3>7, <3>8 DEF Result, Survives
    <3> QED
      BY <1>9, <3>1, <3>9 DEF k, f, t
  <2> QED
    BY <2>12, <2>13
<1> QED
  BY <1>11, <1>12

(* A request whose hook is to be called once its headers are parsed and all requests *)
(* before it have their answers.                                                      *)
Due(n) ==
    /\ Net(n) /\ n.open /\ n.held = 0 /\ ToCall(n) /\ n.cur \in 1..MaxRequests
    /\ Whole(n, n.items \cup n.body) /\ Lasting(n) /\ Waits(n) /\ Fresh(n)
    /\ Before(Place(n.cur, 3), n.front)
    /\ ~n.shut => n.cur = n.base + Len(n.answers)

(* The hook of such a request may be called. *)
LEMMA DueIsReady ==
  ASSUME Scripted, NEW n, Due(n)
  PROVE  Ready(n)
<1>1. InOrder(n)
  BY DEF Due, InOrder
<1>2. n.front \in Places /\ n.at \in Places /\ Answers(n) /\ One(n)
  BY DEF Due, Lasting
<1>3. Clear(n)
  BY <1>1, <1>2, NothingPending DEF Due
<1>4. ~n.ahead => Live(n) \subseteq {n.jar}
  BY <1>2 DEF One, Due, ToCall
<1> QED
  BY <1>1, <1>2, <1>3, <1>4 DEF Due, Ready

(* What the hook of an upload leaves. *)
Kept(m, n) ==
    /\ m.cur = n.cur /\ m.body = n.body /\ m.open = n.open /\ m.parsing = n.parsing
    /\ m.complete = n.complete /\ m.front = n.front /\ m.at = n.at /\ m.base = n.base
    /\ m.ahead = n.ahead /\ m.closing = n.closing /\ m.broken = n.broken

(* It is called for an upload whose files are closed, and answered or kept then. *)
LEMMA CallUploadsEffect ==
  ASSUME Scripted, NEW n, Due(n), n.multipart.there, ~n.multipart.called, ~n.multipart.open
  PROVE  LET m == CallUploads(n) IN
         /\ Net(m) /\ Lasting(m) /\ Waits(m) /\ Fresh(m) /\ Kept(m, n)
         /\ m.multipart = [n.multipart EXCEPT !.called = TRUE]
         /\ m.held = IF m.responded THEN 0 ELSE 1
         /\ auto => m.responded
         /\ ~m.responded => Own(m) /\ m.sinking = n.sinking
         /\ m.responded => m.sinking = (n.sinking \/ HasLine(m))
         /\ ~m.shut => /\ ~n.shut
                       /\ Len(m.answers) + (IF m.responded THEN 0 ELSE 1) = Len(n.answers) + 1
<1> DEFINE k == [n EXCEPT !.multipart = [n.multipart EXCEPT !.called = TRUE]]
           m == CallUploads(n)
<1>1. Ready(n)
  BY DueIsReady
<1>2. /\ Ready(k) /\ Like(k, n, {"multipart"})
      /\ k.multipart = [n.multipart EXCEPT !.called = TRUE] /\ Handled(m, k)
  BY <1>1, UploadsEffect
<1> HIDE DEF k, m
<1>3. /\ k.answers = n.answers /\ k.shut = n.shut /\ k.sinking = n.sinking /\ Kept(k, n)
  BY <1>2 DEF Like, Fields, Kept
<1>4. Kept(m, n) /\ m.multipart = k.multipart
  BY <1>2, <1>3 DEF Kept, Handled, Outer
<1>5. Lasting(m)
  BY <1>2, <1>4 DEF Lasting, Due, Kept, Handled
<1>6. Len(n.answers) \in Nat /\ n.base \in Nat /\ n.shut \in BOOLEAN
  BY DEF Due, Net, Typed
<1>7. Len(m.answers) \in Nat /\ Len(m.answers) >= Len(n.answers)
  BY <1>2, <1>3, <1>6 DEF Handled
<1>8. Waits(m)
  <2>1. ~n.ahead => Sending(n.at) <= n.base + Len(n.answers)
    BY DEF Due, Waits
  <2>2. Sending(n.at) \in Int
    BY Spots DEF Due, Lasting, Sending
  <2> QED
    BY <1>4, <1>6, <1>7, <2>1, <2>2 DEF Waits, Kept
<1>9. ASSUME ~m.shut
      PROVE  ~n.shut /\ Len(m.answers) + (IF m.responded THEN 0 ELSE 1) = Len(n.answers) + 1
  <2>1. ~n.shut
    BY <1>2, <1>3, <1>9 DEF Handled
  <2>2. m.responded \in BOOLEAN
    BY <1>2 DEF Handled, Net, Typed
  <2>3. CASE m.responded
    BY <1>2, <1>3, <1>6, <2>1, <2>3 DEF Handled
  <2>4. CASE ~m.responded
    BY <1>2, <1>3, <1>6, <2>1, <2>4 DEF Handled
  <2> QED
    BY <2>1, <2>2, <2>3, <2>4
<1>10. /\ Net(m) /\ Fresh(m)
       /\ m.held = IF m.responded THEN 0 ELSE 1
       /\ auto => m.responded
       /\ ~m.responded => Own(m) /\ m.sinking = n.sinking
       /\ m.responded => m.sinking = (n.sinking \/ HasLine(m))
  BY <1>2, <1>3 DEF Handled
<1> QED
  BY <1>2, <1>4, <1>5, <1>8, <1>9, <1>10 DEF m

(* Within the body of an upload. *)
Uploading(n) ==
    /\ Net(n) /\ Lasting(n) /\ n.open
    /\ n.held = IF n.responded THEN 0 ELSE 1
    /\ auto => n.responded
    /\ ~n.responded => Own(n)
    /\ n.complete = n.front.r - n.base
    /\ ~n.shut => Counted(n)
    /\ Waits(n) /\ Fresh(n) /\ ~Before(n.at, n.front)
    /\ ~n.parsing /\ n.front.j >= 4 /\ n.front.r <= MaxRequests /\ n.cur = n.front.r
    /\ script[n.cur] \in Uploads
    /\ n.multipart.there /\ n.multipart.r = n.cur /\ ~n.multipart.done
    /\ ~n.multipart.called => ToCall(n)
    /\ script[n.cur] = "form" => ~n.multipart.called

(* Within an upload, the invariant is what it says of the body. *)
LEMMA UploadingIsSteady ==
  ASSUME NEW n, Uploading(n), script[n.cur] = "form" /\ n.front.j = 5 => n.items = {n.cur}
  PROVE  Steady(n) /\ Lasting(n) /\ (auto => n.responded)
<1>1. InBody(n)
  BY DEF Uploading, InBody
<1> QED
  BY <1>1 DEF Uploading, Steady

(* The parser may note the state of a file and its close meanwhile. *)
LEMMA UploadingFollows ==
  ASSUME NEW m, NEW n, Uploading(n), Net(m), Like(m, n, {"multipart", "closing"}),
         m.multipart.there, m.multipart.r = n.cur, ~m.multipart.done,
         m.multipart.called = n.multipart.called,
         \A r \in m.closing : r \in 1..MaxRequests /\ script[r] \in {"save", "mixed"}
  PROVE  Uploading(m) /\ m.items = n.items /\ m.cur = n.cur /\ m.front = n.front
<1>1. /\ m.cur = n.cur /\ m.body = n.body /\ m.open = n.open /\ m.parsing = n.parsing
      /\ m.told = n.told /\ m.complete = n.complete
      /\ m.front = n.front /\ m.at = n.at /\ m.base = n.base /\ m.ahead = n.ahead
      /\ m.sent = n.sent /\ m.broken = n.broken
      /\ m.cookie = n.cookie /\ m.changed = n.changed /\ m.sessions = n.sessions
      /\ m.lost = n.lost /\ m.jar = n.jar
      /\ m.responded = n.responded /\ m.answers = n.answers /\ m.shut = n.shut
      /\ m.held = n.held /\ m.sinking = n.sinking
      /\ m.items = n.items /\ m.parsed = n.parsed /\ m.headersOut = n.headersOut
  BY DEF Like, Fields
<1>2. Lasting(m)
  <2>1. One(m)
    BY <1>1 DEF Uploading, Lasting, One, Live, Cookie
  <2> QED
    BY <1>1, <2>1 DEF Uploading, Lasting, Answers
<1>3. ~m.shut => Counted(m)
  <2>1. ~Saving(m) /\ ~Saving(n) /\ (Early(m) <=> Early(n))
    BY DEF Uploading, Saving, Early
  <2> QED
    BY <1>1, <2>1 DEF Uploading, Counted, Awaited
<1>4. Waits(m) /\ (~m.responded => Own(m))
  BY <1>1 DEF Uploading, Waits, Own, Whole
<1>5. Fresh(m)
  BY <1>1, PendingFollows DEF Uploading, Fresh
<1>6. ~m.multipart.called => ToCall(m)
  BY <1>1 DEF Uploading, ToCall
<1> QED
  BY <1>1, <1>2, <1>3, <1>4, <1>5, <1>6 DEF Uploading

(* An upload whose hook was not called is the next one to be answered. *)
LEMMA UploadIsDue ==
  ASSUME Scripted, NEW n, Uploading(n), ~n.multipart.called, script[n.cur] # "form"
  PROVE  Due(n)
<1>1. ToCall(n) /\ n.responded /\ n.held = 0
  BY DEF Uploading, ToCall
<1>2. n.front \in Places /\ MaxRequests \in Nat
  BY WebAssumption DEF Uploading, Lasting
<1>3. n.front.r \in Nat /\ n.front.r >= 1 /\ n.front.j \in Nat
  BY <1>2, Spots
<1>4. n.cur \in 1..MaxRequests /\ Before(Place(n.cur, 3), n.front)
  BY <1>2, <1>3 DEF Uploading, Before, Place
<1>5. Whole(n, n.items \cup n.body)
  BY <1>1 DEF Uploading, Uploads, Whole, ToCall
<1>6. ~n.shut => n.cur = n.base + Len(n.answers)
  <2>1. Awaited(n) = 0 /\ ~Early(n)
    BY <1>1 DEF Uploading, Awaited, Saving, Early
  <2>2. Len(n.answers) \in Nat /\ n.base \in Nat /\ n.complete \in Nat
    BY DEF Uploading, Net, Typed
  <2>3. ~n.shut => Len(n.answers) = n.complete
    BY <2>1, <2>2 DEF Uploading, Counted
  <2> QED
    BY <1>3, <2>2, <2>3 DEF Uploading
<1> QED
  BY <1>1, <1>4, <1>5, <1>6 DEF Uploading, Due

(* A file of a body that is still coming is closed, and the hook may be called. *)
LEMMA AutosaveCloseInBody ==
  ASSUME Scripted, NEW n, Uploading(n), script[n.cur] # "form", n.broken = {}
  PROVE  LET m == AutosaveClose(n) IN
         /\ Net(m) /\ Lasting(m) /\ Steady(m) /\ m.broken = {} /\ m.open /\ ~m.parsing
         /\ ~n.sinking /\ Sinks(n) => Sinks(m)
<1> DEFINE v == [n.multipart EXCEPT !.open = FALSE]
           k == [n EXCEPT !.multipart = v]
           m == AutosaveClose(n)
<1>1. v \in Multipart /\ Net(n)
  BY DEF Uploading, Net, Typed, Multipart
<1>2. /\ v.there = n.multipart.there /\ v.r = n.multipart.r /\ v.done = n.multipart.done
      /\ v.called = n.multipart.called /\ ~v.open
  BY <1>1 DEF Net, Typed, Multipart
<1>3. m = CallUploads(k)
  BY DEF AutosaveClose
<1> HIDE DEF v
<1>4. Net(k) /\ Like(k, n, {"multipart"}) /\ k.multipart = v
  BY <1>1, UpdMultipart
<1> HIDE DEF k, m
<1>5. Like(k, n, {"multipart", "closing"}) /\ k.closing = n.closing /\ k.sinking = n.sinking
      /\ k.broken = n.broken /\ k.responded = n.responded /\ k.parsing = n.parsing
      /\ k.at = n.at
  BY <1>4 DEF Like, Fields
<1>6. Uploading(k) /\ k.cur = n.cur /\ k.front = n.front
  <2>1. \A r \in k.closing : r \in 1..MaxRequests /\ script[r] \in {"save", "mixed"}
    BY <1>5 DEF Uploading, Lasting
  <2>2. /\ k.multipart.there /\ k.multipart.r = n.cur /\ ~k.multipart.done
        /\ k.multipart.called = n.multipart.called
    BY <1>2, <1>4 DEF Uploading
  <2> QED
    BY <1>4, <1>5, <2>1, <2>2, UploadingFollows
<1>7. CASE n.multipart.called
  <2>1. m = k
    BY <1>2, <1>3, <1>4, <1>7 DEF CallUploads
  <2>2. Steady(k) /\ Lasting(k)
    BY <1>6, UploadingIsSteady
  <2>3. Sinks(n) => Sinks(k)
    BY <1>5, <1>6 DEF Sinks, HasLine, LineEnd
  <2> QED
    BY <1>4, <1>5, <1>6, <2>1, <2>2, <2>3 DEF m, Uploading
<1>8. CASE ~n.multipart.called
  <2>1. k.multipart.there /\ ~k.multipart.called /\ ~k.multipart.open
    BY <1>2, <1>4, <1>6, <1>8 DEF Uploading
  <2>2. Due(k)
    BY <1>6, <2>1, UploadIsDue
  <2>3. /\ Net(m) /\ Lasting(m) /\ Waits(m) /\ Fresh(m) /\ Kept(m, k)
        /\ m.multipart = [k.multipart EXCEPT !.called = TRUE]
        /\ m.held = (IF m.responded THEN 0 ELSE 1)
        /\ auto => m.responded
        /\ ~m.responded => Own(m) /\ m.sinking = k.sinking
        /\ m.responded => m.sinking = (k.sinking \/ HasLine(m))
        /\ ~m.shut => /\ ~k.shut
                      /\ Len(m.answers) + (IF m.responded THEN 0 ELSE 1) = Len(k.answers) + 1
    BY <1>3, <2>1, <2>2, CallUploadsEffect
  <2>4. /\ m.multipart.there /\ m.multipart.called /\ ~m.multipart.done
        /\ m.multipart.r = m.cur
    BY <1>4, <1>6, <2>3 DEF Uploading, Kept, Net, Typed, Multipart
  <2>5. InBody(m)
    BY <1>6, <2>3, <2>4 DEF Uploading, Kept, InBody
  <2>6. ~m.shut => Counted(m)
    <3> SUFFICES ASSUME ~m.shut PROVE Counted(m)
      OBVIOUS
    <3>1. ~Saving(m) /\ Early(m)
      BY <2>4 DEF Saving, Early
    <3>2. Len(k.answers) = k.complete /\ k.complete \in Nat
      <4>1. Awaited(k) = 0 /\ ~Early(k)
        BY <1>6, <2>1 DEF Uploading, Awaited, Saving, Early, ToCall
      <4>2. Len(k.answers) \in Nat /\ k.complete \in Nat
        BY <1>4 DEF Net, Typed
      <4>3. ~k.shut
        BY <2>3
      <4>4. Counted(k)
        BY <1>6, <4>3 DEF Uploading
      <4> QED
        BY <4>1, <4>2, <4>4 DEF Counted
    <3>3. Awaited(m) = (IF m.responded THEN 0 ELSE 1)
      BY <3>1 DEF Awaited
    <3>4. m.complete = k.complete
      BY <2>3 DEF Kept
    <3> QED
      BY <2>3, <3>1, <3>2, <3>3, <3>4 DEF Counted
  <2>7. /\ m.complete = m.front.r - m.base /\ ~Before(m.at, m.front)
        /\ m.open /\ m.broken = {} /\ ~m.parsing
    BY <1>5, <1>6, <2>3 DEF Uploading, Kept
  <2>8. Steady(m)
    BY <2>3, <2>5, <2>6, <2>7 DEF Steady
  <2>9. ASSUME ~n.sinking, Sinks(n) PROVE Sinks(m)
    <3>1. ~m.parsing /\ ~k.sinking
      BY <1>5, <1>6, <2>3, <2>9 DEF Uploading, Kept
    <3> QED
      BY <2>3, <3>1 DEF Sinks
  <2> QED
    BY <2>3, <2>7, <2>8, <2>9 DEF m
<1> QED
  BY <1>1, <1>7, <1>8 DEF Net, Typed, Multipart

(* An item is one of the request's, if its hook was not called before. *)
LEMMA PartDataEffect ==
  ASSUME Scripted, NEW n, Uploading(n), n.broken = {}
  PROVE  Result(PartData(n)) /\ PartData(n).open /\ ~PartData(n).parsing
<1> DEFINE i == n.items \cup {n.cur}
           k == [n EXCEPT !.items = i]
           m == PartData(n)
<1>1. i \in SUBSET Nat /\ Net(n)
  BY DEF Uploading, Net, Typed
<1> HIDE DEF i
<1>2. Net(k) /\ Like(k, n, {"items"}) /\ k.items = i
  BY <1>1, UpdItems
<1>3. m = Broken(k, "too late", n.multipart.called)
  BY DEF PartData, i
<1> HIDE DEF k, m
<1>4. /\ k.cur = n.cur /\ k.body = n.body /\ k.open = n.open /\ k.parsing = n.parsing
      /\ k.told = n.told /\ k.complete = n.complete
      /\ k.front = n.front /\ k.at = n.at /\ k.base = n.base /\ k.ahead = n.ahead
      /\ k.sent = n.sent /\ k.broken = n.broken /\ k.closing = n.closing
      /\ k.cookie = n.cookie /\ k.changed = n.changed /\ k.sessions = n.sessions
      /\ k.lost = n.lost /\ k.jar = n.jar /\ k.multipart = n.multipart
      /\ k.responded = n.responded /\ k.answers = n.answers /\ k.shut = n.shut
      /\ k.held = n.held /\ k.parsed = n.parsed
  BY <1>2 DEF Like, Fields
<1>5. "too late" \in Ways \ Bad /\ n.multipart.called \in BOOLEAN /\ k.broken \cap Bad = {}
  BY <1>1, <1>4 DEF Ways, Bad, Net, Typed, Multipart
<1>6. /\ Net(m) /\ Like(m, k, {"broken"}) /\ m.broken \cap Bad = {}
      /\ n.multipart.called => m.broken # {}
      /\ ~n.multipart.called => m = k
  BY <1>2, <1>3, <1>5, BrokenEffect
<1>7. m.responded = k.responded /\ m.open = k.open /\ m.parsing = k.parsing
  BY <1>6 DEF Like, Fields
<1>8. (auto => m.responded) /\ m.open /\ ~m.parsing
  BY <1>4, <1>7 DEF Uploading
<1>9. CASE n.multipart.called
  BY <1>6, <1>8, <1>9 DEF Result, Survives, m
<1>10. CASE ~n.multipart.called
  <2>1. ToCall(n) /\ n.responded
    BY <1>10 DEF Uploading, ToCall
  <2>2. k.items = {k.cur}
    BY <1>2, <1>4, <2>1 DEF ToCall, i
  <2>3. ToCall(k)
    BY <1>4, <2>1, <2>2 DEF ToCall
  <2>4. Lasting(k)
    <3>1. One(k)
      BY <1>4 DEF Uploading, Lasting, One, Live, Cookie
    <3> QED
      BY <1>4, <3>1 DEF Uploading, Lasting, Answers
  <2>5. ~k.shut => Counted(k)
    BY <1>4 DEF Uploading, Counted, Awaited, Saving, Early
  <2>6. Waits(k)
    BY <1>4 DEF Uploading, Waits
  <2>7. Fresh(k)
    BY <1>4, PendingFollows DEF Uploading, Fresh
  <2>8. Uploading(k)
    BY <1>2, <1>4, <2>1, <2>3, <2>4, <2>5, <2>6, <2>7 DEF Uploading
  <2>9. Steady(k) /\ Lasting(k)
    BY <2>2, <2>8, UploadingIsSteady
  <2> QED
    BY <1>6, <1>8, <1>10, <2>9 DEF Result, Survives, m
<1> QED
  BY <1>5, <1>9, <1>10

(* A file that the application saves is closed at once, or its close goes on. *)
LEMMA PartEndEffect ==
  ASSUME Scripted, NEW n, Uploading(n), n.broken = {}, script[n.cur] # "form"
  PROVE  Result(PartEnd(n)) /\ PartEnd(n).open /\ ~PartEnd(n).parsing
<1> DEFINE m == PartEnd(n)
<1>1. CASE script[n.cur] = "chunks"
  <2>1. m = n
    BY <1>1 DEF PartEnd
  <2> QED
    BY <2>1, UploadingIsSteady DEF Uploading, Result, Survives
<1>2. CASE script[n.cur] # "chunks" /\ slow
  <2> DEFINE v == [n.multipart EXCEPT !.open = TRUE]
             c == n.closing \cup {n.cur}
             k == [n EXCEPT !.multipart = v, !.closing = c]
  <2>1. v \in Multipart /\ c \in SUBSET Nat /\ Net(n)
    BY DEF Uploading, Net, Typed, Multipart
  <2>2. /\ v.there = n.multipart.there /\ v.r = n.multipart.r /\ v.done = n.multipart.done
        /\ v.called = n.multipart.called
    BY <2>1 DEF Net, Typed, Multipart
  <2>3. m = k
    BY <1>2 DEF PartEnd
  <2> HIDE DEF v, c, m
  <2>4. DOMAIN n = Fields
    BY <2>1, Domain DEF Net
  <2>5. Rec(k) /\ k.multipart = v /\ k.closing = c
    BY <2>4 DEF Rec, Fields
  <2>6. \A g \in Fields \ {"multipart", "closing"} : k[g] = n[g]
    BY <2>4
  <2> HIDE DEF k
  <2>7. Typed(k)
    BY <2>1, <2>5, <2>6 DEF Net, Typed, Fields
  <2>8. Net(k) /\ Like(k, n, {"multipart", "closing"})
    BY <2>5, <2>6, <2>7 DEF Net, Like
  <2>9. n.cur \in 1..MaxRequests /\ script[n.cur] \in {"save", "mixed"}
    <3>1. n.front.r \in 1..(MaxRequests + 1) /\ MaxRequests \in Nat
      BY Spots, WebAssumption DEF Uploading, Lasting
    <3> QED
      BY <1>2, <3>1 DEF Uploading, Uploads
  <2>10. \A r \in k.closing : r \in 1..MaxRequests /\ script[r] \in {"save", "mixed"}
    BY <2>5, <2>9 DEF Uploading, Lasting, c
  <2>11. Uploading(k) /\ k.cur = n.cur
    BY <2>2, <2>5, <2>8, <2>10, UploadingFollows DEF Uploading
  <2>12. k.broken = {}
    BY <2>6 DEF Fields
  <2>13. Result(k) /\ k.open /\ ~k.parsing
    BY <2>11, <2>12, UploadingIsSteady DEF Uploading, Result, Survives
  <2> QED
    BY <2>3, <2>13 DEF m
<1>3. CASE script[n.cur] # "chunks" /\ ~slow
  <2>1. m = AutosaveClose(n)
    BY <1>3 DEF PartEnd
  <2>2. Net(m) /\ Lasting(m) /\ Steady(m) /\ m.broken = {} /\ m.open /\ ~m.parsing
    BY <2>1, AutosaveCloseInBody
  <2> QED
    BY <2>2 DEF Result, Survives, Steady
<1> QED
  BY <1>1, <1>2, <1>3

(* Of an upload that is to be counted as complete. *)
Tally(n) ==
    /\ n.multipart.called => Len(n.answers) + (IF n.responded THEN 0 ELSE 1) = n.complete + 1
    /\ ~n.multipart.called => Len(n.answers) = n.complete

(* The body of an upload has ended: its hook was called, or waits for a file. *)
Uploaded(n) ==
    /\ Net(n) /\ Lasting(n) /\ n.open /\ n.broken = {}
    /\ n.held = IF n.responded THEN 0 ELSE 1
    /\ auto => n.responded
    /\ ~n.responded => Own(n)
    /\ Waits(n) /\ Fresh(n) /\ ~Before(n.at, n.front)
    /\ n.cur \in 1..MaxRequests /\ n.front = Place(n.cur + 1, 1)
    /\ n.complete + 1 = n.front.r - n.base
    /\ script[n.cur] \in Uploads
    /\ n.multipart.there /\ n.multipart.r = n.cur /\ n.multipart.done
    /\ ~n.multipart.called => ToCall(n)
    /\ ~n.shut => Tally(n)

(* on_message_complete of an upload: its hook has been called, or a file is closing. *)
LEMMA UploadCompleteEffect ==
  ASSUME Scripted, NEW n, Uploaded(n)
  PROVE  Result(MessageComplete(n))
<1> DEFINE v == n.complete + 1
           k == [n EXCEPT !.complete = v]
           p == TRUE
           m == [k EXCEPT !.parsing = p]
<1>0. Net(n)
  BY DEF Uploaded
<1>1. Net(n) /\ v \in Nat /\ p \in BOOLEAN
  BY <1>0 DEF Net, Typed
<1>2. k = [n EXCEPT !.complete = v] /\ m = [k EXCEPT !.parsing = p]
  OBVIOUS
<1>3. MessageComplete(n) = [Answered(k) EXCEPT !.parsing = p]
  BY DEF MessageComplete
<1> HIDE DEF v, k, p, m
<1>4. Net(k) /\ Like(k, n, {"complete"}) /\ k.complete = v
  BY <1>1, <1>2, UpdComplete
<1>5. k.multipart = n.multipart /\ k.cur = n.cur
  BY <1>4 DEF Like, Fields
<1>6. Answered(k) = k
  BY <1>5 DEF Answered, Broken, Uploaded
<1>7. Net(m) /\ Like(m, k, {"parsing"}) /\ m.parsing = p
  BY <1>1, <1>2, <1>4, UpdParsing
<1>8. m.complete = v
  BY <1>4, <1>7 DEF Like, Fields
<1>9. \A g \in Fields \ {"parsing", "complete"} : m[g] = n[g]
  BY <1>4, <1>7 DEF Like
<1>10. /\ m.cur = n.cur /\ m.body = n.body /\ m.open = n.open
       /\ m.front = n.front /\ m.at = n.at /\ m.base = n.base /\ m.ahead = n.ahead
       /\ m.sent = n.sent /\ m.broken = n.broken /\ m.closing = n.closing
       /\ m.cookie = n.cookie /\ m.changed = n.changed /\ m.sessions = n.sessions
       /\ m.lost = n.lost /\ m.jar = n.jar /\ m.multipart = n.multipart
       /\ m.responded = n.responded /\ m.answers = n.answers /\ m.shut = n.shut
       /\ m.held = n.held /\ m.parsed = n.parsed /\ m.items = n.items
       /\ m.headersOut = n.headersOut
  BY <1>9 DEF Fields
<1>11. Lasting(m)
  <2>1. One(m)
    BY <1>10 DEF Uploaded, Lasting, One, Live, Cookie
  <2> QED
    BY <1>10, <2>1 DEF Uploaded, Lasting, Answers
<1>12. Waits(m) /\ (~m.responded => Own(m))
  BY <1>10 DEF Uploaded, Waits, Own, Whole
<1>13. Fresh(m)
  BY <1>10, PendingFollows DEF Uploaded, Fresh
<1>14. ~Early(m) /\ (Saving(m) <=> ~n.multipart.called)
  BY <1>10 DEF Uploaded, Saving, Early
<1>15. ~m.shut => Counted(m)
  <2> SUFFICES ASSUME ~m.shut PROVE Counted(m)
    OBVIOUS
  <2>1. v + (IF Early(m) THEN 1 ELSE 0) = v
    BY <1>1, <1>14
  <2>2. Len(m.answers) + Awaited(m) = v
    <3>1. CASE n.multipart.called
      <4>1. Awaited(m) = IF n.responded THEN 0 ELSE 1
        BY <1>10, <1>14, <3>1 DEF Awaited
      <4> QED
        BY <1>10, <3>1, <4>1 DEF Uploaded, Tally, v
    <3>2. CASE ~n.multipart.called
      <4>1. Awaited(m) = 1
        BY <1>10, <1>14, <3>2 DEF Awaited, Uploaded, ToCall
      <4> QED
        BY <1>10, <3>2, <4>1 DEF Uploaded, Tally, v
    <3> QED
      BY <3>1, <3>2
  <2> QED
    BY <1>8, <2>1, <2>2 DEF Counted
<1>16. Between(m)
  <2>1. n.base \in Nat /\ n.complete \in Nat /\ n.cur \in Nat
    BY <1>1 DEF Net, Typed
  <2>2. m.front.j = 1 /\ m.front.r = n.cur + 1 /\ m.cur = m.front.r - 1
    BY <1>10, <2>1 DEF Uploaded, Place
  <2>3. m.cur >= m.base
    BY <1>10, <2>1, <2>2 DEF Uploaded
  <2>4. Saving(m) => ToCall(m)
    BY <1>10, <1>14 DEF Uploaded, ToCall
  <2>5. m.multipart.there /\ m.multipart.done /\ m.cur = m.multipart.r
    BY <1>10 DEF Uploaded
  <2> QED
    BY <1>7, <2>2, <2>3, <2>4, <2>5 DEF Between, p
<1>17. m.complete = m.front.r - m.base /\ ~Before(m.at, m.front)
  BY <1>8, <1>10 DEF Uploaded, v
<1>18. Steady(m)
  BY <1>10, <1>12, <1>13, <1>15, <1>16, <1>17 DEF Uploaded, Steady
<1>19. MessageComplete(n) = m
  BY <1>3, <1>6 DEF m
<1> QED
  BY <1>7, <1>10, <1>11, <1>18, <1>19 DEF Uploaded, Result, Survives

(* The same, before the hook of an upload may be called. *)
Ending(n) ==
    /\ Net(n) /\ Lasting(n) /\ n.open /\ n.broken = {}
    /\ n.held = IF n.responded THEN 0 ELSE 1
    /\ auto => n.responded
    /\ ~n.responded => Own(n)
    /\ Waits(n) /\ Fresh(n) /\ ~Before(n.at, n.front)
    /\ n.cur \in 1..MaxRequests /\ n.front = Place(n.cur + 1, 1)
    /\ n.complete + 1 = n.front.r - n.base
    /\ script[n.cur] \in Uploads
    /\ n.multipart.there /\ n.multipart.r = n.cur
    /\ ~n.multipart.called => ToCall(n)
    /\ script[n.cur] = "form" => n.items = {n.cur}
    /\ ~n.shut => Tally(n)

(* on_body_end: the hook is called, if no file is closing. *)
LEMMA BodyEndEffect ==
  ASSUME Scripted, NEW n, Ending(n)
  PROVE  Uploaded(BodyEnd(n))
<1> DEFINE v == [n.multipart EXCEPT !.done = TRUE]
           k == [n EXCEPT !.multipart = v]
           m == BodyEnd(n)
<1>1. v \in Multipart /\ Net(n)
  BY DEF Ending, Net, Typed, Multipart
<1>2. /\ v.there = n.multipart.there /\ v.r = n.multipart.r /\ v.done
      /\ v.called = n.multipart.called /\ v.open = n.multipart.open
  BY <1>1 DEF Net, Typed, Multipart
<1>3. m = CallUploads(k)
  BY DEF BodyEnd
<1> HIDE DEF v
<1>4. Net(k) /\ Like(k, n, {"multipart"}) /\ k.multipart = v
  BY <1>1, UpdMultipart
<1> HIDE DEF k, m
<1>5. /\ k.cur = n.cur /\ k.body = n.body /\ k.open = n.open
      /\ k.front = n.front /\ k.at = n.at /\ k.base = n.base /\ k.ahead = n.ahead
      /\ k.sent = n.sent /\ k.broken = n.broken /\ k.closing = n.closing
      /\ k.cookie = n.cookie /\ k.changed = n.changed /\ k.sessions = n.sessions
      /\ k.lost = n.lost /\ k.jar = n.jar /\ k.complete = n.complete
      /\ k.responded = n.responded /\ k.answers = n.answers /\ k.shut = n.shut
      /\ k.held = n.held /\ k.parsed = n.parsed /\ k.items = n.items
      /\ k.headersOut = n.headersOut
  BY <1>4 DEF Like, Fields
<1>6. Lasting(k)
  <2>1. One(k)
    BY <1>5 DEF Ending, Lasting, One, Live, Cookie
  <2> QED
    BY <1>5, <2>1 DEF Ending, Lasting, Answers
<1>7. Waits(k) /\ (~k.responded => Own(k))
  BY <1>5 DEF Ending, Waits, Own, Whole
<1>8. Fresh(k)
  BY <1>5, PendingFollows DEF Ending, Fresh
<1>9. ~k.multipart.called => ToCall(k)
  BY <1>2, <1>4, <1>5 DEF Ending, ToCall
<1>10. Len(n.answers) \in Nat /\ n.complete \in Nat /\ n.base \in Nat /\ n.cur \in Nat
  BY <1>1 DEF Net, Typed
<1>11. CASE n.multipart.called \/ n.multipart.open
  <2>1. m = k
    BY <1>2, <1>3, <1>4, <1>11 DEF CallUploads
  <2>3. /\ k.multipart.there /\ k.multipart.r = k.cur /\ k.multipart.done
        /\ k.multipart.called = n.multipart.called
    BY <1>2, <1>4, <1>5 DEF Ending
  <2>2. ~k.shut => Tally(k)
    BY <1>5, <2>3 DEF Ending, Tally
  <2>4. Uploaded(k)
    BY <1>4, <1>5, <1>6, <1>7, <1>8, <1>9, <2>2, <2>3 DEF Ending, Uploaded
  <2> QED
    BY <2>1, <2>4 DEF m
<1>12. CASE ~n.multipart.called /\ ~n.multipart.open
  <2>1. k.multipart.there /\ ~k.multipart.called /\ ~k.multipart.open /\ k.multipart.done
        /\ k.multipart.r = k.cur
    BY <1>2, <1>4, <1>5, <1>12 DEF Ending
  <2>2. Due(k)
    <3>1. ToCall(k) /\ k.responded /\ k.held = 0
      BY <1>5, <1>9, <2>1 DEF Ending, ToCall
    <3>2. Whole(k, k.items \cup k.body)
      BY <1>5, <3>1 DEF Whole, ToCall, Ending, Uploads
    <3>3. k.front.r = k.cur + 1 /\ Before(Place(k.cur, 3), k.front)
      BY <1>5, <1>10 DEF Ending, Before, Place
    <3>4. ~k.shut => k.cur = k.base + Len(k.answers)
      <4> SUFFICES ASSUME ~k.shut PROVE k.cur = k.base + Len(k.answers)
        OBVIOUS
      <4>1. Len(n.answers) = n.complete
        BY <1>5, <1>12 DEF Ending, Tally
      <4>2. n.complete + 1 = (n.cur + 1) - n.base
        BY <1>5, <3>3 DEF Ending
      <4> QED
        BY <1>5, <1>10, <4>1, <4>2
    <3> QED
      BY <1>4, <1>5, <1>6, <1>7, <1>8, <3>1, <3>2, <3>3, <3>4 DEF Due, Ending
  <2>3. /\ Net(m) /\ Lasting(m) /\ Waits(m) /\ Fresh(m) /\ Kept(m, k)
        /\ m.multipart = [k.multipart EXCEPT !.called = TRUE]
        /\ m.held = (IF m.responded THEN 0 ELSE 1)
        /\ auto => m.responded
        /\ ~m.responded => Own(m) /\ m.sinking = k.sinking
        /\ m.responded => m.sinking = (k.sinking \/ HasLine(m))
        /\ ~m.shut => /\ ~k.shut
                      /\ Len(m.answers) + (IF m.responded THEN 0 ELSE 1) = Len(k.answers) + 1
    BY <1>3, <2>1, <2>2, CallUploadsEffect
  <2>4. /\ m.multipart.there /\ m.multipart.called /\ m.multipart.done
        /\ m.multipart.r = k.cur
    BY <1>4, <2>1, <2>3 DEF Net, Typed, Multipart
  <2>5. ~m.shut => Tally(m)
    <3> SUFFICES ASSUME ~m.shut PROVE Tally(m)
      OBVIOUS
    <3>1. ~n.shut /\ Len(m.answers) + (IF m.responded THEN 0 ELSE 1) = Len(n.answers) + 1
      BY <1>5, <2>3
    <3>2. Len(n.answers) = n.complete
      BY <1>12, <3>1 DEF Ending, Tally
    <3>3. m.complete = n.complete
      BY <1>5, <2>3 DEF Kept
    <3> QED
      BY <2>4, <3>1, <3>2, <3>3 DEF Tally
  <2>6. Uploaded(m)
    BY <1>5, <2>3, <2>4, <2>5 DEF Ending, Uploaded, Kept
  <2> QED
    BY <2>6 DEF m
<1> QED
  BY <1>11, <1>12

(* The tokens of a body. *)
LEMMA BodyTokens ==
  ASSUME Scripted, NEW t, t \in Places, t.r \in 1..MaxRequests, t.j >= 4
  PROVE  /\ script[t.r] \in Uploads \cup {"post"}
         /\ script[t.r] = "post" => Is(t) = "body" /\ Last(t)
         /\ script[t.r] \in Uploads => Is(t) \in {"item", "file", "over", "end"}
         /\ script[t.r] \in Uploads => (Is(t) = "end" <=> Last(t))
         /\ Is(t) \in {"file", "over"} => script[t.r] # "form"
         /\ script[t.r] = "form" /\ Last(t) => t.j = 5
<1>1. t.j \in 4..7 /\ t.j <= Length(t.r) /\ script[t.r] \in Kinds
  BY Spots, Lengths
<1>2. Is(t) = Body(script[t.r])[t.j - 3]
  BY <1>1 DEF Is
<1>3. Length(t.r) = CASE script[t.r] = "post" -> 4 [] script[t.r] = "form" -> 5
                      [] script[t.r] = "chunks" -> 7 [] script[t.r] = "save" -> 6
                      [] script[t.r] = "mixed" -> 7 [] OTHER -> 3
  BY Lengths
<1>4. CASE script[t.r] = "post"
  <2>1. t.j = 4 /\ Length(t.r) = 4
    BY <1>1, <1>3, <1>4
  <2>2. Body("post") = <<"body">>
    BY DEF Body
  <2> QED
    BY <1>2, <1>4, <2>1, <2>2 DEF Last, Uploads
<1>5. CASE script[t.r] = "form"
  <2>1. t.j \in {4, 5} /\ Length(t.r) = 5
    BY <1>1, <1>3, <1>5
  <2>2. Body("form") = <<"item", "end">>
    BY DEF Body
  <2> QED
    BY <1>2, <1>5, <2>1, <2>2 DEF Last, Uploads
<1>6. CASE script[t.r] = "save"
  <2>1. t.j \in {4, 5, 6} /\ Length(t.r) = 6
    BY <1>1, <1>3, <1>6
  <2>2. Body("save") = <<"file", "over", "end">>
    BY DEF Body
  <2> QED
    BY <1>2, <1>6, <2>1, <2>2 DEF Last, Uploads
<1>7. CASE script[t.r] \in {"chunks", "mixed"}
  <2>1. t.j \in {4, 5, 6, 7} /\ Length(t.r) = 7
    BY <1>1, <1>3, <1>7
  <2>2. Body(script[t.r]) = <<"file", "over", "item", "end">>
    BY <1>7 DEF Body
  <2> QED
    BY <1>2, <1>7, <2>1, <2>2 DEF Last, Uploads
<1> QED
  BY <1>1, <1>3, <1>4, <1>5, <1>6, <1>7 DEF Kinds, Uploads

(* A byte of a body is parsed. *)
LEMMA ByteEffect ==
  ASSUME Scripted, NEW n, Net(n), n.broken = {}, Good(n), n.open, n.sinking, ~n.parsing
  PROVE  LET t == n.front
             m == Parse([n EXCEPT !.front = After(t)], t)
         IN  Result(m) /\ (~Last(t) => ~m.parsing)
<1> DEFINE t == n.front
           f == After(t)
           k == [n EXCEPT !.front = f]
           r == n.cur
<1>1. Lasting(n) /\ Steady(n) /\ HasLine(n) /\ InBody(n)
  BY DEF Good, Sinks, Steady, Between, Heading
<1>2. t.r = r /\ t.j >= 4 /\ t \in Places /\ n.at \in Places /\ r \in Nat
  BY <1>1 DEF InBody, Lasting, Net, Typed
<1>3. r \in 1..MaxRequests /\ LineEnd(n) = t /\ f \in Places /\ ~Before(n.at, f)
  <2>1. LineEnd(n) = t
    BY <1>2 DEF LineEnd
  <2> QED
    BY <1>1, <1>2, <2>1, LinePlace
<1>4. /\ Last(t) => f = Place(r + 1, 1)
      /\ ~Last(t) => f = Place(r, t.j + 1)
      /\ t.j \in Nat
  BY <1>2, Spots DEF After
<1>5. f \in Spot
  BY <1>3, Spots
<1>6. /\ script[r] \in Uploads \cup {"post"}
      /\ script[r] = "post" => Is(t) = "body" /\ Last(t)
      /\ script[r] \in Uploads => Is(t) \in {"item", "file", "over", "end"}
      /\ script[r] \in Uploads => (Is(t) = "end" <=> Last(t))
      /\ Is(t) \in {"file", "over"} => script[r] # "form"
      /\ script[r] = "form" /\ Last(t) => t.j = 5
  <2>1. t.r \in 1..MaxRequests
    BY <1>2, <1>3
  <2> HIDE DEF t
  <2> QED
    BY <1>2, <2>1, BodyTokens
<1>7. Is(t) \notin {"first", "headers"}
  BY <1>6 DEF Uploads
<1> HIDE DEF t, f
<1>8. Net(k) /\ Like(k, n, {"front"}) /\ k.front = f
  BY <1>5, UpdFront
<1> HIDE DEF k
<1>9. /\ k.cur = n.cur /\ k.body = n.body /\ k.open = n.open /\ k.parsing = n.parsing
      /\ k.told = n.told /\ k.complete = n.complete
      /\ k.at = n.at /\ k.base = n.base /\ k.ahead = n.ahead
      /\ k.sent = n.sent /\ k.broken = n.broken /\ k.closing = n.closing
      /\ k.cookie = n.cookie /\ k.changed = n.changed /\ k.sessions = n.sessions
      /\ k.lost = n.lost /\ k.jar = n.jar /\ k.multipart = n.multipart
      /\ k.responded = n.responded /\ k.answers = n.answers /\ k.shut = n.shut
      /\ k.held = n.held /\ k.parsed = n.parsed /\ k.items = n.items
      /\ k.headersOut = n.headersOut /\ k.sinking = n.sinking
  BY <1>8 DEF Like, Fields
<1>10. Parse(k, t) = Ended(OnBody(k, t), t)
  BY <1>7 DEF Parse, Reported
<1>11. Lasting(k)
  <2>1. One(k)
    BY <1>1, <1>9 DEF Lasting, One, Live, Cookie
  <2> QED
    BY <1>1, <1>3, <1>8, <1>9, <2>1 DEF Lasting, Answers
<1>12. Waits(k) /\ (~k.responded => Own(k)) /\ ~Before(k.at, k.front)
  BY <1>1, <1>3, <1>8, <1>9 DEF Steady, Waits, Own, Whole
<1>13. Fresh(k)
  <2>1. ASSUME NEW x \in 1..MaxRequests, Pending(k, x) PROVE Pending(n, x)
    <3>1. x \in Nat /\ f.r \in Nat /\ f.j \in Nat /\ f.r >= r /\ (f.r = r => f.j > 3)
      BY <1>2, <1>4 DEF Place
    <3>2. n.front.r = r /\ n.front.j \in Nat /\ r \in Nat
      BY <1>2, <1>4 DEF t
    <3> QED
      BY <1>8, <1>9, <2>1, <3>1, <3>2 DEF Pending, Before, Place
  <2> QED
    BY <1>1, <1>9, <2>1 DEF Steady, Fresh
<1>14. ~Saving(n) /\ n.base \in Nat /\ n.complete \in Nat /\ Len(n.answers) \in Nat
  BY <1>1 DEF InBody, Saving, Net, Typed
<1>15. n.complete = r - n.base
  BY <1>1, <1>2 DEF Steady, t
<1>16. /\ k.held = IF k.responded THEN 0 ELSE 1
       /\ auto => k.responded
  BY <1>1, <1>9 DEF Steady
<1>17. k.open /\ k.broken = {} /\ k.sinking /\ ~k.parsing /\ k.cur = r
  BY <1>9
<1>18. CASE script[r] = "post"
  <2> DEFINE b == n.body \cup {r}
             h == IF n.multipart.there THEN k ELSE [k EXCEPT !.body = b]
  <2>1. /\ ToCall(n) /\ (n.multipart.there => n.multipart.done /\ n.multipart.called)
        /\ n.multipart.there \in BOOLEAN
    BY <1>1, <1>18 DEF InBody, Uploads, Net, Typed, Multipart
  <2>2. OnBody(k, t) = h
    BY <1>2, <1>6, <1>9, <1>18 DEF OnBody
  <2>3. Net(h) /\ Like(h, k, {"body"}) /\ h.body = (IF n.multipart.there THEN n.body ELSE b)
    <3>1. CASE n.multipart.there
      BY <1>8, <1>9, <3>1 DEF Like, Net
    <3>2. CASE ~n.multipart.there
      <4>1. b \in SUBSET Nat /\ h = [k EXCEPT !.body = b]
        BY <1>2, <3>2 DEF Net, Typed
      <4> HIDE DEF b, h
      <4>2. Net(h) /\ Like(h, k, {"body"}) /\ h.body = b
        BY <1>8, <4>1, UpdBody
      <4> QED
        BY <3>2, <4>2
    <3> QED
      BY <2>1, <3>1, <3>2
  <2> HIDE DEF h
  <2>4. /\ h.cur = k.cur /\ h.open = k.open /\ h.parsing = k.parsing
        /\ h.complete = k.complete /\ h.front = k.front
        /\ h.at = k.at /\ h.base = k.base /\ h.ahead = k.ahead
        /\ h.sent = k.sent /\ h.broken = k.broken /\ h.closing = k.closing
        /\ h.cookie = k.cookie /\ h.changed = k.changed /\ h.sessions = k.sessions
        /\ h.lost = k.lost /\ h.jar = k.jar /\ h.multipart = k.multipart
        /\ h.responded = k.responded /\ h.answers = k.answers /\ h.shut = k.shut
        /\ h.held = k.held /\ h.parsed = k.parsed /\ h.items = k.items
        /\ h.sinking = k.sinking
    BY <2>3 DEF Like, Fields
  <2>5. ToCall(h)
    BY <1>9, <2>1, <2>3, <2>4 DEF ToCall
  <2>6. ~h.multipart.there => Whole(h, h.items \cup h.body)
    BY <1>9, <1>18, <2>1, <2>3, <2>4 DEF Whole, ToCall
  <2>7. Lasting(h)
    <3>1. One(h)
      BY <1>11, <2>4 DEF Lasting, One, Live, Cookie
    <3> QED
      BY <1>11, <2>4, <3>1 DEF Lasting, Answers
  <2>8. Waits(h) /\ ~Before(h.at, h.front)
    BY <1>12, <2>4 DEF Waits
  <2>9. Fresh(h)
    BY <1>13, <2>4, PendingFollows DEF Fresh
  <2>10. Last(t) /\ h.front = Place(h.cur + 1, 1) /\ h.held = 0
    BY <1>4, <1>6, <1>8, <1>9, <1>16, <1>18, <2>1, <2>4 DEF ToCall
  <2>11. h.complete + 1 = h.front.r - h.base
    BY <1>2, <1>9, <1>14, <1>15, <2>4, <2>10 DEF Place
  <2>12. ~h.shut => Len(h.answers) = h.complete
    <3>1. ~Early(n) /\ Awaited(n) = 0
      BY <1>14, <2>1 DEF Early, Awaited, ToCall
    <3> QED
      BY <1>1, <1>9, <1>14, <2>4, <3>1 DEF Steady, Counted
  <2>13. Over(h)
    BY <1>3, <1>17, <2>3, <2>4, <2>7, <2>8, <2>9, <2>10, <2>11, <2>12 DEF Over
  <2>14. Result(MessageComplete(h))
    BY <1>9, <1>18, <2>4, <2>5, <2>6, <2>13, MessageCompleteEffect DEF Uploads
  <2>15. Parse(k, t) = MessageComplete(h)
    BY <1>10, <1>17, <2>2, <2>4, <2>10 DEF Ended
  <2> QED
    BY <2>10, <2>14, <2>15 DEF k, f, t
<1>19. CASE script[r] \in Uploads
  <2>1. /\ n.multipart.there /\ n.multipart.r = r /\ ~n.multipart.done
        /\ ~n.multipart.called => ToCall(n)
        /\ script[r] = "form" =>
               ~n.multipart.called /\ (t.j = 5 => n.items = {r})
    BY <1>1, <1>19 DEF InBody, t
  <2>2. ~k.multipart.called => ToCall(k)
    BY <1>9, <2>1 DEF ToCall
  <2>3. OnBody(k, t) = MultipartToken(k, t)
    BY <1>6, <1>9, <1>19, <2>1 DEF OnBody
  <2>4. CASE ~Last(t)
    <3>1. f.r = r /\ f.j >= 4 /\ f = Place(r, t.j + 1) /\ r <= MaxRequests
      BY <1>2, <1>3, <1>4, <2>4 DEF Place
    <3>2. ~k.shut => Counted(k)
      BY <1>1, <1>9 DEF Steady, Counted, Awaited, Saving, Early
    <3>3. k.complete = k.front.r - k.base
      BY <1>8, <1>9, <1>15, <3>1
    <3>4. Uploading(k)
      BY <1>8, <1>9, <1>11, <1>12, <1>13, <1>16, <1>17, <1>19, <2>1, <2>2, <3>1, <3>2, <3>3
         DEF Uploading
    <3>5. Is(t) \in {"item", "file", "over"}
      BY <1>6, <1>19, <2>4
    <3> DEFINE m == MultipartToken(k, t)
    <3>6. Result(m) /\ ~m.parsing
      <4>1. CASE Is(t) = "item"
        <5>1. m = PartData(k)
          BY <4>1 DEF MultipartToken
        <5> QED
          BY <1>17, <3>4, <5>1, PartDataEffect
      <4>2. CASE Is(t) = "over"
        <5>1. m = PartEnd(k) /\ script[k.cur] # "form"
          BY <1>6, <1>9, <4>2 DEF MultipartToken
        <5> QED
          BY <1>17, <3>4, <5>1, PartEndEffect
      <4>3. CASE Is(t) = "file"
        <5>1. m = k /\ script[k.cur] # "form"
          BY <1>6, <1>9, <4>3 DEF MultipartToken
        <5>2. Steady(k)
          BY <3>4, <5>1, UploadingIsSteady
        <5> QED
          BY <1>8, <1>11, <1>16, <1>17, <5>1, <5>2 DEF Result, Survives
      <4> QED
        BY <3>5, <4>1, <4>2, <4>3
    <3>7. Parse(k, t) = m
      BY <1>10, <2>3, <2>4 DEF Ended
    <3> QED
      BY <3>6, <3>7 DEF k, f, t
  <2>5. CASE Last(t)
    <3>1. f = Place(r + 1, 1) /\ f.r = r + 1 /\ Is(t) = "end"
      BY <1>4, <1>6, <1>19, <2>5 DEF Place
    <3>2. ~k.shut => Len(k.answers) + (IF k.responded THEN 0 ELSE 1)
                       = k.complete + (IF k.multipart.called THEN 1 ELSE 0)
      <4>1. Awaited(n) = (IF n.responded THEN 0 ELSE 1) /\ (Early(n) <=> n.multipart.called)
        BY <1>14, <2>1 DEF Awaited, Early
      <4> QED
        BY <1>1, <1>9, <4>1 DEF Steady, Counted
    <3>3. ~k.shut => Tally(k)
      <4> SUFFICES ASSUME ~k.shut PROVE Tally(k)
        OBVIOUS
      <4>1. CASE k.multipart.called
        BY <3>2, <4>1 DEF Tally
      <4>2. CASE ~k.multipart.called
        <5>1. k.responded
          BY <2>2, <4>2 DEF ToCall
        <5>2. Len(k.answers) \in Nat /\ k.complete \in Nat
          BY <1>8 DEF Net, Typed
        <5> QED
          BY <3>2, <4>2, <5>1, <5>2 DEF Tally
      <4> QED
        BY <4>1, <4>2
    <3>4. k.complete + 1 = k.front.r - k.base
      BY <1>2, <1>8, <1>9, <1>14, <1>15, <3>1
    <3>5. script[k.cur] = "form" => k.items = {k.cur}
      BY <1>6, <1>9, <2>1, <2>5
    <3>6. Ending(k)
      BY <1>3, <1>8, <1>9, <1>11, <1>12, <1>13, <1>16, <1>17, <1>19, <2>1, <2>2, <3>1, <3>3,
         <3>4, <3>5 DEF Ending
    <3> DEFINE e == BodyEnd(k)
    <3>7. Uploaded(e)
      BY <3>6, BodyEndEffect
    <3>8. OnBody(k, t) = e
      BY <2>3, <3>1 DEF MultipartToken
    <3>9. e.open
      BY <3>7 DEF Uploaded
    <3> HIDE DEF e
    <3>10. Parse(k, t) = MessageComplete(e)
      BY <1>10, <2>5, <3>8, <3>9 DEF Ended
    <3>11. Result(MessageComplete(e))
      BY <3>7, UploadCompleteEffect
    <3> QED
      BY <2>5, <3>10, <3>11 DEF k, f, t
  <2> QED
    BY <2>4, <2>5
<1> QED
  BY <1>6, <1>18, <1>19

---------------------------------------------------------------------------
(* Where the sink ends, or goes on. *)
LEMMA RestEffect ==
  ASSUME NEW n, Net(n), auto => n.responded
  PROVE  Net(Rest(n)) /\ Like(Rest(n), n, Inner)
<1> DEFINE v == FALSE
           k == [n EXCEPT !.nested = v]
<1>1. CASE n.sinking \/ ~n.nested
  <2>1. Rest(n) = n
    BY <1>1 DEF Rest
  <2> QED
    BY <2>1 DEF Like, Net
<1>2. CASE ~(n.sinking \/ ~n.nested)
  <2>1. v \in BOOLEAN /\ Rest(n) = AfterHandler(k)
    BY <1>2 DEF Rest
  <2> HIDE DEF v
  <2>2. Net(k) /\ Like(k, n, {"nested"})
    BY <2>1, UpdNested
  <2> HIDE DEF k
  <2>3. k.responded = n.responded
    BY <2>2 DEF Like, Fields
  <2>4. AfterHandler(k) = k
    BY <2>3 DEF AfterHandler
  <2> QED
    BY <2>1, <2>2, <2>4 DEF Like, Inner
<1> QED
  BY <1>1, <1>2

(* The invariant of a record in which the sink ends or goes on, as there is a line to parse. *)
LEMMA SinkEffect ==
  ASSUME NEW n, Survives(n), NEW v, v \in BOOLEAN,
         n.broken = {} =>
             /\ Lasting(n)
             /\ n.open => /\ Steady(n)
                          /\ v => HasLine(n) /\ (n.parsing => n.responded)
                          /\ ~v /\ n.responded => ~HasLine(n)
             /\ ~n.open => Closed(n) /\ ~v
  PROVE  Sure(Rest([n EXCEPT !.sinking = v]))
<1> DEFINE k == [n EXCEPT !.sinking = v]
           m == Rest(k)
<1>1. Net(n)
  BY DEF Survives
<1>2. Net(k) /\ Like(k, n, {"sinking"}) /\ k.sinking = v
  BY <1>1, UpdSinking
<1> HIDE DEF k
<1>3. /\ k.open = n.open /\ k.parsing = n.parsing /\ k.multipart = n.multipart
      /\ k.told = n.told /\ k.front = n.front /\ k.at = n.at /\ k.broken = n.broken
      /\ k.responded = n.responded /\ k.held = n.held
  BY <1>2 DEF Like, Fields
<1>4. Net(m) /\ Like(m, k, Inner)
  BY <1>2, <1>3, RestEffect DEF Survives
<1> HIDE DEF m
<1>5. m.broken = n.broken
  BY <1>3, <1>4 DEF Like, Fields, Inner
<1>6. ASSUME n.broken = {} PROVE Good(m)
  <2>1. Like(k, n, Inner \cup {"sinking"})
    BY <1>2 DEF Like
  <2>2. Lasting(k) /\ (n.open => Steady(k))
    BY <1>6, <2>1, SteadyFollows
  <2>3. n.open => Sinks(k)
    BY <1>2, <1>3, <1>6 DEF Sinks, HasLine, LineEnd
  <2>4. ~n.open => Closed(k)
    BY <1>2, <1>3, <1>6 DEF Closed
  <2>5. Good(k)
    BY <1>3, <2>2, <2>3, <2>4 DEF Good
  <2> QED
    BY <1>4, <2>5, GoodFollows
<1> QED
  BY <1>4, <1>5, <1>6 DEF Sure, Survives, k, m

(* The sink after a line of headers *)
LEMMA AfterLineEffect ==
  ASSUME NEW n, Result(n)
  PROVE  Sure(AfterLine(n))
<1> DEFINE bad == n.parsing /\ Unanswered(n) /\ HasLine(n)
           b == Broken(n, "not answered yet", bad)
           v == n.open /\ HasLine(n)
<1>1. Net(n) /\ n.broken \cap Bad = {} /\ (auto => n.responded)
  BY DEF Result, Survives
<1>2. bad \in BOOLEAN /\ v \in BOOLEAN /\ "not answered yet" \in Ways \ Bad
  BY DEF HasLine, Before, Ways, Bad, Unanswered
<1>3. AfterLine(n) = Rest([b EXCEPT !.sinking = v])
  BY DEF AfterLine
<1>4. Unanswered(n) <=> ~n.responded
  BY DEF Unanswered
<1>5. /\ Net(b) /\ Like(b, n, {"broken"}) /\ b.broken \cap Bad = {}
      /\ bad => b.broken # {}
      /\ ~bad => b = n
  BY <1>1, <1>2, BrokenEffect
<1> HIDE DEF b
<1>6. b.responded = n.responded
  BY <1>5 DEF Like, Fields
<1>7. Survives(b)
  BY <1>1, <1>5, <1>6 DEF Survives
<1>8. ASSUME b.broken = {}
      PROVE  /\ Lasting(b)
             /\ b.open => /\ Steady(b)
                          /\ v => HasLine(b) /\ (b.parsing => b.responded)
                          /\ ~v /\ b.responded => ~HasLine(b)
             /\ ~b.open => Closed(b) /\ ~v
  <2>1. b = n /\ ~bad
    BY <1>5, <1>8
  <2> QED
    BY <1>4, <1>8, <2>1 DEF Result
<1> QED
  BY <1>2, <1>3, <1>7, <1>8, SinkEffect

(* and after a byte of a body. *)
LEMMA AfterByteEffect ==
  ASSUME NEW n, Result(n), NEW t, Last(t) \in BOOLEAN, ~Last(t) => ~n.parsing
  PROVE  Sure(AfterByte(n, t))
<1> DEFINE over == n.open /\ Last(t)
           bad == over /\ ~Unanswered(n) /\ HasLine(n)
           b == Broken(n, "left waiting", bad)
           v == n.open /\ ~over /\ HasLine(n)
<1>1. Net(n) /\ n.broken \cap Bad = {} /\ (auto => n.responded)
  BY DEF Result, Survives
<1>2. bad \in BOOLEAN /\ v \in BOOLEAN /\ "left waiting" \in Ways \ Bad
  BY DEF HasLine, Before, Ways, Bad, Unanswered
<1>3. AfterByte(n, t) = Rest([b EXCEPT !.sinking = v])
  BY DEF AfterByte
<1>4. Unanswered(n) <=> ~n.responded
  BY DEF Unanswered
<1>5. /\ Net(b) /\ Like(b, n, {"broken"}) /\ b.broken \cap Bad = {}
      /\ bad => b.broken # {}
      /\ ~bad => b = n
  BY <1>1, <1>2, BrokenEffect
<1> HIDE DEF b
<1>6. b.responded = n.responded
  BY <1>5 DEF Like, Fields
<1>7. Survives(b)
  BY <1>1, <1>5, <1>6 DEF Survives
<1>8. ASSUME b.broken = {}
      PROVE  /\ Lasting(b)
             /\ b.open => /\ Steady(b)
                          /\ v => HasLine(b) /\ (b.parsing => b.responded)
                          /\ ~v /\ b.responded => ~HasLine(b)
             /\ ~b.open => Closed(b) /\ ~v
  <2>1. b = n /\ ~bad
    BY <1>5, <1>8
  <2> QED
    BY <1>4, <1>8, <2>1 DEF Result
<1> QED
  BY <1>2, <1>3, <1>7, <1>8, SinkEffect

---------------------------------------------------------------------------
(* The actions. *)
LEMMA DoingEffect ==
  ASSUME Net(net), NEW op \in Ops, NEW finish \in BOOLEAN
  PROVE  Net(Doing(op, finish)) /\ Like(Doing(op, finish), net, {"op", "finish"})
<1> DEFINE m == Doing(op, finish)
<1>1. DOMAIN net = Fields
  BY Domain DEF Net
<1>2. Rec(m) /\ m.op = op /\ m.finish = finish
  BY <1>1 DEF Rec, Fields, Doing
<1>3. \A g \in Fields \ {"op", "finish"} : m[g] = net[g]
  BY <1>1 DEF Doing
<1> HIDE DEF m
<1>4. Typed(m)
  BY <1>2, <1>3 DEF Net, Typed, Fields
<1> QED
  BY <1>2, <1>3, <1>4 DEF Net, Like, m

(* What an action makes of the record is what the lemmas above say of it. *)
LEMMA BecomesKeeps ==
  ASSUME NEW n, Sure(n), Becomes(n)
  PROVE  Sure(net') /\ script' = script /\ auto' = auto /\ slow' = slow
<1> DEFINE o == "none"
           f == FALSE
           m == [n EXCEPT !.op = o, !.finish = f]
<1>1. Net(n) /\ net' = m /\ o \in Ops /\ f \in BOOLEAN
  BY DEF Becomes, Sure, Ops
<1> HIDE DEF o, f
<1>2. DOMAIN n = Fields
  BY <1>1, Domain DEF Net
<1>3. Rec(m) /\ m.op = o /\ m.finish = f
  BY <1>2 DEF Rec, Fields
<1>4. \A g \in Fields \ {"op", "finish"} : m[g] = n[g]
  BY <1>2
<1> HIDE DEF m
<1>5. Typed(m)
  BY <1>1, <1>3, <1>4 DEF Net, Typed, Fields
<1>6. Net(m) /\ Like(m, n, Inner) /\ m.broken = n.broken
  BY <1>3, <1>4, <1>5 DEF Net, Like, Inner, Fields
<1>7. Sure(m)
  BY <1>6, GoodFollows DEF Sure
<1> QED
  BY <1>1, <1>7 DEF Becomes

(* A line of headers is parsed. *)
LEMMA SinkLineKeeps ==
  ASSUME WebInv, SinkLine
  PROVE  Sure(net') /\ script' = script /\ auto' = auto /\ slow' = slow
<1> PICK op \in Ops, finish \in BOOLEAN :
        LET t == LineEnd(net)
        IN  /\ net.sinking /\ net.parsing
            /\ Becomes(AfterLine(Parse([Doing(op, finish) EXCEPT !.front = After(t)], t)))
  BY DEF SinkLine
<1> DEFINE n == Doing(op, finish)
           m == Parse([n EXCEPT !.front = After(LineEnd(n))], LineEnd(n))
<1>1. Scripted /\ Net(net) /\ net.broken = {} /\ Good(net)
  BY DEF WebInv, Scripted, Sure, Becomes
<1>2. Net(n) /\ Like(n, net, {"op", "finish"})
  BY <1>1, DoingEffect
<1> HIDE DEF n
<1>3. n.front = net.front /\ n.broken = {} /\ n.sinking /\ n.parsing /\ n.open = net.open
  BY <1>1, <1>2 DEF Like, Fields
<1>4. Good(n)
  BY <1>1, <1>2, GoodFollows DEF Like, Inner
<1>5. n.open /\ (Between(n) \/ Heading(n))
  BY <1>3, <1>4 DEF Good, Closed, Steady, InBody
<1>6. Result(m)
  BY <1>1, <1>2, <1>3, <1>4, <1>5, FirstEffect, HeadingEffect
<1>7. LineEnd(net) = LineEnd(n)
  BY <1>3 DEF LineEnd
<1> HIDE DEF m
<1>8. Becomes(AfterLine(m))
  BY <1>7 DEF m, n
<1> QED
  BY <1>6, <1>8, AfterLineEffect, BecomesKeeps

(* A byte of a body is parsed. *)
LEMMA SinkByteKeeps ==
  ASSUME WebInv, SinkByte
  PROVE  Sure(net') /\ script' = script /\ auto' = auto /\ slow' = slow
<1> PICK op \in Ops, finish \in BOOLEAN :
        LET t == net.front
        IN  /\ net.sinking /\ ~net.parsing
            /\ Becomes(AfterByte(Parse([Doing(op, finish) EXCEPT !.front = After(t)], t), t))
  BY DEF SinkByte
<1> DEFINE n == Doing(op, finish)
           t == n.front
           m == Parse([n EXCEPT !.front = After(t)], t)
<1>1. Scripted /\ Net(net) /\ net.broken = {} /\ Good(net)
  BY DEF WebInv, Scripted, Sure, Becomes
<1>2. Net(n) /\ Like(n, net, {"op", "finish"})
  BY <1>1, DoingEffect
<1> HIDE DEF n
<1>3. t = net.front /\ n.broken = {} /\ n.sinking /\ ~n.parsing /\ n.open = net.open
  BY <1>1, <1>2 DEF Like, Fields
<1>4. Good(n)
  BY <1>1, <1>2, GoodFollows DEF Like, Inner
<1>5. n.open
  BY <1>3, <1>4 DEF Good, Closed
<1>6. Result(m) /\ (~Last(t) => ~m.parsing)
  BY <1>1, <1>2, <1>3, <1>4, <1>5, ByteEffect
<1>7. Last(t) \in BOOLEAN
  BY DEF Last
<1> HIDE DEF m, t
<1>8. Becomes(AfterByte(m, t))
  BY <1>3 DEF m, n
<1> QED
  BY <1>6, <1>7, <1>8, AfterByteEffect, BecomesKeeps

(* The browser hangs up, or the application disconnects it. *)
LEMMA HangupKeeps ==
  ASSUME WebInv, Hangup \/ lw_ws_req_disconnect
  PROVE  Sure(net') /\ script' = script /\ auto' = auto /\ slow' = slow
<1>1. net.open /\ Becomes(Disconnect(net))
  BY DEF Hangup, lw_ws_req_disconnect
<1>2. Net(net) /\ net.broken = {} /\ Good(net)
  BY <1>1 DEF WebInv, Sure, Becomes
<1> DEFINE m == Disconnect(net)
<1>3. Net(m) /\ m.broken = net.broken /\ Good(m)
  <2>1. Lasting(net) /\ net.held = (IF net.responded THEN 0 ELSE 1)
    BY <1>1, <1>2 DEF Good, Steady
  <2> QED
    BY <1>2, <2>1, DisconnectEffect
<1>4. Sure(m)
  BY <1>2, <1>3 DEF Sure
<1> HIDE DEF m
<1> QED
  BY <1>1, <1>4, BecomesKeeps DEF m

(* The next connection finds a clean request and what is still to be sent. *)
LEMMA ConnectKeeps ==
  ASSUME WebInv, Connect
  PROVE  Sure(net') /\ script' = script /\ auto' = auto /\ slow' = slow
<1> DEFINE at == IF net.at.j = 1 THEN net.at ELSE Place(net.at.r + 1, 1)
           w == net.connections + 1
           k == [net EXCEPT !.connections = w]
           c == Clean(k)
           m == [c EXCEPT !.open = TRUE, !.shut = FALSE, !.parsing = TRUE, !.cur = 0,
                     !.multipart = NoMultipart, !.held = 0, !.told = FALSE,
                     !.complete = 0, !.answers = <<>>,
                     !.front = at, !.at = at, !.base = at.r]
<1>1. ~net.open /\ at.r <= MaxRequests /\ Becomes(m)
  BY DEF Connect, Client
<1>2. Scripted /\ Net(net) /\ net.broken = {} /\ Good(net)
  BY <1>1 DEF WebInv, Scripted, Sure, Becomes
<1>3. Lasting(net) /\ Closed(net)
  BY <1>1, <1>2 DEF Good
<1>4. at \in Places /\ at.j = 1 /\ at.r \in Nat /\ at = Place(at.r, 1)
  <2>1. net.at \in Places /\ net.at.r \in 1..(MaxRequests + 1) /\ MaxRequests \in Nat
    BY <1>2, <1>3, Spots, WebAssumption DEF Lasting
  <2>2. CASE net.at.j = 1
    BY <1>2, <2>1, <2>2, Spots
  <2>3. CASE net.at.j # 1
    <3>1. at = Place(net.at.r + 1, 1) /\ at.r = net.at.r + 1 /\ at.j = 1
      BY <2>3 DEF Place
    <3>2. net.at.r + 1 \in 2..(MaxRequests + 1)
      BY <1>1, <2>1, <3>1
    <3> HIDE DEF at
    <3> QED
      BY <1>2, <3>1, <3>2, NextPlace
  <2> QED
    BY <2>2, <2>3
<1>5. at \in Spot
  BY <1>2, <1>4, Spots
<1>6. w \in Nat
  BY <1>2 DEF Net, Typed
<1> HIDE DEF at, w
<1>7. Net(k) /\ Like(k, net, {"connections"})
  BY <1>2, <1>6, UpdConnections
<1> HIDE DEF k
<1>8. /\ Net(c) /\ Like(c, k, Cleaned)
      /\ c.responded /\ c.body = {} /\ c.items = {} /\ ~c.parsed
      /\ c.headersOut = {} /\ c.cookie = 0 /\ ~c.changed
  BY <1>7, CleanEffect
<1> HIDE DEF c
<1>9. DOMAIN c = Fields
  BY <1>8, Domain DEF Net
<1>10. /\ Rec(m) /\ m.open = TRUE /\ m.shut = FALSE /\ m.parsing = TRUE /\ m.cur = 0
       /\ m.multipart = NoMultipart /\ m.held = 0 /\ m.told = FALSE
       /\ m.complete = 0 /\ m.answers = <<>>
       /\ m.front = at /\ m.at = at /\ m.base = at.r
  <2>1. Rec(m)
    BY <1>9 DEF Rec
  <2>2. /\ m.open = TRUE /\ m.shut = FALSE /\ m.parsing = TRUE /\ m.cur = 0
        /\ m.multipart = NoMultipart /\ m.held = 0 /\ m.told = FALSE
    BY <1>9 DEF Fields
  <2>3. m.complete = 0 /\ m.answers = <<>> /\ m.front = at /\ m.at = at /\ m.base = at.r
    BY <1>9 DEF Fields
  <2> QED
    BY <2>1, <2>2, <2>3
<1>11. /\ m.responded = c.responded /\ m.body = c.body /\ m.items = c.items
       /\ m.parsed = c.parsed /\ m.headersOut = c.headersOut /\ m.cookie = c.cookie
       /\ m.changed = c.changed /\ m.sinking = c.sinking /\ m.nested = c.nested
       /\ m.connections = c.connections /\ m.jar = c.jar /\ m.next = c.next
       /\ m.ahead = c.ahead /\ m.sent = c.sent /\ m.sessions = c.sessions
       /\ m.lost = c.lost /\ m.closing = c.closing /\ m.broken = c.broken
       /\ m.op = c.op /\ m.finish = c.finish
  BY <1>9 DEF Fields
<1> HIDE DEF m
<1>12. NoMultipart \in Multipart /\ ~NoMultipart.there
  BY DEF NoMultipart, Multipart
<1>13. <<>> \in Seq(Answer) /\ Len(<<>>) = 0
  BY EmptySeq
<1>14. Typed(m)
  BY <1>4, <1>5, <1>8, <1>10, <1>11, <1>12, <1>13 DEF Net, Typed
<1>15. /\ m.sinking = net.sinking /\ m.jar = net.jar /\ m.ahead = net.ahead
       /\ m.sessions = net.sessions /\ m.lost = net.lost /\ m.closing = net.closing
       /\ m.broken = net.broken
  BY <1>7, <1>8, <1>11 DEF Like, Fields, Cleaned
<1>16. m.responded /\ ~m.sinking
  BY <1>3, <1>8, <1>11, <1>15 DEF Closed
<1>17. Lasting(m)
  <2>1. One(m)
    BY <1>3, <1>15, <1>16 DEF Lasting, Closed, One, Live
  <2>2. Answers(m)
    BY <1>10, <1>13 DEF Answers
  <2> QED
    BY <1>3, <1>4, <1>10, <1>15, <2>1, <2>2 DEF Lasting
<1>18. Steady(m)
  <2>1. ~Saving(m) /\ ~Early(m)
    BY <1>10, <1>12 DEF Saving, Early
  <2>2. Counted(m)
    <3>1. Awaited(m) = 0
      BY <1>16, <2>1 DEF Awaited
    <3> QED
      BY <1>10, <1>13, <2>1, <3>1 DEF Counted
  <2>3. Waits(m)
    BY <1>4, <1>10, <1>13 DEF Waits, Sending
  <2>4. Fresh(m)
    BY <1>10 DEF Fresh, Pending
  <2>5. Between(m)
    BY <1>4, <1>10, <1>12, <1>16, <2>1 DEF Between
  <2>6. ~Before(m.at, m.front)
    BY <1>4, <1>10 DEF Before
  <2>7. m.complete = m.front.r - m.base
    BY <1>4, <1>10
  <2> QED
    BY <1>10, <1>16, <2>2, <2>3, <2>4, <2>5, <2>6, <2>7 DEF Steady
<1>19. Sinks(m)
  <2>1. ~HasLine(m)
    BY <1>4, <1>10 DEF HasLine, LineEnd, Place, Before
  <2> QED
    BY <1>16, <2>1 DEF Sinks
<1>20. Sure(m)
  BY <1>2, <1>10, <1>14, <1>15, <1>17, <1>18, <1>19 DEF Sure, Net, Good
<1> QED
  BY <1>1, <1>20, BecomesKeeps

(* The record in which a chunk has come. *)
LEMMA ArriveKeeps ==
  ASSUME WebInv, Arrive
  PROVE  Sure(net') /\ script' = script /\ auto' = auto /\ slow' = slow
<1> PICK to \in Places :
        LET now(r) == ~Before(Place(r, 3), net.at) /\ Before(Place(r, 3), to)
        IN  /\ net.open /\ ~net.sinking /\ Before(net.at, to)
            /\ \A r \in net.base..Sending(to) - 1 : script[r] # "last"
            /\ Becomes(Sunk([net EXCEPT
                   !.at = to,
                   !.sent = [r \in 1..MaxRequests |->
                                IF now(r) THEN net.jar ELSE net.sent[r]],
                   !.ahead = @ \/ Sending(to) > net.base + Len(net.answers)]))
  BY DEF Arrive
<1> DEFINE now(r) == ~Before(Place(r, 3), net.at) /\ Before(Place(r, 3), to)
           s == [r \in 1..MaxRequests |-> IF now(r) THEN net.jar ELSE net.sent[r]]
           a == net.ahead \/ Sending(to) > net.base + Len(net.answers)
           k == [net EXCEPT !.at = to, !.sent = s, !.ahead = a]
           v == k.open /\ ~Unanswered(k) /\ HasLine(k)
           m == [k EXCEPT !.sinking = v]
<1>1. net.open /\ ~net.sinking /\ Before(net.at, to) /\ Becomes(m)
  BY DEF Sunk
<1>2. Scripted /\ Net(net) /\ net.broken = {} /\ Good(net)
  BY <1>1 DEF WebInv, Scripted, Sure, Becomes
<1>3. Lasting(net) /\ Steady(net) /\ Sinks(net)
  BY <1>1, <1>2 DEF Good
<1>4. /\ to \in Spot /\ to.r \in Nat /\ to.j \in Nat /\ net.at.r \in Nat /\ net.at.j \in Nat
      /\ net.front.r \in Nat /\ net.front.j \in Nat
  BY <1>2, <1>3, Spots DEF Lasting
<1>5. s \in [1..MaxRequests -> Nat] /\ a \in BOOLEAN
  BY <1>2 DEF Net, Typed
<1>6. \A r \in 1..MaxRequests : s[r] = IF now(r) THEN net.jar ELSE net.sent[r]
  OBVIOUS
<1>7. ~a => ~net.ahead /\ ~(Sending(to) > net.base + Len(net.answers))
  OBVIOUS
<1> HIDE DEF s, a
<1>8. DOMAIN net = Fields
  BY <1>2, Domain DEF Net
<1>9. Rec(k) /\ k.at = to /\ k.sent = s /\ k.ahead = a
  BY <1>8 DEF Rec, Fields
<1>10. \A g \in Fields \ {"at", "sent", "ahead"} : k[g] = net[g]
  BY <1>8
<1> HIDE DEF k
<1>11. Typed(k)
  BY <1>2, <1>4, <1>5, <1>9, <1>10 DEF Net, Typed, Fields
<1>12. v \in BOOLEAN
  BY DEF HasLine, Before, Unanswered
<1> HIDE DEF v
<1>13. Net(m) /\ Like(m, k, {"sinking"}) /\ m.sinking = v
  BY <1>9, <1>11, <1>12, UpdSinking DEF Net
<1> HIDE DEF m
<1>14. /\ m.at = to /\ m.sent = s /\ m.ahead = a
  BY <1>9, <1>13 DEF Like, Fields
<1>15. \A g \in Fields \ {"at", "sent", "ahead", "sinking"} : m[g] = net[g]
  BY <1>10, <1>13 DEF Like
<1>16. /\ m.cur = net.cur /\ m.body = net.body /\ m.open = net.open /\ m.parsing = net.parsing
       /\ m.told = net.told /\ m.complete = net.complete /\ m.front = net.front
       /\ m.base = net.base /\ m.broken = net.broken /\ m.closing = net.closing
       /\ m.cookie = net.cookie /\ m.changed = net.changed /\ m.sessions = net.sessions
       /\ m.lost = net.lost /\ m.jar = net.jar /\ m.multipart = net.multipart
       /\ m.responded = net.responded /\ m.answers = net.answers /\ m.shut = net.shut
       /\ m.held = net.held /\ m.parsed = net.parsed /\ m.items = net.items
       /\ m.headersOut = net.headersOut
  BY <1>15 DEF Fields
<1>17. Lasting(m)
  <2>1. One(m)
    BY <1>3, <1>7, <1>14, <1>16 DEF Lasting, One, Live, Cookie
  <2> QED
    BY <1>3, <1>14, <1>16, <2>1 DEF Lasting, Answers
<1>18. Waits(m)
  <2> SUFFICES ASSUME ~m.ahead PROVE Sending(m.at) <= m.base + Len(m.answers)
    BY DEF Waits
  <2> DEFINE x == Sending(to)
             y == net.base + Len(net.answers)
  <2>1. x \in Int /\ y \in Int
    BY <1>2, <1>4 DEF Sending, Net, Typed
  <2>2. ~(x > y)
    BY <1>7, <1>14
  <2> HIDE DEF x, y
  <2>3. x <= y
    BY <2>1, <2>2
  <2> QED
    BY <1>14, <1>16, <2>3 DEF x, y
<1>19. Fresh(m)
  <2> SUFFICES ASSUME ~m.ahead, NEW r \in 1..MaxRequests, Pending(m, r)
               PROVE  m.sent[r] = m.jar
    BY DEF Fresh
  <2>1. CASE now(r)
    BY <1>6, <1>14, <1>16, <2>1
  <2>2. CASE ~now(r)
    <3>1. Pending(net, r)
      BY <1>14, <1>16, <2>2 DEF Pending
    <3> QED
      BY <1>3, <1>6, <1>7, <1>14, <1>16, <2>2, <3>1 DEF Steady, Fresh
  <2> QED
    BY <2>1, <2>2
<1>20. ~Before(m.at, m.front)
  BY <1>1, <1>3, <1>4, <1>14, <1>16 DEF Steady, Before
<1>21. Steady(m)
  <2>1. Between(m) \/ Heading(m) \/ InBody(m)
    <3>1. ToCall(net) => ToCall(m)
      BY <1>7, <1>14, <1>16 DEF ToCall
    <3>2. Between(net) => Between(m)
      BY <1>16, <3>1 DEF Between, Saving
    <3>3. Heading(net) => Heading(m)
      BY <1>16 DEF Heading
    <3>4. InBody(net) => InBody(m)
      BY <1>16, <3>1 DEF InBody
    <3> QED
      BY <1>3, <3>2, <3>3, <3>4 DEF Steady
  <2>2. ~m.shut => Counted(m)
    BY <1>3, <1>16 DEF Steady, Counted, Awaited, Early, Saving
  <2>3. ~m.responded => Own(m)
    BY <1>3, <1>16 DEF Steady, Own, Whole
  <2> QED
    BY <1>3, <1>16, <1>18, <1>19, <1>20, <2>1, <2>2, <2>3 DEF Steady
<1>22. Sinks(m)
  <2>1. k.open = net.open /\ k.responded = net.responded /\ k.front = net.front
    BY <1>10 DEF Fields
  <2>2. HasLine(k) = HasLine(m)
    BY <1>9, <1>14, <1>16, <2>1 DEF HasLine, LineEnd
  <2>3. v <=> net.responded /\ HasLine(m)
    BY <1>1, <2>1, <2>2 DEF v, Unanswered
  <2> QED
    BY <1>13, <1>16, <2>3 DEF Sinks
<1>23. Sure(m)
  BY <1>1, <1>2, <1>13, <1>16, <1>17, <1>21, <1>22 DEF Sure, Good
<1> QED
  BY <1>1, <1>23, BecomesKeeps

(* The request whose turn it is, with so many answers since the first of the connection *)
(* and so many requests complete: between two requests the last one,                    *)
LEMMA TurnAfter ==
  ASSUME NEW cur \in Nat, NEW base \in Nat, NEW front \in Nat, NEW complete \in Nat,
         NEW n \in Nat, complete = front - base, n + 1 = complete, cur = front - 1
  PROVE  cur = base + n
  OBVIOUS

(* and within one's body that one. *)
LEMMA TurnWithin ==
  ASSUME NEW cur \in Nat, NEW base \in Nat, NEW front \in Nat, NEW complete \in Nat,
         NEW n \in Nat, complete = front - base, n = complete, cur = front
  PROVE  cur = base + n
  OBVIOUS

(* lw_ws_req_finish: the application answers the request that it kept, and what arrived *)
(* meanwhile is sunk.                                                                   *)
LEMMA FinishKeeps ==
  ASSUME WebInv, Finish
  PROVE  Sure(net') /\ script' = script /\ auto' = auto /\ slow' = slow
<1> PICK op \in Ops, finish \in BOOLEAN :
        /\ net.open /\ ~net.sinking /\ net.held > 0
        /\ Becomes(Respond([Doing(op, finish) EXCEPT !.held = @ - 1]))
  BY DEF Finish
<1> DEFINE d == Doing(op, finish)
           h == 0
           n == [d EXCEPT !.held = h]
           m == Respond(n)
<1>0. ~net.sinking
  OBVIOUS
<1>1. Scripted /\ Net(net) /\ net.broken = {} /\ Good(net) /\ net.open
  BY DEF WebInv, Scripted, Sure, Becomes
<1>2. Lasting(net) /\ Steady(net)
  BY <1>1 DEF Good
<1>3. net.held = 1 /\ ~net.responded
  <2>1. net.held = IF net.responded THEN 0 ELSE 1
    BY <1>2 DEF Steady
  <2> QED
    BY <2>1
<1>4. Net(d) /\ Like(d, net, {"op", "finish"})
  BY <1>1, DoingEffect
<1>5. Becomes(m)
  <2>1. d.held = 1
    BY <1>3, <1>4 DEF Like, Fields
  <2>2. [d EXCEPT !.held = @ - 1] = n
    BY <2>1
  <2> QED
    BY <2>2
<1>6. h \in Nat
  OBVIOUS
<1> HIDE DEF d, h
<1>7. Net(n) /\ Like(n, d, {"held"}) /\ n.held = h
  BY <1>4, <1>6, UpdHeld
<1> HIDE DEF n
<1>8. \A g \in Fields \ {"op", "finish", "held"} : n[g] = net[g]
  BY <1>4, <1>7 DEF Like
<1>9. /\ n.cur = net.cur /\ n.body = net.body /\ n.open = net.open /\ n.parsing = net.parsing
      /\ n.told = net.told /\ n.complete = net.complete /\ n.front = net.front
      /\ n.at = net.at /\ n.sent = net.sent /\ n.ahead = net.ahead
      /\ n.base = net.base /\ n.broken = net.broken /\ n.closing = net.closing
      /\ n.cookie = net.cookie /\ n.changed = net.changed /\ n.sessions = net.sessions
      /\ n.lost = net.lost /\ n.jar = net.jar /\ n.multipart = net.multipart
      /\ n.responded = net.responded /\ n.answers = net.answers /\ n.shut = net.shut
      /\ n.parsed = net.parsed /\ n.items = net.items
      /\ n.headersOut = net.headersOut /\ n.sinking = net.sinking
  BY <1>8 DEF Fields
<1>10. Own(n) /\ One(n) /\ Answers(n) /\ Waits(n)
  BY <1>2, <1>3, <1>9 DEF Steady, Lasting, Own, Whole, One, Live, Cookie, Answers, Waits
<1>11. Fresh(n)
  BY <1>2, <1>9, PendingFollows DEF Steady, Fresh
<1>12. ~ToCall(n) /\ ~ToCall(net)
  BY <1>3, <1>9 DEF ToCall
<1>13. /\ Between(net) \/ (InBody(net) /\ Early(net))
       /\ Between(net) => net.front.j = 1 /\ net.cur = net.front.r - 1 /\ ~Early(net)
       /\ InBody(net) => net.front.j >= 4 /\ net.cur = net.front.r
       /\ ~Saving(net)
  <2>1. Between(net) => /\ net.front.j = 1 /\ net.cur = net.front.r - 1
                        /\ ~Early(net) /\ ~Saving(net)
    BY <1>3, <1>12 DEF Between, Early
  <2>2. InBody(net) => Early(net) /\ ~Saving(net) /\ net.front.j >= 4 /\ net.cur = net.front.r
    BY <1>12 DEF InBody, Early, Saving
  <2>3. ~Heading(net)
    BY <1>3 DEF Heading
  <2> QED
    BY <1>2, <2>1, <2>2, <2>3 DEF Steady
<1>14. /\ net.front.r \in Nat /\ net.front.j \in Nat /\ net.cur \in Nat /\ net.base \in Nat
       /\ net.complete \in Nat /\ Len(net.answers) \in Nat
  <2>1. net.front \in Places
    BY <1>2 DEF Lasting
  <2>2. net.front.r \in 1..(MaxRequests + 1) /\ net.front.j \in 1..7 /\ MaxRequests \in Nat
    BY <1>1, <2>1, Spots, WebAssumption
  <2>3. /\ net.cur \in Nat /\ net.base \in Nat /\ net.complete \in Nat
        /\ net.answers \in Seq(Answer)
    BY <1>1 DEF Net, Typed
  <2> QED
    BY <2>2, <2>3
<1>15. ~net.shut => Len(net.answers) + 1 = net.complete + (IF Early(net) THEN 1 ELSE 0)
  <2>1. Awaited(net) = 1
    BY <1>3, <1>13 DEF Awaited
  <2> QED
    BY <1>2, <2>1 DEF Steady, Counted
<1>16. InOrder(n)
  <2> SUFFICES ASSUME ~net.shut PROVE net.cur = net.base + Len(net.answers)
    BY <1>9 DEF InOrder
  <2>1. net.complete = net.front.r - net.base
    BY <1>2 DEF Steady
  <2>2. CASE Between(net)
    <3>1. Len(net.answers) + 1 = net.complete
      BY <1>13, <1>14, <1>15, <2>2
    <3>2. net.cur = net.front.r - 1
      BY <1>13, <2>2
    <3> QED
      BY <1>14, <2>1, <3>1, <3>2, TurnAfter
  <2>3. CASE InBody(net) /\ Early(net)
    <3>1. Len(net.answers) = net.complete
      BY <1>14, <1>15, <2>3
    <3>2. net.cur = net.front.r
      BY <1>13, <2>3
    <3> QED
      BY <1>14, <2>1, <3>1, <3>2, TurnWithin
  <2> QED
    BY <1>13, <2>2, <2>3
<1>17. Clear(n)
  <2>1. Before(Place(n.cur, 3), n.front)
    BY <1>9, <1>13, <1>14 DEF Before, Place
  <2>2. n.at \in Places /\ n.front \in Places
    BY <1>2, <1>9 DEF Lasting
  <2> QED
    BY <1>1, <1>7, <1>10, <1>16, <2>1, <2>2, NothingPending
<1>18. Asked(n)
  BY <1>1, <1>3, <1>7, <1>9, <1>10, <1>11, <1>16, <1>17 DEF Asked, h
<1>19. Handled(m, n) /\ m.responded
  BY <1>18, RespondEffect
<1> HIDE DEF m
<1>20. /\ Net(m) /\ Answers(m) /\ One(m) /\ Fresh(m) /\ m.held = 0
       /\ m.front = net.front /\ m.at = net.at /\ m.base = net.base /\ m.broken = {}
       /\ m.closing = net.closing /\ m.open /\ m.parsing = net.parsing
       /\ m.multipart = net.multipart /\ m.complete = net.complete /\ m.cur = net.cur
       /\ m.ahead = net.ahead
       /\ m.sinking = HasLine(m)
       /\ ~m.shut => ~net.shut /\ Len(m.answers) = Len(net.answers) + 1
       /\ Len(m.answers) >= Len(net.answers) /\ Len(m.answers) \in Nat
  <2>1. /\ m.front = n.front /\ m.at = n.at /\ m.base = n.base /\ m.broken = n.broken
        /\ m.closing = n.closing /\ m.open = n.open /\ m.parsing = n.parsing
        /\ m.multipart = n.multipart /\ m.complete = n.complete /\ m.cur = n.cur
        /\ m.ahead = n.ahead
    BY <1>19 DEF Handled, Outer
  <2>2. /\ Net(m) /\ Answers(m) /\ One(m) /\ Fresh(m)
        /\ m.held = (IF m.responded THEN 0 ELSE 1)
        /\ m.sinking = (n.sinking \/ HasLine(m))
        /\ (n.shut /\ m.answers = n.answers) \/ Len(m.answers) = Len(n.answers) + 1
        /\ n.shut => m.shut
    BY <1>19 DEF Handled
  <2>3. m.held = 0
    BY <1>19, <2>2
  <2>4. ~n.sinking /\ HasLine(m) \in BOOLEAN
    BY <1>0, <1>9 DEF HasLine, Before
  <2>5. m.sinking = HasLine(m)
    BY <2>2, <2>4
  <2>6. /\ ~m.shut => ~net.shut /\ Len(m.answers) = Len(net.answers) + 1
        /\ Len(m.answers) >= Len(net.answers) /\ Len(m.answers) \in Nat
    <3>1. CASE net.shut /\ m.answers = net.answers
      BY <1>9, <1>14, <2>2, <3>1
    <3>2. CASE ~net.shut /\ Len(m.answers) = Len(net.answers) + 1
      BY <1>9, <1>14, <2>2, <3>2
    <3>3. CASE net.shut /\ Len(m.answers) = Len(net.answers) + 1
      BY <1>9, <1>14, <2>2, <3>3
    <3> QED
      BY <1>9, <2>2, <3>1, <3>2, <3>3
  <2> QED
    BY <1>1, <1>9, <2>1, <2>2, <2>3, <2>5, <2>6
<1>21. Lasting(m)
  BY <1>2, <1>20 DEF Lasting
<1>22. ~Saving(m) /\ (Early(m) <=> Early(net))
  BY <1>13, <1>20 DEF Saving, Early
<1>23. ~m.shut => Counted(m)
  <2>1. Awaited(m) = 0
    BY <1>19, <1>22 DEF Awaited
  <2> QED
    BY <1>14, <1>15, <1>20, <1>22, <2>1 DEF Counted
<1>24. Waits(m)
  <2>1. Sending(net.at) \in Int
    BY <1>1, <1>2, Spots DEF Lasting, Sending
  <2> QED
    BY <1>2, <1>14, <1>20, <2>1 DEF Steady, Waits
<1>25. Between(m) \/ InBody(m)
  <2>1. Between(net) => Between(m)
    BY <1>19, <1>20, <1>22 DEF Between
  <2>2. InBody(net) /\ Early(net) => InBody(m)
    BY <1>12, <1>20 DEF InBody, Early
  <2> QED
    BY <1>13, <2>1, <2>2
<1>26. Steady(m)
  BY <1>2, <1>19, <1>20, <1>23, <1>24, <1>25 DEF Steady
<1>27. Sinks(m)
  BY <1>19, <1>20 DEF Sinks
<1>28. Sure(m)
  BY <1>20, <1>21, <1>26, <1>27 DEF Sure, Good
<1> QED
  BY <1>5, <1>28, BecomesKeeps

(* A file of the connection's request is closed: nothing more comes of it if the hook *)
(* was called before.                                                                  *)
LEMMA CloseOfCalled ==
  ASSUME NEW n, Net(n), n.broken = {}, Good(n), n.multipart.there, n.multipart.called
  PROVE  Sure(AutosaveClose(n))
<1> DEFINE v == [n.multipart EXCEPT !.open = FALSE]
           m == [n EXCEPT !.multipart = v]
<1>1. v \in Multipart
  BY DEF Net, Typed, Multipart
<1>2. /\ v.there = n.multipart.there /\ v.r = n.multipart.r /\ v.done = n.multipart.done
      /\ v.called = n.multipart.called
  BY DEF Net, Typed, Multipart
<1>3. AutosaveClose(n) = CallUploads(m)
  BY DEF AutosaveClose
<1> HIDE DEF v
<1>4. Net(m) /\ Like(m, n, {"multipart"}) /\ m.multipart = v
  BY <1>1, UpdMultipart
<1> HIDE DEF m
<1>5. CallUploads(m) = m
  BY <1>2, <1>4 DEF CallUploads
<1>6. /\ m.cur = n.cur /\ m.body = n.body /\ m.open = n.open /\ m.parsing = n.parsing
      /\ m.told = n.told /\ m.complete = n.complete /\ m.front = n.front
      /\ m.at = n.at /\ m.sent = n.sent /\ m.ahead = n.ahead
      /\ m.base = n.base /\ m.broken = n.broken /\ m.closing = n.closing
      /\ m.cookie = n.cookie /\ m.changed = n.changed /\ m.sessions = n.sessions
      /\ m.lost = n.lost /\ m.jar = n.jar
      /\ m.responded = n.responded /\ m.answers = n.answers /\ m.shut = n.shut
      /\ m.held = n.held /\ m.parsed = n.parsed /\ m.items = n.items
      /\ m.headersOut = n.headersOut /\ m.sinking = n.sinking
  BY <1>4 DEF Like, Fields
<1>7. n.open /\ Lasting(n) /\ Steady(n) /\ Sinks(n)
  BY DEF Good, Closed
<1>8. Lasting(m)
  <2>1. One(m)
    BY <1>6, <1>7 DEF Lasting, One, Live, Cookie
  <2> QED
    BY <1>6, <1>7, <2>1 DEF Lasting, Answers
<1>9. Sinks(m)
  BY <1>6, <1>7 DEF Sinks, HasLine, LineEnd
<1>10. Steady(m)
  <2>1. (Saving(m) <=> Saving(n)) /\ (Early(m) <=> Early(n)) /\ (ToCall(m) <=> ToCall(n))
    BY <1>2, <1>4, <1>6 DEF Saving, Early, ToCall
  <2>2. ~m.shut => Counted(m)
    BY <1>6, <1>7, <2>1 DEF Steady, Counted, Awaited
  <2>3. Waits(m) /\ (~m.responded => Own(m))
    BY <1>6, <1>7 DEF Steady, Waits, Own, Whole
  <2>4. Fresh(m)
    BY <1>6, <1>7, PendingFollows DEF Steady, Fresh
  <2>5. Between(n) => Between(m)
    BY <1>2, <1>4, <1>6, <2>1 DEF Between
  <2>6. Heading(n) => Heading(m)
    BY <1>2, <1>4, <1>6 DEF Heading
  <2>7. InBody(n) => InBody(m)
    BY <1>2, <1>4, <1>6, <2>1 DEF InBody
  <2> QED
    BY <1>6, <1>7, <2>2, <2>3, <2>4, <2>5, <2>6, <2>7 DEF Steady
<1>11. Sure(m)
  BY <1>4, <1>6, <1>7, <1>8, <1>9, <1>10 DEF Sure, Good
<1> QED
  BY <1>3, <1>5, <1>11

(* The last request's file is closed, and its hook is called between two requests. *)
LEMMA CloseOfSaved ==
  ASSUME Scripted, NEW n, Net(n), n.broken = {}, Good(n), n.open, ~n.sinking, Saving(n),
         n.multipart.r \in 1..MaxRequests, script[n.multipart.r] \in {"save", "mixed"}
  PROVE  Sure(AutosaveClose(n))
<1> DEFINE v == [n.multipart EXCEPT !.open = FALSE]
           k == [n EXCEPT !.multipart = v]
           m == AutosaveClose(n)
<1>1. v \in Multipart
  BY DEF Net, Typed, Multipart
<1>2. /\ v.there /\ v.r = n.multipart.r /\ v.done /\ ~v.called /\ ~v.open
  BY DEF Net, Typed, Multipart, Saving
<1>3. m = CallUploads(k)
  BY DEF AutosaveClose
<1> HIDE DEF v
<1>4. Net(k) /\ Like(k, n, {"multipart"}) /\ k.multipart = v
  BY <1>1, UpdMultipart
<1> HIDE DEF k, m
<1>5. Lasting(n) /\ Steady(n)
  BY DEF Good
<1>6. Between(n) /\ ToCall(n) /\ n.responded /\ n.held = 0
  <2>1. Between(n)
    BY <1>5 DEF Steady, Heading, InBody, Saving
  <2>2. ToCall(n) /\ n.responded
    BY <2>1 DEF Between, ToCall
  <2> QED
    BY <1>5, <2>1, <2>2 DEF Steady
<1>7. /\ n.parsing /\ n.front.j = 1 /\ n.cur = n.multipart.r /\ n.cur = n.front.r - 1
  BY <1>6 DEF Between
<1>8. /\ k.cur = n.cur /\ k.body = n.body /\ k.open = n.open /\ k.parsing = n.parsing
      /\ k.complete = n.complete /\ k.front = n.front
      /\ k.at = n.at /\ k.sent = n.sent /\ k.ahead = n.ahead
      /\ k.base = n.base /\ k.broken = n.broken /\ k.closing = n.closing
      /\ k.cookie = n.cookie /\ k.changed = n.changed /\ k.sessions = n.sessions
      /\ k.lost = n.lost /\ k.jar = n.jar
      /\ k.responded = n.responded /\ k.answers = n.answers /\ k.shut = n.shut
      /\ k.held = n.held /\ k.parsed = n.parsed /\ k.items = n.items
      /\ k.headersOut = n.headersOut /\ k.sinking = n.sinking
  BY <1>4 DEF Like, Fields
<1>9. /\ n.front.r \in Nat /\ n.cur \in Nat /\ n.base \in Nat /\ n.complete \in Nat
      /\ Len(n.answers) \in Nat
  <2>1. n.front \in Places /\ MaxRequests \in Nat
    BY <1>5, WebAssumption DEF Lasting
  <2>2. n.front.r \in 1..(MaxRequests + 1)
    BY <2>1, Spots
  <2>3. n.cur \in Nat /\ n.base \in Nat /\ n.complete \in Nat /\ n.answers \in Seq(Answer)
    BY DEF Net, Typed
  <2> QED
    BY <2>1, <2>2, <2>3
<1>10. n.complete = n.front.r - n.base
  BY <1>5 DEF Steady
<1>11. ~n.shut => Len(n.answers) + 1 = n.complete
  <2>1. Awaited(n) = 1 /\ ~Early(n)
    BY <1>6 DEF Awaited, Early, Saving
  <2> QED
    BY <1>5, <1>9, <2>1 DEF Steady, Counted
<1>12. Due(k)
  <2>1. Lasting(k)
    <3>1. One(k)
      BY <1>5, <1>8 DEF Lasting, One, Live, Cookie
    <3> QED
      BY <1>5, <1>8, <3>1 DEF Lasting, Answers
  <2>2. ToCall(k) /\ Waits(k)
    BY <1>5, <1>6, <1>8 DEF Steady, ToCall, Waits
  <2>3. Fresh(k)
    BY <1>5, <1>8, PendingFollows DEF Steady, Fresh
  <2>4. Whole(k, k.items \cup k.body)
    BY <1>6, <1>7, <1>8 DEF ToCall, Whole
  <2>5. Before(Place(k.cur, 3), k.front)
    BY <1>7, <1>8, <1>9 DEF Before, Place
  <2>6. ~k.shut => k.cur = k.base + Len(k.answers)
    BY <1>7, <1>8, <1>9, <1>10, <1>11
  <2> QED
    BY <1>4, <1>6, <1>7, <1>8, <2>1, <2>2, <2>3, <2>4, <2>5, <2>6 DEF Due
<1>13. /\ Net(m) /\ Lasting(m) /\ Waits(m) /\ Fresh(m) /\ Kept(m, k)
       /\ m.multipart = [k.multipart EXCEPT !.called = TRUE]
       /\ m.held = (IF m.responded THEN 0 ELSE 1)
       /\ auto => m.responded
       /\ ~m.responded => Own(m) /\ m.sinking = k.sinking
       /\ m.responded => m.sinking = (k.sinking \/ HasLine(m))
       /\ ~m.shut => /\ ~k.shut
                     /\ Len(m.answers) + (IF m.responded THEN 0 ELSE 1) = Len(k.answers) + 1
  BY <1>2, <1>3, <1>4, <1>12, CallUploadsEffect
<1>14. m.multipart.there /\ m.multipart.called /\ m.multipart.done
  BY <1>1, <1>2, <1>4, <1>13 DEF Multipart
<1>15. ~Saving(m) /\ ~Early(m)
  BY <1>14 DEF Saving, Early
<1>16. /\ m.cur = n.cur /\ m.open /\ m.parsing /\ m.complete = n.complete
       /\ m.front = n.front /\ m.at = n.at /\ m.base = n.base /\ m.broken = {}
  BY <1>7, <1>8, <1>13 DEF Kept
<1>17. Between(m)
  BY <1>7, <1>14, <1>15, <1>16 DEF Between
<1>18. ~m.shut => Counted(m)
  <2>1. Awaited(m) = IF m.responded THEN 0 ELSE 1
    BY <1>15 DEF Awaited
  <2>2. ~m.shut => Len(m.answers) + (IF m.responded THEN 0 ELSE 1) = n.complete
    <3>1. ~m.shut => ~n.shut
      BY <1>8, <1>13
    <3>2. Len(k.answers) = Len(n.answers)
      BY <1>8
    <3> QED
      BY <1>9, <1>11, <1>13, <3>1, <3>2
  <2>3. m.complete + (IF Early(m) THEN 1 ELSE 0) = n.complete
    BY <1>9, <1>15, <1>16
  <2> QED
    BY <2>1, <2>2, <2>3 DEF Counted
<1>19. Steady(m)
  BY <1>5, <1>10, <1>13, <1>16, <1>17, <1>18 DEF Steady
<1>20. Sinks(m)
  BY <1>8, <1>13 DEF Sinks
<1> QED
  BY <1>13, <1>16, <1>19, <1>20 DEF Sure, Good, m

(* The close of a file ends: its hook is due, was called before, or its client is gone. *)
LEMMA FileClosedKeeps ==
  ASSUME WebInv, FileClosed
  PROVE  Sure(net') /\ script' = script /\ auto' = auto /\ slow' = slow
<1> PICK r \in net.closing, op \in Ops, finish \in BOOLEAN :
        LET n == [Doing(op, finish) EXCEPT !.closing = @ \ {r}]
            here == net.open /\ net.multipart.there /\ net.multipart.r = r
        IN  /\ ~net.sinking
            /\ Becomes(IF here THEN AutosaveClose(n) ELSE Broken(n, "freed", TRUE))
  BY DEF FileClosed
<1> DEFINE d == Doing(op, finish)
           c == net.closing \ {r}
           n == [d EXCEPT !.closing = c]
           here == net.open /\ net.multipart.there /\ net.multipart.r = r
           m == IF here THEN AutosaveClose(n) ELSE Broken(n, "freed", TRUE)
<1>1. Scripted /\ Net(net) /\ net.broken = {} /\ Good(net) /\ ~net.sinking
  BY DEF WebInv, Scripted, Sure, Becomes
<1>2. Net(d) /\ Like(d, net, {"op", "finish"})
  BY <1>1, DoingEffect
<1>3. Becomes(m)
  <2>1. d.closing = net.closing
    BY <1>2 DEF Like, Fields
  <2>2. [d EXCEPT !.closing = @ \ {r}] = n
    BY <2>1
  <2> QED
    BY <2>2
<1>4. c \in SUBSET Nat
  BY <1>1 DEF Net, Typed
<1> HIDE DEF d, c
<1>5. Net(n) /\ Like(n, d, {"closing"}) /\ n.closing = c
  BY <1>2, <1>4, UpdClosing
<1> HIDE DEF n
<1>6. \A g \in Fields \ {"op", "finish", "closing"} : n[g] = net[g]
  BY <1>2, <1>5 DEF Like
<1>7. n.broken = {} /\ n.open = net.open /\ n.multipart = net.multipart /\ ~n.sinking
  BY <1>1, <1>6 DEF Fields
<1>8. Lasting(net) /\ r \in 1..MaxRequests /\ script[r] \in {"save", "mixed"}
  BY <1>1 DEF Good, Lasting
<1>9. Good(n)
  <2>1. /\ n.cur = net.cur /\ n.body = net.body /\ n.parsing = net.parsing
        /\ n.told = net.told /\ n.complete = net.complete /\ n.front = net.front
        /\ n.at = net.at /\ n.sent = net.sent /\ n.ahead = net.ahead
        /\ n.base = net.base
        /\ n.cookie = net.cookie /\ n.changed = net.changed /\ n.sessions = net.sessions
        /\ n.lost = net.lost /\ n.jar = net.jar
        /\ n.responded = net.responded /\ n.answers = net.answers /\ n.shut = net.shut
        /\ n.held = net.held /\ n.parsed = net.parsed /\ n.items = net.items
        /\ n.headersOut = net.headersOut /\ n.sinking = net.sinking
    BY <1>6 DEF Fields
  <2>2. Lasting(n)
    <3>1. One(n)
      BY <1>8, <2>1 DEF Lasting, One, Live, Cookie
    <3>2. Answers(n)
      BY <1>8, <2>1 DEF Lasting, Answers
    <3> QED
      BY <1>5, <1>8, <2>1, <3>1, <3>2 DEF Lasting, c
  <2>3. Steady(net) => Steady(n)
    <3>1. /\ Between(net) => Between(n)
          /\ Heading(net) => Heading(n)
          /\ InBody(net) => InBody(n)
      BY <1>7, <2>1 DEF Between, Heading, InBody, ToCall, Saving
    <3>2. /\ Counted(net) => Counted(n)
          /\ Own(net) => Own(n)
      BY <1>7, <2>1 DEF Counted, Awaited, Early, Saving, Own, Whole
    <3>3. /\ Waits(net) => Waits(n)
          /\ Fresh(net) => Fresh(n)
      BY <2>1 DEF Waits, Fresh, Pending
    <3> QED
      BY <2>1, <3>1, <3>2, <3>3 DEF Steady
  <2>4. Sinks(net) => Sinks(n)
    BY <2>1 DEF Sinks, HasLine, LineEnd
  <2>5. Closed(net) => Closed(n)
    BY <1>7, <2>1 DEF Closed
  <2> QED
    BY <1>1, <1>7, <2>2, <2>3, <2>4, <2>5 DEF Good
<1>10. Sure(m)
  <2>1. CASE ~here
    <3>1. m = Broken(n, "freed", TRUE)
      BY <2>1
    <3> HIDE DEF m
    <3>2. "freed" \in Ways \ Bad /\ n.broken \cap Bad = {} /\ TRUE \in BOOLEAN
      BY <1>7 DEF Ways, Bad
    <3>3. Net(m) /\ m.broken \cap Bad = {} /\ m.broken # {}
      BY <1>5, <3>1, <3>2, BrokenEffect
    <3> QED
      BY <3>3 DEF Sure
  <2>2. CASE here
    <3>1. m = AutosaveClose(n) /\ n.open /\ n.multipart.there /\ n.multipart.r = r
      BY <1>7, <2>2
    <3> HIDE DEF m
    <3>2. CASE n.multipart.called
      BY <1>5, <1>7, <1>9, <3>1, <3>2, CloseOfCalled
    <3>3. CASE ~n.multipart.called /\ n.multipart.done
      <4>1. Saving(n)
        BY <3>1, <3>3 DEF Saving
      <4> QED
        BY <1>1, <1>5, <1>7, <1>8, <1>9, <3>1, <4>1, CloseOfSaved
    <3>4. CASE ~n.multipart.called /\ ~n.multipart.done
      <4>1. Lasting(n) /\ Steady(n) /\ Sinks(n)
        BY <1>9, <3>1 DEF Good
      <4>2. InBody(n) /\ script[n.cur] \in Uploads
        BY <3>1, <3>4, <4>1 DEF Steady, Between, Heading, InBody
      <4>3. n.multipart.r = n.cur
        BY <4>2 DEF InBody
      <4>4. Uploading(n)
        BY <1>5, <4>1, <4>2, <3>1 DEF Uploading, Steady, InBody
      <4>5. script[n.cur] # "form"
        BY <1>8, <3>1, <4>3
      <4>6. Net(m) /\ Lasting(m) /\ Steady(m) /\ m.broken = {} /\ m.open /\ Sinks(m)
        BY <1>1, <1>7, <3>1, <4>1, <4>4, <4>5, AutosaveCloseInBody
      <4> QED
        BY <4>6 DEF Sure, Good
    <3> QED
      BY <3>2, <3>3, <3>4
  <2> QED
    BY <2>1, <2>2
<1> HIDE DEF m
<1> QED
  BY <1>3, <1>10, BecomesKeeps

(* A new web server has no connection. *)
LEMMA InitKeeps ==
  ASSUME Init
  PROVE  WebInv
<1>1. MaxRequests \in Nat /\ MaxRequests >= 1
  BY WebAssumption
<1>2. Scripted /\ auto \in BOOLEAN /\ slow \in BOOLEAN
  BY DEF Init, Scripted
<1>3. Place(1, 1) \in Places /\ Place(1, 1) \in Spot
  BY <1>1, <1>2, SpotIsPlace, Lengths DEF Spot, Place
<1>4. NoMultipart \in Multipart /\ ~NoMultipart.there
  BY DEF NoMultipart, Multipart
<1>5. <<>> \in Seq(Answer) /\ Len(<<>>) = 0
  BY EmptySeq
<1>6. Rec(net)
  BY DEF Init, Rec, Fields
<1>7. /\ net.responded = TRUE /\ net.cur = 0 /\ net.body = {} /\ net.items = {}
      /\ net.parsed = FALSE /\ net.headersOut = {} /\ net.cookie = 0 /\ net.changed = FALSE
      /\ net.open = FALSE /\ net.shut = FALSE /\ net.parsing = TRUE /\ net.sinking = FALSE
      /\ net.nested = FALSE /\ net.multipart = NoMultipart /\ net.held = 0
      /\ net.told = FALSE
  BY DEF Init
<1>8. /\ net.complete = 0 /\ net.answers = <<>> /\ net.front = Place(1, 1)
      /\ net.at = Place(1, 1) /\ net.base = 1 /\ net.connections = 0 /\ net.jar = 0
      /\ net.next = 1 /\ net.ahead = FALSE
      /\ net.sent = [r \in 1..MaxRequests |-> 0] /\ net.sessions = {}
      /\ net.lost = {} /\ net.closing = {} /\ net.broken = {}
      /\ net.op = "none" /\ net.finish = FALSE
  BY DEF Init
<1>9. Typed(net)
  <2>1. /\ net.responded \in BOOLEAN /\ net.parsed \in BOOLEAN /\ net.changed \in BOOLEAN
        /\ net.open \in BOOLEAN /\ net.shut \in BOOLEAN /\ net.parsing \in BOOLEAN
        /\ net.sinking \in BOOLEAN /\ net.nested \in BOOLEAN /\ net.told \in BOOLEAN
        /\ net.ahead \in BOOLEAN
    BY <1>7, <1>8
  <2>2. /\ net.cur \in Nat /\ net.body \in SUBSET Nat /\ net.items \in SUBSET Nat
        /\ net.headersOut \in SUBSET Nat /\ net.cookie \in Nat
        /\ net.multipart \in Multipart /\ net.held \in Nat
    BY <1>4, <1>7
  <2>4. /\ net.complete \in Nat /\ net.answers \in Seq(Answer) /\ net.front \in Spot
        /\ net.at \in Spot /\ net.base \in Nat /\ net.connections \in Nat
        /\ net.jar \in Nat /\ net.next \in Nat
    BY <1>3, <1>5, <1>8
  <2>5. net.sent \in [1..MaxRequests -> Nat]
    BY <1>8
  <2>3. /\ net.sessions \in SUBSET Nat /\ net.lost \in SUBSET Nat
        /\ net.closing \in SUBSET Nat /\ net.broken \in SUBSET Ways
        /\ net.op \in Ops /\ net.finish \in BOOLEAN
    BY <1>8 DEF Ops
  <2> QED
    BY <2>1, <2>2, <2>3, <2>4, <2>5 DEF Typed
<1>10. Lasting(net)
  BY <1>3, <1>5, <1>7, <1>8 DEF Lasting, Answers, One, Live
<1>11. Closed(net)
  BY <1>4, <1>7 DEF Closed
<1> QED
  BY <1>2, <1>6, <1>7, <1>8, <1>9, <1>10, <1>11 DEF WebInv, Scripted, Sure, Net, Good

(* The invariant is about the script too, which never changes. *)
LEMMA SameScript ==
  ASSUME WebInv, Sure(net'), script' = script, auto' = auto, slow' = slow
  PROVE  WebInv'
<1> DEFINE m == net'
<1>1. Net(net)' <=> Net(m)
  BY DEF Net, Rec, Typed
<1>2. Places' = Places
  <2>1. \A r : Length(r)' = Length(r)
    BY DEF Length
  <2> QED
    BY <2>1 DEF Places
<1>3. Answers(net)' <=> Answers(m)
  BY DEF Answers, Proper
<1>4. One(net)' <=> One(m)
  BY DEF One, Live, Cookie
<1>5. Lasting(net)' <=> Lasting(m)
  BY <1>2, <1>3, <1>4 DEF Lasting
<1>6. Counted(net)' <=> Counted(m)
  BY DEF Counted, Awaited, Early, Saving
<1>7. Fresh(net)' <=> Fresh(m)
  BY DEF Fresh, Pending
<1>8. Own(net)' <=> Own(m)
  BY DEF Own, Whole
<1>9. Between(net)' <=> Between(m)
  BY DEF Between, ToCall, Saving
<1>10. Heading(net)' <=> Heading(m)
  BY DEF Heading
<1>11. InBody(net)' <=> InBody(m)
  BY DEF InBody, ToCall
<1>12. Waits(net)' <=> Waits(m)
  BY DEF Waits
<1>13. Steady(net)' <=> Steady(m)
  BY <1>6, <1>7, <1>8, <1>9, <1>10, <1>11, <1>12 DEF Steady
<1>14. (Sinks(net)' <=> Sinks(m)) /\ (Closed(net)' <=> Closed(m))
  BY DEF Sinks, HasLine, LineEnd, Closed
<1>15. Good(net)' <=> Good(m)
  BY <1>5, <1>13, <1>14 DEF Good
<1>16. Sure(net)'
  BY <1>1, <1>15 DEF Sure
<1> QED
  BY <1>16 DEF WebInv

(* WebInv holds of every behaviour: each action of the model keeps it. *)
THEOREM WebServerInvariant == Spec => []WebInv
<1>1. Init => WebInv
  BY InitKeeps
<1>2. WebInv /\ [Next]_vars => WebInv'
  <2> SUFFICES ASSUME WebInv, [Next]_vars PROVE WebInv'
    OBVIOUS
  <2>1. CASE Connect
    BY <2>1, ConnectKeeps, SameScript
  <2>2. CASE Arrive
    BY <2>2, ArriveKeeps, SameScript
  <2>3. CASE SinkLine
    BY <2>3, SinkLineKeeps, SameScript
  <2>4. CASE SinkByte
    BY <2>4, SinkByteKeeps, SameScript
  <2>5. CASE Finish
    BY <2>5, FinishKeeps, SameScript
  <2>6. CASE FileClosed
    BY <2>6, FileClosedKeeps, SameScript
  <2>7. CASE Hangup \/ lw_ws_req_disconnect
    BY <2>7, HangupKeeps, SameScript
  <2>8. CASE UNCHANGED vars
    <3>1. net' = net /\ script' = script /\ auto' = auto /\ slow' = slow
      BY <2>8 DEF vars
    <3>2. Sure(net')
      BY <3>1 DEF WebInv
    <3> QED
      BY <3>1, <3>2, SameScript
  <2> QED
    BY <2>1, <2>2, <2>3, <2>4, <2>5, <2>6, <2>7, <2>8 DEF Next
<1> QED
  BY <1>1, <1>2, PTL DEF Spec

---------------------------------------------------------------------------
(* What WebInv is for. *)

(* InTurn: for every number of requests and connections and every script of      *)
(* requests, with whatever chunks and hooks, a browser gets one answer to each,   *)
(* in their order, with that request's items and no header or item of another.    *)
THEOREM AnswersInTurn == Spec => []InTurn
<1>1. WebInv => InTurn
  <2> SUFFICES ASSUME WebInv PROVE InTurn
    OBVIOUS
  <2>1. Sure(net) /\ net.broken \cap {"unanswered", "answered twice"} = {}
    BY DEF WebInv, Sure, Bad
  <2>2. ASSUME net.broken = {}, NEW i \in DOMAIN net.answers
        PROVE  LET a == net.answers[i] IN
               /\ a.r = net.base + i - 1
               /\ a.items = IF script[a.r] \in {"post", "form"} THEN {a.r}
                            ELSE a.items \cap {a.r}
               /\ a.headers \subseteq {a.r}
    <3>1. Answers(net) /\ net.answers \in Seq(Answer)
      BY <2>1, <2>2 DEF Sure, Good, Lasting, Net, Typed
    <3>2. i \in 1..Len(net.answers)
      BY <2>2, <3>1
    <3> QED
      BY <3>1, <3>2 DEF Answers, Proper
  <2>3. ASSUME Sound, ~net.shut PROVE Counted(net)
    BY <2>1, <2>3 DEF Sound, Sure, Good, Steady
  <2> QED
    BY <2>1, <2>2, <2>3 DEF InTurn, Counted, Awaited, Early
<1> QED
  BY <1>1, WebServerInvariant, PTL

(* Told: an application that keeps a request is told when its connection ends, *)
(* and no other is.                                                            *)
THEOREM ToldIfKept == Spec => []Told
<1>1. WebInv => Told
  BY DEF WebInv, Sure, Good, Closed, Told
<1> QED
  BY <1>1, WebServerInvariant, PTL

(* Prompt: once a request is answered and the sink has ended, nothing that could *)
(* be parsed waits for bytes that may never come.                                *)
THEOREM NothingWaits == Spec => []Prompt
<1>1. WebInv => Prompt
  <2> SUFFICES ASSUME WebInv, Sound, net.responded, ~net.sinking
               PROVE  IF net.parsing THEN ~HasLine(net) ELSE net.front = net.at
    BY DEF Prompt
  <2>1. Scripted /\ Lasting(net) /\ Steady(net) /\ ~HasLine(net)
    BY DEF WebInv, Sure, Good, Sinks, Sound, Scripted
  <2>2. ASSUME ~net.parsing PROVE net.front = net.at
    <3>1. InBody(net) /\ ~Before(net.at, net.front)
      BY <2>1, <2>2 DEF Steady, Between, Heading
    <3>2. net.front.j # 1
      <4>1. net.front.j \in Nat /\ net.front.j >= 4
        BY <2>1, <3>1, Spots DEF InBody, Lasting
      <4> QED
        BY <4>1
    <3>3. ~Before(net.front, net.at)
      BY <2>1, <3>2 DEF HasLine, LineEnd
    <3>4. /\ net.front = Place(net.front.r, net.front.j) /\ net.at = Place(net.at.r, net.at.j)
          /\ net.front.r \in Nat /\ net.front.j \in Nat /\ net.at.r \in Nat /\ net.at.j \in Nat
      BY <2>1, Spots DEF Lasting, Spot
    <3>5. net.front.r = net.at.r /\ net.front.j = net.at.j
      BY <3>1, <3>3, <3>4 DEF Before
    <3> QED
      BY <3>4, <3>5
  <2> QED
    BY <2>1, <2>2
<1> QED
  BY <1>1, WebServerInvariant, PTL

(* OneSession: a browser that waits for its answers has one session, however often *)
(* the application writes it or closes it.                                         *)
THEOREM BrowserHasOneSession == Spec => []OneSession
<1>1. WebInv => OneSession
  <2> SUFFICES ASSUME WebInv, net.broken = {}, ~net.ahead
               PROVE  net.sessions \ net.lost \subseteq
                          {net.jar} \cup (IF net.changed THEN {net.cookie} ELSE {})
    BY DEF OneSession
  <2>1. One(net)
    BY DEF WebInv, Sure, Good, Lasting
  <2> QED
    BY <2>1 DEF One, Live, Cookie
<1> QED
  BY <1>1, WebServerInvariant, PTL
=============================================================================
