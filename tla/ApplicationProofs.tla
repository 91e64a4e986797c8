-------------------------- MODULE ApplicationProofs -------------------------
(***************************************************************************)
(* Proofs about EventPump and about Application on it: posted calls run in *)
(* the order of their posts (InOrder), no event reaches a watch that was   *)
(* freed (NoStaleWatch), and no thread of the program uses an object that  *)
(* main() has deleted (Outlives), for any number of descriptors, calls,    *)
(* clients and arrivals, on every build and in every mode.                 *)
(*                                                                         *)
(* The invariant, AppInv, has a part for the pump and one for the program. *)
(*   - Unix: what is left of the pipe and of signalparams, two queues, can *)
(*     be read side by side (Paired): functions n and m say how many calls *)
(*     and how many parameters are behind each signal.  No function of the *)
(*     queues says so without recursion, so the two are quantified.  The   *)
(*     events that are drained hold each descriptor once, and a removal at *)
(*     the head of the pipe is for none that follows an event of the pipe  *)
(*     (Drained): that is what lets a watch be freed within a batch.       *)
(*   - Windows: the posts in the port are what is left to be done, less    *)
(*     one in the watcher's hands (Counted), and no completion of a        *)
(*     descriptor is behind the post of its removal (OnWindows).           *)
(*   - The program: Shutdown posts the exit after its other calls          *)
(*     (ExitsLast), and main() deletes after the loop has ended and the    *)
(*     timer's thread is joined (Deletes).                                 *)
(* Main thread and watcher take turns with what the watcher drained        *)
(* (Handshake).                                                            *)
(***************************************************************************)
EXTENDS Application, FiniteSetTheorems, TLAPS

(***************************************************************************)
(* What is left of a queue, and what has been done.                        *)
(***************************************************************************)

(* The calls that are posted, the packets of the completion port.          *)
Task == ({"call"} \X Calls) \cup ({"remove_proc"} \X Fds) \cup {<<"tick", "timer">>}
Packet == ({"io"} \X Fds) \cup {<<"exit">>, <<"end">>}
             \cup {<<"post", f[1], f[2]>> : f \in Task}

(* A packet that is a post, and the call it is of.                         *)
Posts(packet) == packet[1] = "post"
Posted(packet) == <<packet[2], packet[3]>>

(* What was done is how all that is to be done begins.                     *)
Begins(done, all) == Len(done) <= Len(all) /\ \A i \in 1 .. Len(done) : done[i] = all[i]

(* The posts in a queue are, in order, what is left to be done.            *)
InStep(queue, done, all) ==
    /\ Begins(done, all)
    /\ \E n \in [0 .. Len(queue) -> 0 .. Len(all)] :
          /\ n[0] = Len(done) /\ n[Len(queue)] = Len(all)
          /\ \A i \in 1 .. Len(queue) :
                IF Posts(queue[i]) THEN n[i] = n[i - 1] + 1 /\ all[n[i]] = Posted(queue[i])
                                   ELSE n[i] = n[i - 1]

(* A packet of three fields is known by them.                              *)
LEMMA Triple ==
    ASSUME NEW a, NEW b
    PROVE  <<"post">> \o <<a, b>> = <<"post", a, b>>
<1> DEFINE S == {"post", a, b}
           s == <<"post">> \o <<a, b>>
<1>1. ASSUME NEW T, NEW t \in Seq(T), Len(t) = 3
      PROVE  t = <<t[1], t[2], t[3]>>
  BY <1>1
<1>2. /\ <<"post">> \in Seq(S) /\ <<a, b>> \in Seq(S)
      /\ Len(<<"post">>) = 1 /\ Len(<<a, b>>) = 2
  OBVIOUS
<1>3. s \in Seq(S) /\ Len(s) = 3 /\ s[1] = "post" /\ s[2] = a /\ s[3] = b
  BY <1>2
<1> HIDE DEF s, S
<1>4. s = <<s[1], s[2], s[3]>>
  BY <1>1, <1>3
<1> QED BY <1>3, <1>4 DEF s

(* Which packets are posts, and of which call.                             *)
LEMMA PacketFacts ==
    /\ \A f \in Task : /\ f = <<f[1], f[2]>> /\ <<"post">> \o f = <<"post", f[1], f[2]>>
                       /\ <<"post">> \o f \in Packet
    /\ \A x \in Packet : Posts(x) => Tail(x) = Posted(x) /\ Posted(x) \in Task
    /\ \A f \in Fds : <<"io", f>> \in Packet /\ ~Posts(<<"io", f>>)
    /\ <<"exit">> \in Packet /\ ~Posts(<<"exit">>)
    /\ <<"end">> \in Packet /\ ~Posts(<<"end">>)
<1>1. \A f \in Task : /\ f = <<f[1], f[2]>> /\ <<"post">> \o f = <<"post", f[1], f[2]>>
                       /\ <<"post">> \o f \in Packet
  <2> SUFFICES ASSUME NEW f \in Task
               PROVE  /\ f = <<f[1], f[2]>> /\ <<"post">> \o f = <<"post", f[1], f[2]>>
                      /\ <<"post">> \o f \in Packet
    OBVIOUS
  <2>1. f = <<f[1], f[2]>>
    BY DEF Task
  <2>2. <<"post">> \o <<f[1], f[2]>> = <<"post", f[1], f[2]>>
    BY Triple
  <2>3. <<"post", f[1], f[2]>> \in Packet
    BY DEF Packet
  <2> QED BY <2>1, <2>2, <2>3
<1>2. \A x \in Packet : Posts(x) => Tail(x) = Posted(x) /\ Posted(x) \in Task
  <2> SUFFICES ASSUME NEW x \in Packet, Posts(x)
               PROVE  Tail(x) = Posted(x) /\ Posted(x) \in Task
    OBVIOUS
  <2>1. PICK f \in Task : x = <<"post", f[1], f[2]>>
    BY DEF Packet, Posts
  <2>2. Tail(x) = <<f[1], f[2]>> /\ Posted(x) = <<f[1], f[2]>>
    BY <2>1 DEF Posted
  <2> QED BY <1>1, <2>2
<1>3. /\ \A f \in Fds : <<"io", f>> \in Packet /\ ~Posts(<<"io", f>>)
      /\ <<"exit">> \in Packet /\ ~Posts(<<"exit">>)
      /\ <<"end">> \in Packet /\ ~Posts(<<"end">>)
  BY DEF Packet, Posts
<1> QED BY <1>1, <1>2, <1>3

(* A call is posted: it joins the queue and what is to be done.            *)
LEMMA InStepPost ==
    ASSUME NEW queue \in Seq(Packet), NEW done \in Seq(Task), NEW all \in Seq(Task),
           InStep(queue, done, all), NEW f \in Task
    PROVE  InStep(Append(queue, <<"post">> \o f), done, Append(all, f))
<1>1. PICK n \in [0 .. Len(queue) -> 0 .. Len(all)] :
          /\ n[0] = Len(done) /\ n[Len(queue)] = Len(all)
          /\ \A i \in 1 .. Len(queue) :
                IF Posts(queue[i]) THEN n[i] = n[i - 1] + 1 /\ all[n[i]] = Posted(queue[i])
                                   ELSE n[i] = n[i - 1]
  BY DEF InStep
<1> DEFINE q == Append(queue, <<"post">> \o f)
           a == Append(all, f)
           m == [i \in 0 .. Len(q) |-> IF i <= Len(queue) THEN n[i] ELSE Len(all) + 1]
<1>2. /\ Len(q) = Len(queue) + 1 /\ Len(a) = Len(all) + 1 /\ Len(queue) \in Nat /\ Len(all) \in Nat
      /\ a[Len(a)] = f /\ \A i \in 1 .. Len(all) : a[i] = all[i]
      /\ \A i \in 1 .. Len(queue) : q[i] = queue[i]
      /\ q[Len(q)] = <<"post", f[1], f[2]>> /\ f = <<f[1], f[2]>>
  BY PacketFacts
<1> HIDE DEF q, a
<1>3. Posts(q[Len(q)]) /\ Posted(q[Len(q)]) = f
  BY <1>2 DEF Posts, Posted
<1>4. m \in [0 .. Len(q) -> 0 .. Len(a)]
  BY <1>1, <1>2
<1>5. m[0] = Len(done) /\ m[Len(q)] = Len(a)
  BY <1>1, <1>2
<1>6. ASSUME NEW i \in 1 .. Len(q)
      PROVE  IF Posts(q[i]) THEN m[i] = m[i - 1] + 1 /\ a[m[i]] = Posted(q[i])
                            ELSE m[i] = m[i - 1]
  <2>1. CASE i = Len(q)
    <3>1. i - 1 = Len(queue) /\ m[i] = Len(all) + 1 /\ m[i - 1] = Len(all)
      BY <1>1, <1>2, <2>1
    <3>2. a[m[i]] = f
      BY <1>2, <3>1
    <3> QED BY <1>2, <1>3, <2>1, <3>1, <3>2
  <2>2. CASE i \in 1 .. Len(queue)
    <3>1. m[i] = n[i] /\ m[i - 1] = n[i - 1] /\ q[i] = queue[i]
      BY <1>2, <2>2
    <3>2. n[i] = n[i - 1] + 1 => n[i] \in 1 .. Len(all)
      BY <1>1, <1>2, <2>2
    <3> QED BY <1>1, <1>2, <2>2, <3>1, <3>2
  <2> QED BY <1>2, <2>1, <2>2
<1>7. Begins(done, a)
  BY <1>2 DEF InStep, Begins
<1> QED BY <1>4, <1>5, <1>6, <1>7 DEF InStep, q, a

(* Another packet joins the queue.                                         *)
LEMMA InStepOther ==
    ASSUME NEW queue \in Seq(Packet), NEW done \in Seq(Task), NEW all \in Seq(Task),
           InStep(queue, done, all), NEW x, ~Posts(x)
    PROVE  InStep(Append(queue, x), done, all)
<1>1. PICK n \in [0 .. Len(queue) -> 0 .. Len(all)] :
          /\ n[0] = Len(done) /\ n[Len(queue)] = Len(all)
          /\ \A i \in 1 .. Len(queue) :
                IF Posts(queue[i]) THEN n[i] = n[i - 1] + 1 /\ all[n[i]] = Posted(queue[i])
                                   ELSE n[i] = n[i - 1]
  BY DEF InStep
<1> DEFINE q == Append(queue, x)
           m == [i \in 0 .. Len(q) |-> IF i <= Len(queue) THEN n[i] ELSE Len(all)]
<1>2. /\ Len(q) = Len(queue) + 1 /\ Len(queue) \in Nat /\ Len(all) \in Nat
      /\ \A i \in 1 .. Len(queue) : q[i] = queue[i]
      /\ q[Len(q)] = x
  OBVIOUS
<1> HIDE DEF q
<1>3. m \in [0 .. Len(q) -> 0 .. Len(all)] /\ m[0] = Len(done) /\ m[Len(q)] = Len(all)
  BY <1>1, <1>2
<1>4. ASSUME NEW i \in 1 .. Len(q)
      PROVE  IF Posts(q[i]) THEN m[i] = m[i - 1] + 1 /\ all[m[i]] = Posted(q[i])
                            ELSE m[i] = m[i - 1]
  <2>1. CASE i \in 1 .. Len(queue)
    <3>1. m[i] = n[i] /\ m[i - 1] = n[i - 1] /\ q[i] = queue[i]
      BY <1>2, <2>1
    <3> QED BY <1>1, <2>1, <3>1
  <2>2. CASE i = Len(queue) + 1
    <3>1. m[i] = Len(all) /\ m[i - 1] = n[Len(queue)] /\ q[i] = x
      BY <1>2, <2>2
    <3> QED BY <1>1, <3>1
  <2> QED BY <1>2, <2>1, <2>2
<1> QED BY <1>3, <1>4 DEF InStep, q

(* The packet at the head is taken, and done if it is a post.              *)
LEMMA InStepTake ==
    ASSUME NEW queue \in Seq(Packet), NEW done \in Seq(Task), NEW all \in Seq(Task),
           InStep(queue, done, all), queue # <<>>
    PROVE  /\ Posts(Head(queue)) => InStep(Tail(queue), Append(done, Posted(Head(queue))), all)
           /\ ~Posts(Head(queue)) => InStep(Tail(queue), done, all)
<1>1. PICK n \in [0 .. Len(queue) -> 0 .. Len(all)] :
          /\ n[0] = Len(done) /\ n[Len(queue)] = Len(all)
          /\ \A i \in 1 .. Len(queue) :
                IF Posts(queue[i]) THEN n[i] = n[i - 1] + 1 /\ all[n[i]] = Posted(queue[i])
                                   ELSE n[i] = n[i - 1]
  BY DEF InStep
<1> DEFINE q == Tail(queue)
           x == Head(queue)
           m == [i \in 0 .. Len(q) |-> n[i + 1]]
<1>2. /\ Len(q) = Len(queue) - 1 /\ Len(queue) \in Nat \ {0} /\ Len(all) \in Nat /\ x = queue[1]
      /\ \A i \in 1 .. Len(q) : q[i] = queue[i + 1]
  OBVIOUS
<1> HIDE DEF q, x
<1>3. m \in [0 .. Len(q) -> 0 .. Len(all)] /\ m[0] = n[1] /\ m[Len(q)] = Len(all)
  BY <1>1, <1>2
<1>4. ASSUME NEW i \in 1 .. Len(q)
      PROVE  IF Posts(q[i]) THEN m[i] = m[i - 1] + 1 /\ all[m[i]] = Posted(q[i])
                            ELSE m[i] = m[i - 1]
  <2>1. m[i] = n[i + 1] /\ m[i - 1] = n[i] /\ q[i] = queue[i + 1] /\ i + 1 \in 1 .. Len(queue)
    BY <1>2
  <2> QED BY <1>1, <2>1
<1>5. IF Posts(x) THEN n[1] = Len(done) + 1 /\ all[n[1]] = Posted(x) ELSE n[1] = Len(done)
  BY <1>1, <1>2
<1>6. CASE Posts(x)
  <2> DEFINE d == Append(done, Posted(x))
  <2>1. /\ Len(d) = Len(done) + 1 /\ d[Len(d)] = Posted(x)
        /\ \A i \in 1 .. Len(done) : d[i] = done[i]
    OBVIOUS
  <2> HIDE DEF d
  <2>2. Begins(d, all)
    <3>1. n[1] \in 0 .. Len(all) /\ n[1] = Len(d) /\ all[Len(d)] = Posted(x) /\ Len(done) \in Nat
      BY <1>1, <1>2, <1>5, <1>6, <2>1
    <3>2. \A i \in 1 .. Len(done) : done[i] = all[i]
      BY DEF InStep, Begins
    <3>3. ASSUME NEW i \in 1 .. Len(d)
          PROVE  d[i] = all[i]
      <4>1. i \in 1 .. Len(done) \/ i = Len(d)
        BY <2>1, <3>1
      <4> QED BY <2>1, <3>1, <3>2, <4>1
    <3>4. Len(d) <= Len(all)
      BY <1>2, <3>1
    <3> QED BY <3>3, <3>4 DEF Begins
  <2>3. m[0] = Len(d)
    BY <1>3, <1>5, <1>6, <2>1
  <2> HIDE DEF m
  <2>4. InStep(q, d, all)
    BY <1>3, <1>4, <2>2, <2>3 DEF InStep
  <2> QED BY <1>6, <2>4 DEF d, q, x
<1>7. CASE ~Posts(x)
  <2> HIDE DEF m
  <2>1. InStep(q, done, all)
    BY <1>1, <1>3, <1>4, <1>5, <1>7 DEF InStep
  <2> QED BY <1>7, <2>1 DEF q, x
<1> QED BY <1>6, <1>7

Signals == {"post", "remove", "exit"}
Params == {"call", "remove_proc", "tick", "timer"} \cup Calls \cup Fds

(* Signal i of the pipe is read with the parameters after the m[i - 1]-th: *)
(* a post's are the call that is next to be done, a removal's a watch that *)
(* nothing more is heard of.                                               *)
Read(pipe, params, all, buried, n, m, i) ==
    \/ pipe[i] = "post" /\ n[i] = n[i - 1] + 1 /\ m[i] = m[i - 1] + 2
       /\ all[n[i]] = <<params[m[i] - 1], params[m[i]]>>
    \/ pipe[i] = "remove" /\ n[i] = n[i - 1] /\ m[i] = m[i - 1] + 1 /\ params[m[i]] \in buried
    \/ pipe[i] = "exit" /\ n[i] = n[i - 1] /\ m[i] = m[i - 1]

Matched(pipe, params, done, all, buried, n, m) ==
    /\ n \in [0 .. Len(pipe) -> 0 .. Len(all)] /\ n[0] = Len(done) /\ n[Len(pipe)] = Len(all)
    /\ m \in [0 .. Len(pipe) -> 0 .. Len(params)] /\ m[0] = 0 /\ m[Len(pipe)] = Len(params)
    /\ \A i, j \in 0 .. Len(pipe) : i <= j => m[i] <= m[j]
    /\ \A i \in 1 .. Len(pipe) : Read(pipe, params, all, buried, n, m, i)

Paired(pipe, params, done, all, buried) ==
    /\ Begins(done, all)
    /\ \E n, m : Matched(pipe, params, done, all, buried, n, m)

(***************************************************************************)
(* Unix: the pipe and the parameters of its signals.                       *)
(***************************************************************************)

(* t begins as s does.                                                     *)
Continues(s, t) == \A i \in 1 .. Len(s) : t[i] = s[i]

(* A signal is written, with what it brings to both queues.                *)
Came(signal, buried, a, N, ps, P) ==
    \/ /\ signal = "post" /\ Len(a) = N + 1 /\ Len(ps) = P + 2
       /\ a[N + 1] = <<ps[P + 1], ps[P + 2]>>
    \/ signal = "remove" /\ Len(a) = N /\ Len(ps) = P + 1 /\ ps[P + 1] \in buried
    \/ signal = "exit" /\ Len(a) = N /\ Len(ps) = P

More(pipe, params, all, buried, q, ps, a) ==
    /\ Len(pipe) \in Nat /\ Len(params) \in Nat /\ Len(all) \in Nat
    /\ Len(q) = Len(pipe) + 1
    /\ Continues(pipe, q) /\ Continues(params, ps) /\ Continues(all, a)
    /\ Came(q[Len(pipe) + 1], buried, a, Len(all), ps, Len(params))

(* Queues that could be read side by side still can with one signal more.  *)
LEMMA MatchedMore ==
    ASSUME NEW pipe, NEW params, NEW done, NEW all, NEW buried, NEW n, NEW m,
           Matched(pipe, params, done, all, buried, n, m),
           NEW q, NEW ps, NEW a, More(pipe, params, all, buried, q, ps, a)
    PROVE  \E k, r : Matched(q, ps, done, a, buried, k, r)
<1> DEFINE L == Len(pipe)
           P == Len(params)
           N == Len(all)
           M == Len(a)
           R == Len(ps)
<1>a. /\ L \in Nat /\ P \in Nat /\ N \in Nat /\ M \in {N, N + 1} /\ R \in {P, P + 1, P + 2}
      /\ Len(q) = L + 1
  BY DEF More, Came
<1>b. /\ \A i \in 1 .. L : q[i] = pipe[i]
      /\ \A i \in 1 .. P : ps[i] = params[i]
      /\ \A i \in 1 .. N : a[i] = all[i]
  BY DEF More, Continues
<1>c. Came(q[L + 1], buried, a, N, ps, P)
  BY DEF More
<1>1. /\ n \in [0 .. L -> 0 .. N] /\ n[0] = Len(done) /\ n[L] = N
      /\ m \in [0 .. L -> 0 .. P] /\ m[0] = 0 /\ m[L] = P
  BY <1>a DEF Matched
<1>2. \A i, j \in 0 .. L : i <= j => m[i] <= m[j]
  BY DEF Matched
<1>3. \A i \in 1 .. L : Read(pipe, params, all, buried, n, m, i)
  BY DEF Matched
<1> HIDE DEF L, P, N, M, R
<1> DEFINE k == [i \in 0 .. L + 1 |-> IF i <= L THEN n[i] ELSE M]
           r == [i \in 0 .. L + 1 |-> IF i <= L THEN m[i] ELSE R]
<1>4. /\ k \in [0 .. L + 1 -> 0 .. M] /\ k[L + 1] = M /\ \A i \in 0 .. L : k[i] = n[i]
  BY <1>a, <1>1
<1>5. /\ r \in [0 .. L + 1 -> 0 .. R] /\ r[L + 1] = R /\ \A i \in 0 .. L : r[i] = m[i]
  BY <1>a, <1>1
<1> HIDE DEF k, r
<1>6. ASSUME NEW i \in 0 .. L + 1, NEW j \in 0 .. L + 1, i <= j
      PROVE  r[i] <= r[j]
  <2>1. CASE j = L + 1
    BY <1>a, <1>5, <2>1
  <2>2. CASE j # L + 1
    <3>1. i \in 0 .. L /\ j \in 0 .. L
      BY <1>a, <1>6, <2>2
    <3> QED BY <1>2, <1>5, <1>6, <3>1
  <2> QED BY <2>1, <2>2
<1>7. ASSUME NEW i \in 1 .. L + 1
      PROVE  Read(q, ps, a, buried, k, r, i)
  <2>1. CASE i = L + 1
    <3>1. i - 1 = L /\ L \in 0 .. L
      BY <1>a, <2>1
    <3>2. k[i] = M /\ k[i - 1] = N /\ r[i] = R /\ r[i - 1] = P
      BY <1>1, <1>4, <1>5, <2>1, <3>1
    <3>3. CASE q[i] = "post"
      <4>1. R = P + 2 /\ M = N + 1 /\ a[N + 1] = <<ps[P + 1], ps[P + 2]>>
        BY <1>c, <2>1, <3>3 DEF Came, M, R
      <4>2. r[i] = r[i - 1] + 2 /\ k[i] = k[i - 1] + 1 /\ r[i] = P + 2 /\ r[i] - 1 = P + 1 /\ k[i] = N + 1
        BY <1>a, <3>2, <4>1
      <4> QED BY <3>3, <4>1, <4>2 DEF Read
    <3>4. CASE q[i] # "post"
      BY <1>c, <2>1, <3>2, <3>4 DEF Came, Read, M, R
    <3> QED BY <3>3, <3>4
  <2>2. CASE i \in 1 .. L
    <3>1. i \in 0 .. L /\ i - 1 \in 0 .. L
      BY <1>a, <2>2
    <3>2. k[i] = n[i] /\ k[i - 1] = n[i - 1] /\ r[i] = m[i] /\ r[i - 1] = m[i - 1] /\ q[i] = pipe[i]
      BY <1>b, <1>4, <1>5, <2>2, <3>1
    <3>3. n[i] \in 0 .. N /\ n[i - 1] \in 0 .. N /\ m[i] \in 0 .. P /\ m[i - 1] \in 0 .. P
      BY <1>1, <3>1
    <3>4. Read(pipe, params, all, buried, n, m, i)
      BY <1>3, <2>2
    <3>5. CASE pipe[i] = "post"
      <4>1. /\ n[i] = n[i - 1] + 1 /\ m[i] = m[i - 1] + 2
            /\ all[n[i]] = <<params[m[i] - 1], params[m[i]]>>
        BY <3>4, <3>5 DEF Read
      <4>2. n[i] \in 1 .. N /\ m[i] \in 1 .. P /\ m[i] - 1 \in 1 .. P
        <5>1. n[i] = n[i - 1] + 1 /\ m[i] = m[i - 1] + 2
          BY <4>1
        <5>2. n[i] \in 1 .. N
          BY <1>a, <3>3, <5>1
        <5>3. m[i] \in 2 .. P
          BY <1>a, <3>3, <5>1
        <5> QED BY <1>a, <5>2, <5>3
      <4>3. a[n[i]] = all[n[i]] /\ ps[m[i]] = params[m[i]] /\ ps[m[i] - 1] = params[m[i] - 1]
        BY <1>b, <4>2
      <4> QED BY <3>2, <3>5, <4>1, <4>3 DEF Read
    <3>6. CASE pipe[i] = "remove"
      <4>1. n[i] = n[i - 1] /\ m[i] = m[i - 1] + 1 /\ params[m[i]] \in buried
        BY <3>4, <3>6 DEF Read
      <4>2. m[i] \in 1 .. P
        BY <1>a, <3>3, <4>1
      <4> QED BY <1>b, <3>2, <3>6, <4>1, <4>2 DEF Read
    <3>7. CASE pipe[i] \notin {"post", "remove"}
      BY <3>2, <3>4, <3>7 DEF Read
    <3> QED BY <3>5, <3>6, <3>7
  <2> QED BY <1>a, <2>1, <2>2
<1>8. k[0] = Len(done) /\ r[0] = 0
  BY <1>a, <1>1, <1>4, <1>5
<1>9. \A i, j \in 0 .. L + 1 : i <= j => r[i] <= r[j]
  BY <1>6
<1>10. Matched(q, ps, done, a, buried, k, r)
  BY <1>a, <1>4, <1>5, <1>7, <1>8, <1>9 DEF Matched, M, R
<1> QED BY <1>10

LEMMA PairedMore ==
    ASSUME NEW pipe \in Seq(Signals), NEW params \in Seq(Params), NEW done, NEW all \in Seq(Task),
           NEW buried, Paired(pipe, params, done, all, buried),
           NEW a \in Seq(Task), NEW e \in Seq(Params), NEW signal,
           \/ /\ signal = "post" /\ Len(e) = 2
              /\ \E f \in Task : a = Append(all, f) /\ f = <<e[1], e[2]>>
           \/ signal = "remove" /\ a = all /\ Len(e) = 1 /\ e[1] \in buried
           \/ signal = "exit" /\ a = all /\ Len(e) = 0
    PROVE  Paired(Append(pipe, signal), params \o e, done, a, buried)
<1>1. PICK n, m : Matched(pipe, params, done, all, buried, n, m)
  BY DEF Paired
<1> DEFINE q == Append(pipe, signal)
           ps == params \o e
<1>2. Len(pipe) \in Nat /\ Len(all) \in Nat /\ Len(params) \in Nat
  OBVIOUS
<1>3. /\ Len(q) = Len(pipe) + 1
      /\ q[Len(pipe) + 1] = signal /\ Continues(pipe, q)
  BY DEF Continues
<1>4. Len(ps) = Len(params) + Len(e) /\ Continues(params, ps)
  BY DEF Continues
<1>5. /\ Len(e) \in 1 .. 2 => ps[Len(params) + 1] = e[1]
      /\ Len(e) = 2 => ps[Len(params) + 2] = e[2]
  OBVIOUS
<1>6. /\ signal = "post" => Len(a) = Len(all) + 1 /\ a[Len(all) + 1] = <<e[1], e[2]>>
      /\ Len(a) >= Len(all)
      /\ Continues(all, a)
  <2>1. CASE a = all
    BY <1>2, <2>1 DEF Continues
  <2>2. CASE signal = "post"
    <3>1. PICK f \in Task : a = Append(all, f) /\ f = <<e[1], e[2]>>
      BY <2>2
    <3> HIDE DEF q, ps
    <3>2. Len(a) = Len(all) + 1 /\ a[Len(all) + 1] = f /\ \A i \in 1 .. Len(all) : a[i] = all[i]
      BY <3>1
    <3> QED BY <1>2, <2>2, <3>1, <3>2 DEF Continues
  <2> QED BY <2>1, <2>2
<1> HIDE DEF q, ps
<1>7. Came(signal, buried, a, Len(all), ps, Len(params))
  <2>1. CASE signal = "post"
    <3>1. Len(e) = 2
      BY <2>1
    <3>2. Len(ps) = Len(params) + 2 /\ ps[Len(params) + 1] = e[1] /\ ps[Len(params) + 2] = e[2]
      BY <1>4, <1>5, <3>1
    <3> QED BY <1>6, <2>1, <3>2 DEF Came
  <2>2. CASE signal = "remove"
    <3>1. Len(e) = 1 /\ a = all /\ e[1] \in buried
      BY <2>2
    <3>2. Len(ps) = Len(params) + 1 /\ ps[Len(params) + 1] = e[1]
      BY <1>4, <1>5, <3>1
    <3> QED BY <2>2, <3>1, <3>2 DEF Came
  <2>3. CASE signal = "exit"
    <3>1. Len(e) = 0 /\ a = all
      BY <2>3
    <3>2. Len(ps) = Len(params)
      BY <1>2, <1>4, <3>1
    <3> QED BY <2>3, <3>1, <3>2 DEF Came
  <2> QED BY <2>1, <2>2, <2>3
<1>8. \E k, r : Matched(q, ps, done, a, buried, k, r)
  <2>1. More(pipe, params, all, buried, q, ps, a)
    BY <1>2, <1>3, <1>4, <1>6, <1>7 DEF More
  <2> QED BY <1>1, <2>1, MatchedMore
<1>9. Begins(done, all)
  BY DEF Paired
<1>10. Begins(done, a)
  <2>1. Len(done) <= Len(a) /\ \A i \in 1 .. Len(done) : i \in 1 .. Len(all)
    BY <1>1, <1>2, <1>6, <1>9 DEF Begins, Matched
  <2> QED BY <1>6, <1>9, <2>1 DEF Begins, Continues
<1> QED BY <1>8, <1>10 DEF Paired, q, ps

(* More watches may be buried.                                             *)
LEMMA PairedBuried ==
    ASSUME NEW pipe, NEW params, NEW done, NEW all, NEW buried, NEW more, buried \subseteq more,
           Paired(pipe, params, done, all, buried)
    PROVE  Paired(pipe, params, done, all, more)
<1>1. PICK n, m : Matched(pipe, params, done, all, buried, n, m)
  BY DEF Paired
<1>2. \A i \in 1 .. Len(pipe) : Read(pipe, params, all, more, n, m, i)
  BY <1>1 DEF Matched, Read
<1> QED BY <1>1, <1>2 DEF Paired, Matched

(* One signal less, with the parameters it came with.                      *)
Follows(s, t, by) == \A i \in 1 .. Len(s) : s[i] = t[i + by]

Less(pipe, params, all, read, q, ps) ==
    /\ Len(pipe) \in Nat \ {0} /\ Len(params) \in Nat /\ Len(all) \in Nat
    /\ Len(q) = Len(pipe) - 1 /\ Follows(q, pipe, 1)
    /\ Len(ps) = Len(params) - read /\ Follows(ps, params, read)

LEMMA MatchedTake ==
    ASSUME NEW pipe, NEW params, NEW done, NEW all, NEW buried, NEW n, NEW m,
           Matched(pipe, params, done, all, buried, n, m),
           NEW q, NEW ps, Less(pipe, params, all, m[1], q, ps),
           NEW d, Len(d) = n[1]
    PROVE  \E k, r : Matched(q, ps, d, all, buried, k, r)
<1> DEFINE L == Len(q)
           P == Len(params)
           N == Len(all)
           x == m[1]
<1>a. L \in Nat /\ Len(pipe) = L + 1 /\ P \in Nat /\ N \in Nat /\ Len(ps) = P - x
  BY DEF Less
<1>b. \A i \in 1 .. L : q[i] = pipe[i + 1]
  BY DEF Less, Follows
<1>c. \A i \in 1 .. P - x : ps[i] = params[i + x]
  BY DEF Less, Follows
<1>1. /\ n \in [0 .. L + 1 -> 0 .. N] /\ n[L + 1] = N
      /\ m \in [0 .. L + 1 -> 0 .. P] /\ m[L + 1] = P
  BY <1>a DEF Matched
<1>2. \A i, j \in 0 .. L + 1 : i <= j => m[i] <= m[j]
  BY <1>a DEF Matched
<1>3. \A i \in 1 .. L + 1 : Read(pipe, params, all, buried, n, m, i)
  BY <1>a DEF Matched
<1>d. 1 \in 0 .. L + 1 /\ x = m[1] /\ x \in 0 .. P
  BY <1>a, <1>1
<1> HIDE DEF L, P, N, x
<1> DEFINE k == [i \in 0 .. L |-> n[i + 1]]
           r == [i \in 0 .. L |-> m[i + 1] - x]
<1>4. \A i \in 0 .. L : x <= m[i + 1] /\ m[i + 1] \in 0 .. P /\ x \in 0 .. P
  <2> SUFFICES ASSUME NEW i \in 0 .. L
               PROVE  x <= m[i + 1] /\ m[i + 1] \in 0 .. P /\ x \in 0 .. P
    OBVIOUS
  <2>1. i + 1 \in 0 .. L + 1 /\ 1 \in 0 .. L + 1 /\ 1 <= i + 1
    BY <1>a
  <2>2. m[1] <= m[i + 1] /\ m[i + 1] \in 0 .. P
    BY <1>1, <1>2, <2>1
  <2> QED BY <1>d, <2>2
<1>5. k \in [0 .. L -> 0 .. N] /\ k[L] = N /\ \A i \in 0 .. L : k[i] = n[i + 1]
  BY <1>a, <1>1
<1>6. \A i \in 0 .. L : m[i + 1] - x \in 0 .. P - x
  BY <1>a, <1>4
<1>7. /\ r \in [0 .. L -> 0 .. P - x] /\ r[L] = P - x
      /\ \A i \in 0 .. L : r[i] = m[i + 1] - x
  BY <1>a, <1>1, <1>6
<1> HIDE DEF k, r
<1>8. ASSUME NEW i \in 0 .. L, NEW j \in 0 .. L, i <= j
      PROVE  r[i] <= r[j]
  <2>1. i + 1 \in 0 .. L + 1 /\ j + 1 \in 0 .. L + 1 /\ i + 1 <= j + 1
    BY <1>a, <1>8
  <2>2. m[i + 1] <= m[j + 1]
    BY <1>2, <2>1
  <2>3. /\ r[i] = m[i + 1] - x /\ r[j] = m[j + 1] - x /\ x \in 0 .. P
        /\ m[i + 1] \in 0 .. P /\ m[j + 1] \in 0 .. P
    BY <1>4, <1>7
  <2> QED BY <1>a, <2>2, <2>3
<1>9. ASSUME NEW i \in 1 .. L
      PROVE  Read(q, ps, all, buried, k, r, i)
  <2>1. i \in 0 .. L /\ i - 1 \in 0 .. L /\ (i - 1) + 1 = i /\ i + 1 \in 1 .. L + 1 /\ (i + 1) - 1 = i
    BY <1>a
  <2>2. /\ k[i] = n[i + 1] /\ k[i - 1] = n[i] /\ r[i] = m[i + 1] - x /\ r[i - 1] = m[i] - x
        /\ q[i] = pipe[i + 1]
    BY <1>b, <1>5, <1>7, <2>1
  <2>3. /\ m[i] \in 0 .. P /\ m[i + 1] \in 0 .. P /\ x <= m[i] /\ x \in 0 .. P
    BY <1>4, <2>1
  <2>4. Read(pipe, params, all, buried, n, m, i + 1)
    BY <1>3, <2>1
  <2>5. CASE pipe[i + 1] = "post"
    <3>1. /\ n[i + 1] = n[i] + 1 /\ m[i + 1] = m[i] + 2
          /\ all[n[i + 1]] = <<params[m[i + 1] - 1], params[m[i + 1]]>>
      BY <2>1, <2>4, <2>5 DEF Read
    <3>2. /\ r[i] \in 1 .. P - x /\ r[i] - 1 \in 1 .. P - x /\ r[i] = r[i - 1] + 2
          /\ r[i] + x = m[i + 1] /\ (r[i] - 1) + x = m[i + 1] - 1
      <4> DEFINE y == m[i]
                 z == m[i + 1]
                 u == r[i]
                 v == r[i - 1]
      <4>1. y \in 0 .. P /\ z \in 0 .. P /\ x <= y /\ x \in 0 .. P /\ z = y + 2 /\ u = z - x /\ v = y - x
        BY <2>2, <2>3, <3>1
      <4> HIDE DEF y, z, u, v
      <4>2. u \in 1 .. P - x /\ u - 1 \in 1 .. P - x /\ u = v + 2 /\ u + x = z /\ (u - 1) + x = z - 1
        BY <1>a, <4>1
      <4> QED BY <4>2 DEF y, z, u, v
    <3>3. ps[r[i]] = params[m[i + 1]] /\ ps[r[i] - 1] = params[m[i + 1] - 1]
      BY <1>c, <3>2
    <3> QED BY <2>2, <2>5, <3>1, <3>2, <3>3 DEF Read
  <2>6. CASE pipe[i + 1] = "remove"
    <3>1. n[i + 1] = n[i] /\ m[i + 1] = m[i] + 1 /\ params[m[i + 1]] \in buried
      BY <2>1, <2>4, <2>6 DEF Read
    <3>2. r[i] \in 1 .. P - x /\ r[i] = r[i - 1] + 1 /\ r[i] + x = m[i + 1]
      <4> DEFINE y == m[i]
                 z == m[i + 1]
                 u == r[i]
                 v == r[i - 1]
      <4>1. y \in 0 .. P /\ z \in 0 .. P /\ x <= y /\ x \in 0 .. P /\ z = y + 1 /\ u = z - x /\ v = y - x
        BY <2>2, <2>3, <3>1
      <4> HIDE DEF y, z, u, v
      <4>2. u \in 1 .. P - x /\ u = v + 1 /\ u + x = z
        BY <1>a, <4>1
      <4> QED BY <4>2 DEF y, z, u, v
    <3>3. ps[r[i]] = params[m[i + 1]]
      BY <1>c, <3>2
    <3> QED BY <2>2, <2>6, <3>1, <3>2, <3>3 DEF Read
  <2>7. CASE pipe[i + 1] \notin {"post", "remove"}
    <3>1. pipe[i + 1] = "exit" /\ n[i + 1] = n[i] /\ m[i + 1] = m[i]
      BY <2>1, <2>4, <2>7 DEF Read
    <3> QED BY <2>2, <3>1 DEF Read
  <2> QED BY <2>5, <2>6, <2>7
<1>10. k[0] = n[1] /\ r[0] = 0
  <2>1. 0 \in 0 .. L /\ 0 + 1 = 1
    BY <1>a
  <2>2. r[0] = x - x
    BY <1>d, <1>7, <2>1
  <2> QED BY <1>a, <1>d, <1>5, <2>1, <2>2
<1>11. \A i, j \in 0 .. L : i <= j => r[i] <= r[j]
  BY <1>8
<1>12. Matched(q, ps, d, all, buried, k, r)
  BY <1>a, <1>5, <1>7, <1>9, <1>10, <1>11 DEF Matched, L, P, N
<1> QED BY <1>12

LEMMA TailTwice ==
    ASSUME NEW S, NEW s \in Seq(S), Len(s) >= 2
    PROVE  /\ s # <<>> /\ Head(s) = s[1] /\ Tail(s) # <<>> /\ Head(Tail(s)) = s[2]
           /\ Len(Tail(Tail(s))) = Len(s) - 2 /\ Follows(Tail(Tail(s)), s, 2)
<1>1. s # <<>> /\ Head(s) = s[1]
  OBVIOUS
<1>2. /\ Tail(s) \in Seq(S) /\ Len(Tail(s)) = Len(s) - 1
      /\ \A i \in 1 .. Len(s) - 1 : Tail(s)[i] = s[i + 1]
  BY <1>1
<1>3. Len(s) \in Nat
  OBVIOUS
<1> DEFINE t == Tail(s)
<1>4. t \in Seq(S) /\ Len(t) = Len(s) - 1 /\ \A i \in 1 .. Len(s) - 1 : t[i] = s[i + 1]
  BY <1>2
<1> HIDE DEF t
<1>5. t # <<>> /\ Head(t) = s[2]
  BY <1>3, <1>4
<1>6. Len(Tail(t)) = Len(s) - 2 /\ \A i \in 1 .. Len(s) - 2 : Tail(t)[i] = t[i + 1]
  BY <1>3, <1>4, <1>5
<1>7. Follows(Tail(t), s, 2)
  BY <1>3, <1>4, <1>6 DEF Follows
<1> QED BY <1>1, <1>5, <1>6, <1>7 DEF t

(* The signal that is read finds its parameters at the head of theirs.     *)
LEMMA PairedTake ==
    ASSUME NEW pipe \in Seq(Signals), NEW params \in Seq(Params), NEW done \in Seq(Task),
           NEW all \in Seq(Task),
           NEW buried, Paired(pipe, params, done, all, buried), pipe # <<>>
    PROVE  /\ Head(pipe) = "exit" => Paired(Tail(pipe), params, done, all, buried)
           /\ Head(pipe) = "remove" =>
                 /\ params # <<>> /\ Head(params) \in buried
                 /\ Paired(Tail(pipe), Tail(params), done, all, buried)
           /\ Head(pipe) = "post" =>
                 /\ params # <<>> /\ Tail(params) # <<>>
                 /\ <<Head(params), Head(Tail(params))>> \in Task
                 /\ Paired(Tail(pipe), Tail(Tail(params)),
                           Append(done, <<Head(params), Head(Tail(params))>>), all, buried)
<1>1. PICK n, m : Matched(pipe, params, done, all, buried, n, m)
  BY DEF Paired
<1> DEFINE q == Tail(pipe)
<1>2. /\ Len(pipe) \in Nat \ {0} /\ Len(params) \in Nat /\ Len(all) \in Nat
      /\ Len(q) = Len(pipe) - 1 /\ Follows(q, pipe, 1)
      /\ Head(pipe) = pipe[1]
  BY DEF Follows
<1> HIDE DEF q
<1>3. n[1] \in 0 .. Len(all) /\ m[1] \in 0 .. Len(params)
  <2>1. 1 \in 0 .. Len(pipe)
    BY <1>2
  <2>2. n \in [0 .. Len(pipe) -> 0 .. Len(all)] /\ m \in [0 .. Len(pipe) -> 0 .. Len(params)]
    BY <1>1 DEF Matched
  <2> QED BY <2>1, <2>2
<1>4. \/ Head(pipe) = "post" /\ n[1] = Len(done) + 1 /\ m[1] = 2 /\ all[n[1]] = <<params[1], params[2]>>
      \/ Head(pipe) = "remove" /\ n[1] = Len(done) /\ m[1] = 1 /\ params[1] \in buried
      \/ Head(pipe) = "exit" /\ n[1] = Len(done) /\ m[1] = 0
  <2>1. 1 \in 1 .. Len(pipe)
    BY <1>2
  <2>2. Read(pipe, params, all, buried, n, m, 1) /\ n[0] = Len(done) /\ m[0] = 0
    BY <1>1, <2>1 DEF Matched
  <2>3. \/ pipe[1] = "post" /\ n[1] = n[0] + 1 /\ m[1] = m[0] + 2
           /\ all[n[1]] = <<params[m[1] - 1], params[m[1]]>>
        \/ pipe[1] = "remove" /\ n[1] = n[0] /\ m[1] = m[0] + 1 /\ params[m[1]] \in buried
        \/ pipe[1] = "exit" /\ n[1] = n[0] /\ m[1] = m[0]
    <3>1. 1 - 1 = 0
      OBVIOUS
    <3> QED BY <2>2, <3>1 DEF Read
  <2>4. 0 + 2 = 2 /\ 2 - 1 = 1 /\ 0 + 1 = 1
    OBVIOUS
  <2>5. m[0] = 0 /\ n[0] = Len(done)
    BY <2>2
  <2>6. m[1] = m[0] + 2 => m[1] = 2 /\ m[1] - 1 = 1
    BY <2>4, <2>5
  <2>7. m[1] = m[0] + 1 => m[1] = 1
    BY <2>4, <2>5
  <2> QED BY <1>2, <2>3, <2>5, <2>6, <2>7
<1>5. Begins(done, all)
  BY DEF Paired
<1>6. ASSUME NEW ps, Len(ps) = Len(params) - m[1], Follows(ps, params, m[1]),
             NEW d, Begins(d, all), Len(d) = n[1]
      PROVE  Paired(q, ps, d, all, buried)
  <2>1. Less(pipe, params, all, m[1], q, ps)
    BY <1>2, <1>6 DEF Less
  <2>2. \E k, r : Matched(q, ps, d, all, buried, k, r)
    BY <1>1, <1>6, <2>1, MatchedTake
  <2> QED BY <1>6, <2>2 DEF Paired
<1>7. CASE Head(pipe) = "exit"
  <2>1. n[1] = Len(done) /\ m[1] = 0
    BY <1>4, <1>7
  <2>2. Len(params) = Len(params) - 0 /\ Follows(params, params, 0)
    BY <1>2 DEF Follows
  <2>3. Paired(q, params, done, all, buried)
    BY <1>5, <1>6, <2>1, <2>2
  <2> QED BY <1>7, <2>3 DEF q
<1>8. CASE Head(pipe) = "remove"
  <2>1. n[1] = Len(done) /\ m[1] = 1 /\ params[1] \in buried
    BY <1>4, <1>8
  <2>2. Len(params) >= 1
    BY <1>2, <1>3, <2>1
  <2>3. params # <<>> /\ Head(params) = params[1]
    BY <2>2
  <2>4. Len(Tail(params)) = Len(params) - 1 /\ Follows(Tail(params), params, 1)
    BY <2>3 DEF Follows
  <2>5. Paired(q, Tail(params), done, all, buried)
    BY <1>5, <1>6, <2>1, <2>4
  <2> QED BY <1>8, <2>1, <2>3, <2>5 DEF q
<1>9. CASE Head(pipe) = "post"
  <2>1. n[1] = Len(done) + 1 /\ m[1] = 2 /\ all[n[1]] = <<params[1], params[2]>>
    BY <1>4, <1>9
  <2>2. Len(params) >= 2
    BY <1>2, <1>3, <2>1
  <2>3. /\ params # <<>> /\ Head(params) = params[1] /\ Tail(params) # <<>>
        /\ Head(Tail(params)) = params[2]
    BY <2>2, TailTwice
  <2> DEFINE f == <<Head(params), Head(Tail(params))>>
             ps == Tail(Tail(params))
             d == Append(done, f)
  <2>4. f = all[n[1]]
    BY <2>1, <2>3
  <2>5. Len(done) \in Nat /\ n[1] \in 1 .. Len(all)
    BY <1>2, <1>3, <2>1
  <2>6. f \in Task
    <3> HIDE DEF f
    <3> QED BY <2>4, <2>5
  <2>7. Len(ps) = Len(params) - 2 /\ Follows(ps, params, 2)
    BY <2>2, TailTwice
  <2> HIDE DEF f, ps
  <2>8. Len(d) = Len(done) + 1 /\ d[Len(done) + 1] = f /\ \A i \in 1 .. Len(done) : d[i] = done[i]
    BY <2>6
  <2> HIDE DEF d
  <2>9. Begins(d, all)
    <3>1. Len(d) <= Len(all)
      BY <1>2, <2>1, <2>5, <2>8
    <3>2. ASSUME NEW i \in 1 .. Len(d)
          PROVE  d[i] = all[i]
      <4>1. CASE i = Len(done) + 1
        BY <2>1, <2>4, <2>8, <4>1
      <4>2. CASE i \in 1 .. Len(done)
        BY <1>5, <2>8, <4>2 DEF Begins
      <4> QED BY <2>5, <2>8, <4>1, <4>2
    <3> QED BY <3>1, <3>2 DEF Begins
  <2>10. Paired(q, ps, d, all, buried)
    <3>1. Len(d) = n[1]
      BY <2>1, <2>8
    <3> QED BY <1>6, <2>1, <2>7, <2>9, <3>1
  <2> QED BY <1>9, <2>3, <2>6, <2>10 DEF q, f, ps, d
<1> QED BY <1>4, <1>7, <1>8, <1>9

(***************************************************************************)
(* The pump is sound.                                                      *)
(***************************************************************************)

(* What an event queue reports; the pump's record.                         *)
Events == Fds \cup {"signals", "timer"}

PumpRecord ==
    [pipe : Seq(Signals), params : Seq(Params), port : Seq(Packet), watched : SUBSET Fds,
     readable : SUBSET (Fds \cup {"timer"}), armed : SUBSET Events, seen : SUBSET Events,
     watch : [Fds -> {"none", "live", "removed", "freed"}], exit : BOOLEAN,
     posted : Seq(Task), arrivals : Nat]

(* Nothing more will be heard of these descriptors.                        *)
Gone(q) == {f \in Fds : f \notin q.watched /\ f \notin q.readable /\ q.watch[f] # "none"}

(* A watch that was removed or freed is closed; one that is watched, added.*)
Graves(q) ==
    /\ \A f \in Fds : q.watch[f] \in {"removed", "freed"} => f \in Gone(q)
    /\ \A f \in q.watched : q.watch[f] # "none"

(* Unix: events that were drained and are still to be processed.           *)
Drained(q, events) ==
    /\ \A i, j \in 1 .. Len(events) : i # j => events[i] # events[j]
    /\ \A i \in 1 .. Len(events) : events[i] \in Fds => q.watch[events[i]] # "freed"
    /\ \A i \in 1 .. Len(events) : events[i] = "signals" => q.pipe # <<>>
    /\ q.pipe # <<>> /\ Head(q.pipe) = "remove" =>
          \A i, j \in 1 .. Len(events) :
             i < j /\ events[i] = "signals" => events[j] # Head(q.params)

(* Unix: the queues, and the events that were drained.                     *)
OnUnix(q, done, events) ==
    /\ Paired(q.pipe, q.params, done, q.posted, Gone(q))
    /\ \A i \in 1 .. Len(q.posted) : q.posted[i][1] = "remove_proc" => q.posted[i][2] \in Gone(q)
    /\ events \in Seq(Events) /\ Drained(q, events)

Removes(packet, f) == packet = <<"post", "remove_proc", f>>

(* Windows: completions, one in the watcher's hands and those in the port. *)
OnWindows(q, done, completion) ==
    /\ InStep(q.port, done, q.posted)
    /\ \A f \in Fds :
          /\ Removes(completion, f) => f \in Gone(q) /\ \A i \in 1 .. Len(q.port) : q.port[i] # <<"io", f>>
          /\ q.watch[f] = "freed" =>
                completion # <<"io", f>> /\ \A i \in 1 .. Len(q.port) : q.port[i] # <<"io", f>>
          /\ \A i \in 1 .. Len(q.port) : Removes(q.port[i], f) =>
                f \in Gone(q) /\ \A j \in i + 1 .. Len(q.port) : q.port[j] # <<"io", f>>

(* What is asked of the pump on either system.                             *)
Sound(unix, q, done, events, completion) ==
    /\ q \in PumpRecord /\ done \in Seq(Task) /\ Graves(q)
    /\ unix => OnUnix(q, done, events)
    /\ ~unix => OnWindows(q, done, completion)

LEMMA AppendFills ==
    ASSUME NEW S, NEW s \in Seq(S), NEW x \in S
    PROVE  Append(s, x) # <<>> /\ (s # <<>> => Head(Append(s, x)) = Head(s))
<1>1. Append(s, x) # <<>> /\ Head(Append(s, x)) = Append(s, x)[1]
  OBVIOUS
<1>2. s # <<>> => 1 \in 1 .. Len(s) /\ Head(s) = s[1]
  OBVIOUS
<1>3. \A i \in 1 .. Len(s) : Append(s, x)[i] = s[i]
  OBVIOUS
<1> QED BY <1>1, <1>2, <1>3

(* A signal is written.                                                    *)
LEMMA SignalSound ==
    ASSUME NEW q, NEW done, NEW events, OnUnix(q, done, events), q \in PumpRecord, done \in Seq(Task),
           NEW r \in PumpRecord, NEW e \in Seq(Params), NEW signal \in Signals,
           r.pipe = Append(q.pipe, signal), r.params = q.params \o e,
           \/ /\ signal = "post" /\ Len(e) = 2
              /\ \E f \in Task : /\ r.posted = Append(q.posted, f) /\ f = <<e[1], e[2]>>
                                 /\ f[1] = "remove_proc" => f[2] \in Gone(r)
           \/ signal = "remove" /\ r.posted = q.posted /\ Len(e) = 1 /\ e[1] \in Gone(r)
           \/ signal = "exit" /\ r.posted = q.posted /\ Len(e) = 0,
           Gone(q) \subseteq Gone(r),
           \A f \in Fds : r.watch[f] = "freed" => q.watch[f] = "freed"
    PROVE  OnUnix(r, done, events)
<1>1. /\ q.pipe \in Seq(Signals) /\ q.params \in Seq(Params) /\ q.posted \in Seq(Task)
      /\ r.posted \in Seq(Task)
  BY DEF PumpRecord
<1>2. Paired(q.pipe, q.params, done, q.posted, Gone(r))
  BY PairedBuried DEF OnUnix
<1>3. Paired(r.pipe, r.params, done, r.posted, Gone(r))
  <2>1. \/ /\ signal = "post" /\ Len(e) = 2
           /\ \E f \in Task : r.posted = Append(q.posted, f) /\ f = <<e[1], e[2]>>
        \/ signal = "remove" /\ r.posted = q.posted /\ Len(e) = 1 /\ e[1] \in Gone(r)
        \/ signal = "exit" /\ r.posted = q.posted /\ Len(e) = 0
    OBVIOUS
  <2>2. Paired(Append(q.pipe, signal), q.params \o e, done, r.posted, Gone(r))
    BY <1>1, <1>2, <2>1, PairedMore
  <2> QED BY <2>2
<1>4. ASSUME NEW i \in 1 .. Len(r.posted), r.posted[i][1] = "remove_proc"
      PROVE  r.posted[i][2] \in Gone(r)
  <2>1. CASE r.posted = q.posted
    BY <1>4, <2>1 DEF OnUnix
  <2>2. CASE \E f \in Task : r.posted = Append(q.posted, f) /\ (f[1] = "remove_proc" => f[2] \in Gone(r))
    <3>1. PICK f \in Task : r.posted = Append(q.posted, f) /\ (f[1] = "remove_proc" => f[2] \in Gone(r))
      BY <2>2
    <3>2. \/ i \in 1 .. Len(q.posted) /\ r.posted[i] = q.posted[i]
          \/ r.posted[i] = f
      BY <1>1, <3>1
    <3> QED BY <1>4, <3>1, <3>2 DEF OnUnix
  <2> QED BY <2>1, <2>2
<1>5. Drained(r, events)
  <2>1. r.pipe # <<>>
    BY <1>1, AppendFills
  <2>2. CASE q.pipe = <<>>
    BY <2>1, <2>2 DEF OnUnix, Drained, PumpRecord, Events
  <2>3. CASE q.pipe # <<>>
    <3>1. Head(r.pipe) = Head(q.pipe)
      BY <1>1, <2>3
    <3>2. Head(q.pipe) = "remove" => q.params # <<>>
      BY <1>1, <1>2, <2>3, PairedTake
    <3>3. Head(q.pipe) = "remove" => Head(r.params) = Head(q.params)
      BY <1>1, <3>2
    <3> QED BY <2>1, <2>3, <3>1, <3>3 DEF OnUnix, Drained, PumpRecord, Events
  <2> QED BY <2>2, <2>3
<1>6. events \in Seq(Events)
  BY DEF OnUnix
<1> QED BY <1>3, <1>4, <1>5, <1>6 DEF OnUnix

(* A packet is queued.                                                     *)
LEMMA PacketSound ==
    ASSUME NEW q, NEW done, NEW completion, OnWindows(q, done, completion),
           q \in PumpRecord, done \in Seq(Task), NEW r \in PumpRecord, NEW x \in Packet,
           r.port = Append(q.port, x),
           \/ \E f \in Task : /\ x = <<"post">> \o f /\ r.posted = Append(q.posted, f)
                              /\ f[1] = "remove_proc" => f[2] \in Gone(r)
           \/ ~Posts(x) /\ r.posted = q.posted,
           \A f \in Fds : x = <<"io", f>> => f \notin Gone(q) /\ q.watch[f] # "freed",
           Gone(q) \subseteq Gone(r),
           \A f \in Fds : r.watch[f] = "freed" => q.watch[f] = "freed"
    PROVE  OnWindows(r, done, completion)
<1>1. /\ q.port \in Seq(Packet) /\ q.posted \in Seq(Task)
      /\ InStep(q.port, done, q.posted)
  BY DEF PumpRecord, OnWindows
<1>2. InStep(r.port, done, r.posted)
  <2>1. CASE \E f \in Task : x = <<"post">> \o f /\ r.posted = Append(q.posted, f)
    <3>1. PICK f \in Task : x = <<"post">> \o f /\ r.posted = Append(q.posted, f)
      BY <2>1
    <3> QED BY <1>1, <3>1, InStepPost
  <2>2. CASE ~Posts(x) /\ r.posted = q.posted
    BY <1>1, <2>2, InStepOther
  <2> QED BY <2>1, <2>2
<1>3. /\ Len(r.port) = Len(q.port) + 1 /\ Len(q.port) \in Nat /\ r.port[Len(q.port) + 1] = x
      /\ \A i \in 1 .. Len(q.port) : r.port[i] = q.port[i]
  BY <1>1
<1> SUFFICES ASSUME NEW f \in Fds
             PROVE  /\ Removes(completion, f) =>
                          f \in Gone(r) /\ \A i \in 1 .. Len(r.port) : r.port[i] # <<"io", f>>
                    /\ r.watch[f] = "freed" =>
                          completion # <<"io", f>> /\ \A i \in 1 .. Len(r.port) : r.port[i] # <<"io", f>>
                    /\ \A i \in 1 .. Len(r.port) : Removes(r.port[i], f) =>
                          f \in Gone(r) /\ \A j \in i + 1 .. Len(r.port) : r.port[j] # <<"io", f>>
  BY <1>2 DEF OnWindows
<1>4. Removes(completion, f) => f \in Gone(q) /\ \A i \in 1 .. Len(q.port) : q.port[i] # <<"io", f>>
  BY DEF OnWindows
<1>5. q.watch[f] = "freed" =>
         completion # <<"io", f>> /\ \A i \in 1 .. Len(q.port) : q.port[i] # <<"io", f>>
  BY DEF OnWindows
<1>6. \A i \in 1 .. Len(q.port) : Removes(q.port[i], f) =>
         f \in Gone(q) /\ \A j \in i + 1 .. Len(q.port) : q.port[j] # <<"io", f>>
  BY DEF OnWindows
<1>7. f \in Gone(q) \/ q.watch[f] = "freed" => x # <<"io", f>>
  OBVIOUS
<1>a. ASSUME \A i \in 1 .. Len(q.port) : q.port[i] # <<"io", f>>, x # <<"io", f>>
      PROVE  \A i \in 1 .. Len(r.port) : r.port[i] # <<"io", f>>
  <2>1. \A i \in 1 .. Len(r.port) : i \in 1 .. Len(q.port) \/ i = Len(q.port) + 1
    BY <1>3
  <2> QED BY <1>3, <1>a, <2>1
<1>8. Removes(completion, f) => f \in Gone(r) /\ \A i \in 1 .. Len(r.port) : r.port[i] # <<"io", f>>
  BY <1>4, <1>7, <1>a
<1>9. r.watch[f] = "freed" =>
         completion # <<"io", f>> /\ \A i \in 1 .. Len(r.port) : r.port[i] # <<"io", f>>
  BY <1>5, <1>7, <1>a
<1>10. ASSUME NEW i \in 1 .. Len(r.port), Removes(r.port[i], f)
       PROVE  f \in Gone(r) /\ \A j \in i + 1 .. Len(r.port) : r.port[j] # <<"io", f>>
  <2>1. CASE i \in 1 .. Len(q.port)
    <3>1. f \in Gone(q) /\ \A j \in i + 1 .. Len(q.port) : q.port[j] # <<"io", f>>
      BY <1>3, <1>6, <1>10, <2>1
    <3>2. \A j \in i + 1 .. Len(r.port) : j \in i + 1 .. Len(q.port) \/ j = Len(q.port) + 1
      BY <1>3, <2>1
    <3>3. \A j \in i + 1 .. Len(q.port) : j \in 1 .. Len(q.port)
      BY <1>3, <2>1
    <3>4. x # <<"io", f>>
      BY <1>7, <3>1
    <3>5. ASSUME NEW j \in i + 1 .. Len(r.port)
          PROVE  r.port[j] # <<"io", f>>
      BY <1>3, <3>1, <3>2, <3>3, <3>4
    <3> QED BY <3>1, <3>5
  <2>2. CASE i = Len(q.port) + 1
    <3>1. x = <<"post", "remove_proc", f>>
      BY <1>3, <1>10, <2>2 DEF Removes
    <3>2. PICK g \in Task : x = <<"post">> \o g /\ (g[1] = "remove_proc" => g[2] \in Gone(r))
      BY <3>1 DEF Posts
    <3>3. x = <<"post", g[1], g[2]>>
      BY <3>2, PacketFacts
    <3>4. f \in Gone(r)
      BY <3>1, <3>2, <3>3
    <3>5. \A j \in i + 1 .. Len(r.port) : FALSE
      BY <1>3, <2>2
    <3> QED BY <3>4, <3>5
  <2>3. i \in 1 .. Len(q.port) \/ i = Len(q.port) + 1
    BY <1>3
  <2> QED BY <2>1, <2>2, <2>3
<1> QED BY <1>8, <1>9, <1>10

(***************************************************************************)
(* Posts and removals, by name.                                            *)
(***************************************************************************)

(* A call is two parameters.                                               *)
LEMMA TaskFacts ==
    ASSUME NEW f \in Task
    PROVE  f \in Seq(Params) /\ Len(f) = 2 /\ f = <<f[1], f[2]>>
<1>1. f = <<f[1], f[2]>> /\ f[1] \in Params /\ f[2] \in Params
  BY DEF Task, Params
<1>2. \A a, b \in Params : <<a, b>> \in Seq(Params) /\ Len(<<a, b>>) = 2
  OBVIOUS
<1> QED BY <1>1, <1>2

(* The queues and the watches are as they were.                            *)
Still(q, r) ==
    /\ r \in PumpRecord /\ r.pipe = q.pipe /\ r.params = q.params /\ r.port = q.port
    /\ r.posted = q.posted /\ r.watch = q.watch /\ r.watched = q.watched
    /\ r.readable \subseteq q.readable

(* What leaves the queues and the watches alone.                           *)
LEMMA StillSound ==
    ASSUME NEW unix, NEW q, NEW done, NEW events, NEW completion,
           Sound(unix, q, done, events, completion), NEW r, Still(q, r)
    PROVE  Sound(unix, r, done, events, completion)
<1>1. Gone(q) \subseteq Gone(r) /\ q \in PumpRecord /\ r \in PumpRecord
  BY DEF Gone, Still, Sound
<1>2. Graves(r)
  BY <1>1 DEF Graves, Sound, Still
<1>3. ASSUME OnUnix(q, done, events)
      PROVE  OnUnix(r, done, events)
  <2>1. Paired(r.pipe, r.params, done, r.posted, Gone(r))
    BY <1>1, <1>3, PairedBuried DEF OnUnix, Still
  <2>2. Drained(r, events)
    BY <1>3 DEF OnUnix, Drained, Still
  <2> QED BY <1>1, <1>3, <2>1, <2>2 DEF OnUnix, Still
<1>4. ASSUME OnWindows(q, done, completion)
      PROVE  OnWindows(r, done, completion)
  BY <1>1, <1>4 DEF OnWindows, Still
<1> QED BY <1>1, <1>2, <1>3, <1>4 DEF Sound

(* What becomes of a pump's record.                                        *)
Written(q, r, signal, e) ==
    /\ r \in PumpRecord /\ r.pipe = Append(q.pipe, signal) /\ r.params = q.params \o e
    /\ r.posted = q.posted /\ r.watch = q.watch /\ r.watched = q.watched /\ r.port = q.port
    /\ r.readable = q.readable /\ r.exit = q.exit

Unwatched(q, r, fd) ==
    /\ r \in PumpRecord /\ r.pipe = Append(q.pipe, "remove") /\ r.params = q.params \o <<fd>>
    /\ r.posted = q.posted /\ r.watch = [q.watch EXCEPT ![fd] = "removed"]
    /\ r.watched = q.watched /\ r.port = q.port /\ r.readable = q.readable /\ r.exit = q.exit

Shut(q, r, fd) ==
    /\ r \in PumpRecord /\ r.pipe = q.pipe /\ r.params = q.params /\ r.port = q.port
    /\ r.posted = q.posted /\ r.watch = q.watch /\ r.exit = q.exit
    /\ r.watched = q.watched \ {fd} /\ r.readable = q.readable \ {fd}

PostedTo(q, r, f) ==
    /\ r \in PumpRecord
    /\ r.posted = Append(q.posted, f) /\ r.watch = q.watch /\ r.watched = q.watched
    /\ r.readable = q.readable /\ r.exit = q.exit
    /\ Unix => r.pipe = Append(q.pipe, "post") /\ r.params = q.params \o f /\ r.port = q.port
    /\ ~Unix => r.port = Append(q.port, <<"post">> \o f) /\ r.pipe = q.pipe /\ r.params = q.params

LEMMA SignalFields ==
    ASSUME NEW q \in PumpRecord, NEW signal \in Signals, NEW e \in Seq(Params)
    PROVE  Written(q, Signal(q, signal, e), signal, e)
<1> DEFINE r == Signal(q, signal, e)
           x == Append(q.pipe, signal)
           y == q.params \o e
           z == IF Edge THEN q.armed \cup {"signals"} ELSE q.armed
<1>1. r = [q EXCEPT !.pipe = x, !.params = y, !.armed = z]
  BY DEF Signal, PumpRecord
<1>2. x \in Seq(Signals) /\ y \in Seq(Params) /\ z \in SUBSET Events
  BY DEF PumpRecord, Events
<1> HIDE DEF x, y, z, r
<1>3. /\ r.pipe = x /\ r.params = y
      /\ r.posted = q.posted /\ r.watch = q.watch /\ r.watched = q.watched /\ r.port = q.port
      /\ r.readable = q.readable /\ r.exit = q.exit
  BY <1>1 DEF PumpRecord
<1>4. r \in PumpRecord
  BY <1>1, <1>2 DEF PumpRecord
<1> QED BY <1>3, <1>4 DEF x, y, r, Written

LEMMA RemoveFields ==
    ASSUME NEW q \in PumpRecord, NEW fd \in Fds
    PROVE  Unwatched(q, def_remove_unix(q, fd), fd)
<1> DEFINE s == [q EXCEPT !.watch[fd] = "removed"]
           w == [q.watch EXCEPT ![fd] = "removed"]
           e == <<fd>>
<1>1. s = [q EXCEPT !.watch = w] /\ w \in [Fds -> {"none", "live", "removed", "freed"}]
  BY DEF PumpRecord
<1>2. /\ s \in PumpRecord /\ s.pipe = q.pipe /\ s.params = q.params /\ s.watch = w
      /\ s.posted = q.posted /\ s.watched = q.watched /\ s.port = q.port
      /\ s.readable = q.readable /\ s.exit = q.exit
  <2> HIDE DEF w
  <2> QED BY <1>1 DEF PumpRecord
<1>3. "remove" \in Signals /\ e \in Seq(Params)
  BY DEF Signals, Params
<1>4. def_remove_unix(q, fd) = Signal(s, "remove", e)
  BY DEF def_remove_unix
<1> HIDE DEF s, w, e
<1>5. Written(s, def_remove_unix(q, fd), "remove", e)
  BY <1>2, <1>3, <1>4, SignalFields
<1> QED BY <1>2, <1>5 DEF w, e, Written, Unwatched

LEMMA ClosedFields ==
    ASSUME NEW q \in PumpRecord, NEW fd
    PROVE  Shut(q, Closed(q, fd), fd)
BY DEF Shut, Closed, PumpRecord

LEMMA PostFields ==
    ASSUME NEW q \in PumpRecord, NEW f \in Task
    PROVE  PostedTo(q, lw_pump_post(q, f), f)
<1> DEFINE r == lw_pump_post(q, f)
           x == Append(q.posted, f)
           y == Append(q.port, <<"post">> \o f)
<1>1. f \in Seq(Params) /\ <<"post">> \o f \in Packet /\ Len(f) = 2
  BY TaskFacts, PacketFacts
<1>2. x \in Seq(Task) /\ y \in Seq(Packet)
  BY <1>1 DEF PumpRecord
<1>3. CASE Unix
  <2> DEFINE s == Signal(q, "post", f)
  <2>1. Written(q, s, "post", f)
    BY <1>1, SignalFields DEF Signals
  <2>2. s \in PumpRecord /\ s.posted = q.posted
    BY <2>1 DEF Written
  <2>3. r = [s EXCEPT !.posted = x]
    BY <1>3, <2>2 DEF lw_pump_post, def_post_unix
  <2> HIDE DEF s, r, x
  <2>4. /\ r \in PumpRecord /\ r.posted = x /\ r.watch = s.watch /\ r.watched = s.watched
        /\ r.readable = s.readable /\ r.exit = s.exit /\ r.pipe = s.pipe /\ r.params = s.params
        /\ r.port = s.port
    BY <1>2, <2>2, <2>3 DEF PumpRecord
  <2> QED BY <1>3, <2>1, <2>4 DEF r, x, Written, PostedTo
<1>4. CASE ~Unix
  <2>1. r = [q EXCEPT !.port = y, !.posted = x]
    BY <1>4 DEF lw_pump_post, def_post_windows, PumpRecord
  <2> HIDE DEF r, x, y
  <2>2. /\ r \in PumpRecord /\ r.posted = x /\ r.watch = q.watch /\ r.watched = q.watched
        /\ r.readable = q.readable /\ r.exit = q.exit /\ r.pipe = q.pipe /\ r.params = q.params
        /\ r.port = y
    BY <1>2, <2>1 DEF PumpRecord
  <2> QED BY <1>4, <2>2 DEF r, x, y, PostedTo
<1> QED BY <1>3, <1>4

LEMMA PostSound ==
    ASSUME NEW q, NEW done, NEW events, NEW completion,
           Sound(Unix, q, done, events, completion),
           NEW f \in Task, f[1] = "remove_proc" => f[2] \in Gone(q)
    PROVE  Sound(Unix, lw_pump_post(q, f), done, events, completion)
<1> DEFINE r == lw_pump_post(q, f)
<1>1. q \in PumpRecord /\ done \in Seq(Task)
  BY DEF Sound
<1>2. /\ r \in PumpRecord
      /\ r.posted = Append(q.posted, f) /\ r.watch = q.watch /\ r.watched = q.watched
      /\ r.readable = q.readable
      /\ Unix => r.pipe = Append(q.pipe, "post") /\ r.params = q.params \o f
      /\ ~Unix => r.port = Append(q.port, <<"post">> \o f)
  BY <1>1, PostFields DEF PostedTo
<1> HIDE DEF r
<1>3. Gone(r) = Gone(q)
  BY <1>2 DEF Gone
<1>4. Graves(r)
  BY <1>2, <1>3 DEF Graves, Sound
<1>5. f \in Seq(Params) /\ Len(f) = 2 /\ f = <<f[1], f[2]>> /\ <<"post">> \o f \in Packet
  BY TaskFacts, PacketFacts
<1>6. CASE Unix
  <2>1. OnUnix(q, done, events)
    BY <1>6 DEF Sound
  <2>2. /\ "post" \in Signals
        /\ \E g \in Task : /\ r.posted = Append(q.posted, g) /\ g = <<f[1], f[2]>>
                           /\ g[1] = "remove_proc" => g[2] \in Gone(r)
    BY <1>2, <1>3, <1>5 DEF Signals
  <2>3. OnUnix(r, done, events)
    BY <1>1, <1>2, <1>3, <1>5, <1>6, <2>1, <2>2, SignalSound
  <2> QED BY <1>1, <1>2, <1>4, <1>6, <2>3 DEF Sound, r
<1>7. CASE ~Unix
  <2>1. OnWindows(q, done, completion)
    BY <1>7 DEF Sound
  <2>2. \A g \in Fds : <<"post">> \o f # <<"io", g>>
    <3>1. <<"post">> \o f = <<"post", f[1], f[2]>>
      BY PacketFacts
    <3> QED BY <3>1
  <2>3. OnWindows(r, done, completion)
    BY <1>1, <1>2, <1>3, <1>5, <1>7, <2>1, <2>2, PacketSound
  <2> QED BY <1>1, <1>2, <1>4, <1>7, <2>3 DEF Sound, r
<1> QED BY <1>6, <1>7

LEMMA ClosedSound ==
    ASSUME NEW unix, NEW q, NEW done, NEW events, NEW completion,
           Sound(unix, q, done, events, completion), NEW fd \in q.watched
    PROVE  /\ Sound(unix, Closed(q, fd), done, events, completion)
           /\ fd \in Gone(Closed(q, fd))
<1> DEFINE r == Closed(q, fd)
<1>1. q \in PumpRecord /\ done \in Seq(Task) /\ Graves(q)
  BY DEF Sound
<1>2. /\ r \in PumpRecord /\ r.pipe = q.pipe /\ r.params = q.params /\ r.port = q.port
      /\ r.posted = q.posted /\ r.watch = q.watch
      /\ r.watched = q.watched \ {fd} /\ r.readable = q.readable \ {fd}
  BY <1>1, ClosedFields DEF Shut
<1>3. fd \in Fds /\ q.watch[fd] # "none"
  BY <1>1 DEF Graves, PumpRecord
<1> HIDE DEF r
<1>4. Gone(q) \subseteq Gone(r) /\ fd \in Gone(r)
  BY <1>2, <1>3 DEF Gone
<1>5. Graves(r)
  BY <1>1, <1>2, <1>4 DEF Graves
<1>6. ASSUME OnUnix(q, done, events)
      PROVE  OnUnix(r, done, events)
  <2>1. Paired(r.pipe, r.params, done, r.posted, Gone(r))
    BY <1>2, <1>4, <1>6, PairedBuried DEF OnUnix
  <2>2. Drained(r, events)
    BY <1>2, <1>6 DEF OnUnix, Drained
  <2> QED BY <1>2, <1>4, <1>6, <2>1, <2>2 DEF OnUnix
<1>7. ASSUME OnWindows(q, done, completion)
      PROVE  OnWindows(r, done, completion)
  BY <1>2, <1>4, <1>7 DEF OnWindows
<1> QED BY <1>1, <1>2, <1>4, <1>5, <1>6, <1>7 DEF Sound, r

(* On Unix the removal of a watch that nothing more is heard of.           *)
LEMMA RemoveSound ==
    ASSUME Unix, NEW q, NEW done, NEW events, NEW completion,
           Sound(TRUE, q, done, events, completion), NEW fd \in Gone(q)
    PROVE  Sound(TRUE, def_remove_unix(q, fd), done, events, completion)
<1> DEFINE r == def_remove_unix(q, fd)
<1>1. q \in PumpRecord /\ done \in Seq(Task) /\ Graves(q) /\ OnUnix(q, done, events) /\ fd \in Fds
  BY DEF Sound, Gone
<1>2. <<fd>> \in Seq(Params) /\ Len(<<fd>>) = 1 /\ <<fd>>[1] = fd /\ "remove" \in Signals
  BY <1>1 DEF Params, Signals
<1>3. /\ r \in PumpRecord /\ r.pipe = Append(q.pipe, "remove") /\ r.params = q.params \o <<fd>>
      /\ r.posted = q.posted /\ r.watch = [q.watch EXCEPT ![fd] = "removed"]
      /\ r.watched = q.watched /\ r.readable = q.readable
  BY <1>1, RemoveFields DEF Unwatched
<1> HIDE DEF r
<1>4. /\ \A f \in Fds : r.watch[f] = (IF f = fd THEN "removed" ELSE q.watch[f])
      /\ Gone(q) \subseteq Gone(r)
  BY <1>1, <1>3 DEF Gone, PumpRecord
<1>5. Graves(r)
  BY <1>1, <1>3, <1>4 DEF Graves, Gone
<1>6. OnUnix(r, done, events)
  <2> DEFINE e == <<fd>>
             signal == "remove"
  <2>1. Len(e) = 1 /\ e[1] \in Gone(r)
    BY <1>2, <1>4
  <2>2. e \in Seq(Params) /\ r.params = q.params \o e /\ r.pipe = Append(q.pipe, signal) /\ signal \in Signals
    BY <1>2, <1>3
  <2>3. \A f \in Fds : r.watch[f] = "freed" => q.watch[f] = "freed"
    BY <1>4
  <2>4. r \in PumpRecord /\ r.posted = q.posted /\ signal = "remove" /\ Gone(q) \subseteq Gone(r)
    BY <1>3, <1>4
  <2> HIDE DEF e, signal
  <2>5. \/ /\ signal = "post" /\ Len(e) = 2
           /\ \E f \in Task : /\ r.posted = Append(q.posted, f) /\ f = <<e[1], e[2]>>
                              /\ f[1] = "remove_proc" => f[2] \in Gone(r)
        \/ signal = "remove" /\ r.posted = q.posted /\ Len(e) = 1 /\ e[1] \in Gone(r)
        \/ signal = "exit" /\ r.posted = q.posted /\ Len(e) = 0
    BY <2>1, <2>4
  <2> QED BY <1>1, <2>2, <2>3, <2>4, <2>5, SignalSound
<1> QED BY <1>1, <1>3, <1>5, <1>6 DEF Sound, r

(* What a callback of the program's does to the pump.                      *)
LEMMA HookSound ==
    ASSUME NEW q, NEW done, NEW events, NEW completion, NEW locked,
           Sound(Unix, q, done, events, completion),
           Hook(q, locked)
    PROVE  /\ Sound(Unix, p', done, events, completion)
           /\ at' \in {at, "stuck"}
           /\ timer' = timer \/ timer' = lw_timer_stop_unix(timer) \/ timer' = lw_timer_stop_windows(timer)
<1>1. q \in PumpRecord /\ done \in Seq(Task) /\ Graves(q) /\ Unix \in BOOLEAN
  BY DEF Sound, Unix
<1>2. CASE \E c \in Calls : /\ p' = lw_pump_post(q, <<"call", c>>)
                            /\ UNCHANGED <<timer, at>>
  <2>1. \A c \in Calls : <<"call", c>> \in Task
    BY DEF Task
  <2> QED BY <1>2, <2>1, PostSound
<1>3. CASE \E fd \in q.watched \cap q.readable :
              p' = def_update_callbacks_unix(q, fd) /\ UNCHANGED <<timer, at>>
  <2>1. PICK fd \in q.watched \cap q.readable : p' = def_update_callbacks_unix(q, fd)
    BY <1>3
  <2>2. Still(q, p')
    <3> DEFINE w == q.watched \cup {fd}
               a == q.armed \cup ({fd} \cap q.readable)
    <3>1. p' = [q EXCEPT !.watched = w, !.armed = a] \/ p' = [q EXCEPT !.watched = w]
      BY <2>1 DEF def_update_callbacks_unix, lwp_eventqueue_update_epoll,
            lwp_eventqueue_update_kqueue, lwp_eventqueue_update_select
    <3>2. w = q.watched /\ w \in SUBSET Fds /\ a \in SUBSET Events
      BY <1>1, <2>1 DEF PumpRecord, Events
    <3> HIDE DEF w, a
    <3>3. CASE p' = [q EXCEPT !.watched = w, !.armed = a]
      BY <1>1, <3>2, <3>3 DEF Still, PumpRecord
    <3>4. CASE p' = [q EXCEPT !.watched = w]
      BY <1>1, <3>2, <3>4 DEF Still, PumpRecord
    <3> QED BY <3>1, <3>3, <3>4
  <2> QED BY <1>3, <2>2, StillSound
<1>4. CASE \E fd \in q.watched :
              /\ \/ p' = lw_pump_post_remove(Closed(q, fd), fd)
                 \/ Unix /\ p' = Closed(lw_pump_remove(q, fd), fd)
              /\ UNCHANGED <<timer, at>>
  <2>1. PICK fd \in q.watched : \/ p' = lw_pump_post_remove(Closed(q, fd), fd)
                                \/ Unix /\ p' = Closed(lw_pump_remove(q, fd), fd)
    BY <1>4
  <2>2. Sound(Unix, Closed(q, fd), done, events, completion) /\ fd \in Gone(Closed(q, fd)) /\ fd \in Fds
    BY <1>1, ClosedSound DEF PumpRecord
  <2>3. CASE p' = lw_pump_post_remove(Closed(q, fd), fd)
    <3>1. <<"remove_proc", fd>> \in Task
      BY <2>2 DEF Task
    <3> QED BY <1>4, <2>2, <2>3, <3>1, PostSound DEF lw_pump_post_remove
  <2>4. CASE Unix /\ p' = Closed(lw_pump_remove(q, fd), fd)
    <3>1. Closed(lw_pump_remove(q, fd), fd) = Closed(def_remove_unix(q, fd), fd)
      BY <2>4 DEF lw_pump_remove
    <3> DEFINE a == def_remove_unix(q, fd)
               b == Closed(q, fd)
               c == def_remove_unix(b, fd)
    <3>2. Unwatched(q, a, fd)
      BY <1>1, <2>2, RemoveFields
    <3>3. Shut(q, b, fd)
      BY <1>1, ClosedFields
    <3>4. p' = Closed(a, fd)
      BY <2>4, <3>1
    <3> HIDE DEF a, b
    <3>5. Unwatched(b, c, fd)
      BY <2>2, <3>3, RemoveFields DEF Shut
    <3>6. Shut(a, p', fd)
      BY <3>2, <3>4, ClosedFields DEF Unwatched
    <3> HIDE DEF c
    <3>7. Still(c, p')
      BY <3>2, <3>3, <3>5, <3>6 DEF Still, Unwatched, Shut
    <3>8. Sound(Unix, c, done, events, completion)
      <4>1. Unix = TRUE
        BY <1>1, <2>4
      <4> QED BY <2>2, <4>1, RemoveSound DEF b, c
    <3> QED BY <1>4, <3>7, <3>8, StillSound
  <2> QED BY <2>1, <2>3, <2>4
<1>5. CASE /\ p' = Disarmed(q) /\ UNCHANGED at
           /\ timer' = IF Unix THEN lw_timer_stop_unix(timer) ELSE lw_timer_stop_windows(timer)
  <2>1. Still(q, p')
    BY <1>1, <1>5 DEF Still, Disarmed, PumpRecord
  <2> QED BY <1>5, <2>1, StillSound
<1>6. CASE p' = q /\ UNCHANGED timer /\ at' \in {at, "stuck"}
  BY <1>6
<1> QED BY <1>2, <1>3, <1>4, <1>5, <1>6 DEF Hook

(***************************************************************************)
(* A callback, and a packet of the port.                                   *)
(***************************************************************************)

(* The timer.                                                              *)
TimerRecord ==
    [started : BOOLEAN, left : Nat, thread : {"off", "wait", "posting", "over"}]

LEMMA TimerStops ==
    ASSUME NEW t \in TimerRecord
    PROVE  lw_timer_stop_unix(t) \in TimerRecord /\ lw_timer_stop_windows(t) \in TimerRecord
BY DEF TimerRecord, lw_timer_stop_unix, lw_timer_stop_windows

(* What a callback may change of the timer and of the main thread.         *)
Called ==
    /\ stale' = stale /\ at' \in {at, "stuck"}
    /\ timer' \in TimerRecord

(* A watch is called back.                                                 *)
LEMMA OnReadySound ==
    ASSUME NEW q, NEW done, NEW events, NEW completion, NEW fd \in Fds,
           Sound(Unix, q, done, events, completion), q.watch[fd] # "freed",
           stale \in BOOLEAN, timer \in TimerRecord, OnReady(q, fd)
    PROVE  Sound(Unix, p', done, events, completion) /\ Called /\ ran' = ran
<1>1. stale' = stale /\ ran' = ran
  BY DEF OnReady
<1>2. CASE q.watch[fd] = "live"
  <2> DEFINE r == [q EXCEPT !.readable = @ \ {fd}]
  <2>1. Hook(r, FALSE)
    BY <1>2 DEF OnReady
  <2>2. Still(q, r)
    BY DEF Still, Sound, PumpRecord
  <2>3. Sound(Unix, r, done, events, completion)
    BY <2>2, StillSound
  <2> HIDE DEF r
  <2>4. /\ Sound(Unix, p', done, events, completion) /\ at' \in {at, "stuck"}
        /\ timer' = timer \/ timer' = lw_timer_stop_unix(timer) \/ timer' = lw_timer_stop_windows(timer)
    BY <2>1, <2>3, HookSound
  <2> QED BY <1>1, <2>4, TimerStops DEF Called
<1>3. CASE q.watch[fd] # "live"
  <2>1. p' = q /\ timer' = timer /\ at' = at
    BY <1>3 DEF OnReady
  <2> QED BY <1>1, <2>1 DEF Called
<1> QED BY <1>2, <1>3

LEMMA RemoveWindowsSound ==
    ASSUME NEW q, NEW done, NEW events, NEW completion,
           Sound(FALSE, q, done, events, completion), NEW fd \in Gone(q), Removes(completion, fd)
    PROVE  Sound(FALSE, def_remove_windows(q, fd), done, events, <<>>)
<1> DEFINE r == def_remove_windows(q, fd)
           w == [q.watch EXCEPT ![fd] = "freed"]
<1>1. q \in PumpRecord /\ done \in Seq(Task) /\ Graves(q) /\ OnWindows(q, done, completion) /\ fd \in Fds
  BY DEF Sound, Gone
<1>2. w \in [Fds -> {"none", "live", "removed", "freed"}] /\ r = [q EXCEPT !.watch = w]
      /\ \A f \in Fds : w[f] = (IF f = fd THEN "freed" ELSE q.watch[f])
  BY <1>1 DEF def_remove_windows, PumpRecord
<1> HIDE DEF r, w
<1>3. /\ r \in PumpRecord /\ r.port = q.port /\ r.posted = q.posted /\ r.watched = q.watched
      /\ r.readable = q.readable /\ r.watch = w
  BY <1>1, <1>2 DEF PumpRecord
<1>4. Gone(q) \subseteq Gone(r)
  BY <1>2, <1>3 DEF Gone
<1>5. Graves(r)
  <2>1. ASSUME NEW f \in Fds, r.watch[f] \in {"removed", "freed"}
        PROVE  f \in Gone(r)
    <3>1. CASE f = fd
      BY <1>4, <3>1
    <3>2. CASE f # fd
      <4>1. q.watch[f] \in {"removed", "freed"}
        BY <1>2, <1>3, <2>1, <3>2
      <4> QED BY <1>1, <1>4, <4>1 DEF Graves
    <3> QED BY <3>1, <3>2
  <2>2. ASSUME NEW f \in r.watched
        PROVE  r.watch[f] # "none"
    <3>1. f \in Fds /\ q.watch[f] # "none"
      BY <1>1, <1>3, <2>2 DEF Graves, PumpRecord
    <3> QED BY <1>2, <1>3, <3>1
  <2> QED BY <2>1, <2>2 DEF Graves
<1>6. \A i \in 1 .. Len(q.port) : q.port[i] # <<"io", fd>>
  BY <1>1 DEF OnWindows
<1>7. OnWindows(r, done, <<>>)
  <2> SUFFICES ASSUME NEW f \in Fds
               PROVE  /\ ~Removes(<<>>, f)
                      /\ r.watch[f] = "freed" =>
                            <<>> # <<"io", f>> /\ \A i \in 1 .. Len(r.port) : r.port[i] # <<"io", f>>
                      /\ \A i \in 1 .. Len(r.port) : Removes(r.port[i], f) =>
                            f \in Gone(r) /\ \A j \in i + 1 .. Len(r.port) : r.port[j] # <<"io", f>>
    <3>1. InStep(r.port, done, r.posted)
      BY <1>1, <1>3 DEF OnWindows
    <3> QED BY <3>1 DEF OnWindows
  <2>1. ~Removes(<<>>, f) /\ <<>> # <<"io", f>>
    BY DEF Removes
  <2>2. r.watch[f] = "freed" => \A i \in 1 .. Len(r.port) : r.port[i] # <<"io", f>>
    BY <1>1, <1>2, <1>3, <1>6 DEF OnWindows
  <2>3. \A i \in 1 .. Len(r.port) : Removes(r.port[i], f) =>
           f \in Gone(r) /\ \A j \in i + 1 .. Len(r.port) : r.port[j] # <<"io", f>>
    BY <1>1, <1>3, <1>4 DEF OnWindows
  <2> QED BY <2>1, <2>2, <2>3
<1> QED BY <1>1, <1>3, <1>5, <1>7 DEF Sound, r

(* Windows: what the completion was does not matter once it is processed.  *)
LEMMA Forgotten ==
    ASSUME NEW unix, NEW q, NEW done, NEW events, NEW completion,
           Sound(unix, q, done, events, completion)
    PROVE  Sound(unix, q, done, events, <<>>)
<1>1. \A f \in Fds : ~Removes(<<>>, f) /\ <<>> # <<"io", f>>
  BY DEF Removes
<1> QED BY <1>1 DEF Sound, OnWindows

(* Windows: a packet is processed.                                         *)
Counted(done, packet) == IF Posts(packet) THEN Append(done, Posted(packet)) ELSE done

LEMMA ProcessSound ==
    ASSUME ~Unix, NEW q, NEW events, NEW packet \in Packet, ran \in Seq(Task),
           Sound(FALSE, q, Counted(ran, packet), events, packet),
           stale \in BOOLEAN, timer \in TimerRecord, process(q, packet)
    PROVE  Sound(FALSE, p', ran', events, <<>>) /\ Called
<1>0. Unix = FALSE /\ packet[1] \in {"post", "exit", "io", "end"}
  BY DEF Unix, Packet
<1>1. CASE packet[1] = "post"
  <2> DEFINE f == Posted(packet)
  <2>1. Tail(packet) = f /\ f \in Task /\ Posts(packet) /\ f = <<f[1], f[2]>>
    BY <1>1, PacketFacts DEF Posts
  <2>2. Run(q, f) /\ Sound(FALSE, q, Append(ran, f), events, packet)
    BY <1>1, <2>1 DEF process, Counted
  <2>3. packet = <<"post", f[1], f[2]>>
    BY <1>1 DEF Packet, Posted
  <2> HIDE DEF f
  <2>4. ran' = Append(ran, f) /\ stale' = stale
    BY <2>2 DEF Run
  <2>5. Sound(FALSE, q, ran', events, <<>>)
    BY <2>2, <2>4, Forgotten
  <2>6. CASE f[1] = "call"
    <3>1. Hook(q, Unix)
      BY <2>2, <2>6 DEF Run
    <3>2. /\ Sound(Unix, p', ran', events, <<>>) /\ at' \in {at, "stuck"}
          /\ timer' = timer \/ timer' = lw_timer_stop_unix(timer) \/ timer' = lw_timer_stop_windows(timer)
      BY <1>0, <2>5, <3>1, HookSound
    <3> QED BY <1>0, <2>4, <3>2, TimerStops DEF Called
  <2>7. CASE f[1] = "remove_proc"
    <3>1. p' = def_remove_windows(q, f[2]) /\ timer' = timer /\ at' = at
      BY <1>0, <2>2, <2>7 DEF Run, lw_pump_remove
    <3>2. Removes(packet, f[2]) /\ f[2] \in Fds
      BY <2>1, <2>3, <2>7 DEF Removes, Task
    <3>3. f[2] \in Gone(q)
      BY <2>2, <3>2 DEF Sound, OnWindows
    <3> QED BY <2>2, <2>4, <3>1, <3>2, <3>3, RemoveWindowsSound DEF Called
  <2>8. CASE f[1] \notin {"call", "remove_proc"}
    <3>1. p' = q /\ timer' = timer /\ at' = at
      BY <2>2, <2>8 DEF Run
    <3> QED BY <2>4, <2>5, <3>1 DEF Called
  <2> QED BY <2>6, <2>7, <2>8
<1>2. CASE packet[1] = "io"
  <2>1. PICK fd \in Fds : packet = <<"io", fd>>
    BY <1>2 DEF Packet
  <2>2. q.watch[fd] # "freed"
    BY <2>1 DEF Sound, OnWindows
  <2>3. Sound(Unix, q, ran, events, <<>>)
    BY <1>0, <1>2, Forgotten DEF Counted, Posts
  <2>4. OnReady(q, fd)
    BY <1>2, <2>1 DEF process
  <2> QED BY <1>0, <2>2, <2>3, <2>4, OnReadySound
<1>3. CASE packet[1] \notin {"post", "io"}
  <2>1. p' = q /\ UNCHANGED <<at, timer, ran, stale>>
    BY <1>3 DEF process
  <2> QED BY <1>3, <2>1, Forgotten DEF Counted, Posts, Called
<1> QED BY <1>1, <1>2, <1>3

(* Windows: a packet is in nobody's queue, but in somebody's hands.        *)
LEMMA DequeueSound ==
    ASSUME NEW q, NEW done, NEW events, Sound(FALSE, q, done, events, <<>>), q.port # <<>>
    PROVE  /\ Head(q.port) \in Packet
           /\ Sound(FALSE, Dequeued(q), Counted(done, Head(q.port)), events, Head(q.port))
<1> DEFINE r == Dequeued(q)
           x == Head(q.port)
           d == Counted(done, x)
<1>1. q \in PumpRecord /\ done \in Seq(Task) /\ Graves(q) /\ OnWindows(q, done, <<>>)
      /\ q.port \in Seq(Packet) /\ q.posted \in Seq(Task)
  BY DEF Sound, PumpRecord
<1>2. x \in Packet /\ x = q.port[1] /\ Tail(q.port) \in Seq(Packet)
      /\ Len(q.port) \in Nat \ {0} /\ Len(Tail(q.port)) = Len(q.port) - 1
      /\ \A i \in 1 .. Len(q.port) - 1 : Tail(q.port)[i] = q.port[i + 1]
  BY <1>1
<1>3. /\ r \in PumpRecord /\ r.port = Tail(q.port) /\ r.posted = q.posted /\ r.watched = q.watched
      /\ r.readable = q.readable /\ r.watch = q.watch
  BY <1>1, <1>2 DEF PumpRecord, Dequeued
<1>4. d \in Seq(Task)
  BY <1>1, <1>2, PacketFacts DEF Counted
<1>5. InStep(r.port, d, r.posted)
  BY <1>1, <1>3, InStepTake DEF Counted, OnWindows
<1> HIDE DEF r, x, d
<1>6. Gone(r) = Gone(q) /\ Graves(r)
  BY <1>1, <1>3 DEF Gone, Graves
<1>7. ASSUME NEW f \in Fds
      PROVE  /\ Removes(x, f) => f \in Gone(r) /\ \A i \in 1 .. Len(r.port) : r.port[i] # <<"io", f>>
             /\ r.watch[f] = "freed" =>
                   x # <<"io", f>> /\ \A i \in 1 .. Len(r.port) : r.port[i] # <<"io", f>>
             /\ \A i \in 1 .. Len(r.port) : Removes(r.port[i], f) =>
                   f \in Gone(r) /\ \A j \in i + 1 .. Len(r.port) : r.port[j] # <<"io", f>>
  <2>1. /\ q.watch[f] = "freed" => \A i \in 1 .. Len(q.port) : q.port[i] # <<"io", f>>
        /\ \A i \in 1 .. Len(q.port) : Removes(q.port[i], f) =>
              f \in Gone(q) /\ \A j \in i + 1 .. Len(q.port) : q.port[j] # <<"io", f>>
    BY <1>1 DEF OnWindows
  <2>2. /\ 1 \in 1 .. Len(q.port) /\ Len(r.port) = Len(q.port) - 1 /\ Len(q.port) \in Nat
        /\ \A i \in 1 .. Len(r.port) : /\ r.port[i] = q.port[i + 1]
                                       /\ i + 1 \in 1 .. Len(q.port) /\ i + 1 \in 1 + 1 .. Len(q.port)
    BY <1>2, <1>3
  <2>3. Removes(x, f) => f \in Gone(r) /\ \A i \in 1 .. Len(r.port) : r.port[i] # <<"io", f>>
    BY <1>2, <1>6, <2>1, <2>2
  <2>4. r.watch[f] = "freed" =>
           x # <<"io", f>> /\ \A i \in 1 .. Len(r.port) : r.port[i] # <<"io", f>>
    BY <1>2, <1>3, <2>1, <2>2
  <2>5. ASSUME NEW i \in 1 .. Len(r.port), Removes(r.port[i], f)
        PROVE  f \in Gone(r) /\ \A j \in i + 1 .. Len(r.port) : r.port[j] # <<"io", f>>
    <3>1. f \in Gone(q) /\ \A j \in (i + 1) + 1 .. Len(q.port) : q.port[j] # <<"io", f>>
      BY <2>1, <2>2, <2>5
    <3>2. \A j \in i + 1 .. Len(r.port) : j \in 1 .. Len(r.port) /\ j + 1 \in (i + 1) + 1 .. Len(q.port)
      BY <2>2
    <3> QED BY <1>6, <2>2, <3>1, <3>2
  <2> QED BY <2>3, <2>4, <2>5
<1>8. OnWindows(r, d, x)
  BY <1>5, <1>7 DEF OnWindows
<1> QED BY <1>2, <1>3, <1>4, <1>6, <1>8 DEF Sound, r, x, d

(***************************************************************************)
(* Unix: a drained event is processed.                                     *)
(***************************************************************************)

(* Unix: the next event is taken.                                          *)
LEMMA EventTaken ==
    ASSUME NEW q, NEW done, NEW events, NEW completion, NEW e,
           Sound(TRUE, q, done, events, completion), events # <<>>,
           e \in {<<>>, Tail(events)}
    PROVE  Sound(TRUE, q, done, e, completion)
<1>1. OnUnix(q, done, events) /\ events \in Seq(Events) /\ Drained(q, events)
  BY DEF Sound, OnUnix
<1>2. CASE e = <<>>
  <2>1. e \in Seq(Events) /\ Drained(q, e)
    BY <1>2 DEF Drained
  <2> QED BY <1>1, <2>1 DEF Sound, OnUnix
<1>3. CASE e = Tail(events)
  <2>1. e \in Seq(Events) /\ Len(events) \in Nat /\ Len(e) = Len(events) - 1
        /\ \A i \in 1 .. Len(e) : e[i] = events[i + 1]
    BY <1>1, <1>3
  <2> HIDE <1>3
  <2>2. \A i \in 1 .. Len(e) : i + 1 \in 1 .. Len(events)
    BY <2>1
  <2>3. \A i, j \in 1 .. Len(e) : i # j => e[i] # e[j]
    <3> SUFFICES ASSUME NEW i \in 1 .. Len(e), NEW j \in 1 .. Len(e), i # j
                 PROVE  e[i] # e[j]
      OBVIOUS
    <3>1. i + 1 # j + 1 /\ i + 1 \in 1 .. Len(events) /\ j + 1 \in 1 .. Len(events)
          /\ e[i] = events[i + 1] /\ e[j] = events[j + 1]
      BY <2>1, <2>2
    <3> QED BY <1>1, <3>1 DEF Drained
  <2>4. /\ \A i \in 1 .. Len(e) : e[i] \in Fds => q.watch[e[i]] # "freed"
        /\ \A i \in 1 .. Len(e) : e[i] = "signals" => q.pipe # <<>>
    BY <1>1, <2>1, <2>2 DEF Drained
  <2>5. ASSUME q.pipe # <<>>, Head(q.pipe) = "remove",
               NEW i \in 1 .. Len(e), NEW j \in 1 .. Len(e), i < j, e[i] = "signals"
        PROVE  e[j] # Head(q.params)
    <3>1. i + 1 < j + 1 /\ i + 1 \in 1 .. Len(events) /\ j + 1 \in 1 .. Len(events)
          /\ e[i] = events[i + 1] /\ e[j] = events[j + 1]
      BY <2>1, <2>2, <2>5
    <3> QED BY <1>1, <2>5, <3>1 DEF Drained
  <2>6. Drained(q, e)
    BY <2>3, <2>4, <2>5 DEF Drained
  <2> QED BY <1>1, <2>1, <2>6 DEF Sound, OnUnix
<1> QED BY <1>2, <1>3

Reads(q, r, params, watch) ==
    /\ r \in PumpRecord /\ r.pipe = Tail(q.pipe) /\ r.params = params /\ r.watch = watch
    /\ r.posted = q.posted /\ r.watched = q.watched /\ r.readable = q.readable

(* A signal is read for an event of the pipe.                              *)
LEMMA ReadSound ==
    ASSUME NEW q, NEW done, NEW events, NEW completion,
           Sound(TRUE, q, done, events, completion), events # <<>>, Head(events) = "signals",
           NEW r, NEW params, NEW watch, NEW d \in Seq(Task), Reads(q, r, params, watch),
           Paired(Tail(q.pipe), params, d, q.posted, Gone(q)),
           \/ watch = q.watch
           \/ /\ Head(q.pipe) = "remove" /\ Head(q.params) \in Gone(q)
              /\ watch = [q.watch EXCEPT ![Head(q.params)] = "freed"]
    PROVE  Sound(TRUE, r, d, Tail(events), completion)
<1> DEFINE e == Tail(events)
           fd == Head(q.params)
<1>1. /\ OnUnix(q, done, events) /\ events \in Seq(Events) /\ Drained(q, events) /\ Graves(q)
      /\ q \in PumpRecord
  BY DEF Sound, OnUnix
<1>2. /\ e \in Seq(Events) /\ Len(events) \in Nat /\ events[1] = "signals" /\ 1 \in 1 .. Len(events)
      /\ \A i \in 1 .. Len(e) : i + 1 \in 1 .. Len(events) /\ e[i] = events[i + 1]
  BY <1>1
<1>3. /\ r \in PumpRecord /\ r.pipe = Tail(q.pipe) /\ r.params = params /\ r.watch = watch
      /\ r.posted = q.posted /\ r.watched = q.watched /\ r.readable = q.readable
  BY DEF Reads
<1> HIDE DEF e
<1>4. q.pipe # <<>>
  BY <1>1, <1>2 DEF Drained
<1>5. \A f \in Fds : \/ watch[f] = q.watch[f]
                     \/ watch[f] = "freed" /\ f \in Gone(q) /\ Head(q.pipe) = "remove" /\ f = fd
  BY <1>1 DEF PumpRecord
<1>6. Gone(q) \subseteq Gone(r)
  BY <1>3, <1>5 DEF Gone
<1>7. Graves(r)
  <2>1. ASSUME NEW f \in Fds, r.watch[f] \in {"removed", "freed"}
        PROVE  f \in Gone(r)
    <3>1. f \in Gone(q)
      BY <1>1, <1>3, <1>5, <2>1 DEF Graves
    <3> QED BY <1>6, <3>1
  <2>2. ASSUME NEW f \in r.watched
        PROVE  r.watch[f] # "none"
    <3>1. f \in Fds /\ q.watch[f] # "none"
      BY <1>1, <1>3, <2>2 DEF Graves, PumpRecord
    <3> QED BY <1>3, <1>5, <3>1
  <2> QED BY <2>1, <2>2 DEF Graves
<1>8. Drained(r, e)
  <2>1. \A i \in 1 .. Len(e) : e[i] # "signals"
    <3> SUFFICES ASSUME NEW i \in 1 .. Len(e)
                 PROVE  e[i] # "signals"
      OBVIOUS
    <3>1. i + 1 # 1 /\ i + 1 \in 1 .. Len(events) /\ e[i] = events[i + 1]
      BY <1>2
    <3> QED BY <1>1, <1>2, <3>1 DEF Drained
  <2>2. ASSUME NEW i \in 1 .. Len(e), e[i] \in Fds
        PROVE  r.watch[e[i]] # "freed"
    <3>1. 1 < i + 1 /\ i + 1 \in 1 .. Len(events) /\ e[i] = events[i + 1]
      BY <1>2
    <3>2. q.watch[e[i]] # "freed"
      BY <1>1, <2>2, <3>1 DEF Drained
    <3>3. Head(q.pipe) = "remove" => e[i] # fd
      BY <1>1, <1>2, <1>4, <3>1 DEF Drained
    <3> QED BY <1>3, <1>5, <2>2, <3>2, <3>3
  <2>3. \A i, j \in 1 .. Len(e) : i # j => e[i] # e[j]
    <3> SUFFICES ASSUME NEW i \in 1 .. Len(e), NEW j \in 1 .. Len(e), i # j
                 PROVE  e[i] # e[j]
      OBVIOUS
    <3>1. i + 1 # j + 1 /\ i + 1 \in 1 .. Len(events) /\ j + 1 \in 1 .. Len(events)
          /\ e[i] = events[i + 1] /\ e[j] = events[j + 1]
      BY <1>2
    <3> QED BY <1>1, <3>1 DEF Drained
  <2> QED BY <2>1, <2>2, <2>3 DEF Drained
<1>9. Paired(r.pipe, r.params, d, r.posted, Gone(r))
  BY <1>3, <1>6, PairedBuried
<1>10. \A i \in 1 .. Len(r.posted) : r.posted[i][1] = "remove_proc" => r.posted[i][2] \in Gone(r)
  BY <1>1, <1>3, <1>6 DEF OnUnix
<1> QED BY <1>2, <1>3, <1>7, <1>8, <1>9, <1>10 DEF Sound, OnUnix, e

LEMMA SignalProcessed ==
    ASSUME Unix, NEW completion, Sound(TRUE, p, ran, batch, completion), batch # <<>>,
           Head(batch) = "signals", stale \in BOOLEAN, timer \in TimerRecord,
           process_signal
    PROVE  /\ Sound(TRUE, p', ran', Tail(batch), completion)
           /\ stale' = stale /\ at' \in {at, "stuck", "ended"}
           /\ timer' \in TimerRecord
<1>0. Unix = TRUE
  BY DEF Unix
<1>1. /\ p \in PumpRecord /\ ran \in Seq(Task) /\ OnUnix(p, ran, batch) /\ Drained(p, batch)
      /\ p.pipe \in Seq(Signals) /\ p.params \in Seq(Params) /\ p.posted \in Seq(Task)
      /\ batch \in Seq(Events)
  BY DEF Sound, OnUnix, PumpRecord
<1>2. p.pipe # <<>> /\ Head(p.pipe) \in Signals
  <2>1. 1 \in 1 .. Len(batch) /\ batch[1] = "signals"
    BY <1>1
  <2> QED BY <1>1, <2>1 DEF Drained
<1>3. Paired(p.pipe, p.params, ran, p.posted, Gone(p))
  BY <1>1 DEF OnUnix
<1>4. Tail(p.pipe) \in Seq(Signals)
  BY <1>1, <1>2
<1> DEFINE q == [p EXCEPT !.pipe = Tail(@)]
<1>5. CASE Head(p.pipe) = "exit"
  <2>1. p' = q /\ ran' = ran /\ stale' = stale /\ timer' = timer /\ at' \in {at, "ended"}
    BY <1>2, <1>5 DEF process_signal
  <2>2. Reads(p, q, p.params, p.watch)
    BY <1>1, <1>4 DEF Reads, PumpRecord
  <2>3. Paired(Tail(p.pipe), p.params, ran, p.posted, Gone(p))
    BY <1>1, <1>2, <1>3, <1>5, PairedTake
  <2> QED BY <1>1, <2>1, <2>2, <2>3, ReadSound
<1>6. CASE Head(p.pipe) = "remove"
  <2> DEFINE fd == Head(p.params)
             w == [p.watch EXCEPT ![fd] = "freed"]
             ps == Tail(p.params)
  <2>1. p' = Freed(p) /\ ran' = ran /\ stale' = stale /\ timer' = timer /\ at' = at
    BY <1>2, <1>6 DEF process_signal
  <2>2. p.params # <<>> /\ fd \in Gone(p) /\ Paired(Tail(p.pipe), ps, ran, p.posted, Gone(p))
    BY <1>1, <1>2, <1>3, <1>6, PairedTake
  <2>3. ps \in Seq(Params) /\ w \in [Fds -> {"none", "live", "removed", "freed"}]
    BY <1>1, <2>2 DEF Gone, PumpRecord
  <2>4. p' = [p EXCEPT !.pipe = Tail(p.pipe), !.params = ps, !.watch = w]
    BY <1>1, <2>1 DEF Freed, PumpRecord
  <2> HIDE DEF w, ps, fd
  <2>5. Reads(p, p', ps, w)
    BY <1>1, <1>4, <2>3, <2>4 DEF Reads, PumpRecord
  <2>6. Sound(TRUE, p', ran, Tail(batch), completion)
    BY <1>1, <1>6, <2>2, <2>5, ReadSound DEF w, fd
  <2> QED BY <2>1, <2>6
<1>7. CASE Head(p.pipe) = "post"
  <2> DEFINE f == <<Head(p.params), Head(Tail(p.params))>>
             ps == Tail(Tail(p.params))
             r == [q EXCEPT !.params = Tail(Tail(@))]
  <2>1. Run(r, f)
    BY <1>2, <1>7 DEF process_signal
  <2>2. /\ p.params # <<>> /\ Tail(p.params) # <<>> /\ f \in Task
        /\ Paired(Tail(p.pipe), ps, Append(ran, f), p.posted, Gone(p))
    BY <1>1, <1>2, <1>3, <1>7, PairedTake
  <2>3. ps \in Seq(Params)
    BY <1>1, <2>2
  <2>4. r = [p EXCEPT !.pipe = Tail(p.pipe), !.params = ps]
    BY <1>1 DEF PumpRecord
  <2> HIDE DEF ps, r, f
  <2>5. Reads(p, r, ps, p.watch)
    BY <1>1, <1>4, <2>3, <2>4 DEF Reads, PumpRecord
  <2>6. Sound(TRUE, r, Append(ran, f), Tail(batch), completion)
    <3>1. Append(ran, f) \in Seq(Task)
      BY <1>1, <2>2
    <3> QED BY <2>2, <2>5, <3>1, ReadSound
  <2>7. ran' = Append(ran, f) /\ stale' = stale
    BY <2>1 DEF Run
  <2>8. CASE f[1] = "call"
    <3>1. Hook(r, Unix)
      BY <2>1, <2>8 DEF Run
    <3>2. /\ Sound(Unix, p', ran', Tail(batch), completion) /\ at' \in {at, "stuck"}
          /\ timer' = timer \/ timer' = lw_timer_stop_unix(timer) \/ timer' = lw_timer_stop_windows(timer)
      BY <1>0, <2>6, <2>7, <3>1, HookSound
    <3> QED BY <1>0, <2>7, <3>2, TimerStops
  <2>9. CASE f[1] = "remove_proc"
    <3>1. p' = def_remove_unix(r, f[2]) /\ timer' = timer /\ at' = at
      BY <1>0, <2>1, <2>9 DEF Run, lw_pump_remove
    <3>2. f[2] \in Gone(r)
      <4>1. Begins(Append(ran, f), p.posted)
        BY <2>2 DEF Paired
      <4>2. Len(ran) \in Nat /\ Len(Append(ran, f)) = Len(ran) + 1 /\ Append(ran, f)[Len(ran) + 1] = f
            /\ Len(p.posted) \in Nat
        BY <1>1, <2>2
      <4>3. Len(ran) + 1 \in 1 .. Len(p.posted) /\ p.posted[Len(ran) + 1] = f
        BY <4>1, <4>2 DEF Begins
      <4>4. f[2] \in Gone(p)
        BY <1>1, <2>9, <4>3 DEF OnUnix
      <4> QED BY <2>5, <4>4 DEF Gone, Reads
    <3> QED BY <2>6, <2>7, <3>1, <3>2, RemoveSound
  <2>10. CASE f[1] \notin {"call", "remove_proc"}
    <3>1. p' = r /\ timer' = timer /\ at' = at
      BY <2>1, <2>10 DEF Run
    <3> QED BY <2>6, <2>7, <3>1
  <2> QED BY <2>8, <2>9, <2>10
<1> QED BY <1>2, <1>5, <1>6, <1>7 DEF Signals

(* Unix: an event is processed.                                            *)
LEMMA EventSound ==
    ASSUME NEW completion, Sound(TRUE, p, ran, batch, completion),
           stale \in BOOLEAN, timer \in TimerRecord, process_event,
           {"signals", "timer"} \cap Fds = {}
    PROVE  /\ Sound(TRUE, p', ran', batch', completion)
           /\ stale' = stale /\ at' \in {at, "stuck", "ended"}
           /\ timer' \in TimerRecord
<1>1. Unix /\ batch # <<>> /\ batch' \in {<<>>, Tail(batch)}
  BY DEF process_event, Rest
<1>2. p \in PumpRecord /\ ran \in Seq(Task) /\ batch \in Seq(Events) /\ Drained(p, batch) /\ Unix = TRUE
  BY <1>1 DEF Sound, OnUnix, Unix
<1>3. CASE Head(batch) \in Fds /\ OnReady(p, Head(batch))
  <2>1. p.watch[Head(batch)] # "freed"
    <3>1. 1 \in 1 .. Len(batch) /\ batch[1] = Head(batch)
      BY <1>1, <1>2
    <3> QED BY <1>2, <1>3, <3>1 DEF Drained
  <2>2. Sound(TRUE, p', ran', batch, completion) /\ Called
    BY <1>2, <1>3, <2>1, OnReadySound
  <2> QED BY <1>1, <2>2, EventTaken DEF Called
<1>4. CASE /\ p' = [p EXCEPT !.readable = @ \ {"timer"}]
           /\ UNCHANGED <<at, timer, ran, stale>>
  <2>1. Still(p, p')
    BY <1>2, <1>4 DEF Still, PumpRecord
  <2>2. Sound(TRUE, p', ran', batch, completion)
    BY <1>4, <2>1, StillSound
  <2> QED BY <1>1, <1>4, <2>2, EventTaken
<1>5. CASE Head(batch) = "signals" /\ process_signal
  <2>1. /\ Sound(TRUE, p', ran', Tail(batch), completion)
        /\ stale' = stale /\ at' \in {at, "stuck", "ended"}
        /\ timer' \in TimerRecord
    BY <1>1, <1>5, SignalProcessed
  <2>2. Sound(TRUE, p', ran', <<>>, completion)
    <3>1. Drained(p', <<>>) /\ <<>> \in Seq(Events)
      BY DEF Drained
    <3> QED BY <2>1, <3>1 DEF Sound, OnUnix
  <2> QED BY <1>1, <2>1, <2>2
<1> QED BY <1>3, <1>4, <1>5 DEF process_event

(***************************************************************************)
(* A drain, an arrival, and what the pump is told from outside.            *)
(***************************************************************************)

(* Nothing is queued, nothing taken.                                       *)
Kept(q, r) ==
    /\ r \in PumpRecord /\ r.pipe = q.pipe /\ r.params = q.params /\ r.port = q.port
    /\ r.posted = q.posted /\ Gone(q) \subseteq Gone(r) /\ Graves(r)
    /\ \A f \in Fds : r.watch[f] = "freed" => q.watch[f] = "freed"

LEMMA KeptSound ==
    ASSUME NEW unix, NEW q, NEW done, NEW events, NEW completion,
           Sound(unix, q, done, events, completion), NEW r, Kept(q, r)
    PROVE  Sound(unix, r, done, events, completion)
<1>1. q \in PumpRecord /\ r \in PumpRecord
  BY DEF Kept, Sound
<1>2. ASSUME OnUnix(q, done, events)
      PROVE  OnUnix(r, done, events)
  <2>1. Paired(r.pipe, r.params, done, r.posted, Gone(r))
    BY <1>1, <1>2, PairedBuried DEF OnUnix, Kept
  <2>2. Drained(r, events)
    BY <1>2 DEF OnUnix, Drained, Kept
  <2> QED BY <1>1, <1>2, <2>1, <2>2 DEF OnUnix, Kept
<1>3. ASSUME OnWindows(q, done, completion)
      PROVE  OnWindows(r, done, completion)
  BY <1>1, <1>3 DEF OnWindows, Kept
<1> QED BY <1>1, <1>2, <1>3 DEF Sound, Kept

(* Unix: what a queue reports can be read, or is the pipe with something   *)
(* in it, or the timer.                                                    *)
Reported(q, s) ==
    /\ s \subseteq Events
    /\ \A f \in s \cap Fds : f \in q.readable
    /\ "signals" \in s => q.pipe # <<>>

LEMMA DrainReports ==
    ASSUME NEW q \in PumpRecord, NEW o \in lwp_eventqueue_drain(q)
    PROVE  Reported(q, o[1]) /\ Still(q, o[2])
<1>1. Reported(q, Readable(q) \cup {"timer"}) /\ Readable(q) \subseteq Events
  BY PumpAssumption DEF Reported, Readable, PumpRecord, Events
<1>2. \A s \in SUBSET (Readable(q) \cup {"timer"}) : Reported(q, s)
  BY <1>1 DEF Reported
<1>3. \A a \in SUBSET Events : Still(q, [q EXCEPT !.armed = a]) /\ Still(q, [q EXCEPT !.seen = a])
  BY DEF Still, PumpRecord
<1>4. q.armed \subseteq Events /\ q.seen \subseteq Events
  BY DEF PumpRecord
<1>5. CASE o \in lwp_eventqueue_drain_epoll(q)
  <2> DEFINE ready == q.armed \cap Readable(q)
  <2>1. PICK s \in SUBSET ready : o = <<s, [q EXCEPT !.armed = ready \ s]>>
    BY <1>5 DEF lwp_eventqueue_drain_epoll
  <2>2. s \in SUBSET (Readable(q) \cup {"timer"}) /\ ready \ s \in SUBSET Events
    BY <1>4
  <2> QED BY <1>2, <1>3, <2>1, <2>2
<1>6. CASE o \in lwp_eventqueue_drain_kqueue(q)
  <2> DEFINE ready == q.armed \cap (Readable(q) \cup {"timer"})
  <2>1. PICK s \in SUBSET ready : o = <<s, [q EXCEPT !.armed = ready \ s]>>
    BY <1>6 DEF lwp_eventqueue_drain_kqueue
  <2>2. s \in SUBSET (Readable(q) \cup {"timer"}) /\ ready \ s \in SUBSET Events
    BY <1>4
  <2> QED BY <1>2, <1>3, <2>1, <2>2
<1>7. CASE o \in lwp_eventqueue_drain_select(q)
  <2> DEFINE ready == ((q.watched \cup {"signals"}) \cap Readable(q)) \ q.seen
  <2>1. o = <<ready, [q EXCEPT !.seen = q.seen \cup ready]>>
    BY <1>7 DEF lwp_eventqueue_drain_select, PumpRecord
  <2>2. ready \in SUBSET (Readable(q) \cup {"timer"}) /\ q.seen \cup ready \in SUBSET Events
    BY <1>1, <1>4
  <2> QED BY <1>2, <1>3, <2>1, <2>2
<1> QED BY <1>5, <1>6, <1>7 DEF lwp_eventqueue_drain

LEMMA InTurn ==
    ASSUME NEW s \in SUBSET Events, NEW b \in SetToSeqs(s)
    PROVE  /\ b \in Seq(Events)
           /\ \A i \in 1 .. Len(b) : b[i] \in s
           /\ \A i, j \in 1 .. Len(b) : i # j => b[i] # b[j]
<1>1. IsFiniteSet(Events)
  <2>1. IsFiniteSet(Fds \cup {"signals"})
    BY PumpAssumption, FS_AddElement
  <2>2. IsFiniteSet((Fds \cup {"signals"}) \cup {"timer"})
    BY <2>1, FS_AddElement
  <2>3. (Fds \cup {"signals"}) \cup {"timer"} = Events
    BY DEF Events
  <2> QED BY <2>2, <2>3
<1>2. Cardinality(s) \in Nat
  BY <1>1, FS_Subset, FS_CardinalityType
<1> DEFINE n == Cardinality(s)
<1>3. /\ b \in [1 .. n -> s]
      /\ \A i, j \in 1 .. n : i # j => b[i] # b[j]
  BY DEF SetToSeqs
<1> HIDE DEF n
<1>4. n \in Nat
  BY <1>2 DEF n
<1>5. b \in Seq(s) /\ Len(b) = n
  BY <1>3, <1>4
<1> QED BY <1>3, <1>5

LEMMA DrainSound ==
    ASSUME NEW q, NEW done, NEW events, NEW completion, Sound(TRUE, q, done, events, completion),
           NEW o \in lwp_eventqueue_drain(q), NEW b \in SetToSeqs(o[1])
    PROVE  Sound(TRUE, o[2], done, b, completion)
<1>1. /\ q \in PumpRecord /\ OnUnix(q, done, events) /\ Graves(q)
      /\ q.pipe \in Seq(Signals) /\ q.params \in Seq(Params) /\ q.posted \in Seq(Task)
      /\ done \in Seq(Task)
  BY DEF Sound, PumpRecord
<1>2. Reported(q, o[1]) /\ Still(q, o[2])
  BY <1>1, DrainReports
<1>3. /\ b \in Seq(Events)
      /\ \A i \in 1 .. Len(b) : b[i] \in o[1]
      /\ \A i, j \in 1 .. Len(b) : i # j => b[i] # b[j]
  BY <1>2, InTurn DEF Reported
<1>4. ASSUME q.pipe # <<>>, Head(q.pipe) = "remove"
      PROVE  Head(q.params) \in Gone(q)
  BY <1>1, <1>4, PairedTake DEF OnUnix
<1>5. ASSUME NEW i \in 1 .. Len(b)
      PROVE  /\ b[i] \notin Gone(q)
             /\ b[i] = "signals" => q.pipe # <<>>
             /\ b[i] \in Fds => q.watch[b[i]] # "freed"
  <2>1. b[i] \in o[1]
    BY <1>3
  <2>2. b[i] \in Fds => b[i] \in q.readable
    BY <1>2, <2>1 DEF Reported
  <2>3. b[i] \notin Gone(q)
    BY <2>2 DEF Gone
  <2> QED BY <1>1, <1>2, <2>1, <2>3 DEF Reported, Graves
<1>6. Drained(q, b)
  BY <1>3, <1>4, <1>5 DEF Drained
<1>7. Sound(TRUE, q, done, b, completion)
  BY <1>1, <1>3, <1>6 DEF Sound, OnUnix
<1> QED BY <1>2, <1>7, StillSound

LEMMA PrunedSound ==
    ASSUME NEW unix, NEW q, NEW done, NEW events, NEW completion,
           Sound(unix, q, done, events, completion)
    PROVE  Sound(unix, Pruned(q), done, events, completion)
<1>1. Still(q, Pruned(q))
  BY DEF Still, Pruned, Sound, PumpRecord
<1> QED BY <1>1, StillSound

(* A socket becomes readable, or a timer expires.                          *)
LEMMA ArriveFields ==
    ASSUME p \in PumpRecord, NEW fd \in Fds, NEW most, Arrive(fd, most)
    PROVE  /\ p' \in PumpRecord /\ p'.pipe = p.pipe /\ p'.params = p.params
           /\ p'.posted = p.posted /\ p'.watch = p.watch /\ p'.watched = p.watched
           /\ p'.exit = p.exit
           /\ Unix => p'.port = p.port /\ p'.readable = p.readable \cup {fd}
           /\ ~Unix => p'.port = Append(p.port, <<"io", fd>>) /\ p'.readable = p.readable
<1> DEFINE n == p.arrivals + 1
           a == IF Edge THEN p.armed \cup ({fd} \cap p.watched) ELSE p.armed
           b == IF Unix THEN p.readable \cup {fd} ELSE p.readable
           y == IF Unix THEN p.port ELSE Append(p.port, <<"io", fd>>)
<1>1. p' = [p EXCEPT !.arrivals = n, !.readable = b, !.armed = a, !.port = y]
  BY DEF Arrive, PumpRecord
<1>2. n \in Nat /\ a \in SUBSET Events /\ b \in SUBSET (Fds \cup {"timer"})
  BY DEF PumpRecord, Events
<1>3. y \in Seq(Packet)
  BY PacketFacts DEF PumpRecord
<1> HIDE DEF n, a, b, y
<1>4. p' \in PumpRecord
  BY <1>1, <1>2, <1>3 DEF PumpRecord
<1>5. /\ p'.pipe = p.pipe /\ p'.params = p.params /\ p'.port = y
      /\ p'.posted = p.posted /\ p'.watch = p.watch /\ p'.watched = p.watched
      /\ p'.readable = b /\ p'.exit = p.exit
  BY <1>1 DEF PumpRecord
<1> QED BY <1>4, <1>5 DEF b, y

LEMMA ArriveSound ==
    ASSUME NEW done, NEW events, NEW completion, Sound(Unix, p, done, events, completion),
           NEW fd \in Fds, NEW most, Arrive(fd, most)
    PROVE  Sound(Unix, p', done, events, completion)
<1>1. p \in PumpRecord /\ Graves(p) /\ fd \notin Gone(p)
  BY DEF Sound, Arrive, Gone
<1>2. /\ p' \in PumpRecord /\ p'.pipe = p.pipe /\ p'.params = p.params
      /\ p'.posted = p.posted /\ p'.watch = p.watch /\ p'.watched = p.watched
      /\ Unix => p'.port = p.port /\ p'.readable = p.readable \cup {fd}
      /\ ~Unix => p'.port = Append(p.port, <<"io", fd>>) /\ p'.readable = p.readable
  BY <1>1, ArriveFields
<1>3. Gone(p) = Gone(p')
  BY <1>1, <1>2 DEF Gone, Arrive
<1>4. CASE Unix
  <2>1. Kept(p, p')
    BY <1>1, <1>2, <1>3, <1>4 DEF Kept, Graves
  <2> QED BY <2>1, KeptSound
<1>5. CASE ~Unix
  <2> DEFINE x == <<"io", fd>>
  <2>1. x \in Packet /\ ~Posts(x) /\ \A f \in Fds : ~Removes(x, f) /\ (x = <<"io", f>> <=> f = fd)
    BY PacketFacts DEF Removes
  <2>2. p'.port = Append(p.port, x)
    BY <1>2, <1>5
  <2> HIDE DEF x
  <2>3. p.watch[fd] # "freed"
    BY <1>1 DEF Graves
  <2>4. OnWindows(p, done, completion) /\ done \in Seq(Task)
    BY <1>5 DEF Sound
  <2>5. OnWindows(p', done, completion)
    BY <1>1, <1>2, <1>3, <2>1, <2>2, <2>3, <2>4, PacketSound
  <2> QED BY <1>1, <1>2, <1>3, <1>5, <2>4, <2>5 DEF Sound, Graves
<1> QED BY <1>4, <1>5

LEMMA ExpireFields ==
    ASSUME p \in PumpRecord, timer \in TimerRecord, timer_expires
    PROVE  /\ p' \in PumpRecord /\ p'.pipe = p.pipe /\ p'.params = p.params /\ p'.port = p.port
           /\ p'.posted = p.posted /\ p'.watch = p.watch /\ p'.watched = p.watched
           /\ p'.exit = p.exit /\ p'.readable \in {p.readable, p.readable \cup {"timer"}}
           /\ timer' \in TimerRecord
           /\ timer.thread # "wait" => timer'.thread = timer.thread
<1>1. /\ timer' \in TimerRecord
      /\ timer.thread # "wait" => timer'.thread = timer.thread
  <2> DEFINE n == timer.left - 1
  <2>1. \/ timer' = [timer EXCEPT !.thread = "posting", !.left = n] /\ timer.thread = "wait"
        \/ timer' = [timer EXCEPT !.left = n]
    BY DEF timer_expires, TimerRecord
  <2>2. n \in Nat
    BY DEF timer_expires, TimerRecord
  <2> HIDE DEF n
  <2> QED BY <2>1, <2>2 DEF TimerRecord
<1>2. p' = p \/ p' = [p EXCEPT !.armed = @ \cup {"timer"}, !.readable = @ \cup {"timer"}]
  BY DEF timer_expires
<1>3. CASE p' = [p EXCEPT !.armed = @ \cup {"timer"}, !.readable = @ \cup {"timer"}]
  <2> DEFINE a == p.armed \cup {"timer"}
             b == p.readable \cup {"timer"}
  <2>1. p' = [p EXCEPT !.armed = a, !.readable = b]
    BY <1>3 DEF PumpRecord
  <2>2. a \in SUBSET Events /\ b \in SUBSET (Fds \cup {"timer"})
    BY DEF PumpRecord, Events
  <2> HIDE DEF a, b
  <2>3. p' \in PumpRecord
    BY <2>1, <2>2 DEF PumpRecord
  <2>4. /\ p'.pipe = p.pipe /\ p'.params = p.params /\ p'.port = p.port
        /\ p'.posted = p.posted /\ p'.watch = p.watch /\ p'.watched = p.watched
        /\ p'.exit = p.exit /\ p'.readable = b
    BY <2>1 DEF PumpRecord
  <2> QED BY <1>1, <2>3, <2>4 DEF b
<1> QED BY <1>1, <1>2, <1>3

LEMMA ExpireSound ==
    ASSUME NEW done, NEW events, NEW completion, Sound(Unix, p, done, events, completion),
           timer \in TimerRecord, timer_expires
    PROVE  Sound(Unix, p', done, events, completion)
<1>1. p \in PumpRecord /\ Graves(p)
  BY DEF Sound
<1>2. /\ p' \in PumpRecord /\ p'.pipe = p.pipe /\ p'.params = p.params /\ p'.port = p.port
      /\ p'.posted = p.posted /\ p'.watch = p.watch /\ p'.watched = p.watched
      /\ p'.readable \in {p.readable, p.readable \cup {"timer"}}
  BY <1>1, ExpireFields
<1>3. Gone(p) = Gone(p')
  BY <1>2, PumpAssumption DEF Gone
<1>4. Kept(p, p')
  BY <1>1, <1>2, <1>3 DEF Kept, Graves
<1> QED BY <1>4, KeptSound

(* The timer's thread posts, the loop is told to end, a watch is added.    *)
LEMMA TickFields ==
    ASSUME p \in PumpRecord, timer \in TimerRecord, timer_thread
    PROVE  /\ PostedTo(p, p', <<"tick", "timer">>) /\ <<"tick", "timer">> \in Task
           /\ timer' \in TimerRecord
<1>1. <<"tick", "timer">> \in Task
  BY DEF Task
<1> QED BY <1>1, PostFields DEF timer_thread, TimerRecord

LEMMA TickSound ==
    ASSUME NEW done, NEW events, NEW completion, Sound(Unix, p, done, events, completion),
           timer_thread
    PROVE  Sound(Unix, p', done, events, completion)
<1>1. <<"tick", "timer">> \in Task
  BY DEF Task
<1> QED BY <1>1, PostSound DEF timer_thread

(* The loop is told to end.                                                *)
Exits(q, r) ==
    /\ r \in PumpRecord /\ r.posted = q.posted /\ r.exit = TRUE
    /\ r.watch = q.watch /\ r.watched = q.watched /\ r.readable = q.readable
    /\ Unix => r.pipe = Append(q.pipe, "exit") /\ r.params = q.params \o <<>> /\ r.port = q.port
    /\ ~Unix => r.port = Append(q.port, <<"exit">>)

LEMMA ExitFields ==
    ASSUME NEW q \in PumpRecord
    PROVE  Exits(q, lw_eventpump_post_eventloop_exit(q))
<1> DEFINE r == lw_eventpump_post_eventloop_exit(q)
<1>1. CASE Unix
  <2> DEFINE s == Signal(q, "exit", <<>>)
             e == <<>>
  <2>1. "exit" \in Signals /\ e \in Seq(Params)
    BY DEF Signals
  <2>2. Written(q, s, "exit", e)
    BY <2>1, SignalFields
  <2>3. r = [s EXCEPT !.exit = TRUE]
    BY <1>1 DEF lw_eventpump_post_eventloop_exit, exit_unix
  <2> HIDE DEF s, r, e
  <2>4. /\ r \in PumpRecord /\ r.posted = s.posted /\ r.exit = TRUE
        /\ r.watch = s.watch /\ r.watched = s.watched /\ r.readable = s.readable
        /\ r.pipe = s.pipe /\ r.params = s.params /\ r.port = s.port
    BY <2>2, <2>3 DEF Written, PumpRecord
  <2> QED BY <1>1, <2>2, <2>4 DEF Written, Exits, r, e
<1>2. CASE ~Unix
  <2> DEFINE y == Append(q.port, <<"exit">>)
  <2>1. r = [q EXCEPT !.port = y, !.exit = TRUE]
    BY <1>2 DEF lw_eventpump_post_eventloop_exit, exit_windows, PumpRecord
  <2>2. y \in Seq(Packet)
    BY PacketFacts DEF PumpRecord
  <2> HIDE DEF r, y
  <2>3. /\ r \in PumpRecord /\ r.port = y /\ r.posted = q.posted /\ r.exit = TRUE
        /\ r.watch = q.watch /\ r.watched = q.watched /\ r.readable = q.readable
    BY <2>1, <2>2 DEF PumpRecord
  <2> QED BY <1>2, <2>3 DEF Exits, y, r
<1> QED BY <1>1, <1>2

LEMMA ExitSound ==
    ASSUME NEW q, NEW done, NEW events, NEW completion, Sound(Unix, q, done, events, completion)
    PROVE  Sound(Unix, lw_eventpump_post_eventloop_exit(q), done, events, completion)
<1> DEFINE r == lw_eventpump_post_eventloop_exit(q)
<1>1. q \in PumpRecord /\ Graves(q) /\ done \in Seq(Task)
  BY DEF Sound
<1>2. Exits(q, r)
  BY <1>1, ExitFields
<1> HIDE DEF r
<1>3. /\ r \in PumpRecord /\ r.posted = q.posted
      /\ r.watch = q.watch /\ r.watched = q.watched /\ r.readable = q.readable
  BY <1>2 DEF Exits
<1>4. Gone(q) = Gone(r) /\ Graves(r)
  BY <1>1, <1>3 DEF Gone, Graves
<1>5. CASE Unix
  <2> DEFINE e == <<>>
  <2>1. "exit" \in Signals /\ e \in Seq(Params) /\ Len(e) = 0
    BY DEF Signals
  <2>2. r.pipe = Append(q.pipe, "exit") /\ r.params = q.params \o e
    BY <1>2, <1>5 DEF Exits
  <2> HIDE DEF e
  <2>3. OnUnix(q, done, events)
    BY <1>5 DEF Sound
  <2>4. OnUnix(r, done, events)
    BY <1>1, <1>3, <1>4, <2>1, <2>2, <2>3, SignalSound
  <2> QED BY <1>1, <1>3, <1>4, <1>5, <2>4 DEF Sound, r
<1>6. CASE ~Unix
  <2> DEFINE x == <<"exit">>
  <2>1. x \in Packet /\ ~Posts(x) /\ \A f \in Fds : x # <<"io", f>>
    BY PacketFacts
  <2>2. r.port = Append(q.port, x)
    BY <1>2, <1>6 DEF Exits
  <2> HIDE DEF x
  <2>3. OnWindows(q, done, completion)
    BY <1>6 DEF Sound
  <2>4. OnWindows(r, done, completion)
    BY <1>1, <1>3, <1>4, <2>1, <2>2, <2>3, PacketSound
  <2> QED BY <1>1, <1>3, <1>4, <1>6, <2>4 DEF Sound, r
<1> QED BY <1>5, <1>6

LEMMA AddSound ==
    ASSUME NEW q, NEW done, NEW events, NEW completion, Sound(Unix, q, done, events, completion),
           NEW fd \in Fds, q.watch[fd] = "none"
    PROVE  Sound(Unix, lw_pump_add(q, fd), done, events, completion)
<1> DEFINE r == lw_pump_add(q, fd)
           w == [q.watch EXCEPT ![fd] = "live"]
           a == q.watched \cup {fd}
           b == q.armed \cup ({fd} \cap q.readable)
<1>1. q \in PumpRecord /\ Graves(q)
  BY DEF Sound
<1>2. \/ r = [q EXCEPT !.watched = a, !.armed = b, !.watch = w]
      \/ r = [q EXCEPT !.watched = a, !.watch = w]
  BY <1>1 DEF lw_pump_add, def_add_unix, def_add_windows, def_update_callbacks_unix, PumpRecord,
        lwp_eventqueue_update_epoll, lwp_eventqueue_update_kqueue, lwp_eventqueue_update_select
<1>3. /\ w \in [Fds -> {"none", "live", "removed", "freed"}] /\ a \in SUBSET Fds /\ b \in SUBSET Events
      /\ \A f \in Fds : w[f] = (IF f = fd THEN "live" ELSE q.watch[f])
  BY <1>1 DEF PumpRecord, Events
<1>4. \A f \in Fds : f \in a <=> f \in q.watched \/ f = fd
  OBVIOUS
<1> HIDE DEF r, w, a, b
<1>5. /\ r \in PumpRecord /\ r.pipe = q.pipe /\ r.params = q.params /\ r.port = q.port
      /\ r.posted = q.posted /\ r.watch = w /\ r.watched = a /\ r.readable = q.readable
  <2>1. CASE r = [q EXCEPT !.watched = a, !.armed = b, !.watch = w]
    <3>1. r \in PumpRecord
      BY <1>1, <1>3, <2>1 DEF PumpRecord
    <3> QED BY <1>1, <2>1, <3>1 DEF PumpRecord
  <2>2. CASE r = [q EXCEPT !.watched = a, !.watch = w]
    <3>1. r \in PumpRecord
      BY <1>1, <1>3, <2>2 DEF PumpRecord
    <3> QED BY <1>1, <2>2, <3>1 DEF PumpRecord
  <2> QED BY <1>2, <2>1, <2>2
<1>6. Gone(q) = Gone(r)
  BY <1>3, <1>4, <1>5 DEF Gone
<1>7. Graves(r)
  BY <1>1, <1>3, <1>4, <1>5, <1>6 DEF Graves
<1>8. Kept(q, r)
  BY <1>3, <1>5, <1>6, <1>7 DEF Kept
<1> QED BY <1>8, KeptSound DEF r

(***************************************************************************)
(* The inductive invariant.                                                *)
(***************************************************************************)

(* The main thread is past the last call it runs, or on its way there.     *)
Off == at \in {"joining", "over", "ended", "stuck"}

Life == {"none", "made", "deleted"}
Calling == {"clear", "stop", "unhost", "exit", "kill"}

Typed ==
    /\ build \in {"windows", "epoll", "kqueue", "select"} /\ mode \in {"main", "loop", "sleepy"}
    /\ p \in PumpRecord /\ ran \in Seq(Task) /\ timer \in TimerRecord /\ resume \in Nat
    /\ object \in [pump : Life, server : Life, timer : Life] /\ console \in Seq(Calling)
    /\ ~Unix => held = <<>> \/ held \in Packet
    /\ stale = FALSE /\ Begins(ran, p.posted)

(* What the program does with its console: Shutdown's last call posts the  *)
(* exit, and nothing else ends the loop but an exception.                  *)
ExitsLast ==
    /\ \A i \in 1 .. Len(console) : console[i] = "exit" =>
          \A j \in i + 1 .. Len(console) : console[j] = "kill"
    /\ console # <<>> => shutdowned
    /\ p.exit => shutdowned /\ \A i \in 1 .. Len(console) : console[i] = "kill"
    /\ finished \/ (\E i \in 1 .. Len(p.port) : p.port[i] = <<"exit">>) => p.exit
    /\ at = "ended" => p.exit \/ threw

(* What main() deletes: after the loop, and the timer, with its thread,    *)
(* before all else.                                                        *)
Deletes ==
    /\ "deleted" \in {object.pump, object.server, object.timer} =>
          at \in {"ended", "over"} /\ timer.thread = "over"
    /\ doing \in {"server", "pump", "getchar"} => at \in {"ended", "over"} /\ timer.thread = "over"

MainInv ==
    /\ ~Unix /\ held = <<>> /\ wat = "off" /\ at \in {"main", "run", "ended", "over"}
    /\ doing \in {"new", "policy", "host", "start", "loop", "server", "pump", "getchar"}
    /\ doing \in {"new", "policy", "host", "start"} => at \in {"main", "over"}
    /\ \A i \in 1 .. Len(p.posted) : p.posted[i] = <<"tick", "timer">>
    /\ InStep(p.port, ran, p.posted)
    /\ ExitsLast /\ Deletes /\ Outlives

(* The main thread and the watcher take turns with what the watcher found. *)
Handshake ==
    /\ at = "setup" => batch = <<>> /\ held = <<>> /\ wat = "off" /\ ~asked /\ resume = 0
    /\ mode = "loop" => held = <<>> /\ wat = "off" /\ ~asked /\ resume = 0
    /\ at \in {"idle", "held", "rest"} => mode = "sleepy"
    /\ at \in {"run", "select"} => mode = "loop"
    /\ at \in {"idle", "select"} => batch = <<>>
    /\ build = "windows" => batch = <<>>
    /\ at = "rest" => held = <<>>
    /\ ~Off =>
          /\ wat \in {"off", "drain", "select", "resumed"} => held = <<>>
          /\ resume # 0 => wat \in {"wait", "resumed"} /\ held = <<>> /\ ~asked /\ at = "idle"
          /\ asked => wat = "wait" /\ at \notin {"held", "rest"}
          /\ at \in {"held", "rest"} => wat = "wait"

(* What ran and what is about to: a post in the watcher's hands counts as  *)
(* run.                                                                    *)
Taken == IF ~Unix /\ held # <<>> THEN Counted(ran, held) ELSE ran
InFlight == IF at = "idle" THEN held ELSE batch

OtherInv ==
    /\ doing = "other" /\ console = <<>> /\ using = {} /\ late = {}
    /\ at \in {"setup", "run", "select", "ended", "idle", "held", "rest", "joining", "over", "stuck"}
    /\ Handshake
    /\ ~Off => Sound(Unix, p, Taken, InFlight, held)

AppInv == Typed /\ (mode = "main" => MainInv) /\ (mode # "main" => OtherInv)

(***************************************************************************)
(* It holds at first.                                                      *)
(***************************************************************************)

LEMMA NothingYet ==
    /\ InStep(<<>>, <<>>, <<>>) /\ Begins(<<>>, <<>>)
    /\ \A buried : Paired(<<>>, <<>>, <<>>, <<>>, buried)
<1> DEFINE z == [i \in 0 .. 0 |-> 0]
<1>1. Len(<<>>) = 0 /\ 1 .. 0 = {}
  OBVIOUS
<1>2. z \in [0 .. 0 -> 0 .. 0] /\ z[0] = 0
  OBVIOUS
<1> HIDE DEF z
<1>3. Begins(<<>>, <<>>)
  BY <1>1 DEF Begins
<1>4. InStep(<<>>, <<>>, <<>>)
  BY <1>1, <1>2, <1>3 DEF InStep
<1>5. \A buried : Matched(<<>>, <<>>, <<>>, <<>>, buried, z, z)
  <2>1. \A i, j \in 0 .. 0 : i <= j => z[i] <= z[j]
    BY <1>2
  <2> QED BY <1>1, <1>2, <2>1 DEF Matched
<1>6. \A buried : Paired(<<>>, <<>>, <<>>, <<>>, buried)
  BY <1>3, <1>5 DEF Paired
<1> QED BY <1>3, <1>4, <1>6

LEMMA PumpInitSound ==
    ASSUME PumpInit
    PROVE  /\ p \in PumpRecord /\ ran \in Seq(Task) /\ Begins(ran, p.posted)
           /\ Sound(Unix, p, ran, <<>>, <<>>)
           /\ p.posted = <<>> /\ p.port = <<>> /\ InStep(p.port, ran, p.posted) /\ p.exit = FALSE
<1> DEFINE w == [f \in Fds |-> "none"]
<1>1. /\ p = [pipe |-> <<>>, params |-> <<>>, port |-> <<>>, watched |-> {}, readable |-> {},
              armed |-> {}, seen |-> {}, watch |-> w, exit |-> FALSE, posted |-> <<>>,
              arrivals |-> 0]
      /\ ran = <<>> /\ w \in [Fds -> {"none", "live", "removed", "freed"}]
      /\ \A f \in Fds : w[f] = "none"
  BY DEF PumpInit
<1> HIDE DEF w
<1>2. /\ p \in PumpRecord /\ ran \in Seq(Task)
      /\ p.pipe = <<>> /\ p.params = <<>> /\ p.port = <<>> /\ p.posted = <<>> /\ p.exit = FALSE
      /\ p.watched = {} /\ p.watch = w
  BY <1>1 DEF PumpRecord
<1>3. Graves(p)
  BY <1>1, <1>2 DEF Graves
<1>4. Len(<<>>) = 0 /\ 1 .. 0 = {} /\ <<>> \in Seq(Events)
  OBVIOUS
<1>5. Drained(p, <<>>)
  BY <1>2, <1>4 DEF Drained
<1>6. OnUnix(p, ran, <<>>)
  BY <1>1, <1>2, <1>4, <1>5, NothingYet DEF OnUnix
<1>7. OnWindows(p, ran, <<>>)
  <2>1. ASSUME NEW f \in Fds
        PROVE  ~Removes(<<>>, f) /\ p.watch[f] # "freed"
    BY <1>1, <1>2 DEF Removes
  <2> QED BY <1>1, <1>2, <1>4, <2>1, NothingYet DEF OnWindows
<1> QED BY <1>1, <1>2, <1>3, <1>6, <1>7, NothingYet DEF Sound

LEMMA AppInitInv == AppInit => AppInv
<1> SUFFICES ASSUME AppInit
             PROVE  AppInv
  OBVIOUS
<1>1. PumpInit /\ timer = lw_timer_new /\ console = <<>> /\ object = NewObjects
      /\ using = {} /\ threw = FALSE /\ late = {} /\ shutdowned = FALSE
      /\ doing = (IF mode = "main" THEN "new" ELSE "other")
      /\ \/ mode \in {"loop", "sleepy"} /\ at = "setup"
         \/ mode = "main" /\ build = "windows" /\ at = "main"
  BY DEF AppInit, Init
<1>2. /\ build \in {"windows", "epoll", "kqueue", "select"} /\ wat = "off"
      /\ batch = <<>> /\ held = <<>> /\ finished = FALSE /\ asked = FALSE /\ resume = 0 /\ stale = FALSE
  BY <1>1 DEF PumpInit
<1>3. /\ p \in PumpRecord /\ ran \in Seq(Task) /\ Begins(ran, p.posted)
      /\ Sound(Unix, p, ran, <<>>, <<>>)
      /\ p.posted = <<>> /\ p.port = <<>> /\ InStep(p.port, ran, p.posted) /\ p.exit = FALSE
  BY <1>1, PumpInitSound
<1>4. timer \in TimerRecord
  BY <1>1, PumpAssumption DEF lw_timer_new, lw_timer_new_unix, lw_timer_new_windows, TimerRecord
<1>5. /\ object \in [pump : Life, server : Life, timer : Life]
      /\ object.pump = "none" /\ object.server = "none" /\ object.timer = "none"
  BY <1>1 DEF NewObjects, Life
<1>6. Typed
  BY <1>1, <1>2, <1>3, <1>4, <1>5 DEF Typed
<1>7. ASSUME mode = "main"
      PROVE  MainInv
  <2>1. ExitsLast
    BY <1>1, <1>2, <1>3, <1>7 DEF ExitsLast
  <2>2. Deletes
    BY <1>1, <1>4, <1>5, <1>7 DEF Deletes
  <2> QED BY <1>1, <1>2, <1>3, <1>7, <2>1, <2>2 DEF MainInv, Unix, Outlives
<1>8. ASSUME mode # "main"
      PROVE  OtherInv
  <2>1. Handshake
    BY <1>1, <1>2, <1>8 DEF Handshake
  <2>2. Taken = ran /\ InFlight = <<>>
    BY <1>2 DEF Taken, InFlight
  <2> QED BY <1>1, <1>2, <1>3, <1>4, <1>8, <2>1, <2>2 DEF OtherInv
<1> QED BY <1>6, <1>7, <1>8 DEF AppInv

(***************************************************************************)
(* The program of main().                                                  *)
(***************************************************************************)

(* What a step that leaves the pump alone must keep.                       *)
LEMMA MainStays ==
    ASSUME Typed, mode = "main", MainInv,
           UNCHANGED <<build, mode, p, ran, stale, wat, held, num, asked, resume, finished>>,
           timer' \in TimerRecord, object' \in [pump : Life, server : Life, timer : Life],
           console' \in Seq(Calling), at' \in {"main", "run", "ended", "over"},
           doing' \in {"new", "policy", "host", "start", "loop", "server", "pump", "getchar"},
           doing' \in {"new", "policy", "host", "start"} => at' \in {"main", "over"},
           ExitsLast', Deletes', Outlives'
    PROVE  AppInv'
<1>1. Typed'
  BY DEF Typed, Unix
<1>2. MainInv'
  BY DEF MainInv, Unix
<1> QED BY <1>1, <1>2 DEF AppInv

LEMMA MainBefore ==
    ASSUME AppInv, mode = "main", New \/ GenerateFlashPolicy, at # "over"
    PROVE  AppInv'
<1>1. Typed /\ MainInv /\ ExitsLast /\ Deletes /\ Outlives /\ at = "main"
  BY DEF AppInv, MainInv, New, GenerateFlashPolicy
<1>2. CASE New
  <2>1. PICK o \in {"pump", "server", "timer"} :
            object' = [object EXCEPT ![o] = "made"] /\ doing' \in {"new", "policy"}
    BY <1>2 DEF New
  <2>2. UNCHANGED <<pumpvars, console, shutdowned, threw, late>>
    BY <1>2 DEF New
  <2>3. object' \in [pump : Life, server : Life, timer : Life]
        /\ "deleted" \notin {object'.pump, object'.server, object'.timer}
    BY <1>1, <2>1 DEF Typed, Life, Deletes
  <2>4. ExitsLast'
    BY <1>1, <2>2 DEF ExitsLast, pumpvars
  <2>5. Deletes' /\ Outlives'
    BY <1>1, <2>1, <2>2, <2>3 DEF Deletes, Outlives, pumpvars
  <2>6. timer' \in TimerRecord /\ console' \in Seq(Calling) /\ at' = "main"
        /\ UNCHANGED <<build, mode, p, ran, stale, wat, held, num, asked, resume, finished>>
    BY <1>1, <2>2 DEF Typed, pumpvars, watcher
  <2> QED BY <1>1, <2>1, <2>3, <2>4, <2>5, <2>6, MainStays
<1>3. CASE GenerateFlashPolicy
  <2>1. doing' = "host" /\ UNCHANGED <<pumpvars, object, console, shutdowned, threw, late>>
    BY <1>3 DEF GenerateFlashPolicy
  <2>2. ExitsLast'
    BY <1>1, <2>1 DEF ExitsLast, pumpvars
  <2>3. Deletes' /\ Outlives'
    BY <1>1, <2>1 DEF Deletes, Outlives, pumpvars
  <2>4. timer' \in TimerRecord /\ console' \in Seq(Calling) /\ at' = "main"
        /\ object' \in [pump : Life, server : Life, timer : Life]
        /\ UNCHANGED <<build, mode, p, ran, stale, wat, held, num, asked, resume, finished>>
    BY <1>1, <2>1 DEF Typed, pumpvars, watcher
  <2> QED BY <1>1, <2>1, <2>2, <2>3, <2>4, MainStays
<1> QED BY <1>2, <1>3

LEMMA HostInv ==
    ASSUME AppInv, mode = "main", Host, at # "over"
    PROVE  AppInv'
<1>1. Typed /\ MainInv /\ ExitsLast /\ Deletes /\ Outlives /\ at = "main" /\ p \in PumpRecord
  BY DEF AppInv, MainInv, Host, Typed
<1>2. /\ doing' = "start" /\ UNCHANGED <<build, mode, at, finished, watcher, timer, ran, stale>>
      /\ UNCHANGED <<object, console, shutdowned, threw, late>>
      /\ p' = [p EXCEPT !.watched = Clients]
  BY DEF Host
<1>3. /\ p' \in PumpRecord /\ p'.port = p.port /\ p'.posted = p.posted /\ p'.exit = p.exit
  BY <1>1, <1>2, ClientsAssumption DEF PumpRecord
<1>4. Typed'
  BY <1>1, <1>2, <1>3 DEF Typed, Unix, watcher
<1>5. ExitsLast'
  BY <1>1, <1>2, <1>3 DEF ExitsLast
<1>6. Deletes' /\ Outlives'
  BY <1>1, <1>2 DEF Deletes, Outlives
<1>7. MainInv'
  BY <1>1, <1>2, <1>3, <1>5, <1>6 DEF MainInv, Unix, watcher
<1> QED BY <1>2, <1>4, <1>7 DEF AppInv

LEMMA StartInv ==
    ASSUME AppInv, mode = "main", Start, at # "over"
    PROVE  AppInv'
<1>1. Typed /\ MainInv /\ ExitsLast /\ Deletes /\ Outlives /\ at = "main" /\ ~Unix
  BY DEF AppInv, MainInv, Start
<1>2. /\ doing' = "loop" /\ at' = "run" /\ timer' = [timer EXCEPT !.started = TRUE]
      /\ UNCHANGED <<build, mode, p, batch, finished, watcher, ran, stale>>
      /\ UNCHANGED <<object, console, shutdowned, threw, late>>
  BY <1>1 DEF Start, lw_timer_start, lw_timer_start_windows
<1>3. timer' \in TimerRecord
  BY <1>1, <1>2 DEF Typed, TimerRecord
<1>4. ExitsLast'
  BY <1>1, <1>2 DEF ExitsLast
<1>5. Deletes' /\ Outlives'
  BY <1>1, <1>2, <1>3 DEF Deletes, Outlives
<1>6. /\ console' \in Seq(Calling) /\ object' \in [pump : Life, server : Life, timer : Life]
      /\ UNCHANGED <<build, mode, p, ran, stale, wat, held, num, asked, resume, finished>>
  BY <1>1, <1>2 DEF Typed, watcher
<1> QED BY <1>1, <1>2, <1>3, <1>4, <1>5, <1>6, MainStays

LEMMA timer_deleteInv ==
    ASSUME AppInv, mode = "main", timer_delete
    PROVE  AppInv'
<1>1. Typed /\ MainInv /\ ExitsLast /\ Deletes /\ Outlives /\ timer \in TimerRecord
      /\ object \in [pump : Life, server : Life, timer : Life]
  BY DEF AppInv, MainInv, Typed
<1>2. /\ doing' = "server" /\ at = "ended" /\ timer.thread = "wait"
      /\ timer' = [timer EXCEPT !.started = FALSE, !.thread = IF @ = "wait" THEN "over" ELSE @]
      /\ object' = [object EXCEPT !.timer = "deleted"]
      /\ UNCHANGED <<build, mode, p, at, batch, finished, watcher, ran, stale>>
      /\ UNCHANGED <<console, shutdowned, threw, late>>
  BY DEF timer_delete, TimerEnds
<1>3. timer' \in TimerRecord /\ timer'.thread = "over"
  BY <1>1, <1>2 DEF TimerRecord
<1>4. object' \in [pump : Life, server : Life, timer : Life]
  BY <1>1, <1>2 DEF Life
<1>5. ExitsLast'
  BY <1>1, <1>2 DEF ExitsLast
<1>6. Deletes' /\ Outlives'
  BY <1>1, <1>2, <1>3 DEF Deletes, Outlives
<1>7. /\ console' \in Seq(Calling) /\ at' = "ended"
      /\ UNCHANGED <<build, mode, p, ran, stale, wat, held, num, asked, resume, finished>>
  BY <1>1, <1>2 DEF Typed, watcher
<1> QED BY <1>1, <1>2, <1>3, <1>4, <1>5, <1>6, <1>7, MainStays

LEMMA MainAfter ==
    ASSUME AppInv, mode = "main", DeleteServer \/ DeletePump
    PROVE  AppInv'
<1>1. Typed /\ MainInv /\ ExitsLast /\ Deletes /\ Outlives /\ timer.thread = "over"
      /\ object \in [pump : Life, server : Life, timer : Life] /\ at \in {"ended", "over"}
  BY DEF AppInv, MainInv, Typed, DeleteServer, DeletePump, Deletes
<1>2. /\ doing' \in {"pump", "getchar"}
      /\ \/ object' = [object EXCEPT !.server = "deleted"]
         \/ object' = [object EXCEPT !.pump = "deleted"]
      /\ UNCHANGED <<pumpvars, console, shutdowned, threw, late>>
  BY DEF DeleteServer, DeletePump
<1>3. object' \in [pump : Life, server : Life, timer : Life]
  BY <1>1, <1>2 DEF Life
<1>4. ExitsLast'
  BY <1>1, <1>2 DEF ExitsLast, pumpvars
<1>5. Deletes' /\ Outlives'
  BY <1>1, <1>2 DEF Deletes, Outlives, pumpvars
<1>6. /\ console' \in Seq(Calling) /\ at' = at /\ timer' \in TimerRecord
      /\ UNCHANGED <<build, mode, p, ran, stale, wat, held, num, asked, resume, finished>>
  BY <1>1, <1>2 DEF Typed, pumpvars, watcher
<1> QED BY <1>1, <1>2, <1>3, <1>4, <1>5, <1>6, MainStays

(* The event loop of main() takes a packet.                                *)
LEMMA MainTakes ==
    ASSUME Typed, MainInv, p.port # <<>>
    PROVE  LET x == Head(p.port)
               q == Dequeued(p) IN
           /\ x \in Packet /\ q \in PumpRecord /\ q.posted = p.posted /\ q.exit = p.exit
           /\ \A i \in 1 .. Len(q.port) : \E j \in 1 .. Len(p.port) : q.port[i] = p.port[j]
           /\ x = <<"exit">> => p.exit
           /\ ~Posts(x) => InStep(q.port, ran, q.posted)
           /\ Posts(x) => /\ Tail(x) = <<"tick", "timer">>
                          /\ Append(ran, Tail(x)) \in Seq(Task)
                          /\ InStep(q.port, Append(ran, Tail(x)), q.posted)
<1> DEFINE x == Head(p.port)
           q == Dequeued(p)
           f == Posted(x)
           t == Tail(p.port)
<1>1. /\ p \in PumpRecord /\ ran \in Seq(Task) /\ p.port \in Seq(Packet) /\ p.posted \in Seq(Task)
      /\ InStep(p.port, ran, p.posted)
  BY DEF Typed, MainInv, PumpRecord
<1>2. /\ x \in Packet /\ t \in Seq(Packet) /\ x = p.port[1] /\ 1 \in 1 .. Len(p.port)
      /\ \A i \in 1 .. Len(t) : i + 1 \in 1 .. Len(p.port) /\ t[i] = p.port[i + 1]
  BY <1>1
<1>3. /\ ~Posts(x) => InStep(t, ran, p.posted)
      /\ Posts(x) => InStep(t, Append(ran, f), p.posted)
  BY <1>1, InStepTake
<1>4. Posts(x) => Tail(x) = f /\ f \in Task
  BY <1>2, PacketFacts
<1>5. q = [p EXCEPT !.port = t]
  BY <1>1 DEF Dequeued
<1> HIDE DEF x, q, f, t
<1>6. q \in PumpRecord /\ q.posted = p.posted /\ q.exit = p.exit /\ q.port = t
  BY <1>1, <1>2, <1>5 DEF PumpRecord
<1>7. x = <<"exit">> => p.exit
  BY <1>2 DEF MainInv, ExitsLast
<1>8. ASSUME Posts(x)
      PROVE  Append(ran, f) \in Seq(Task) /\ f = <<"tick", "timer">>
  <2>1. /\ Append(ran, f) \in Seq(Task) /\ Len(Append(ran, f)) = Len(ran) + 1
        /\ Append(ran, f)[Len(ran) + 1] = f /\ Len(ran) \in Nat /\ Len(p.posted) \in Nat
    BY <1>1, <1>4, <1>8
  <2>2. Begins(Append(ran, f), p.posted)
    BY <1>3, <1>8 DEF InStep
  <2>3. Len(ran) + 1 \in 1 .. Len(p.posted) /\ p.posted[Len(ran) + 1] = f
    BY <2>1, <2>2 DEF Begins
  <2> QED BY <2>1, <2>3 DEF MainInv
<1> QED BY <1>2, <1>3, <1>4, <1>6, <1>7, <1>8 DEF x, q

LEMMA MainLoops ==
    ASSUME AppInv, mode = "main", start_eventloop
    PROVE  AppInv'
<1>1. /\ Typed /\ MainInv /\ ExitsLast /\ Deletes /\ Outlives /\ at = "run"
      /\ stale = FALSE /\ ran \in Seq(Task) /\ timer \in TimerRecord /\ p \in PumpRecord
  BY DEF AppInv, MainInv, Typed, start_eventloop, Deletes
<1>2. UNCHANGED <<build, mode, batch, watcher, doing, object, console, shutdowned, late>>
  BY DEF start_eventloop
<1>3. /\ p' \in PumpRecord /\ p'.posted = p.posted /\ p'.exit = p.exit
      /\ \A i \in 1 .. Len(p'.port) : \E j \in 1 .. Len(p.port) : p'.port[i] = p.port[j]
      /\ ran' \in Seq(Task) /\ stale' = FALSE /\ InStep(p'.port, ran', p'.posted)
      /\ timer' = timer /\ at' \in {"run", "ended"}
      /\ (finished' => finished \/ p.exit) /\ (at' = "ended" => finished \/ threw')
      /\ (threw => threw')
  <2>1. CASE p.port = <<>> /\ finished
    <3>1. at' = "ended" /\ UNCHANGED <<p, finished, timer, ran, stale, threw>>
      BY <2>1 DEF start_eventloop
    <3> QED BY <1>1, <2>1, <3>1 DEF MainInv
  <2>2. CASE p.port # <<>>
    <3> DEFINE x == Head(p.port)
               q == Dequeued(p)
    <3>1. /\ x \in Packet /\ q \in PumpRecord /\ q.posted = p.posted /\ q.exit = p.exit
          /\ \A i \in 1 .. Len(q.port) : \E j \in 1 .. Len(p.port) : q.port[i] = p.port[j]
          /\ x = <<"exit">> => p.exit
          /\ ~Posts(x) => InStep(q.port, ran, q.posted)
          /\ Posts(x) => /\ Tail(x) = <<"tick", "timer">>
                         /\ Append(ran, Tail(x)) \in Seq(Task)
                         /\ InStep(q.port, Append(ran, Tail(x)), q.posted)
      BY <1>1, <2>2, MainTakes
    <3>2. \/ /\ x[1] = "io" /\ p' = q /\ UNCHANGED <<timer, finished, ran, stale>>
             /\ \/ at' = at /\ threw' = threw
                \/ at' = "ended" /\ threw' = TRUE
          \/ x[1] # "io" /\ process(q, x) /\ threw' = threw
      BY <2>2 DEF start_eventloop
    <3> HIDE DEF x, q
    <3>3. CASE /\ x[1] = "io" /\ p' = q /\ UNCHANGED <<timer, finished, ran, stale>>
               /\ \/ at' = at /\ threw' = threw
                  \/ at' = "ended" /\ threw' = TRUE
      BY <1>1, <3>1, <3>3 DEF Posts
    <3>4. CASE x[1] # "io" /\ process(q, x) /\ threw' = threw
      <4>1. CASE x[1] = "post"
        <5>1. Run(q, <<"tick", "timer">>) /\ finished' = finished
          BY <3>1, <3>4, <4>1 DEF process, Posts
        <5>2. /\ ran' = Append(ran, <<"tick", "timer">>) /\ stale' = FALSE
              /\ p' = q /\ timer' = timer /\ at' = at
          BY <1>1, <5>1 DEF Run
        <5> QED BY <1>1, <3>1, <3>4, <4>1, <5>1, <5>2 DEF Posts
      <4>2. CASE x[1] = "exit"
        <5>1. x = <<"exit">>
          BY <3>1, <4>2 DEF Packet
        <5>2. p' = q /\ UNCHANGED <<at, timer, ran, stale>>
          BY <3>4, <4>2 DEF process
        <5> QED BY <1>1, <3>1, <3>4, <4>2, <5>1, <5>2 DEF Posts
      <4>3. CASE x[1] \notin {"post", "exit"}
        <5>1. p' = q /\ UNCHANGED <<at, timer, ran, stale, finished>>
          BY <3>4, <4>3 DEF process
        <5> QED BY <1>1, <3>1, <3>4, <4>3, <5>1 DEF Posts
      <4> QED BY <4>1, <4>2, <4>3
    <3> QED BY <3>2, <3>3, <3>4
  <2> QED BY <2>1, <2>2 DEF start_eventloop
<1>4. Begins(ran', p'.posted)
  BY <1>3 DEF InStep
<1>5. Typed'
  BY <1>1, <1>2, <1>3, <1>4 DEF Typed, Unix, watcher
<1>6. ExitsLast'
  BY <1>1, <1>2, <1>3 DEF ExitsLast
<1>7. Deletes' /\ Outlives'
  BY <1>1, <1>2, <1>3 DEF Deletes, Outlives
<1>8. MainInv'
  BY <1>1, <1>2, <1>3, <1>6, <1>7 DEF MainInv, Unix, watcher, start_eventloop
<1> QED BY <1>2, <1>5, <1>8 DEF AppInv

(* A hook uses the entry it has found.                                     *)
LEMMA UseInv ==
    ASSUME AppInv, mode = "main", Use
    PROVE  AppInv'
<1>1. Typed /\ MainInv /\ ExitsLast /\ Deletes /\ Outlives
  BY DEF AppInv, MainInv
<1>2. /\ at' \in {at, "over"}
      /\ UNCHANGED <<build, mode, p, batch, finished, watcher, timer, ran, stale>>
      /\ UNCHANGED <<doing, object, console, shutdowned, threw, late>>
  BY DEF Use
<1>3. ExitsLast'
  BY <1>1, <1>2 DEF ExitsLast
<1>4. Deletes' /\ Outlives'
  BY <1>1, <1>2 DEF Deletes, Outlives
<1>5. /\ console' \in Seq(Calling) /\ timer' \in TimerRecord
      /\ object' \in [pump : Life, server : Life, timer : Life]
      /\ UNCHANGED <<build, mode, p, ran, stale, wat, held, num, asked, resume, finished>>
  BY <1>1, <1>2 DEF Typed, watcher
<1>6. at' \in {"main", "run", "ended", "over"}
      /\ doing' \in {"new", "policy", "host", "start", "loop", "server", "pump", "getchar"}
      /\ (doing' \in {"new", "policy", "host", "start"} => at' \in {"main", "over"})
  BY <1>1, <1>2 DEF MainInv
<1> QED BY <1>1, <1>3, <1>4, <1>5, <1>6, MainStays

(* The console.                                                            *)
LEMMA ShutdownFacts ==
    /\ Shutdown \in Seq(Calling) /\ Shutdown \o <<"kill">> \in Seq(Calling)
    /\ \A s \in {Shutdown, Shutdown \o <<"kill">>} : \A i \in 1 .. Len(s) :
          s[i] = "exit" => \A j \in i + 1 .. Len(s) : s[j] = "kill"
<1> DEFINE s == Shutdown
           k == <<"kill">>
           t == s \o k
<1>1. /\ s \in Seq(Calling) /\ Len(s) = 4
      /\ s[1] = "clear" /\ s[2] = "stop" /\ s[3] = "unhost" /\ s[4] = "exit"
  BY DEF Shutdown, Calling
<1>2. k \in Seq(Calling) /\ Len(k) = 1 /\ k[1] = "kill"
  BY DEF Calling
<1> HIDE DEF s, k
<1>3. /\ t \in Seq(Calling) /\ Len(t) = 5 /\ t[5] = "kill"
      /\ \A i \in 1 .. 4 : t[i] = s[i]
  <2>1. ASSUME NEW u \in Seq(Calling), NEW v \in Seq(Calling)
        PROVE  /\ u \o v \in Seq(Calling) /\ Len(u \o v) = Len(u) + Len(v)
               /\ \A i \in 1 .. Len(u) : (u \o v)[i] = u[i]
               /\ \A i \in 1 .. Len(v) : (u \o v)[Len(u) + i] = v[i]
    OBVIOUS
  <2>2. /\ t \in Seq(Calling) /\ Len(t) = Len(s) + Len(k)
        /\ \A i \in 1 .. Len(s) : t[i] = s[i]
        /\ \A i \in 1 .. Len(k) : t[Len(s) + i] = k[i]
    BY <1>1, <1>2, <2>1
  <2> HIDE DEF t
  <2>3. 5 = Len(s) + 1 /\ t[Len(s) + 1] = k[1]
    BY <1>1, <1>2, <2>2
  <2> QED BY <1>1, <1>2, <2>2, <2>3
<1> HIDE DEF t
<1>4. \A i \in 1 .. 4 : s[i] = "exit" => i = 4
  BY <1>1
<1>5. \A i \in 1 .. Len(s) : s[i] = "exit" => \A j \in i + 1 .. Len(s) : s[j] = "kill"
  BY <1>1, <1>4
<1>6. ASSUME NEW i \in 1 .. Len(t), t[i] = "exit", NEW j \in i + 1 .. Len(t)
      PROVE  t[j] = "kill"
  <2>1. i # 5 /\ i \in 1 .. 4 => i = 4
    BY <1>3, <1>4, <1>6
  <2>2. i = 4 /\ j = 5
    BY <1>3, <1>6, <2>1
  <2> QED BY <1>3, <2>2
<1> QED BY <1>1, <1>3, <1>5, <1>6 DEF s, t, k

LEMMA StepFacts ==
    ASSUME console \in Seq(Calling), NEW s, Step(s)
    PROVE  /\ console # <<>> /\ console' \in Seq(Calling) /\ at # "over"
           /\ 1 \in 1 .. Len(console) /\ console[1] = s
           /\ \A i \in 1 .. Len(console') : /\ i + 1 \in 1 .. Len(console)
                                            /\ i + 1 \in 1 + 1 .. Len(console)
                                            /\ console'[i] = console[i + 1]
<1>1. console # <<>> /\ Head(console) = s /\ console' = Tail(console) /\ at # "over"
  BY DEF Step
<1>2. /\ console' \in Seq(Calling) /\ Len(console) \in Nat /\ Len(console) # 0
      /\ Len(console') = Len(console) - 1
      /\ console[1] = s /\ \A i \in 1 .. Len(console) - 1 : console'[i] = console[i + 1]
  BY <1>1
<1> QED BY <1>1, <1>2

LEMMA StepExits ==
    ASSUME ExitsLast, console \in Seq(Calling), NEW s, Step(s)
    PROVE  /\ \A i \in 1 .. Len(console') : console'[i] = "exit" =>
                 \A j \in i + 1 .. Len(console') : console'[j] = "kill"
           /\ p.exit => shutdowned /\ s = "kill" /\ \A i \in 1 .. Len(console') : console'[i] = "kill"
           /\ s = "exit" => \A i \in 1 .. Len(console') : console'[i] = "kill"
           /\ shutdowned
<1>1. /\ 1 \in 1 .. Len(console) /\ console[1] = s
      /\ \A i \in 1 .. Len(console') : /\ i + 1 \in 1 .. Len(console)
                                       /\ i + 1 \in 1 + 1 .. Len(console)
                                       /\ console'[i] = console[i + 1]
      /\ Len(console') \in Nat
  BY StepFacts
<1>2. ASSUME NEW i \in 1 .. Len(console'), console'[i] = "exit", NEW j \in i + 1 .. Len(console')
      PROVE  console'[j] = "kill"
  <2>1. j \in 1 .. Len(console')
    BY <1>1, <1>2
  <2>2. /\ i + 1 \in 1 .. Len(console) /\ console[i + 1] = "exit"
        /\ j + 1 \in 1 .. Len(console) /\ console'[j] = console[j + 1]
    BY <1>1, <1>2, <2>1
  <2>3. j + 1 \in (i + 1) + 1 .. Len(console)
    BY <2>2, <1>2
  <2> QED BY <2>2, <2>3 DEF ExitsLast
<1>3. p.exit => shutdowned /\ s = "kill" /\ \A i \in 1 .. Len(console') : console'[i] = "kill"
  BY <1>1 DEF ExitsLast
<1>4. s = "exit" => \A i \in 1 .. Len(console') : console'[i] = "kill"
  BY <1>1 DEF ExitsLast
<1>5. shutdowned
  BY DEF ExitsLast, Step
<1> QED BY <1>2, <1>3, <1>4, <1>5

LEMMA CloseInv ==
    ASSUME AppInv, CloseHandler
    PROVE  AppInv'
<1>1. Typed /\ MainInv /\ ExitsLast /\ Deletes /\ Outlives /\ mode = "main"
  BY DEF AppInv, MainInv, CloseHandler
<1>2. /\ console = <<>> /\ at' \in {at, "over"} /\ (shutdowned => shutdowned')
      /\ console' = console \/ (~shutdowned /\ shutdowned' /\ console' \in {Shutdown, Shutdown \o <<"kill">>})
      /\ UNCHANGED <<build, mode, p, batch, finished, watcher, timer, ran, stale>>
      /\ UNCHANGED <<doing, object, threw, late>>
  BY DEF CloseHandler
<1>3. console' \in Seq(Calling)
  BY <1>1, <1>2, ShutdownFacts DEF Typed
<1>4. \A i \in 1 .. Len(console') : console'[i] = "exit" =>
          \A j \in i + 1 .. Len(console') : console'[j] = "kill"
  BY <1>1, <1>2, ShutdownFacts DEF ExitsLast
<1>5. ExitsLast'
  BY <1>1, <1>2, <1>4 DEF ExitsLast
<1>6. Deletes' /\ Outlives'
  BY <1>1, <1>2 DEF Deletes, Outlives
<1>7. /\ timer' \in TimerRecord
      /\ object' \in [pump : Life, server : Life, timer : Life]
      /\ UNCHANGED <<build, mode, p, ran, stale, wat, held, num, asked, resume, finished>>
  BY <1>1, <1>2 DEF Typed, watcher
<1>8. at' \in {"main", "run", "ended", "over"}
      /\ doing' \in {"new", "policy", "host", "start", "loop", "server", "pump", "getchar"}
      /\ (doing' \in {"new", "policy", "host", "start"} => at' \in {"main", "over"})
  BY <1>1, <1>2 DEF MainInv
<1> QED BY <1>1, <1>3, <1>5, <1>6, <1>7, <1>8, MainStays

(* A call of Shutdown's uses nothing that was deleted: while it is still   *)
(* to be made, the loop has not ended, or an exception has ended it.       *)
LEMMA StillThere ==
    ASSUME ExitsLast, Deletes, Outlives, console \in Seq(Calling), NEW s, Step(s), s # "kill",
           NEW o \in {"pump", "server", "timer"}, Used({o}), threw' = threw
    PROVE  Outlives'
<1>1. at # "over" /\ (p.exit => s = "kill")
  BY StepFacts, StepExits
<1>2. CASE object[o] = "deleted"
  <2>1. at = "ended"
    BY <1>1, <1>2 DEF Deletes
  <2>2. threw
    BY <1>1, <2>1 DEF ExitsLast
  <2> QED BY <2>2 DEF Outlives
<1>3. CASE object[o] # "deleted"
  <2>1. late' = late
    BY <1>3 DEF Used
  <2> QED BY <2>1 DEF Outlives
<1> QED BY <1>2, <1>3

LEMMA ConsoleInv ==
    ASSUME AppInv, mode = "main", Clear \/ StopTimer \/ Unhost \/ Kill
    PROVE  AppInv'
<1>1. /\ Typed /\ MainInv /\ ExitsLast /\ Deletes /\ Outlives /\ timer \in TimerRecord
      /\ console \in Seq(Calling) /\ object \in [pump : Life, server : Life, timer : Life]
  BY DEF AppInv, MainInv, Typed
<1>2. /\ timer' \in {timer, lw_timer_stop_windows(timer)} /\ at' \in {at, "over"}
      /\ UNCHANGED <<build, mode, p, batch, finished, watcher, ran, stale>>
      /\ UNCHANGED <<doing, object, shutdowned, threw>>
  BY DEF Clear, StopTimer, Unhost, Kill, Dies, pumpvars, watcher
<1>3. timer' \in TimerRecord /\ timer'.thread = timer.thread
  BY <1>1, <1>2 DEF TimerRecord, lw_timer_stop_windows
<1>4. (\E s : Step(s)) \/ console' = console
  BY DEF Clear, StopTimer, Unhost, Kill
<1>5. console' \in Seq(Calling)
  BY <1>1, <1>4, StepFacts
<1>6. /\ \A i \in 1 .. Len(console') : console'[i] = "exit" =>
             \A j \in i + 1 .. Len(console') : console'[j] = "kill"
      /\ p.exit => shutdowned /\ \A i \in 1 .. Len(console') : console'[i] = "kill"
      /\ console' # <<>> => shutdowned
  <2>1. CASE console' = console
    BY <1>1, <2>1 DEF ExitsLast
  <2>2. CASE \E s : Step(s)
    BY <1>1, <2>2, StepExits
  <2> QED BY <1>4, <2>1, <2>2
<1>7. ExitsLast'
  BY <1>1, <1>2, <1>6 DEF ExitsLast
<1>8. Deletes'
  BY <1>1, <1>2, <1>3 DEF Deletes
<1>9. Outlives'
  <2>1. CASE Clear \/ Kill
    BY <1>1, <2>1 DEF Clear, Kill, Outlives
  <2>2. CASE StopTimer
    <3>1. Step("stop") /\ Used({"timer"}) /\ threw' = threw
      BY <2>2 DEF StopTimer
    <3> QED BY <1>1, <3>1, StillThere
  <2>3. CASE Unhost
    <3>1. Step("unhost") /\ Used({"server"}) /\ threw' = threw
      BY <2>3 DEF Unhost
    <3> QED BY <1>1, <3>1, StillThere
  <2> QED BY <2>1, <2>2, <2>3
<1>10. /\ object' \in [pump : Life, server : Life, timer : Life]
       /\ UNCHANGED <<build, mode, p, ran, stale, wat, held, num, asked, resume, finished>>
  BY <1>1, <1>2 DEF watcher
<1>11. /\ at' \in {"main", "run", "ended", "over"}
       /\ doing' \in {"new", "policy", "host", "start", "loop", "server", "pump", "getchar"}
       /\ doing' \in {"new", "policy", "host", "start"} => at' \in {"main", "over"}
  BY <1>1, <1>2 DEF MainInv
<1> QED BY <1>1, <1>3, <1>5, <1>7, <1>8, <1>9, <1>10, <1>11, MainStays

LEMMA PostEventloopExitInv ==
    ASSUME AppInv, mode = "main", PostEventloopExit
    PROVE  AppInv'
<1>1. /\ Typed /\ MainInv /\ ExitsLast /\ Deletes /\ Outlives /\ ~Unix
      /\ console \in Seq(Calling) /\ p \in PumpRecord /\ p.port \in Seq(Packet)
      /\ p.posted \in Seq(Task) /\ ran \in Seq(Task) /\ InStep(p.port, ran, p.posted)
  BY DEF AppInv, MainInv, Typed, PumpRecord
<1>2. /\ Step("exit") /\ Used({"pump"}) /\ at' \in {at, "over"}
      /\ p' = lw_eventpump_post_eventloop_exit(p)
      /\ UNCHANGED <<build, mode, batch, finished, watcher, timer, ran, stale>>
      /\ UNCHANGED <<doing, object, shutdowned, threw>>
  BY DEF PostEventloopExit, Dies
<1>3. /\ p' \in PumpRecord /\ p'.posted = p.posted /\ p'.exit = TRUE
      /\ p'.port = Append(p.port, <<"exit">>)
  BY <1>1, <1>2, ExitFields DEF Exits
<1>4. InStep(p'.port, ran, p.posted)
  BY <1>1, <1>3, InStepOther, PacketFacts
<1>5. console' \in Seq(Calling) /\ 1 \in 1 .. Len(console) /\ console[1] = "exit"
  BY <1>1, <1>2, StepFacts
<1>6. shutdowned
  BY <1>1, <1>2 DEF ExitsLast, Step
<1>7. Typed'
  BY <1>1, <1>2, <1>3, <1>5 DEF Typed, Unix, watcher
<1>8. ExitsLast'
  BY <1>1, <1>2, <1>3, <1>6, StepExits DEF ExitsLast
<1>9. Deletes' /\ Outlives'
  <2>1. Deletes'
    BY <1>1, <1>2 DEF Deletes
  <2> QED BY <1>1, <1>2, <2>1, StillThere
<1>10. MainInv'
  BY <1>1, <1>2, <1>3, <1>4, <1>8, <1>9 DEF MainInv, Unix, watcher
<1> QED BY <1>2, <1>7, <1>10 DEF AppInv

(***************************************************************************)
(* The other programs.                                                     *)
(***************************************************************************)

(* Where the main thread of another program may be.                        *)
Elsewhere == {"setup", "run", "select", "ended", "idle", "held", "rest", "joining", "over", "stuck"}

(* Past the last call, the pump may be in any state.                       *)
LEMMA OtherOff ==
    ASSUME AppInv, mode # "main", UNCHANGED <<build, mode, doing, object, console, using, late>>,
           ran' \in Seq(Task), timer' \in TimerRecord, stale' = FALSE,
           resume' \in Nat, ~Unix => held' = <<>> \/ held' \in Packet,
           at' \in Elsewhere, Handshake',
           p' \in PumpRecord, Begins(ran', p'.posted),
           Off' \/ Sound(Unix, p', Taken', InFlight', held')
    PROVE  AppInv'
<1>1. Typed /\ OtherInv /\ Unix' = Unix
  BY DEF AppInv, Unix
<1>2. Typed'
  BY <1>1 DEF Typed
<1>3. OtherInv'
  BY <1>1 DEF OtherInv, Elsewhere
<1> QED BY <1>2, <1>3 DEF AppInv

(* A call in the watcher's hands is the next of those posted.              *)
LEMMA CountedBegins ==
    ASSUME NEW done \in Seq(Task), NEW all \in Seq(Task), NEW packet \in Packet,
           Begins(Counted(done, packet), all)
    PROVE  Begins(done, all)
<1>1. CASE Posts(packet)
  <2> DEFINE f == Posted(packet)
             d == Append(done, f)
  <2>1. Begins(d, all)
    BY <1>1 DEF Counted
  <2>2. f \in Task
    BY <1>1, PacketFacts
  <2> HIDE DEF f
  <2>3. Len(done) \in Nat /\ Len(all) \in Nat /\ Len(d) = Len(done) + 1
        /\ \A i \in 1 .. Len(done) : d[i] = done[i]
    BY <2>2
  <2> HIDE DEF d
  <2> QED BY <2>1, <2>3 DEF Begins
<1>2. CASE ~Posts(packet)
  BY <1>2 DEF Counted
<1> QED BY <1>1, <1>2

(* What a step of another program must keep.                               *)
LEMMA OtherSound ==
    ASSUME AppInv, mode # "main", UNCHANGED <<build, mode, doing, object, console, using, late>>,
           ran' \in Seq(Task), timer' \in TimerRecord, stale' = FALSE,
           resume' \in Nat, ~Unix => held' = <<>> \/ held' \in Packet,
           at' \in Elsewhere, Handshake',
           Sound(Unix, p', Taken', InFlight', held')
    PROVE  AppInv'
<1>1. /\ p' \in PumpRecord /\ p'.posted \in Seq(Task) /\ Begins(Taken', p'.posted)
  BY DEF Sound, OnUnix, OnWindows, InStep, Paired, PumpRecord
<1>2. \/ Taken' = ran'
      \/ held' \in Packet /\ Taken' = Counted(ran', held')
  BY DEF Taken, Unix
<1>3. Begins(ran', p'.posted)
  BY <1>1, <1>2, CountedBegins
<1> QED BY <1>1, <1>3, OtherOff

(* What the invariant says where a step starts from.                       *)
LEMMA OtherFacts ==
    ASSUME AppInv, mode # "main"
    PROVE  /\ p \in PumpRecord /\ ran \in Seq(Task) /\ timer \in TimerRecord /\ resume \in Nat
           /\ ~Unix => held = <<>> \/ held \in Packet
           /\ stale = FALSE /\ Begins(ran, p.posted)
           /\ at \in Elsewhere /\ Handshake
           /\ Off \/ Sound(Unix, p, Taken, InFlight, held)
           /\ build \in {"windows", "epoll", "kqueue", "select"} /\ mode \in {"loop", "sleepy"}
           /\ Unix \in BOOLEAN
  BY DEF AppInv, Typed, OtherInv, Elsewhere, Unix, TimerRecord

(* Unix, the main thread.                                                  *)
LEMMA ProcessEventInv ==
    ASSUME AppInv, mode # "main", process_event, UNCHANGED appvars
    PROVE  AppInv'
<1>1. /\ Unix /\ at \in {"run", "held", "rest"} /\ UNCHANGED <<build, mode, finished, watcher>>
      /\ UNCHANGED <<doing, object, console, using, late>>
  BY DEF process_event, appvars, hookvars
<1>2. /\ p \in PumpRecord /\ ran \in Seq(Task) /\ timer \in TimerRecord
      /\ stale = FALSE /\ Handshake /\ resume \in Nat /\ Sound(TRUE, p, ran, batch, held)
  <2>1. Taken = ran /\ InFlight = batch /\ ~Off /\ Unix = TRUE
    BY <1>1 DEF Taken, InFlight, Off, Unix
  <2> QED BY <2>1, OtherFacts
<1>3. /\ Sound(TRUE, p', ran', batch', held)
      /\ stale' = stale /\ at' \in {at, "stuck", "ended"}
      /\ timer' \in TimerRecord
  BY <1>2, PumpAssumption, EventSound
<1>4. Handshake'
  BY <1>1, <1>2, <1>3 DEF Handshake, Off, Unix, watcher
<1>5. Sound(Unix, p', Taken', InFlight', held') /\ ran' \in Seq(Task)
  <2>1. Unix = TRUE /\ Taken' = ran' /\ InFlight' = batch' /\ held' = held
    BY <1>1, <1>3 DEF Taken, InFlight, Unix, watcher
  <2> QED BY <1>3, <2>1 DEF Sound
<1>6. resume' \in Nat /\ at' \in Elsewhere /\ Unix = TRUE
  BY <1>1, <1>2, <1>3 DEF Elsewhere, watcher, Unix
<1> QED BY <1>1, <1>2, <1>3, <1>4, <1>5, <1>6, OtherSound

LEMMA LoopUnixInv ==
    ASSUME AppInv, mode # "main", lw_eventpump_start_eventloop_unix, UNCHANGED appvars
    PROVE  AppInv'
<1>1. /\ Unix = TRUE /\ batch = <<>> /\ at \in {"run", "select"}
      /\ UNCHANGED <<build, mode, finished, watcher, timer, ran, stale>>
      /\ UNCHANGED <<doing, object, console, using, late>>
  BY DEF lw_eventpump_start_eventloop_unix, appvars, hookvars, Unix
<1>2. /\ p \in PumpRecord /\ ran \in Seq(Task) /\ timer \in TimerRecord
      /\ stale = FALSE /\ Handshake /\ resume \in Nat /\ Sound(TRUE, p, ran, <<>>, held)
  <2>1. Taken = ran /\ InFlight = <<>> /\ ~Off
    BY <1>1 DEF Taken, InFlight, Off
  <2> QED BY <1>1, <2>1, OtherFacts
<1>3. Sound(TRUE, p', ran, batch', held) /\ at' \in {"run", "select"}
      /\ (at' = "select" => batch' = <<>>)
  <2>1. CASE p' = Pruned(p) /\ at' = "select" /\ UNCHANGED batch
    BY <1>1, <1>2, <2>1, PrunedSound
  <2>2. CASE \E o \in lwp_eventqueue_drain(p) :
                /\ o[1] # {} /\ p' = o[2] /\ at' = "run"
                /\ batch' \in SetToSeqs(o[1])
    BY <1>2, <2>2, DrainSound
  <2> QED BY <2>1, <2>2 DEF lw_eventpump_start_eventloop_unix
<1>4. Handshake'
  BY <1>1, <1>2, <1>3 DEF Handshake, Off, Unix, watcher
<1>5. Taken' = ran' /\ InFlight' = batch' /\ held' = held
  BY <1>1, <1>3 DEF Taken, InFlight, Unix, watcher
<1>6. resume' \in Nat /\ at' \in Elsewhere
  BY <1>1, <1>2, <1>3 DEF Elsewhere, watcher
<1> QED BY <1>1, <1>2, <1>3, <1>4, <1>5, <1>6, OtherSound

LEMMA TickUnixInv ==
    ASSUME AppInv, mode # "main", lw_eventpump_tick_unix, UNCHANGED appvars
    PROVE  AppInv'
<1>1. /\ Unix = TRUE /\ batch = <<>> /\ at \in {"idle", "held", "rest"}
      /\ UNCHANGED <<build, mode, finished, wat, timer, ran, stale>>
      /\ UNCHANGED <<doing, object, console, using, late>>
  BY DEF lw_eventpump_tick_unix, appvars, hookvars, Unix
<1>2. /\ p \in PumpRecord /\ ran \in Seq(Task) /\ timer \in TimerRecord
      /\ stale = FALSE /\ Handshake /\ resume \in Nat /\ Sound(TRUE, p, ran, InFlight, held)
  <2>1. Taken = ran /\ ~Off
    BY <1>1 DEF Taken, Off
  <2> QED BY <1>1, <2>1, OtherFacts
<1>3. CASE at = "idle" /\ asked
  <2>1. /\ asked' = FALSE /\ batch' = held /\ at' = "held" /\ UNCHANGED <<p, held, num, resume>>
    BY <1>3 DEF lw_eventpump_tick_unix
  <2>2. Handshake'
    BY <1>1, <1>2, <1>3, <2>1 DEF Handshake, Off, Unix
  <2>3. Taken' = ran' /\ InFlight' = InFlight /\ held' = held
    BY <1>1, <1>3, <2>1 DEF Taken, InFlight, Unix
  <2>4. at' \in Elsewhere /\ resume' \in Nat
    BY <1>2, <2>1 DEF Elsewhere
  <2> QED BY <1>1, <1>2, <2>1, <2>2, <2>3, <2>4, OtherSound
<1>4. CASE at = "held"
  <2>1. /\ \E o \in lwp_eventqueue_drain(IF build = "select" THEN Pruned(p) ELSE p) :
              p' = o[2] /\ batch' \in SetToSeqs(o[1])
        /\ held' = <<>> /\ num' = 0 /\ at' = "rest" /\ UNCHANGED <<asked, resume>>
    BY <1>4 DEF lw_eventpump_tick_unix
  <2> DEFINE q == IF build = "select" THEN Pruned(p) ELSE p
  <2>2. Sound(TRUE, q, ran, InFlight, <<>>)
    <3>1. Sound(TRUE, p, ran, InFlight, <<>>)
      BY <1>2, Forgotten
    <3> QED BY <3>1, PrunedSound
  <2>3. Sound(TRUE, p', ran, batch', <<>>)
    <3> HIDE DEF q
    <3> QED BY <2>1, <2>2, DrainSound DEF q
  <2>4. Handshake'
    BY <1>1, <1>2, <1>4, <2>1 DEF Handshake, Off, Unix
  <2>5. Taken' = ran' /\ InFlight' = batch'
    BY <1>1, <2>1 DEF Taken, InFlight, Unix
  <2>6. at' \in Elsewhere /\ resume' \in Nat
    BY <1>2, <2>1 DEF Elsewhere
  <2> QED BY <1>1, <1>2, <2>1, <2>3, <2>4, <2>5, <2>6, OtherSound
<1>5. CASE at = "rest"
  <2>1. /\ resume' = resume + 1 /\ at' = "idle" /\ UNCHANGED <<p, batch, held, num, asked>>
    BY <1>5 DEF lw_eventpump_tick_unix, lw_event_signal_unix
  <2>2. held = <<>> /\ wat = "wait" /\ ~asked
    BY <1>1, <1>2, <1>5 DEF Handshake, Off
  <2>3. Handshake'
    BY <1>1, <1>2, <1>5, <2>1, <2>2 DEF Handshake, Off, Unix
  <2>4. Taken' = ran' /\ InFlight' = InFlight
    BY <1>1, <1>5, <2>1, <2>2 DEF Taken, InFlight, Unix
  <2>5. at' \in Elsewhere /\ resume' \in Nat
    BY <1>2, <2>1 DEF Elsewhere
  <2> QED BY <1>1, <1>2, <2>1, <2>3, <2>4, <2>5, OtherSound
<1> QED BY <1>3, <1>4, <1>5 DEF lw_eventpump_tick_unix

(* Windows, the main thread.                                               *)
LEMMA AnyEvents ==
    ASSUME NEW q, NEW done, NEW events, NEW completion, Sound(FALSE, q, done, events, completion)
    PROVE  \A e : Sound(FALSE, q, done, e, completion)
BY DEF Sound

(* A packet is not the empty tuple that stands for none.                   *)
LEMMA NotEmpty == \A x \in Packet : x # <<>>
BY DEF Packet

(* A packet is taken from the port and processed.                          *)
LEMMA TakeSound ==
    ASSUME ~Unix, ran \in Seq(Task), NEW events, Sound(FALSE, p, ran, events, <<>>), p.port # <<>>,
           stale \in BOOLEAN, timer \in TimerRecord,
           process(Dequeued(p), Head(p.port))
    PROVE  Sound(FALSE, p', ran', events, <<>>) /\ Called
BY DequeueSound, ProcessSound

LEMMA LoopWindowsInv ==
    ASSUME AppInv, mode # "main", lw_eventpump_start_eventloop_windows, UNCHANGED appvars
    PROVE  AppInv'
<1>1. /\ Unix = FALSE /\ at = "run" /\ mode = "loop" /\ UNCHANGED <<build, mode, batch, watcher>>
      /\ UNCHANGED <<doing, object, console, using, late>>
  BY DEF lw_eventpump_start_eventloop_windows, appvars, hookvars, Unix
<1>2. /\ p \in PumpRecord /\ ran \in Seq(Task) /\ timer \in TimerRecord
      /\ stale = FALSE /\ Handshake /\ resume \in Nat /\ held = <<>>
      /\ Sound(FALSE, p, ran, batch, <<>>)
  <2>1. held = <<>> /\ ~Off
    BY <1>1, OtherFacts DEF Handshake, Off
  <2>2. Taken = ran /\ InFlight = batch
    BY <1>1, <2>1 DEF Taken, InFlight
  <2> QED BY <1>1, <2>1, <2>2, OtherFacts
<1>3. /\ Sound(FALSE, p', ran', batch, <<>>) /\ stale' = FALSE /\ at' \in {"run", "ended", "stuck"}
      /\ timer' \in TimerRecord
  <2>1. CASE p.port # <<>> /\ process(Dequeued(p), Head(p.port))
    <3>1. Sound(FALSE, p', ran', batch, <<>>) /\ Called
      BY <1>1, <1>2, <2>1, TakeSound
    <3> QED BY <1>1, <1>2, <3>1 DEF Called
  <2>2. CASE at' = "ended" /\ UNCHANGED <<p, finished, timer, ran, stale>>
    BY <1>2, <2>2
  <2> QED BY <2>1, <2>2 DEF lw_eventpump_start_eventloop_windows
<1>4. held' = <<>> /\ Taken' = ran' /\ InFlight' = batch /\ ran' \in Seq(Task)
  BY <1>1, <1>2, <1>3 DEF Taken, InFlight, watcher, Sound
<1>5. Handshake'
  BY <1>1, <1>2, <1>3 DEF Handshake, Off, watcher
<1>6. resume' \in Nat /\ at' \in Elsewhere
  BY <1>1, <1>2, <1>3 DEF Elsewhere, watcher
<1> QED BY <1>1, <1>2, <1>3, <1>4, <1>5, <1>6, OtherSound

LEMMA TickWindowsInv ==
    ASSUME AppInv, mode # "main", lw_eventpump_tick_windows, UNCHANGED appvars
    PROVE  AppInv'
<1>1. /\ Unix = FALSE /\ at \in {"idle", "held"} /\ UNCHANGED <<build, mode, batch, wat, num>>
      /\ UNCHANGED <<doing, object, console, using, late>>
  BY DEF lw_eventpump_tick_windows, appvars, hookvars, Unix
<1>2. /\ p \in PumpRecord /\ ran \in Seq(Task) /\ timer \in TimerRecord
      /\ stale = FALSE /\ Handshake /\ resume \in Nat /\ (held = <<>> \/ held \in Packet)
      /\ \A e : Sound(FALSE, p, Taken, e, held)
  <2>1. ~Off
    BY <1>1 DEF Off
  <2> QED BY <1>1, <2>1, OtherFacts, AnyEvents
<1>3. CASE at = "idle" /\ asked
  <2>1. asked' = FALSE /\ at' = "held" /\ UNCHANGED <<p, finished, timer, ran, stale, held, resume>>
    BY <1>3 DEF lw_eventpump_tick_windows
  <2>2. Handshake'
    BY <1>1, <1>2, <1>3, <2>1 DEF Handshake, Off
  <2>3. Taken' = Taken
    BY <1>1, <2>1 DEF Taken, Unix
  <2>4. at' \in Elsewhere
    BY <2>1 DEF Elsewhere
  <2> QED BY <1>1, <1>2, <2>1, <2>2, <2>3, <2>4, OtherSound
<1>4. CASE /\ at = "held" /\ held # <<>>
           /\ process(p, held) /\ held' = <<>> /\ UNCHANGED <<asked, resume>>
  <2>1. Taken = Counted(ran, held)
    BY <1>1, <1>4 DEF Taken
  <2>2. Sound(FALSE, p', ran', InFlight', <<>>) /\ Called
    BY <1>1, <1>2, <1>4, <2>1, ProcessSound
  <2>3. stale' = FALSE /\ at' \in {"held", "stuck"} /\ timer' \in TimerRecord
        /\ ran' \in Seq(Task)
    BY <1>2, <1>4, <2>2 DEF Called, Sound
  <2>4. Handshake'
    BY <1>1, <1>2, <1>4, <2>3 DEF Handshake, Off
  <2>5. Taken' = ran' /\ at' \in Elsewhere /\ resume' \in Nat
    BY <1>2, <1>4, <2>3 DEF Taken, Elsewhere
  <2> QED BY <1>1, <1>4, <2>2, <2>3, <2>4, <2>5, OtherSound
<1>5. CASE /\ at = "held" /\ held = <<>> /\ p.port # <<>>
           /\ process(Dequeued(p), Head(p.port)) /\ UNCHANGED <<asked, held, resume>>
  <2>1. Taken = ran
    BY <1>5 DEF Taken
  <2>2. Sound(FALSE, p', ran', InFlight', <<>>) /\ Called
    BY <1>1, <1>2, <1>5, <2>1, TakeSound
  <2>3. stale' = FALSE /\ at' \in {"held", "stuck"} /\ timer' \in TimerRecord
        /\ ran' \in Seq(Task)
    BY <1>2, <1>5, <2>2 DEF Called, Sound
  <2>4. Handshake'
    BY <1>1, <1>2, <1>5, <2>3 DEF Handshake, Off
  <2>5. Taken' = ran' /\ at' \in Elsewhere /\ resume' \in Nat
    BY <1>2, <1>5, <2>3 DEF Taken, Elsewhere
  <2> QED BY <1>1, <1>5, <2>2, <2>3, <2>4, <2>5, OtherSound
<1>6. CASE /\ at = "held" /\ held = <<>> /\ p.port = <<>>
           /\ at' = "idle" /\ resume' = Resumed
           /\ UNCHANGED <<p, finished, timer, ran, stale, asked, held>>
  <2>1. resume' \in Nat
    BY <1>2, <1>6 DEF Resumed, lw_event_signal_windows
  <2>2. wat = "wait" /\ ~asked /\ batch = <<>>
    BY <1>1, <1>2, <1>6 DEF Handshake, Off, Unix
  <2>3. Taken' = Taken /\ at' \in Elsewhere
    BY <1>1, <1>6 DEF Taken, Unix, Elsewhere
  <2>4. Handshake'
    BY <1>1, <1>2, <1>6, <2>1, <2>2 DEF Handshake, Off
  <2> QED BY <1>1, <1>2, <1>6, <2>1, <2>3, <2>4, OtherSound
<1> QED BY <1>3, <1>4, <1>5, <1>6 DEF lw_eventpump_tick_windows

(* The watcher.  Where the main thread stands says whether it may drain.   *)
LEMMA WatcherFacts ==
    ASSUME AppInv, mode # "main", wat # "off"
    PROVE  /\ mode = "sleepy" /\ at # "setup"
           /\ ~Off /\ wat \in {"drain", "select"} => at = "idle" /\ held = <<>> /\ ~asked /\ resume = 0
BY OtherFacts DEF Handshake, Off, Elsewhere

(* select forgets what is not readable any more.                           *)
LEMMA PrunedFields ==
    ASSUME NEW q \in PumpRecord
    PROVE  Pruned(q) \in PumpRecord /\ Pruned(q).posted = q.posted
<1> DEFINE a == q.seen \cap Readable(q)
<1>1. Pruned(q) = [q EXCEPT !.seen = a] /\ a \in SUBSET Events
  BY DEF Pruned, PumpRecord
<1> HIDE DEF a
<1>2. [q EXCEPT !.seen = a] \in PumpRecord
  BY <1>1 DEF PumpRecord
<1>3. [q EXCEPT !.seen = a].posted = q.posted
  BY DEF PumpRecord
<1> QED BY <1>1, <1>2, <1>3

LEMMA WatcherUnixInv ==
    ASSUME AppInv, mode # "main", watcher_unix, UNCHANGED appvars
    PROVE  AppInv'
<1>1. /\ Unix = TRUE /\ wat # "off"
      /\ UNCHANGED <<build, mode, at, batch, finished, timer, ran, stale>>
      /\ UNCHANGED <<doing, object, console, using, late>>
  BY DEF watcher_unix, appvars, hookvars, Unix
<1>2. /\ p \in PumpRecord /\ ran \in Seq(Task) /\ timer \in TimerRecord /\ at \in Elsewhere
      /\ stale = FALSE /\ Handshake /\ resume \in Nat /\ Begins(ran, p.posted)
      /\ Off \/ Sound(TRUE, p, ran, InFlight, held)
  <2>1. Taken = ran
    BY <1>1 DEF Taken
  <2> QED BY <1>1, <2>1, OtherFacts
<1>3. /\ mode = "sleepy" /\ at # "setup"
      /\ ~Off /\ wat \in {"drain", "select"} => at = "idle" /\ held = <<>> /\ ~asked /\ resume = 0
  BY <1>1, WatcherFacts
<1>4. Taken' = ran' /\ (at = "idle" => InFlight' = held') /\ (held' = held => InFlight' = InFlight)
  BY <1>1 DEF Taken, InFlight, Unix
<1>5. CASE \/ p' = Pruned(p) /\ wat' = "select" /\ wat = "drain" /\ UNCHANGED <<held, num, asked, resume>>
           \/ /\ p' = p
              /\ \/ wat = "drain" /\ wat' = "over" /\ Deleted /\ UNCHANGED <<held, num, asked, resume>>
                 \/ wat = "got" /\ wat' = "ask" /\ UNCHANGED <<held, asked, resume>>
                 \/ wat = "ask" /\ wat' = "wait" /\ asked' = TRUE /\ UNCHANGED <<held, num, resume>>
                 \/ wat = "wait" /\ wat' = "resumed" /\ resume > 0 /\ UNCHANGED <<held, num, asked, resume>>
                 \/ wat = "resumed" /\ wat' = "drain" /\ resume' = 0 /\ UNCHANGED <<held, num, asked>>
  <2>1. held' = held /\ resume' \in Nat
    BY <1>2, <1>5
  <2>2. p' \in PumpRecord /\ p'.posted = p.posted
    BY <1>2, <1>5, PrunedFields
  <2>3. Off' \/ Sound(TRUE, p', ran, InFlight, held)
    <3>1. CASE Off
      BY <1>1, <3>1 DEF Off
    <3>2. CASE Sound(TRUE, p, ran, InFlight, held)
      BY <1>5, <3>2, PrunedSound
    <3> QED BY <1>2, <3>1, <3>2
  <2>4. Handshake'
    <3>1. CASE Off
      BY <1>1, <1>2, <1>3, <2>1, <3>1 DEF Handshake, Off
    <3>2. CASE ~Off
      <4>1. CASE wat = "resumed" /\ wat' = "drain" /\ resume' = 0 /\ UNCHANGED <<held, num, asked>>
        BY <1>1, <1>2, <1>3, <2>1, <3>2, <4>1 DEF Handshake, Off
      <4>2. CASE wat = "wait" /\ wat' = "resumed" /\ resume > 0 /\ UNCHANGED <<held, num, asked, resume>>
        BY <1>1, <1>2, <1>3, <2>1, <3>2, <4>2 DEF Handshake, Off
      <4>3. CASE wat = "ask" /\ wat' = "wait" /\ asked' = TRUE /\ UNCHANGED <<held, num, resume>>
        BY <1>1, <1>2, <1>3, <2>1, <3>2, <4>3 DEF Handshake, Off
      <4>4. CASE wat = "got" /\ wat' = "ask" /\ UNCHANGED <<held, asked, resume>>
        BY <1>1, <1>2, <1>3, <2>1, <3>2, <4>4 DEF Handshake, Off
      <4>5. CASE wat = "drain" /\ wat' \in {"select", "over"} /\ UNCHANGED <<held, num, asked, resume>>
        BY <1>1, <1>2, <1>3, <2>1, <3>2, <4>5 DEF Handshake, Off
      <4> QED BY <1>5, <4>1, <4>2, <4>3, <4>4, <4>5
    <3> QED BY <3>1, <3>2
  <2> QED BY <1>1, <1>2, <1>4, <2>1, <2>2, <2>3, <2>4, OtherOff
<1>6. CASE /\ wat \in {"drain", "select"} /\ ~Deleted
           /\ \E o \in lwp_eventqueue_drain(p) :
                 /\ o[1] # {} /\ p' = o[2]
                 /\ held' \in SetToSeqs(o[1])
           /\ wat' = "got" /\ UNCHANGED <<num, asked, resume>>
  <2>1. PICK o \in lwp_eventqueue_drain(p) : p' = o[2] /\ held' \in SetToSeqs(o[1])
    BY <1>6
  <2>2. p' \in PumpRecord /\ p'.posted = p.posted
    BY <1>2, <2>1, DrainReports DEF Still
  <2>3. Off' \/ Sound(TRUE, p', ran, InFlight', held')
    <3>1. CASE Off
      BY <1>1, <3>1 DEF Off
    <3>2. CASE ~Off
      <4>1. at = "idle" /\ InFlight' = held'
        BY <1>3, <1>4, <1>6, <3>2
      <4>2. Sound(TRUE, p, ran, InFlight, held')
        BY <1>2, <3>2 DEF Sound
      <4>3. Sound(TRUE, p', ran, held', held')
        BY <2>1, <4>2, DrainSound
      <4> QED BY <4>1, <4>3
    <3> QED BY <3>1, <3>2
  <2>4. Handshake'
    BY <1>1, <1>2, <1>3, <1>6 DEF Handshake, Off
  <2> QED BY <1>1, <1>2, <1>4, <1>6, <2>2, <2>3, <2>4, OtherOff
<1> QED BY <1>1, <1>5, <1>6 DEF watcher_unix, lw_event_signalled, Unsignalled, lw_event_unsignal_unix

LEMMA WatcherWindowsInv ==
    ASSUME AppInv, mode # "main", watcher_windows, UNCHANGED appvars
    PROVE  AppInv'
<1>1. /\ Unix = FALSE /\ wat # "off"
      /\ UNCHANGED <<build, mode, at, batch, finished, num, timer, ran, stale>>
      /\ UNCHANGED <<doing, object, console, using, late>>
  BY DEF watcher_windows, appvars, hookvars, Unix
<1>2. /\ p \in PumpRecord /\ ran \in Seq(Task) /\ timer \in TimerRecord /\ at \in Elsewhere
      /\ stale = FALSE /\ Handshake /\ resume \in Nat /\ Begins(ran, p.posted)
      /\ held = <<>> \/ held \in Packet
      /\ Off \/ \A e : Sound(FALSE, p, Taken, e, held)
  BY <1>1, OtherFacts, AnyEvents
<1>3. /\ mode = "sleepy" /\ at # "setup"
      /\ ~Off /\ wat \in {"drain", "select"} => at = "idle" /\ held = <<>> /\ ~asked /\ resume = 0
  BY <1>1, WatcherFacts
<1>4. CASE \/ wat = "ask" /\ wat' = "wait" /\ asked' = TRUE /\ UNCHANGED <<p, held, resume>>
           \/ wat = "wait" /\ wat' = "resumed" /\ resume > 0 /\ UNCHANGED <<p, held, asked, resume>>
           \/ wat = "resumed" /\ wat' = "drain" /\ resume' = 0 /\ UNCHANGED <<p, held, asked>>
  <2>1. held' = held /\ p' = p /\ resume' \in Nat /\ Taken' = Taken
    BY <1>1, <1>2, <1>4 DEF Taken, Unix
  <2>2. Off' \/ Sound(FALSE, p', Taken', InFlight', held')
    BY <1>1, <1>2, <2>1 DEF Off
  <2>3. Handshake'
    BY <1>1, <1>2, <1>3, <1>4, <2>1 DEF Handshake, Off
  <2> QED BY <1>1, <1>2, <2>1, <2>2, <2>3, OtherOff
<1>5. CASE /\ wat = "drain" /\ p.port # <<>>
           /\ held' = Head(p.port) /\ p' = Dequeued(p)
           /\ wat' = IF Head(p.port) = <<"end">> THEN "over" ELSE "ask"
           /\ UNCHANGED <<asked, resume>>
  <2> DEFINE q == Dequeued(p)
             x == Head(p.port)
  <2>1. x \in Packet /\ q \in PumpRecord /\ q.posted = p.posted
    <3>1. p.port \in Seq(Packet)
      BY <1>2 DEF PumpRecord
    <3>2. x \in Packet /\ Tail(p.port) \in Seq(Packet)
      BY <1>5, <3>1
    <3> QED BY <1>2, <3>2 DEF Dequeued, PumpRecord
  <2>2. x # <<>>
    BY <2>1, NotEmpty
  <2>3. held' = x /\ p' = q /\ wat' \in {"over", "ask"} /\ UNCHANGED <<asked, resume>>
    BY <1>5
  <2>4. Taken' = Counted(ran, x)
    BY <1>1, <2>2, <2>3 DEF Taken, Unix
  <2>5. ASSUME ~Off
        PROVE  Sound(FALSE, q, Counted(ran, x), InFlight', x)
    <3>1. Taken = ran /\ held = <<>>
      BY <1>3, <1>5, <2>5 DEF Taken
    <3>2. Sound(FALSE, p, ran, InFlight', <<>>)
      BY <1>2, <2>5, <3>1
    <3> QED BY <1>5, <3>2, DequeueSound
  <2>6. Handshake'
    BY <1>1, <1>2, <1>3, <1>5, <2>3 DEF Handshake, Off
  <2>7. Off' = Off
    BY <1>1 DEF Off
  <2> HIDE DEF x, q
  <2> QED BY <1>1, <1>2, <2>1, <2>3, <2>4, <2>5, <2>6, <2>7, OtherOff
<1> QED BY <1>1, <1>4, <1>5 DEF watcher_windows, lw_event_signalled, Unsignalled, lw_event_unsignal_windows

(* The program, outside the pump.                                          *)
LEMMA SetupInv ==
    ASSUME AppInv, mode # "main", Setup, UNCHANGED appvars
    PROVE  AppInv'
<1>1. /\ at = "setup" /\ UNCHANGED <<build, mode, batch, finished, held, num, asked, resume, ran, stale>>
      /\ UNCHANGED <<doing, object, console, using, late>>
  BY DEF Setup, appvars, hookvars
<1>2. /\ p \in PumpRecord /\ ran \in Seq(Task) /\ timer \in TimerRecord
      /\ stale = FALSE /\ Handshake /\ resume = 0 /\ mode \in {"loop", "sleepy"}
      /\ batch = <<>> /\ held = <<>> /\ wat = "off" /\ ~asked
      /\ Taken = ran /\ InFlight = <<>> /\ Sound(Unix, p, ran, <<>>, <<>>)
  <2>1. ~Off /\ Handshake
    BY <1>1, OtherFacts DEF Off
  <2>2. batch = <<>> /\ held = <<>> /\ wat = "off" /\ ~asked /\ resume = 0
    BY <1>1, <2>1 DEF Handshake
  <2>3. Taken = ran /\ InFlight = <<>>
    BY <1>1, <2>2 DEF Taken, InFlight
  <2> QED BY <2>1, <2>2, <2>3, OtherFacts
<1>3. Taken' = ran' /\ InFlight' = <<>> /\ held' = <<>> /\ resume' \in Nat
  BY <1>1, <1>2 DEF Taken, InFlight
<1>4. CASE \E fd \in Fds : /\ p.watch[fd] = "none"
                           /\ p' = lw_pump_add(p, fd)
                           /\ UNCHANGED <<at, wat, timer>>
  <2>1. Sound(Unix, p', ran, <<>>, <<>>)
    BY <1>2, <1>4, AddSound
  <2>2. Handshake'
    BY <1>1, <1>2, <1>4 DEF Handshake, Off
  <2>3. at' \in Elsewhere
    BY <1>1, <1>4 DEF Elsewhere
  <2> QED BY <1>1, <1>2, <1>3, <1>4, <2>1, <2>2, <2>3, OtherSound
<1>5. CASE /\ timer' = lw_timer_start(timer)
           /\ at' = IF mode = "loop" THEN "run" ELSE "idle"
           /\ wat' = lw_eventpump_start_sleepy_ticking
           /\ UNCHANGED p
  <2>1. timer' \in TimerRecord
    BY <1>2, <1>5 DEF lw_timer_start, lw_timer_start_unix, lw_timer_start_windows, TimerRecord
  <2>2. \/ mode = "loop" /\ at' = "run" /\ wat' = "off"
        \/ mode = "sleepy" /\ at' = "idle" /\ wat' = "drain"
    BY <1>2, <1>5 DEF lw_eventpump_start_sleepy_ticking
  <2>3. Handshake'
    BY <1>1, <1>2, <2>2 DEF Handshake, Off
  <2>4. at' \in Elsewhere
    BY <2>2 DEF Elsewhere
  <2> QED BY <1>1, <1>2, <1>3, <1>5, <2>1, <2>3, <2>4, OtherSound
<1> QED BY <1>1, <1>4, <1>5 DEF Setup

LEMMA OutsideInv ==
    ASSUME AppInv, mode # "main", Outside, UNCHANGED appvars
    PROVE  AppInv'
<1>1. /\ at = "idle" /\ Hook(p, FALSE) /\ UNCHANGED <<build, mode, batch, finished, watcher, ran, stale>>
      /\ UNCHANGED <<doing, object, console, using, late>>
  BY DEF Outside, appvars, hookvars
<1>2. /\ p \in PumpRecord /\ ran \in Seq(Task) /\ timer \in TimerRecord
      /\ stale = FALSE /\ Handshake /\ resume \in Nat
      /\ ~Unix => held = <<>> \/ held \in Packet
      /\ Sound(Unix, p, Taken, held, held)
  <2>1. ~Off /\ InFlight = held
    BY <1>1 DEF Off, InFlight
  <2> QED BY <2>1, OtherFacts
<1>3. /\ Sound(Unix, p', Taken, held, held) /\ at' \in {"idle", "stuck"}
      /\ timer' \in TimerRecord
  BY <1>1, <1>2, HookSound, TimerStops
<1>4. /\ held' = held /\ Taken' = Taken /\ resume' \in Nat /\ at' \in Elsewhere
      /\ Off' \/ InFlight' = held'
  BY <1>1, <1>2, <1>3 DEF watcher, Taken, Unix, Elsewhere, Off, InFlight
<1>5. Handshake'
  BY <1>1, <1>2, <1>3 DEF Handshake, Off, watcher
<1>6. p' \in PumpRecord /\ Begins(ran, p'.posted)
  <2>1. p' \in PumpRecord /\ p'.posted \in Seq(Task) /\ Begins(Taken, p'.posted)
    BY <1>3 DEF Sound, OnUnix, OnWindows, InStep, Paired, PumpRecord
  <2>2. \/ Taken = ran
        \/ held \in Packet /\ Taken = Counted(ran, held)
    BY <1>2 DEF Taken
  <2> QED BY <1>2, <2>1, <2>2, CountedBegins
<1> QED BY <1>1, <1>2, <1>3, <1>4, <1>5, <1>6, OtherOff

(* A step of another thread, which leaves the two that take turns alone.   *)
LEMMA Aside ==
    ASSUME AppInv, mode # "main",
           UNCHANGED <<build, mode, at, batch, finished, watcher, ran, stale>>,
           UNCHANGED <<doing, object, console, using, late>>,
           p' \in PumpRecord, Begins(ran, p'.posted),
           timer' \in TimerRecord,
           Sound(Unix, p, Taken, InFlight, held) => Sound(Unix, p', Taken, InFlight, held)
    PROVE  AppInv'
<1>1. /\ ran \in Seq(Task) /\ stale = FALSE /\ Handshake /\ resume \in Nat /\ at \in Elsewhere
      /\ ~Unix => held = <<>> \/ held \in Packet
      /\ Off \/ Sound(Unix, p, Taken, InFlight, held)
  BY OtherFacts
<1>2. /\ held' = held /\ Taken' = Taken /\ InFlight' = InFlight /\ Off' = Off
      /\ resume' \in Nat /\ at' \in Elsewhere
  BY <1>1 DEF watcher, Taken, InFlight, Off, Unix
<1>3. Handshake'
  BY <1>1 DEF Handshake, Off, watcher
<1>4. Off' \/ Sound(Unix, p', Taken', InFlight', held')
  BY <1>1, <1>2
<1> QED BY <1>1, <1>2, <1>3, <1>4, OtherOff

LEMMA PostExitInv ==
    ASSUME AppInv, mode # "main", PostExit, UNCHANGED appvars
    PROVE  AppInv'
<1>1. /\ p' = lw_eventpump_post_eventloop_exit(p)
      /\ UNCHANGED <<build, mode, at, batch, finished, watcher, timer, ran, stale>>
      /\ UNCHANGED <<doing, object, console, using, late>>
  BY DEF PostExit, appvars, hookvars
<1>2. p \in PumpRecord /\ Begins(ran, p.posted) /\ timer \in TimerRecord
  BY OtherFacts
<1>3. p' \in PumpRecord /\ p'.posted = p.posted
  BY <1>1, <1>2, ExitFields DEF Exits
<1>4. Sound(Unix, p, Taken, InFlight, held) => Sound(Unix, p', Taken, InFlight, held)
  BY <1>1, ExitSound
<1> QED BY <1>1, <1>2, <1>3, <1>4, Aside

LEMMA CleanupInv ==
    ASSUME AppInv, mode # "main", Cleanup_unix \/ Cleanup_windows \/ Joined, UNCHANGED appvars
    PROVE  AppInv'
<1>1. /\ UNCHANGED <<build, mode, batch, finished, wat, held, num, asked, timer, ran, stale>>
      /\ UNCHANGED <<doing, object, console, using, late>> /\ at' \in {"joining", "over"}
      /\ mode = "sleepy" \/ at = "joining"
  BY DEF Cleanup_unix, Cleanup_windows, Joined, appvars, hookvars, watcher
<1>2. /\ p \in PumpRecord /\ ran \in Seq(Task) /\ timer \in TimerRecord
      /\ stale = FALSE /\ Handshake /\ resume \in Nat /\ Begins(ran, p.posted)
      /\ ~Unix => held = <<>> \/ held \in Packet
      /\ mode \in {"loop", "sleepy"}
  BY OtherFacts
<1>3. /\ resume' \in Nat /\ (mode = "loop" => resume' = resume)
      /\ p' = p \/ p' = [p EXCEPT !.port = Append(@, <<"end">>)]
  BY <1>2 DEF Cleanup_unix, Cleanup_windows, Joined, watcher,
        lw_event_signal_unix, lw_event_signal_windows
<1>4. p' \in PumpRecord /\ p'.posted = p.posted
  <2> DEFINE y == Append(p.port, <<"end">>)
  <2>1. y \in Seq(Packet) /\ (p' = p \/ p' = [p EXCEPT !.port = y])
    BY <1>2, <1>3, PacketFacts DEF PumpRecord
  <2> HIDE DEF y
  <2> QED BY <1>2, <2>1 DEF PumpRecord
<1>5. Handshake'
  BY <1>1, <1>2, <1>3 DEF Handshake, Off
<1>6. Off' /\ at' \in Elsewhere
  BY <1>1 DEF Off, Elsewhere
<1> QED BY <1>1, <1>2, <1>3, <1>4, <1>5, <1>6, OtherOff

(***************************************************************************)
(* The timer's thread and the connections, in every program.               *)
(***************************************************************************)

(* What was in a queue, and what was put into it.                          *)
LEMMA AppendHas ==
    ASSUME NEW S, NEW s \in Seq(S), NEW x \in S
    PROVE  \A i \in 1 .. Len(Append(s, x)) :
              Append(s, x)[i] = x \/ (\E j \in 1 .. Len(s) : Append(s, x)[i] = s[j])
<1> SUFFICES ASSUME NEW i \in 1 .. Len(Append(s, x))
             PROVE  Append(s, x)[i] = x \/ (\E j \in 1 .. Len(s) : Append(s, x)[i] = s[j])
  OBVIOUS
<1>1. CASE i = Len(s) + 1
  BY <1>1
<1>2. CASE i \in 1 .. Len(s)
  BY <1>2
<1> QED BY <1>1, <1>2

LEMMA TimerThreadInv ==
    ASSUME AppInv, TimerThread
    PROVE  AppInv'
<1>1. /\ timer_thread /\ UNCHANGED <<doing, object, console, shutdowned, threw, using>>
      /\ UNCHANGED <<build, mode, at, batch, finished, watcher, ran, stale>>
      /\ Used(IF mode = "main" THEN {"pump"} ELSE {})
  BY DEF TimerThread, timer_thread, hookvars
<1>2. Typed /\ p \in PumpRecord /\ timer \in TimerRecord /\ ran \in Seq(Task) /\ Begins(ran, p.posted)
  BY DEF AppInv, Typed
<1>3. /\ PostedTo(p, p', <<"tick", "timer">>) /\ <<"tick", "timer">> \in Task
      /\ timer' \in TimerRecord
  BY <1>1, <1>2, TickFields
<1>4. Begins(ran, p'.posted) /\ p' \in PumpRecord
  <2>1. p.posted \in Seq(Task)
    BY <1>2 DEF PumpRecord
  <2>2. /\ Len(p'.posted) = Len(p.posted) + 1 /\ Len(p.posted) \in Nat /\ Len(ran) \in Nat
        /\ \A i \in 1 .. Len(p.posted) : p'.posted[i] = p.posted[i]
    BY <1>2, <1>3, <2>1 DEF PostedTo
  <2> QED BY <1>2, <1>3, <2>2 DEF Begins, PostedTo
<1>5. CASE mode # "main"
  <2>1. late' = late
    BY <1>1, <1>5 DEF Used
  <2>2. Sound(Unix, p, Taken, InFlight, held) => Sound(Unix, p', Taken, InFlight, held)
    BY <1>1, TickSound
  <2> QED BY <1>1, <1>3, <1>4, <1>5, <2>1, <2>2, Aside
<1>6. CASE mode = "main"
  <2>1. MainInv /\ ExitsLast /\ Deletes /\ Outlives /\ ~Unix /\ InStep(p.port, ran, p.posted)
    BY <1>6 DEF AppInv, MainInv
  <2> DEFINE f == <<"tick", "timer">>
             x == <<"post">> \o f
  <2>2. /\ p'.posted = Append(p.posted, f) /\ p'.port = Append(p.port, x) /\ p'.exit = p.exit
        /\ f \in Task /\ x \in Packet /\ x # <<"exit">>
    <3>1. x = <<"post", "tick", "timer">>
      BY Triple
    <3> QED BY <1>3, <2>1, <3>1, PacketFacts DEF PostedTo
  <2>3. p.port \in Seq(Packet) /\ p.posted \in Seq(Task)
    BY <1>2 DEF PumpRecord
  <2>4. InStep(p'.port, ran, p'.posted)
    BY <1>2, <2>1, <2>2, <2>3, InStepPost
  <2> HIDE DEF x, f
  <2>5. /\ \A i \in 1 .. Len(p'.port) : p'.port[i] = x \/ (\E j \in 1 .. Len(p.port) : p'.port[i] = p.port[j])
        /\ \A i \in 1 .. Len(p'.posted) :
              p'.posted[i] = f \/ (\E j \in 1 .. Len(p.posted) : p'.posted[i] = p.posted[j])
    BY <2>2, <2>3, AppendHas
  <2>6. \A i \in 1 .. Len(p'.posted) : p'.posted[i] = <<"tick", "timer">>
    BY <2>1, <2>5 DEF MainInv, f
  <2>7. ExitsLast'
    BY <1>1, <2>1, <2>2, <2>5 DEF ExitsLast
  <2>8. timer.thread = "posting" /\ object.pump # "deleted"
    BY <1>1, <2>1 DEF timer_thread, Deletes
  <2>9. late' = late
    BY <1>1, <1>6, <2>8 DEF Used
  <2>10. Deletes' /\ Outlives'
    BY <1>1, <1>3, <2>1, <2>8, <2>9 DEF Deletes, Outlives
  <2>11. MainInv'
    BY <1>1, <2>1, <2>4, <2>6, <2>7, <2>10 DEF MainInv, Unix, watcher
  <2>12. Typed'
    BY <1>1, <1>2, <1>3, <1>4 DEF Typed, Unix, watcher
  <2> QED BY <1>1, <1>6, <2>11, <2>12 DEF AppInv
<1> QED BY <1>5, <1>6

LEMMA ExpireInv ==
    ASSUME AppInv, Expire
    PROVE  AppInv'
<1>1. /\ timer_expires /\ UNCHANGED <<doing, object, console, shutdowned, threw, using, late>>
      /\ UNCHANGED <<build, mode, at, batch, finished, watcher, ran, stale>>
  BY DEF Expire, timer_expires, appvars, hookvars
<1>2. Typed /\ p \in PumpRecord /\ timer \in TimerRecord /\ ran \in Seq(Task) /\ Begins(ran, p.posted)
  BY DEF AppInv, Typed
<1>3. /\ p' \in PumpRecord /\ p'.port = p.port /\ p'.posted = p.posted /\ p'.exit = p.exit
      /\ timer' \in TimerRecord
      /\ timer.thread # "wait" => timer'.thread = timer.thread
  BY <1>1, <1>2, ExpireFields
<1>4. CASE mode # "main"
  <2>1. Sound(Unix, p, Taken, InFlight, held) => Sound(Unix, p', Taken, InFlight, held)
    BY <1>1, <1>2, ExpireSound
  <2> QED BY <1>1, <1>2, <1>3, <1>4, <2>1, Aside
<1>5. CASE mode = "main"
  <2>1. MainInv /\ ExitsLast /\ Deletes /\ Outlives
    BY <1>5 DEF AppInv, MainInv
  <2>2. ExitsLast'
    BY <1>1, <1>3, <2>1 DEF ExitsLast
  <2>3. Deletes' /\ Outlives'
    BY <1>1, <1>3, <2>1 DEF Deletes, Outlives
  <2>4. MainInv'
    BY <1>1, <1>3, <2>1, <2>2, <2>3 DEF MainInv, Unix, watcher
  <2>5. Typed'
    BY <1>1, <1>2, <1>3 DEF Typed, Unix, watcher
  <2> QED BY <1>1, <1>5, <2>4, <2>5 DEF AppInv
<1> QED BY <1>4, <1>5

LEMMA CallInv ==
    ASSUME AppInv, NEW f \in Fds, Call(f)
    PROVE  AppInv'
<1> DEFINE most == IF mode = "main" THEN MaxPackets ELSE MaxArrivals
<1>1. /\ Arrive(f, most) /\ UNCHANGED <<doing, object, console, shutdowned, threw, using, late>>
      /\ UNCHANGED <<build, mode, at, batch, finished, watcher, timer, ran, stale>>
  BY DEF Call, Arrive, appvars, hookvars
<1> HIDE DEF most
<1>2. Typed /\ p \in PumpRecord /\ timer \in TimerRecord /\ ran \in Seq(Task) /\ Begins(ran, p.posted)
  BY DEF AppInv, Typed
<1>3. /\ p' \in PumpRecord /\ p'.posted = p.posted /\ p'.exit = p.exit
      /\ ~Unix => p'.port = Append(p.port, <<"io", f>>)
  BY <1>1, <1>2, ArriveFields
<1>4. CASE mode # "main"
  <2>1. Sound(Unix, p, Taken, InFlight, held) => Sound(Unix, p', Taken, InFlight, held)
    BY <1>1, ArriveSound
  <2> QED BY <1>1, <1>2, <1>3, <1>4, <2>1, Aside
<1>5. CASE mode = "main"
  <2>1. MainInv /\ ExitsLast /\ Deletes /\ Outlives /\ ~Unix /\ InStep(p.port, ran, p.posted)
    BY <1>5 DEF AppInv, MainInv
  <2>2. p.port \in Seq(Packet) /\ p.posted \in Seq(Task)
    BY <1>2 DEF PumpRecord
  <2> DEFINE x == <<"io", f>>
  <2>3. x \in Packet /\ ~Posts(x) /\ x # <<"exit">> /\ p'.port = Append(p.port, x)
    BY <1>3, <2>1, PacketFacts
  <2> HIDE DEF x
  <2>4. InStep(p'.port, ran, p'.posted)
    BY <1>2, <1>3, <2>1, <2>2, <2>3, InStepOther
  <2>5. \A i \in 1 .. Len(p'.port) : p'.port[i] = x \/ (\E j \in 1 .. Len(p.port) : p'.port[i] = p.port[j])
    BY <2>2, <2>3, AppendHas
  <2>6. ExitsLast'
    BY <1>1, <1>3, <2>1, <2>3, <2>5 DEF ExitsLast
  <2>7. Deletes' /\ Outlives'
    BY <1>1, <2>1 DEF Deletes, Outlives
  <2>8. MainInv'
    BY <1>1, <1>3, <2>1, <2>4, <2>6, <2>7 DEF MainInv, Unix, watcher
  <2>9. Typed'
    BY <1>1, <1>2, <1>3 DEF Typed, Unix, watcher
  <2> QED BY <1>1, <1>5, <2>8, <2>9 DEF AppInv
<1> QED BY <1>4, <1>5

(***************************************************************************)
(* Every step, and what follows.                                           *)
(***************************************************************************)

(* Every step keeps the invariant.                                         *)
LEMMA AppNextInv ==
    ASSUME AppInv, [AppNext]_allvars
    PROVE  AppInv'
<1>1. mode # "main" => doing = "other" /\ console = <<>> /\ using = {}
  BY DEF AppInv, OtherInv
<1>2. mode = "main" => wat = "off" /\ ~Unix
  BY DEF AppInv, MainInv
<1>3. CASE Main
  <2>1. at # "over" /\ mode = "main"
    BY <1>1, <1>3 DEF Main, New, GenerateFlashPolicy, Host, Start, timer_delete, DeleteServer,
                      DeletePump
  <2> QED BY <1>3, <2>1, MainBefore, HostInv, StartInv, timer_deleteInv, MainAfter DEF Main
<1>4. CASE start_eventloop
  <2>1. mode = "main"
    BY <1>1, <1>4 DEF start_eventloop
  <2> QED BY <1>4, <2>1, MainLoops
<1>5. CASE Use
  <2>1. mode = "main"
    BY <1>1, <1>5 DEF Use
  <2> QED BY <1>5, <2>1, UseInv
<1>6. CASE CloseHandler
  BY <1>6, CloseInv
<1>7. CASE Console
  <2>1. mode = "main"
    BY <1>1, <1>7 DEF Console, Clear, StopTimer, Unhost, PostEventloopExit, Kill, Step
  <2> QED BY <1>7, <2>1, ConsoleInv, PostEventloopExitInv DEF Console
<1>8. CASE TimerThread
  BY <1>8, TimerThreadInv
<1>9. CASE Expire
  BY <1>9, ExpireInv
<1>10. CASE \E f \in Fds : Call(f)
  BY <1>10, CallInv
<1>11. CASE Other
  <2>1. mode # "main" /\ UNCHANGED appvars
    BY <1>11 DEF Other
  <2>2. CASE Pump
    BY <2>1, <2>2, ProcessEventInv, LoopUnixInv, TickUnixInv, LoopWindowsInv, TickWindowsInv DEF Pump
  <2>3. CASE Setup
    BY <2>1, <2>3, SetupInv
  <2>4. CASE Outside
    BY <2>1, <2>4, OutsideInv
  <2>5. CASE PostExit
    BY <2>1, <2>5, PostExitInv
  <2>6. CASE Cleanup_unix \/ Cleanup_windows \/ Joined
    BY <2>1, <2>6, CleanupInv
  <2> QED BY <1>11, <2>2, <2>3, <2>4, <2>5, <2>6 DEF Other
<1>12. CASE Watch
  <2>1. UNCHANGED appvars /\ (watcher_unix \/ watcher_windows)
    BY <1>12 DEF Watch, Watcher
  <2>2. mode # "main"
    BY <1>2, <2>1 DEF watcher_unix, watcher_windows
  <2> QED BY <2>1, <2>2, WatcherUnixInv, WatcherWindowsInv
<1>13. CASE UNCHANGED allvars
  <2>1. /\ UNCHANGED <<build, mode, p, at, batch, finished, watcher, timer, ran, stale>>
        /\ UNCHANGED <<doing, object, console, shutdowned, hosting, policy, threw, late>>
        /\ UNCHANGED hookvars
    BY <1>13 DEF allvars, pumpvars, appvars
  <2>2. UNCHANGED <<wat, held, num, asked, resume, server, clientdata, wasted, exceeded, bans, using>>
    BY <2>1 DEF watcher, hookvars
  <2>3. Unix' = Unix /\ Off' = Off /\ Taken' = Taken /\ InFlight' = InFlight
    BY <2>1, <2>2 DEF Unix, Off, Taken, InFlight
  <2>4. Typed' = Typed
    BY <2>1, <2>2, <2>3 DEF Typed
  <2>5. ExitsLast' = ExitsLast /\ Deletes' = Deletes /\ Outlives' = Outlives
    BY <2>1, <2>2 DEF ExitsLast, Deletes, Outlives
  <2>6. Handshake' = Handshake
    BY <2>1, <2>2, <2>3 DEF Handshake
  <2>7. MainInv' = MainInv
    BY <2>1, <2>2, <2>3, <2>5 DEF MainInv
  <2>8. OtherInv' = OtherInv
    BY <2>1, <2>2, <2>3, <2>6 DEF OtherInv
  <2> QED BY <2>1, <2>4, <2>7, <2>8 DEF AppInv
<1> QED
  BY <1>3, <1>4, <1>5, <1>6, <1>7, <1>8, <1>9, <1>10, <1>11, <1>12, <1>13 DEF AppNext

(* AppInv holds of every state of the program and of the other programs of *)
(* the pump.                                                               *)
THEOREM AppInvHolds == AppSpec => []AppInv
<1>1. AppInit => AppInv
  BY AppInitInv
<1>2. AppInv /\ [AppNext]_allvars => AppInv'
  BY AppNextInv
<1> QED BY <1>1, <1>2, PTL DEF AppSpec

(* Posted calls run in the order of their posts, each once and with the    *)
(* parameter it was posted with, on Unix out of a pipe and a queue of      *)
(* parameters, on Windows out of the completion port and the watcher's     *)
(* hands.                                                                  *)
THEOREM CallsRunInOrder == AppSpec => []InOrder
<1>1. AppInv => InOrder
  <2> SUFFICES ASSUME AppInv
               PROVE  ran = SubSeq(p.posted, 1, Len(ran))
    BY DEF InOrder
  <2>1. ran \in Seq(Task) /\ p.posted \in Seq(Task) /\ Begins(ran, p.posted)
    BY DEF AppInv, Typed, PumpRecord
  <2> DEFINE all == p.posted
             s == SubSeq(all, 1, Len(ran))
  <2>2. Len(ran) \in Nat /\ Len(ran) <= Len(all)
    BY <2>1 DEF Begins
  <2>3. s \in Seq(Task) /\ Len(s) = Len(ran) /\ \A i \in 1 .. Len(ran) : s[i] = all[i]
    BY <2>1, <2>2
  <2>4. \A i \in 1 .. Len(ran) : ran[i] = all[i]
    BY <2>1 DEF Begins
  <2> HIDE DEF s, all
  <2>5. s = ran
    BY <2>1, <2>3, <2>4
  <2> QED BY <2>5 DEF s, all
<1> QED BY <1>1, AppInvHolds, PTL

(* No event is delivered to a watch that was freed, though a callback may  *)
(* remove and close what a later event of the same batch is for.           *)
THEOREM NoStaleUse == AppSpec => []NoStaleWatch
<1>1. AppInv => NoStaleWatch
  BY DEF AppInv, Typed, NoStaleWatch
<1> QED BY <1>1, AppInvHolds, PTL

(* The console's and the timer's threads use the pump, the server and the  *)
(* timer only while they exist, unless an exception has ended the loop.    *)
THEOREM ObjectsOutlive == AppSpec => []Outlives
<1>1. AppInv => Outlives
  BY DEF AppInv, MainInv, OtherInv, Outlives
<1> QED BY <1>1, AppInvHolds, PTL
=============================================================================
