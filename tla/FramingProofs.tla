--------------------------- MODULE FramingProofs ---------------------------
(***************************************************************************)
(* Proofs about Framing: the reader stays within its bounds whatever       *)
(* bytes it is given and however they are cut; it reads every size that    *)
(* the sender writes, but for those with the sign bit set; and when none   *)
(* of those is sent, it delivers every message as it was sent, in order,   *)
(* in the call that gets its last byte.                                    *)
(***************************************************************************)
EXTENDS Framing, SequenceTheorems, TLAPS

(* A size of two or four bytes is being put together: what has come and    *)
(* what is missing add up.                                                 *)
SizeParts ==
    state = 1 =>
        /\ sizebytesleft = 0 => buffer = <<>>
        /\ sizebytesleft > 0 => Len(buffer) + sizebytesleft \in {2, 4}
        /\ \A i \in 1 .. Len(buffer) : buffer[i] \in 0 .. (Byte - 1)

Stored ==
    /\ sent \in Seq([type : Types, size : Sizes])
    /\ wire \in Seq(Nat) /\ data \in Seq(Nat) /\ buffer \in Seq(Nat)
    /\ calling \in BOOLEAN

ReaderInv == TypeOK /\ SizeParts /\ Stored

-----------------------------------------------------------------------------
(* A digit and a number of the digits after it make a number. *)
LEMMA Digits ==
    ASSUME NEW B \in Nat, NEW M \in Nat, NEW a \in 0 .. (B - 1), NEW r \in 0 .. (M - 1)
    PROVE  a + B * r \in 0 .. (B * M - 1)
<1>1. B * r \in Nat /\ B * M \in Nat /\ B * (M - 1) \in Int
  BY SMT
<1>2. B * r <= B * (M - 1)
  <2>1. r <= M - 1
    OBVIOUS
  <2>2. PICK d : d = (M - 1) - r
    OBVIOUS
  <2>3. d \in Nat /\ M - 1 = r + d
    BY <2>1, <2>2
  <2>4. B * (r + d) = B * r + B * d /\ B * d >= 0
    BY <2>3
  <2>5. QED
    BY <2>3, <2>4
<1>3. B * (M - 1) = B * M - B
  OBVIOUS
<1>4. QED
  BY <1>1, <1>2, <1>3

LEMMA WordSize ==
    /\ Byte \in Nat /\ Byte >= 4
    /\ Byte * Byte \in Nat /\ Byte * Byte >= 4 * Byte
    /\ Byte * (Byte * Byte) \in Nat
    /\ Word = Byte * (Byte * (Byte * Byte))
    /\ Word \in Nat /\ Word >= Byte * Byte
<1>1. Byte \in Nat /\ Byte >= 4
  BY FramingAssumption
<1>2. PICK d : d = Byte - 4
  OBVIOUS
<1> /\ d \in Nat
    /\ Byte = 4 + d
  BY <1>1, <1>2
<1>3. Byte * Byte = 4 * Byte + d * Byte /\ d * Byte \in Nat
  BY <1>1, <1>2
<1>4. Byte * Byte \in Nat /\ Byte * Byte >= 4 * Byte
  BY <1>1, <1>3
<1>5. PICK S \in Nat : S = Byte * Byte
  BY <1>4
<1>6. Byte * S \in Nat /\ Byte * S = 4 * S + d * S /\ d * S \in Nat
  BY <1>1, <1>2, <1>5
<1>7. PICK C \in Nat : C = Byte * S
  BY <1>6
<1>8. Byte * C \in Nat /\ Byte * C = 4 * C + d * C /\ d * C \in Nat
  BY <1>1, <1>2, <1>7
<1>9. Word = Byte * C
  <2>1. Word = S * Byte * Byte
    BY <1>5 DEF Word
  <2>2. S * Byte = C
    BY <1>1, <1>7
  <2>3. QED
    BY <1>1, <2>1, <2>2
<1>10. QED
  BY <1>1, <1>4, <1>5, <1>6, <1>7, <1>8, <1>9

(* Whatever the bytes are, a size made of two or four fits messagesize. *)
LEMMA SizeFits ==
    ASSUME NEW bytes \in Seq(Nat), Len(bytes) \in {2, 4},
           \A i \in 1 .. Len(bytes) : bytes[i] \in 0 .. (Byte - 1)
    PROVE  SizeIn(bytes) \in 0 .. (Word - 1)
<1> USE WordSize
<1>1. CASE Len(bytes) = 2
  <2>1. bytes[1] \in 0 .. (Byte - 1) /\ bytes[2] \in 0 .. (Byte - 1)
    BY <1>1
  <2>2. PICK n : n = bytes[1] + Byte * bytes[2]
    OBVIOUS
  <2>3. n \in 0 .. (Byte * Byte - 1)
    BY <2>1, <2>2, Digits
  <2>4. SizeIn(bytes) = IF 2 * n < Byte * Byte THEN n ELSE Word - Byte * Byte + n
    BY <1>1, <2>2 DEF SizeIn
  <2>5. QED
    BY <2>3, <2>4
<1>2. CASE Len(bytes) = 4
  <2>1. \A i \in {1, 2, 3, 4} : bytes[i] \in 0 .. (Byte - 1)
    BY <1>2
  <2>2. bytes[3] + Byte * bytes[4] \in 0 .. (Byte * Byte - 1)
    BY <2>1, Digits
  <2>3. bytes[2] + Byte * (bytes[3] + Byte * bytes[4]) \in 0 .. (Byte * (Byte * Byte) - 1)
    BY <2>1, <2>2, Digits
  <2>4. bytes[1] + Byte * (bytes[2] + Byte * (bytes[3] + Byte * bytes[4])) \in 0 .. (Word - 1)
    BY <2>1, <2>3, Digits
  <2>5. QED
    BY <1>2, <2>4 DEF SizeIn
<1>3. QED
  BY <1>1, <1>2

LEMMA TwoAndTwo ==
    ASSUME NEW a \in Nat, NEW b \in Nat, NEW c \in Nat, NEW d \in Nat,
           NEW bytes, bytes = <<a, b>> \o <<c, d>>
    PROVE  /\ Len(bytes) = 4
           /\ bytes[1] = a /\ bytes[2] = b /\ bytes[3] = c /\ bytes[4] = d
<1>1. PICK s \in Seq(Nat), t \in Seq(Nat) : s = <<a, b>> /\ t = <<c, d>>
  <2>1. <<a, b>> \in Seq(Nat) /\ <<c, d>> \in Seq(Nat)
    OBVIOUS
  <2>2. QED
    BY <2>1
<1>2. Len(s) = 2 /\ Len(t) = 2 /\ s[1] = a /\ s[2] = b /\ t[1] = c /\ t[2] = d
  BY <1>1
<1>3. bytes = s \o t
  BY <1>1
<1>4. /\ Len(s \o t) = Len(s) + Len(t)
      /\ \A i \in 1 .. Len(s) + Len(t) :
            (s \o t)[i] = IF i <= Len(s) THEN s[i] ELSE t[i - Len(s)]
  BY ConcatProperties
<1>5. QED
  BY <1>2, <1>3, <1>4

(* With bytes of 8 bits: the reader gets back every size that the sender   *)
(* writes in two or four bytes, unless it is one of 32768 .. 65534, which  *)
(* are read as more than 4294934528.                                       *)
THEOREM SizeRoundTrip ==
    ASSUME Byte = 256, NEW size \in Nat, Marker16 <= size, size < Word
    PROVE  IF size < Max16
           THEN /\ Header(size) = <<Marker16>> \o Bytes16(size)
                /\ 2 * size < 65536 => SizeIn(Bytes16(size)) = size
                /\ 2 * size >= 65536 => SizeIn(Bytes16(size)) >= Word - 32768
           ELSE /\ Header(size) = <<Marker32>> \o Bytes32(size)
                /\ SizeIn(Bytes32(size)) = size
<1>1. Marker16 = 254 /\ Max16 = 65535 /\ Word = 4294967296 /\ Byte * Byte = 65536
  <2>1. Byte * Byte = 65536
    OBVIOUS
  <2>2. Byte * Byte * Byte * Byte = 4294967296
    BY <2>1
  <2>3. Word = 4294967296
    BY <2>2 DEF Word
  <2>4. Marker16 = 254
    BY DEF Marker16
  <2>5. Max16 = 65535
    BY <2>1 DEF Max16
  <2>6. QED
    BY <2>1, <2>3, <2>4, <2>5
<1>2. size \in Nat /\ size < 4294967296 /\ ~(size < Marker16)
  BY <1>1
<1>3. CASE size < Max16
  <2>1. Bytes16(size) = <<size % 256, size \div 256>>
    BY DEF Bytes16
  <2>2. size = (size % 256) + 256 * (size \div 256)
    BY <1>2
  <2>3. Len(Bytes16(size)) = 2 /\ Bytes16(size)[1] = size % 256 /\ Bytes16(size)[2] = size \div 256
    BY <2>1
  <2>4. SizeIn(Bytes16(size)) = IF 2 * size < 65536 THEN size ELSE Word - 65536 + size
    BY <1>1, <2>2, <2>3 DEF SizeIn
  <2>5. Header(size) = <<Marker16>> \o Bytes16(size)
    BY <1>2, <1>3 DEF Header
  <2>6. QED
    BY <1>1, <1>2, <1>3, <2>4, <2>5
<1>4. CASE ~(size < Max16)
  <2>1. PICK lo \in Nat, hi \in Nat : lo = size % 65536 /\ hi = size \div 65536
    BY <1>2
  <2>2. size = lo + 65536 * hi
    BY <1>2, <2>1
  <2>3. lo = (lo % 256) + 256 * (lo \div 256) /\ hi = (hi % 256) + 256 * (hi \div 256)
    BY <2>1
  <2>4. PICK a \in Nat, b \in Nat, c \in Nat, d \in Nat :
          a = lo % 256 /\ b = lo \div 256 /\ c = hi % 256 /\ d = hi \div 256
    <3>1. lo % 256 \in Nat /\ lo \div 256 \in Nat /\ hi % 256 \in Nat /\ hi \div 256 \in Nat
      BY <2>1
    <3>2. QED
      BY <3>1
  <2>5. Bytes32(size) = <<a, b>> \o <<c, d>>
    <3>1. Bytes32(size) = Bytes16(lo) \o Bytes16(hi)
      BY <1>1, <2>1 DEF Bytes32
    <3>2. Bytes16(lo) = <<a, b>> /\ Bytes16(hi) = <<c, d>>
      BY <2>4 DEF Bytes16
    <3>3. QED
      BY <3>1, <3>2
  <2>6. SizeIn(Bytes32(size)) = a + 256 * (b + 256 * (c + 256 * d))
    <3>1. PICK bytes : bytes = Bytes32(size)
      OBVIOUS
    <3>2. /\ Len(bytes) = 4
          /\ bytes[1] = a /\ bytes[2] = b /\ bytes[3] = c /\ bytes[4] = d
      BY <2>5, <3>1, TwoAndTwo
    <3>3. SizeIn(bytes) = a + 256 * (b + 256 * (c + 256 * d))
      BY <3>2 DEF SizeIn
    <3>4. QED
      BY <3>1, <3>3
  <2>7. SizeIn(Bytes32(size)) = size
    BY <2>2, <2>3, <2>4, <2>6
  <2>8. Header(size) = <<Marker32>> \o Bytes32(size)
    BY <1>2, <1>4 DEF Header
  <2>9. QED
    BY <1>4, <2>7, <2>8
<1>5. QED
  BY <1>3, <1>4

-----------------------------------------------------------------------------
(* Parts of a sequence of bytes. *)
LEMMA Slice ==
    ASSUME NEW s \in Seq(Nat), NEW i \in Nat, NEW k \in Nat, i >= 1, k <= Len(s)
    PROVE  SubSeq(s, i, k) \in Seq(Nat)
  OBVIOUS

LEMMA Typed ==
    /\ \A size \in Sizes : Header(size) \in Seq(Nat)
    /\ \A m \in [type : Types, size : Sizes] : Content(m) \in Seq(Nat)
<1>1. \A n \in Nat : Bytes16(n) \in Seq(Nat)
  <2> TAKE n \in Nat
  <2>1. n % Byte \in Nat /\ n \div Byte \in Nat
    BY FramingAssumption
  <2>2. QED
    BY <2>1 DEF Bytes16
<1>2. \A n \in Nat : Bytes32(n) \in Seq(Nat)
  <2> TAKE n \in Nat
  <2>1. PICK S \in Nat : S = Byte * Byte /\ S >= 1
    BY WordSize
  <2>2. n % S \in Nat /\ n \div S \in Nat
    BY <2>1
  <2>3. QED
    BY <1>1, <2>1, <2>2 DEF Bytes32
<1>3. \A size \in Sizes : Header(size) \in Seq(Nat)
  <2> TAKE size \in Sizes
  <2>1. size \in Nat /\ Marker16 \in Nat /\ Marker32 \in Nat
    BY FramingAssumption DEF Marker16, Marker32
  <2>2. <<size>> \in Seq(Nat) /\ <<Marker16>> \in Seq(Nat) /\ <<Marker32>> \in Seq(Nat)
    BY <2>1
  <2>3. Bytes16(size) \in Seq(Nat) /\ Bytes32(size) \in Seq(Nat)
    BY <1>1, <1>2, <2>1
  <2>4. QED
    BY <2>2, <2>3 DEF Header
<1>4. ASSUME NEW m \in [type : Types, size : Sizes]
      PROVE  Content(m) \in Seq(Nat)
  <2>1. m.size \in Nat /\ m.type \in Nat
    <3>1. m.size \in Sizes /\ m.type \in Types
      OBVIOUS
    <3>2. m.size \in Nat
      BY <3>1, FramingAssumption
    <3>3. m.type \in 0 .. (Byte - 1)
      BY <3>1, FramingAssumption
    <3>4. QED
      BY <3>2, <3>3, WordSize
  <2>2. Content(m) \in [1 .. m.size -> Nat]
    BY <2>1 DEF Content
  <2>3. QED
    BY <2>1, <2>2
<1>5. QED
  BY <1>3, <1>4

LEMMA ReaderInit == Init => ReaderInv
<1> SUFFICES ASSUME Init PROVE ReaderInv
  OBVIOUS
<1>1. 0 \in 0 .. (Word - 1) /\ 0 \in 0 .. (Byte - 1)
  BY WordSize
<1>2. TypeOK
  BY <1>1 DEF Init, TypeOK
<1>3. SizeParts
  BY DEF Init, SizeParts
<1>4. Stored
  <2>1. sent = <<>> /\ wire = <<0>> /\ data = <<>> /\ buffer = <<>> /\ calling = FALSE
    BY DEF Init
  <2>2. wire \in Seq(Nat)
    BY <2>1
  <2>3. sent \in Seq([type : Types, size : Sizes]) /\ data \in Seq(Nat) /\ buffer \in Seq(Nat)
    BY <2>1
  <2>4. QED
    BY <2>1, <2>2, <2>3 DEF Stored
<1>5. QED
  BY <1>2, <1>3, <1>4 DEF ReaderInv

(* A step of the sender. *)
LEMMA SendKeeps ==
    ASSUME ReaderInv, NEW type \in Types, NEW size \in Sizes, Send(type, size)
    PROVE  ReaderInv'
<1>1. PICK m \in [type : Types, size : Sizes] : m = [type |-> type, size |-> size]
  OBVIOUS
<1>2. sent' = Append(sent, m) /\ wire' = wire \o <<type>> \o Header(size) \o Content(m)
  BY <1>1 DEF Send
<1>3. <<type>> \in Seq(Nat) /\ Header(size) \in Seq(Nat) /\ Content(m) \in Seq(Nat)
  BY Typed, FramingAssumption
<1>4. wire' \in Seq(Nat) /\ sent' \in Seq([type : Types, size : Sizes])
  BY <1>2, <1>3 DEF ReaderInv, Stored
<1>5. UNCHANGED <<calling, data, header, buffer>>
  BY DEF Send
<1>6. QED
  BY <1>4, <1>5 DEF ReaderInv, TypeOK, SizeParts, Stored, header

LEMMA ReceiveKeeps ==
    ASSUME ReaderInv, NEW n \in 1 .. Len(wire), Receive(n)
    PROVE  ReaderInv'
<1>0. wire \in Seq(Nat) /\ Len(wire) \in Nat /\ n \in Nat /\ n + 1 \in Nat /\ n <= Len(wire) /\ n + 1 >= 1
  BY DEF ReaderInv, Stored
<1>1. wire' \in Seq(Nat)
  <2>1. SubSeq(wire, n + 1, Len(wire)) \in Seq(Nat)
    BY <1>0, Slice
  <2>2. wire' = SubSeq(wire, n + 1, Len(wire))
    BY DEF Receive
  <2>3. QED
    BY <2>1, <2>2
<1>2. data' \in Seq(Nat)
  <2>1. SubSeq(wire, 1, n) \in Seq(Nat) /\ SubSeq(wire, 2, n) \in Seq(Nat)
    BY <1>0, Slice
  <2>2. data' \in {SubSeq(wire, 1, n), SubSeq(wire, 2, n)}
    BY DEF Receive
  <2>3. QED
    BY <2>1, <2>2
<1>3. calling' \in BOOLEAN /\ UNCHANGED <<sent, header, buffer>>
  BY DEF Receive
<1>4. QED
  BY <1>1, <1>2, <1>3 DEF ReaderInv, TypeOK, SizeParts, Stored, header

(* A step that takes a byte of the header. *)
LEMMA HeaderKeeps ==
    ASSUME ReaderInv, NEW byte \in 0 .. (Byte - 1),
           TypeByte(byte) \/ FirstSizeByte(byte) \/ SizeByte(byte)
    PROVE  ReaderInv'
<1>1. data' \in Seq(Nat) /\ UNCHANGED <<sent, wire, calling>>
  <2>1. \E next \in {0, 1} : HeaderByte(byte, next)
    BY DEF TypeByte, FirstSizeByte, SizeByte
  <2>2. data # <<>> /\ data' = Tail(data) /\ UNCHANGED <<sent, wire, calling>>
    BY <2>1 DEF HeaderByte
  <2>3. QED
    BY <2>2 DEF ReaderInv, Stored
<1>2. byte \in Nat /\ byte \in 0 .. (Word - 1)
  BY WordSize
<1>3. CASE TypeByte(byte)
  <2>1. /\ state = 0 /\ state' = 1 /\ sizebytesleft' = 0 /\ messagetype' = byte
        /\ UNCHANGED <<messagesize, buffer>>
    BY <1>3 DEF TypeByte, HeaderByte
  <2>2. QED
    BY <1>1, <2>1 DEF ReaderInv, TypeOK, SizeParts, Stored
<1>4. CASE FirstSizeByte(byte)
  <2>1. state = 1 /\ sizebytesleft = 0 /\ UNCHANGED <<messagetype, buffer>>
    BY <1>4 DEF FirstSizeByte, HeaderByte
  <2>2. buffer = <<>>
    BY <2>1 DEF ReaderInv, SizeParts
  <2>3. CASE byte \in {Marker16, Marker32}
    <3>1. sizebytesleft' \in {2, 4} /\ state' = 1 /\ messagesize' = messagesize
      BY <1>4, <2>1, <2>3 DEF FirstSizeByte
    <3>2. buffer' = <<>> /\ Len(buffer') = 0 /\ buffer' \in Seq(Nat)
      BY <2>1, <2>2
    <3>3. TypeOK'
      BY <2>1, <3>1, <3>2 DEF ReaderInv, TypeOK
    <3>4. SizeParts'
      <4>1. sizebytesleft' > 0 /\ Len(buffer') + sizebytesleft' \in {2, 4}
        <5>1. CASE sizebytesleft' = 2
          BY <3>2, <5>1
        <5>2. CASE sizebytesleft' = 4
          BY <3>2, <5>2
        <5>3. QED
          BY <3>1, <5>1, <5>2
      <4>2. \A i \in 1 .. Len(buffer') : buffer'[i] \in 0 .. (Byte - 1)
        BY <3>2
      <4>3. QED
        BY <3>1, <3>2, <4>1, <4>2 DEF SizeParts
    <3>5. QED
      BY <1>1, <3>2, <3>3, <3>4 DEF ReaderInv, Stored
  <2>4. CASE byte \notin {Marker16, Marker32}
    <3>1. messagesize' = byte /\ state' = 3 /\ sizebytesleft' = sizebytesleft
      BY <1>4, <2>4 DEF FirstSizeByte
    <3>2. QED
      BY <1>1, <1>2, <2>1, <2>2, <3>1 DEF ReaderInv, TypeOK, SizeParts, Stored
  <2>5. QED
    BY <2>3, <2>4
<1>5. CASE SizeByte(byte)
  <2>1. /\ state = 1 /\ sizebytesleft > 0 /\ messagetype' = messagetype
        /\ sizebytesleft' = sizebytesleft - 1
    BY <1>5 DEF SizeByte, HeaderByte
  <2>0. buffer \in Seq(Nat) /\ Append(buffer, byte) \in Seq(Nat)
    BY <1>2 DEF ReaderInv, Stored
  <2>2. PICK bytes \in Seq(Nat) : bytes = Append(buffer, byte)
    BY <2>0
  <2>3. /\ Len(bytes) = Len(buffer) + 1
        /\ \A i \in 1 .. Len(bytes) : bytes[i] \in 0 .. (Byte - 1)
    BY <2>1, <2>2 DEF ReaderInv, SizeParts, Stored
  <2>4. Len(buffer) + sizebytesleft \in {2, 4} /\ sizebytesleft \in 0 .. 4
    BY <2>1 DEF ReaderInv, SizeParts, TypeOK
  <2>5. CASE sizebytesleft = 1
    <3>1. messagesize' = SizeIn(bytes) /\ buffer' = <<>> /\ state' = 3
      BY <1>5, <2>2, <2>5 DEF SizeByte
    <3>2. messagesize' \in 0 .. (Word - 1)
      BY <2>3, <2>4, <2>5, <3>1, SizeFits
    <3>3. QED
      BY <1>1, <2>1, <2>5, <3>1, <3>2 DEF ReaderInv, TypeOK, SizeParts, Stored
  <2>6. CASE sizebytesleft # 1
    <3>1. buffer' = bytes /\ UNCHANGED <<messagesize, state>>
      BY <1>5, <2>2, <2>6 DEF SizeByte
    <3>2. Len(bytes) + (sizebytesleft - 1) \in {2, 4} /\ Len(bytes) < 4 /\ Len(bytes) \in Nat
      BY <2>1, <2>2, <2>3, <2>4, <2>6
    <3>3. Len(buffer') < 4 /\ sizebytesleft' \in 0 .. 4 /\ sizebytesleft' > 0 /\ state' = 1
      BY <2>1, <2>4, <2>6, <3>1, <3>2
    <3>4. TypeOK'
      BY <2>1, <3>1, <3>3 DEF ReaderInv, TypeOK
    <3>5. SizeParts'
      <4>1. Len(buffer') + sizebytesleft' \in {2, 4}
        BY <2>1, <3>1, <3>2
      <4>2. \A i \in 1 .. Len(buffer') : buffer'[i] \in 0 .. (Byte - 1)
        BY <2>3, <3>1
      <4>3. QED
        BY <3>3, <4>1, <4>2 DEF SizeParts
    <3>6. Stored'
      BY <1>1, <3>1 DEF ReaderInv, Stored
    <3>7. QED
      BY <3>4, <3>5, <3>6 DEF ReaderInv
  <2>7. QED
    BY <2>5, <2>6
<1>6. QED
  BY <1>3, <1>4, <1>5

(* A step that is done with a chunk or takes content from it. *)
LEMMA HandledKeeps ==
    ASSUME ReaderInv, state = 3, NEW content, NEW rest \in Seq(Nat), Handled(content, rest),
           buffer' \in Seq(Nat), Len(buffer') <= messagesize, ~refused' => buffer' = <<>>,
           UNCHANGED <<sent, wire>>
    PROVE  ReaderInv'
<1>1. PICK ok \in BOOLEAN :
        /\ refused' = ~ok
        /\ state' = IF ok THEN 0 ELSE 3
        /\ calling' = (ok /\ rest # <<>>)
        /\ data' = IF ok THEN rest ELSE <<>>
        /\ UNCHANGED <<sizebytesleft, messagesize, messagetype>>
  BY DEF Handled
<1>2. data' \in Seq(Nat) /\ calling' \in BOOLEAN
  BY <1>1
<1>3. CASE ok
  <2>1. state' = 0 /\ buffer' = <<>>
    BY <1>1, <1>3
  <2>2. QED
    BY <1>1, <1>2, <2>1 DEF ReaderInv, TypeOK, SizeParts, Stored
<1>4. CASE ~ok
  <2>1. state' = 3
    BY <1>1, <1>4
  <2>2. QED
    BY <1>1, <1>2, <2>1 DEF ReaderInv, TypeOK, SizeParts, Stored
<1>5. QED
  BY <1>3, <1>4

LEMMA TakenBounds ==
    ASSUME ReaderInv, state = 3
    PROVE  /\ Taken \in 0 .. Len(data)
           /\ Taken <= messagesize - Len(buffer)
           /\ Taken = Len(data) \/ Len(buffer) + Taken = messagesize
  BY DEF ReaderInv, TypeOK, Stored, Taken

LEMMA FragmentKeeps ==
    ASSUME ReaderInv, Fragment
    PROVE  ReaderInv'
<1>1. state = 3 /\ UNCHANGED <<sent, wire>>
  BY DEF Fragment
<1>2. data \in Seq(Nat) /\ buffer \in Seq(Nat) /\ messagesize \in Nat /\ Len(buffer) <= messagesize
  BY <1>1, WordSize DEF ReaderInv, TypeOK, Stored
<1>3. PICK whole : whole = buffer \o SubSeq(data, 1, Taken)
  OBVIOUS
<1>4. whole \in Seq(Nat) /\ Len(whole) = Len(buffer) + Taken /\ Len(whole) <= messagesize
  <2>1. PICK k \in 0 .. Len(data) : k = Taken /\ k <= messagesize - Len(buffer)
    BY <1>1, TakenBounds
  <2>2. PICK c : c = SubSeq(data, 1, k) /\ c \in Seq(Nat) /\ Len(c) = k
    <3>1. SubSeq(data, 1, k) \in Seq(Nat)
      BY <1>2, <2>1, Slice
    <3>2. Len(SubSeq(data, 1, k)) = k
      BY <1>2, <2>1
    <3>3. QED
      BY <3>1, <3>2
  <2>3. whole = buffer \o c
    BY <1>3, <2>1, <2>2
  <2>4. whole \in Seq(Nat) /\ Len(whole) = Len(buffer) + Len(c)
    BY <1>2, <2>2, <2>3
  <2>5. QED
    BY <1>2, <2>1, <2>2, <2>4
<1>5. CASE Len(whole) = messagesize
  <2>1. SubSeq(data, Taken + 1, Len(data)) \in Seq(Nat)
    BY <1>1, <1>2, TakenBounds
  <2>2. PICK rest \in Seq(Nat) : rest = SubSeq(data, Taken + 1, Len(data))
    BY <2>1
  <2>3. Handled(whole, rest) /\ buffer' = (IF refused' THEN whole ELSE <<>>)
    BY <1>3, <1>5, <2>2 DEF Fragment
  <2>4. /\ buffer' \in Seq(Nat) /\ Len(buffer') <= messagesize
        /\ ~refused' => buffer' = <<>>
    BY <1>2, <1>4, <2>3
  <2>5. QED
    BY <1>1, <2>3, <2>4, HandledKeeps
<1>6. CASE Len(whole) # messagesize
  <2>1. buffer' = whole /\ data' = <<>> /\ calling' = FALSE /\ header' = header
    BY <1>3, <1>6 DEF Fragment
  <2>2. /\ state' = 3 /\ sizebytesleft' = sizebytesleft
        /\ messagesize' = messagesize /\ messagetype' = messagetype
    BY <1>1, <2>1 DEF header
  <2>3. TypeOK'
    BY <1>4, <2>1, <2>2 DEF ReaderInv, TypeOK
  <2>4. SizeParts'
    BY <2>2 DEF SizeParts
  <2>5. Stored'
    <3>1. data' \in Seq(Nat) /\ buffer' \in Seq(Nat)
      BY <1>4, <2>1
    <3>2. calling' \in BOOLEAN
      BY <2>1
    <3>3. sent' \in Seq([type : Types, size : Sizes]) /\ wire' \in Seq(Nat)
      BY <1>1 DEF ReaderInv, Stored
    <3>4. QED
      BY <3>1, <3>2, <3>3 DEF Stored
  <2>6. QED
    BY <2>3, <2>4, <2>5 DEF ReaderInv
<1>7. QED
  BY <1>5, <1>6

LEMMA ReaderNext == ReaderInv /\ [Next]_vars => ReaderInv'
<1> SUFFICES ASSUME ReaderInv, [Next]_vars
             PROVE  ReaderInv'
  OBVIOUS
<1>1. ASSUME NEW type \in Types, NEW size \in Sizes, Send(type, size)
      PROVE  ReaderInv'
  BY <1>1, SendKeeps
<1>2. ASSUME NEW n \in 1 .. Len(wire), Receive(n)
      PROVE  ReaderInv'
  BY <1>2, ReceiveKeeps
<1>3. ASSUME NEW byte \in 0 .. (Byte - 1),
             TypeByte(byte) \/ FirstSizeByte(byte) \/ SizeByte(byte)
      PROVE  ReaderInv'
  BY <1>3, HeaderKeeps
<1>4. CASE HeaderIncomplete
  BY <1>4 DEF HeaderIncomplete, ReaderInv, TypeOK, SizeParts, Stored, header
<1>5. CASE Unfragmented
  <2>1. state = 3 /\ buffer = <<>> /\ buffer' = buffer /\ UNCHANGED <<sent, wire>>
    BY <1>5 DEF Unfragmented
  <2>2. SubSeq(data, messagesize + 1, Len(data)) \in Seq(Nat)
    <3>1. data \in Seq(Nat) /\ messagesize \in Nat
      BY WordSize DEF ReaderInv, TypeOK, Stored
    <3>2. QED
      BY <3>1
  <2>3. PICK rest \in Seq(Nat) : rest = SubSeq(data, messagesize + 1, Len(data))
    BY <2>2
  <2>4. Handled(SubSeq(data, 1, messagesize), rest)
    BY <1>5, <2>3 DEF Unfragmented
  <2>5. buffer' \in Seq(Nat) /\ Len(buffer') <= messagesize /\ buffer' = <<>>
    BY <2>1 DEF ReaderInv, TypeOK, Stored
  <2>6. QED
    BY <2>1, <2>4, <2>5, HandledKeeps
<1>6. CASE Fragment
  BY <1>6, FragmentKeeps
<1>7. CASE UNCHANGED vars
  BY <1>7 DEF vars, ReaderInv, TypeOK, SizeParts, Stored, header
<1>8. QED
  BY <1>1, <1>2, <1>3, <1>4, <1>5, <1>6, <1>7 DEF Next

(* Whatever is sent and however it is cut into chunks, the reader's buffer *)
(* never holds more than the message, nor more than the bytes of a size    *)
(* before that, and a size is never made of other than two or four bytes.  *)
THEOREM ReaderBounds == Spec => []TypeOK
<1>1. ReaderInv => TypeOK
  BY DEF ReaderInv
<1>2. QED
  BY <1>1, ReaderInit, ReaderNext, PTL DEF Spec

-----------------------------------------------------------------------------
(* What is on its way, as a sequence of messages. *)
Messages == [type : Types, size : Sizes]

(* The bytes of a message. *)
Code(m) == <<m.type>> \o Header(m.size) \o Content(m)

(* s is made of the messages of q after the n-th, one after another: the   *)
(* k-th of them cuts at cuts[k].                                           *)
Ends(n, q, s, cuts) ==
    /\ cuts \in [n .. Len(q) -> Nat]
    /\ cuts[n] = 0 /\ cuts[Len(q)] = Len(s)
    /\ \A i, k \in n .. Len(q) : i <= k => cuts[i] <= cuts[k]
    /\ \A k \in (n + 1) .. Len(q) : cuts[k] = cuts[k - 1] + Len(Code(q[k]))
    /\ \A k \in (n + 1) .. Len(q) : \A j \in 1 .. Len(Code(q[k])) : s[cuts[k - 1] + j] = Code(q[k])[j]

Encoded(n, q, s) == \E cuts : Ends(n, q, s, cuts)

LEMMA MessageFacts ==
    ASSUME NEW m \in Messages
    PROVE  /\ m.type \in Nat /\ m.type \in Types /\ m.size \in Nat /\ m.size \in Sizes
           /\ Header(m.size) \in Seq(Nat) /\ Content(m) \in Seq(Nat) /\ Len(Content(m)) = m.size
           /\ \A i \in 1 .. m.size : Content(m)[i] = m.type
<1>1. m.type \in Types /\ m.size \in Sizes
  BY DEF Messages
<1>2. m.type \in Nat /\ m.size \in Nat
  <2>1. m.type \in 0 .. (Byte - 1) /\ m.size \in Nat
    BY <1>1, FramingAssumption
  <2> QED BY <2>1, WordSize
<1>3. Header(m.size) \in Seq(Nat) /\ Content(m) \in Seq(Nat)
  BY <1>1, Typed DEF Messages
<1>4. Len(Content(m)) = m.size /\ \A i \in 1 .. m.size : Content(m)[i] = m.type
  BY <1>2 DEF Content
<1> QED BY <1>1, <1>2, <1>3, <1>4

(* t is u, of length A, and then v, of length B.                           *)
Joins(t, u, A, v, B) ==
    /\ t \in Seq(Nat) /\ A \in Nat /\ B \in Nat
    /\ Len(t) = A + B
    /\ \A i \in 1 .. A : t[i] = u[i]
    /\ \A i \in 1 .. B : t[A + i] = v[i]

LEMMA Joined ==
    ASSUME NEW u \in Seq(Nat), NEW v \in Seq(Nat), NEW A, NEW B, Len(u) = A, Len(v) = B
    PROVE  Joins(u \o v, u, A, v, B)
<1>1. Len(u) \in Nat /\ Len(v) \in Nat
  OBVIOUS
<1>2. /\ u \o v \in Seq(Nat)
      /\ Len(u \o v) = Len(u) + Len(v)
      /\ \A i \in 1 .. Len(u) + Len(v) : (u \o v)[i] = IF i <= Len(u) THEN u[i] ELSE v[i - Len(u)]
  BY ConcatProperties
<1> DEFINE t == u \o v
<1> HIDE DEF t
<1>3. A \in Nat /\ B \in Nat
  BY <1>1
<1>4. \A i \in 1 .. A + B : t[i] = IF i <= A THEN u[i] ELSE v[i - A]
  BY <1>2 DEF t
<1>5. ASSUME NEW i \in 1 .. A
      PROVE  t[i] = u[i]
  <2>1. i \in 1 .. A + B /\ i <= A
    BY <1>3
  <2> QED BY <1>4, <2>1
<1>6. ASSUME NEW i \in 1 .. B
      PROVE  t[A + i] = v[i]
  <2>1. A + i \in 1 .. A + B /\ ~(A + i <= A) /\ (A + i) - A = i
    BY <1>3
  <2>2. t[A + i] = v[(A + i) - A]
    BY <1>4, <2>1
  <2> QED BY <2>1, <2>2
<1> QED BY <1>2, <1>3, <1>5, <1>6 DEF t, Joins

LEMMA CodeFacts ==
    ASSUME NEW m \in Messages
    PROVE  /\ Code(m) \in Seq(Nat)
           /\ Len(Header(m.size)) \in Nat
           /\ Len(Code(m)) = 1 + Len(Header(m.size)) + m.size
           /\ Code(m)[1] = m.type
           /\ \A i \in 1 .. Len(Header(m.size)) : Code(m)[1 + i] = Header(m.size)[i]
           /\ \A i \in 1 .. m.size : Code(m)[1 + Len(Header(m.size)) + i] = m.type
<1> DEFINE a == <<m.type>>
           b == Header(m.size)
           c == Content(m)
           d == a \o b
           s == d \o c
           H == Len(b)
           Z == m.size
<1>1. a \in Seq(Nat) /\ Len(a) = 1 /\ a[1] = m.type
  BY MessageFacts
<1>2. /\ b \in Seq(Nat) /\ c \in Seq(Nat) /\ Len(c) = Z /\ Z \in Nat
      /\ \A i \in 1 .. Z : c[i] = m.type
  BY MessageFacts
<1>3. Code(m) = s
  BY DEF Code
<1> HIDE DEF a, b, c, Z
<1>0. Len(b) = H
  OBVIOUS
<1> HIDE DEF H
<1>4. /\ d \in Seq(Nat) /\ H \in Nat /\ Len(d) = 1 + H
      /\ \A i \in 1 .. 1 : d[i] = a[i]
      /\ \A i \in 1 .. H : d[1 + i] = b[i]
  <2>1. Joins(d, a, 1, b, H)
    BY <1>0, <1>1, <1>2, Joined
  <2> QED BY <2>1 DEF Joins
<1> HIDE DEF d
<1>5. /\ s \in Seq(Nat) /\ Len(s) = (1 + H) + Z
      /\ \A i \in 1 .. 1 + H : s[i] = d[i]
      /\ \A i \in 1 .. Z : s[(1 + H) + i] = c[i]
  <2>1. Joins(s, d, 1 + H, c, Z)
    BY <1>2, <1>4, Joined
  <2> QED BY <2>1 DEF Joins
<1> HIDE DEF s
<1>6. s[1] = m.type
  <2>1. 1 \in 1 .. 1 + H /\ 1 \in 1 .. 1
    BY <1>4
  <2> QED BY <1>1, <1>4, <1>5, <2>1
<1>7. ASSUME NEW i \in 1 .. H
      PROVE  s[1 + i] = b[i]
  <2>1. 1 + i \in 1 .. 1 + H
    BY <1>4
  <2> QED BY <1>4, <1>5, <2>1
<1>8. ASSUME NEW i \in 1 .. Z
      PROVE  s[1 + H + i] = m.type
  BY <1>2, <1>5
<1> QED
  BY <1>2, <1>3, <1>4, <1>5, <1>6, <1>7, <1>8 DEF b, H, Z

(* One message more at the end.                                            *)
LEMMA EncodedMore ==
    ASSUME NEW n \in Nat, NEW q \in Seq(Messages), n <= Len(q), NEW m \in Messages,
           NEW s \in Seq(Nat), Encoded(n, q, s)
    PROVE  Encoded(n, Append(q, m), s \o Code(m))
<1>1. PICK e : Ends(n, q, s, e)
  BY DEF Encoded
<1> DEFINE N == Len(q)
           r == Append(q, m)
           c == Code(m)
           t == s \o c
           C == Len(c)
           S == Len(s)
           f == [k \in n .. (N + 1) |-> IF k <= N THEN e[k] ELSE S + C]
<1>2. c \in Seq(Nat) /\ C \in Nat /\ S \in Nat /\ N \in Nat
  BY CodeFacts
<1>3. Len(r) = N + 1 /\ r[N + 1] = m /\ \A k \in 1 .. N : r[k] = q[k]
  OBVIOUS
<1>4. /\ t \in Seq(Nat) /\ Len(t) = S + C
      /\ \A i \in 1 .. S + C : t[i] = IF i <= S THEN s[i] ELSE c[i - S]
  BY <1>2, ConcatProperties
<1> HIDE DEF r, c, t
<1>5. /\ e \in [n .. N -> Nat] /\ e[n] = 0 /\ e[N] = S
      /\ \A i, k \in n .. N : i <= k => e[i] <= e[k]
      /\ \A k \in (n + 1) .. N : e[k] = e[k - 1] + Len(Code(q[k]))
      /\ \A k \in (n + 1) .. N : \A j \in 1 .. Len(Code(q[k])) : s[e[k - 1] + j] = Code(q[k])[j]
  BY <1>1 DEF Ends
<1> HIDE DEF N, S, C
<1>6. N \in Nat /\ S \in Nat /\ C \in Nat /\ n <= N
  BY <1>2 DEF N
<1>7. /\ f \in [n .. (N + 1) -> Nat] /\ f[N + 1] = S + C
      /\ \A k \in n .. N : f[k] = e[k]
  BY <1>5, <1>6
<1> HIDE DEF f
<1>8. ASSUME NEW i \in n .. (N + 1), NEW k \in n .. (N + 1), i <= k
      PROVE  f[i] <= f[k]
  <2>1. CASE k \in n .. N
    <3>1. i \in n .. N
      BY <1>6, <1>8, <2>1
    <3> QED BY <1>5, <1>7, <1>8, <2>1, <3>1
  <2>2. CASE k = N + 1 /\ i \in n .. N
    <3>1. N \in n .. N /\ i <= N
      BY <1>6, <2>2
    <3>2. e[i] <= S /\ e[i] \in Nat
      BY <1>5, <2>2, <3>1
    <3> QED BY <1>6, <1>7, <2>2, <3>2
  <2>3. CASE k = N + 1 /\ i = N + 1
    BY <1>6, <1>7, <2>3
  <2> QED BY <1>6, <2>1, <2>2, <2>3
<1>9. ASSUME NEW k \in (n + 1) .. (N + 1)
      PROVE  /\ f[k] = f[k - 1] + Len(Code(r[k]))
             /\ \A j \in 1 .. Len(Code(r[k])) : t[f[k - 1] + j] = Code(r[k])[j]
  <2>1. CASE k \in (n + 1) .. N
    <3>1. k \in n .. N /\ k - 1 \in n .. N /\ k \in 1 .. N
      BY <1>6, <2>1
    <3>2. r[k] = q[k] /\ f[k] = e[k] /\ f[k - 1] = e[k - 1]
      BY <1>3, <1>7, <3>1
    <3>3. e[k] = e[k - 1] + Len(Code(q[k]))
      BY <1>5, <2>1
    <3>4. e[k] <= S /\ e[k - 1] \in Nat
      <4>1. N \in n .. N /\ k <= N
        BY <1>6, <3>1
      <4> QED BY <1>5, <3>1, <4>1
    <3>5. ASSUME NEW j \in 1 .. Len(Code(q[k]))
          PROVE  t[e[k - 1] + j] = Code(q[k])[j]
      <4>1. Len(Code(q[k])) \in Nat
        <5>1. q[k] \in Messages
          BY <3>1 DEF N
        <5> QED BY <5>1, CodeFacts
      <4>2. e[k - 1] + j \in 1 .. S + C /\ e[k - 1] + j <= S
        BY <1>6, <3>3, <3>4, <3>5, <4>1
      <4>3. s[e[k - 1] + j] = Code(q[k])[j]
        BY <1>5, <2>1, <3>5
      <4> QED BY <1>4, <4>2, <4>3
    <3> QED BY <3>2, <3>3, <3>5
  <2>2. CASE k = N + 1
    <3>1. k - 1 = N /\ N \in n .. N
      BY <1>6, <2>2
    <3>2. f[k - 1] = S /\ f[k] = S + C /\ Code(r[k]) = c
      BY <1>3, <1>5, <1>7, <2>2, <3>1 DEF c
    <3>3. ASSUME NEW j \in 1 .. C
          PROVE  t[S + j] = c[j]
      <4>1. S + j \in 1 .. S + C /\ ~(S + j <= S) /\ (S + j) - S = j
        BY <1>6
      <4>2. t[S + j] = c[(S + j) - S]
        BY <1>4, <4>1
      <4> QED BY <4>1, <4>2
    <3> QED BY <3>2, <3>3 DEF C
  <2> QED BY <1>6, <2>1, <2>2
<1>10. n \in n .. N /\ n # N + 1
  BY <1>6
<1>11. Ends(n, r, t, f)
  BY <1>3, <1>4, <1>5, <1>7, <1>8, <1>9, <1>10 DEF Ends
<1> QED BY <1>11 DEF Encoded, r, t, c

(* The first message, and what is left without it.                         *)
LEMMA EncodedFirst ==
    ASSUME NEW n \in Nat, NEW q \in Seq(Messages), n <= Len(q), NEW s \in Seq(Nat), s # <<>>,
           Encoded(n, q, s)
    PROVE  /\ n < Len(q) /\ Len(Code(q[n + 1])) <= Len(s)
           /\ \A j \in 1 .. Len(Code(q[n + 1])) : s[j] = Code(q[n + 1])[j]
           /\ Encoded(n + 1, q, SubSeq(s, Len(Code(q[n + 1])) + 1, Len(s)))
<1>1. PICK e : Ends(n, q, s, e)
  BY DEF Encoded
<1> DEFINE N == Len(q)
           S == Len(s)
           L == Len(Code(q[n + 1]))
           t == SubSeq(s, L + 1, S)
           f == [k \in (n + 1) .. N |-> e[k] - L]
<1>2. N \in Nat /\ S \in Nat \ {0}
  OBVIOUS
<1>3. /\ e \in [n .. N -> Nat] /\ e[n] = 0 /\ e[N] = S
      /\ \A i, k \in n .. N : i <= k => e[i] <= e[k]
      /\ \A k \in (n + 1) .. N : e[k] = e[k - 1] + Len(Code(q[k]))
      /\ \A k \in (n + 1) .. N : \A j \in 1 .. Len(Code(q[k])) : s[e[k - 1] + j] = Code(q[k])[j]
  BY <1>1 DEF Ends
<1> HIDE DEF N, S, L
<1>4. n < N
  <2>1. n # N
    BY <1>2, <1>3
  <2> QED BY <1>2, <2>1 DEF N
<1>5. n + 1 \in (n + 1) .. N /\ n \in n .. N /\ N \in n .. N /\ n + 1 \in n .. N /\ (n + 1) - 1 = n
  BY <1>2, <1>4
<1>6. L \in Nat
  <2>1. q[n + 1] \in Messages
    BY <1>4, <1>5 DEF N
  <2> QED BY <2>1, CodeFacts DEF L
<1>7. e[n + 1] = L
  <2>1. e[n + 1] = e[(n + 1) - 1] + Len(Code(q[n + 1]))
    BY <1>3, <1>5
  <2> QED BY <1>3, <1>5, <1>6, <2>1 DEF L
<1>8. L <= S
  BY <1>2, <1>3, <1>4, <1>5, <1>7
<1>9. ASSUME NEW j \in 1 .. L
      PROVE  s[j] = Code(q[n + 1])[j]
  <2>1. s[e[(n + 1) - 1] + j] = Code(q[n + 1])[j]
    BY <1>3, <1>5, <1>9 DEF L
  <2>2. e[(n + 1) - 1] + j = j
    BY <1>3, <1>5
  <2> QED BY <2>1, <2>2
<1>10. /\ Len(t) = S - L
       /\ \A i \in 1 .. S - L : t[i] = s[L + i]
  BY <1>2, <1>6, <1>8 DEF S
<1> HIDE DEF t
<1>11. \A k \in (n + 1) .. N : k \in n .. N /\ e[k] \in Nat /\ L <= e[k] /\ e[k] <= S
  <2> TAKE k \in (n + 1) .. N
  <2>1. k \in n .. N /\ n + 1 <= k /\ k <= N
    BY <1>2
  <2> QED BY <1>3, <1>5, <1>7, <2>1
<1>12. f \in [(n + 1) .. N -> Nat] /\ \A k \in (n + 1) .. N : f[k] = e[k] - L
  BY <1>6, <1>11
<1> HIDE DEF f
<1>13. f[n + 1] = 0 /\ f[N] = Len(t)
  <2>1. N \in (n + 1) .. N
    BY <1>2, <1>4
  <2> QED BY <1>3, <1>5, <1>6, <1>7, <1>10, <1>12, <2>1
<1>14. ASSUME NEW i \in (n + 1) .. N, NEW k \in (n + 1) .. N, i <= k
       PROVE  f[i] <= f[k]
  <2>1. e[i] <= e[k] /\ e[i] \in Nat /\ e[k] \in Nat
    BY <1>3, <1>11, <1>14
  <2> QED BY <1>6, <1>12, <2>1
<1>15. ASSUME NEW k \in (n + 2) .. N
       PROVE  /\ f[k] = f[k - 1] + Len(Code(q[k]))
              /\ \A j \in 1 .. Len(Code(q[k])) : t[f[k - 1] + j] = Code(q[k])[j]
  <2>1. k \in (n + 1) .. N /\ k - 1 \in (n + 1) .. N
    BY <1>2
  <2>2. f[k] = e[k] - L /\ f[k - 1] = e[k - 1] - L /\ e[k] = e[k - 1] + Len(Code(q[k]))
    BY <1>3, <1>12, <2>1
  <2>3. e[k] \in Nat /\ e[k - 1] \in Nat /\ L <= e[k - 1] /\ e[k] <= S
    BY <1>11, <2>1
  <2>4. Len(Code(q[k])) \in Nat
    <3>1. k \in 1 .. N
      BY <1>2
    <3>2. q[k] \in Messages
      BY <3>1 DEF N
    <3> QED BY <3>2, CodeFacts
  <2>5. ASSUME NEW j \in 1 .. Len(Code(q[k]))
        PROVE  t[f[k - 1] + j] = Code(q[k])[j]
    <3> DEFINE C == Len(Code(q[k]))
               x == e[k - 1]
               y == e[k]
    <3>0. C \in Nat /\ x \in Nat /\ y = x + C /\ L <= x /\ y <= S /\ j \in 1 .. C
      BY <2>2, <2>3, <2>4, <2>5
    <3> HIDE DEF C, x, y
    <3>1. f[k - 1] + j \in 1 .. S - L /\ L + (f[k - 1] + j) = e[k - 1] + j
      <4>1. (x - L) + j \in 1 .. S - L /\ L + ((x - L) + j) = x + j
        BY <1>2, <1>6, <3>0
      <4> QED BY <2>2, <4>1 DEF x
    <3>2. t[f[k - 1] + j] = s[L + (f[k - 1] + j)]
      BY <1>10, <3>1
    <3>3. s[e[k - 1] + j] = Code(q[k])[j]
      BY <1>3, <2>1, <2>5
    <3> QED BY <3>1, <3>2, <3>3
  <2>6. f[k] = f[k - 1] + Len(Code(q[k]))
    BY <1>6, <2>2, <2>3, <2>4
  <2> QED BY <2>5, <2>6
<1>16. (n + 1) + 1 = n + 2
  OBVIOUS
<1>17. Ends(n + 1, q, t, f)
  BY <1>12, <1>13, <1>14, <1>15, <1>16 DEF Ends, N
<1> QED BY <1>4, <1>8, <1>9, <1>17 DEF Encoded, N, S, L, t

(* Messages are not empty.                                                 *)
LEMMA EncodedSome ==
    ASSUME NEW n \in Nat, NEW q \in Seq(Messages), n + 1 <= Len(q), NEW s \in Seq(Nat),
           Encoded(n, q, s)
    PROVE  s # <<>>
<1>1. PICK e : Ends(n, q, s, e)
  BY DEF Encoded
<1> DEFINE N == Len(q)
           C == Len(Code(q[n + 1]))
<1>2. /\ N \in Nat /\ n + 1 \in (n + 1) .. N /\ n + 1 \in n .. N /\ N \in n .. N /\ n \in n .. N
      /\ (n + 1) - 1 = n /\ n + 1 \in 1 .. N
  OBVIOUS
<1>3. C \in Nat /\ C >= 1
  <2>1. q[n + 1] \in Messages
    BY <1>2
  <2>2. PICK m \in Messages : m = q[n + 1]
    BY <2>1
  <2> DEFINE H == Len(Header(m.size))
             Z == m.size
  <2>3. C = 1 + H + Z /\ H \in Nat /\ Z \in Nat
    BY <2>2, CodeFacts, MessageFacts
  <2> HIDE DEF C, H, Z
  <2> QED BY <2>3
<1>4. e[n + 1] = e[(n + 1) - 1] + C /\ e[n] = 0 /\ e[N] = Len(s) /\ e[n + 1] <= e[N]
  BY <1>1, <1>2 DEF Ends
<1> HIDE DEF N, C
<1>5. Len(s) >= 1
  BY <1>2, <1>3, <1>4
<1> QED BY <1>5

(* Every size that is sent can be read back: bytes of 8 bits, and no size  *)
(* of two bytes with the sign bit set.                                     *)
Readable ==
    /\ Byte = 256
    /\ \A m \in Messages : m.size < Word /\ ~Misread(m)

(* What process() and the handlers of received data have still to see. *)
Unread == data \o (IF gotfirstbyte THEN wire ELSE Tail(wire))

(* All of stream but its first p bytes is rest. *)
Follows(stream, p, rest) ==
    /\ Len(stream) = p + Len(rest)
    /\ \A i \in 1 .. Len(rest) : stream[p + i] = rest[i]

(* What the reader keeps of a message's first p bytes. *)
Kept(stream, p) ==
    /\ state = 0 => p = 0
    /\ state \in {1, 3} => p >= 1 /\ messagetype = stream[1]
    /\ state = 1 /\ sizebytesleft = 0 => p = 1
    /\ state = 1 /\ sizebytesleft > 0 =>
        /\ p = 2 + Len(buffer)
        /\ stream[2] \in {Marker16, Marker32}
        /\ Len(buffer) + sizebytesleft = IF stream[2] = Marker16 THEN 2 ELSE 4
        /\ \A i \in 1 .. Len(buffer) : buffer[i] = stream[2 + i]
    /\ state = 3 =>
        /\ Len(delivered) < Len(sent)
        /\ messagesize = sent[Len(delivered) + 1].size
        /\ p = 1 + Len(Header(messagesize)) + Len(buffer)
        /\ \A i \in 1 .. Len(buffer) : buffer[i] = stream[1 + Len(Header(messagesize)) + i]

(* Its length is that of the messages not delivered yet. *)
Measured(stream) == Len(stream) = Upto(ends, Len(sent)) - Upto(ends, Len(delivered))

(* The stream since the last message delivered, p bytes of it read, is     *)
(* made of the messages not delivered yet.                                 *)
Reading(stream, p) ==
    /\ stream \in Seq(Nat) /\ p \in Nat
    /\ Encoded(Len(delivered), sent, stream)
    /\ Follows(stream, p, Unread)
    /\ Kept(stream, p)
    /\ Measured(stream)

(* Before the first byte has come nothing has happened; between two calls  *)
(* there is no chunk, and some of the message is missing.                  *)
Chunks ==
    /\ gotfirstbyte \in BOOLEAN /\ refused \in BOOLEAN
    /\ ~gotfirstbyte => state = 0 /\ ~calling /\ wire # <<>>
    /\ ~calling => data = <<>>
    /\ ~calling /\ ~refused /\ state = 3 => Len(buffer) < messagesize
    /\ refused => ~calling

(* What ends counts. *)
Counted ==
    /\ ends \in Seq(Nat) /\ Len(ends) = Len(sent)
    /\ \A k \in 1 .. Len(sent) : ends[k] = Upto(ends, k - 1) + Len(Code(sent[k]))

StreamInv ==
    /\ Chunks
    /\ Counted
    /\ delivered \in Seq({<<m.type, Content(m)>> : m \in Messages})
    /\ InOrder
    /\ ~refused => \E stream, p : Reading(stream, p)

-----------------------------------------------------------------------------
(* What the reader makes of the bytes after a size's first one.            *)
LEMMA SameSize ==
    ASSUME NEW x \in Seq(Nat), NEW y \in Seq(Nat), Len(x) = Len(y), Len(x) \in {2, 4},
           \A i \in 1 .. Len(x) : x[i] = y[i]
    PROVE  SizeIn(x) = SizeIn(y)
<1>1. CASE Len(x) = 2
  <2>1. x[1] = y[1] /\ x[2] = y[2]
    BY <1>1
  <2> QED BY <1>1, <2>1 DEF SizeIn
<1>2. CASE Len(x) = 4
  <2>1. x[1] = y[1] /\ x[2] = y[2] /\ x[3] = y[3] /\ x[4] = y[4]
    BY <1>2
  <2> QED BY <1>2, <2>1 DEF SizeIn
<1> QED BY <1>1, <1>2

(* A size of more than one byte: its marker, and bytes that are read back. *)
LongSize(size, marker, length) ==
    /\ Len(Header(size)) = 1 + length /\ Header(size)[1] = marker
    /\ \A bytes \in Seq(Nat) :
          Len(bytes) = length /\ (\A i \in 1 .. length : bytes[i] = Header(size)[1 + i]) => SizeIn(bytes) = size

LEMMA MarkedSize ==
    ASSUME NEW size \in Nat, NEW marker \in Nat, NEW length \in {2, 4}, NEW rest \in Seq(Nat),
           Len(rest) = length, Header(size) = <<marker>> \o rest, SizeIn(rest) = size
    PROVE  LongSize(size, marker, length)
<1>1. PICK h \in Seq(Nat), K \in Nat : h = <<marker>> /\ Len(h) = K /\ h[1] = marker /\ K = 1
  <2>1. <<marker>> \in Seq(Nat) /\ Len(<<marker>>) = 1 /\ <<marker>>[1] = marker
    OBVIOUS
  <2> QED BY <2>1
<1>2. length \in Nat
  OBVIOUS
<1>0. Joins(h \o rest, h, K, rest, length)
  BY <1>1, <1>2, Joined
<1>3. /\ Len(h \o rest) = K + length
      /\ \A i \in 1 .. K : (h \o rest)[i] = h[i]
      /\ \A i \in 1 .. length : (h \o rest)[K + i] = rest[i]
  BY <1>0 DEF Joins
<1>4. /\ Len(Header(size)) = 1 + length
      /\ \A i \in 1 .. 1 : Header(size)[i] = h[i]
      /\ \A i \in 1 .. length : Header(size)[1 + i] = rest[i]
  BY <1>1, <1>3
<1>5. Header(size)[1] = marker
  BY <1>1, <1>4
<1>6. ASSUME NEW bytes \in Seq(Nat), Len(bytes) = length,
             \A i \in 1 .. length : bytes[i] = Header(size)[1 + i]
      PROVE  SizeIn(bytes) = size
  <2>1. \A i \in 1 .. Len(bytes) : bytes[i] = rest[i]
    BY <1>4, <1>6
  <2> QED BY <1>6, <2>1, SameSize
<1> QED BY <1>4, <1>5, <1>6 DEF LongSize

LEMMA HeaderFacts ==
    ASSUME Readable, NEW m \in Messages
    PROVE  \/ /\ Len(Header(m.size)) = 1 /\ Header(m.size)[1] = m.size
              /\ m.size \notin {Marker16, Marker32}
           \/ LongSize(m.size, Marker16, 2)
           \/ LongSize(m.size, Marker32, 4)
<1> DEFINE size == m.size
<1>1. size \in Nat /\ size < Word /\ ~Misread(m) /\ Byte = 256
  BY MessageFacts DEF Readable
<1>2. Marker16 = 254 /\ Marker32 = 255
  BY <1>1 DEF Marker16, Marker32
<1>3. CASE size < Marker16
  <2>1. Header(size) = <<size>>
    BY <1>3 DEF Header
  <2>2. Len(Header(size)) = 1 /\ Header(size)[1] = size
    BY <2>1
  <2>3. size \notin {Marker16, Marker32}
    BY <1>1, <1>2, <1>3
  <2> QED BY <2>2, <2>3
<1>4. CASE ~(size < Marker16) /\ size < Max16
  <2>1. /\ Header(size) = <<Marker16>> \o Bytes16(size)
        /\ 2 * size < 65536 => SizeIn(Bytes16(size)) = size
    <3>1. Marker16 <= size
      BY <1>1, <1>2, <1>4
    <3> QED BY <1>1, <1>4, <3>1, SizeRoundTrip
  <2>2. 2 * size < 65536
    <3>1. Byte * Byte = 65536
      BY <1>1
    <3> QED BY <1>1, <1>4, <3>1 DEF Misread
  <2>3. Bytes16(size) \in Seq(Nat) /\ Len(Bytes16(size)) = 2
    <3>1. size % Byte \in Nat /\ size \div Byte \in Nat
      BY <1>1
    <3> QED BY <3>1 DEF Bytes16
  <2>4. Marker16 \in Nat
    BY <1>2
  <2>5. SizeIn(Bytes16(size)) = size
    BY <2>1, <2>2
  <2>6. PICK rest \in Seq(Nat) : rest = Bytes16(size)
    BY <2>3
  <2>7. Len(rest) = 2 /\ Header(size) = <<Marker16>> \o rest /\ SizeIn(rest) = size /\ 2 \in {2, 4}
    BY <2>1, <2>3, <2>5, <2>6
  <2> HIDE DEF size
  <2>8. LongSize(size, Marker16, 2)
    BY <1>1, <2>4, <2>7, MarkedSize
  <2> QED BY <2>8 DEF size
<1>5. CASE ~(size < Marker16) /\ ~(size < Max16)
  <2>1. /\ Header(size) = <<Marker32>> \o Bytes32(size)
        /\ SizeIn(Bytes32(size)) = size
    <3>1. Marker16 <= size
      BY <1>1, <1>2, <1>5
    <3> QED BY <1>1, <1>5, <3>1, SizeRoundTrip
  <2>2. PICK a, b, c, d \in Nat : Bytes32(size) = <<a, b>> \o <<c, d>>
    <3> DEFINE S == Byte * Byte
               x == size % S
               y == size \div S
    <3>1. S = 65536
      BY <1>1
    <3>2. Bytes32(size) = Bytes16(x) \o Bytes16(y)
      BY DEF Bytes32
    <3> HIDE DEF S
    <3>3. x \in Nat /\ y \in Nat
      BY <1>1, <3>1
    <3> HIDE DEF x, y
    <3>4. x % Byte \in Nat /\ x \div Byte \in Nat /\ y % Byte \in Nat /\ y \div Byte \in Nat
      BY <1>1, <3>3
    <3> QED BY <3>2, <3>4 DEF Bytes16
  <2>3. Bytes32(size) \in Seq(Nat) /\ Len(Bytes32(size)) = 4
    <3>1. PICK bytes : bytes = Bytes32(size)
      OBVIOUS
    <3>2. <<a, b>> \in Seq(Nat) /\ <<c, d>> \in Seq(Nat)
      OBVIOUS
    <3>3. <<a, b>> \o <<c, d>> \in Seq(Nat)
      BY <3>2
    <3>4. Len(bytes) = 4
      BY <2>2, <3>1, TwoAndTwo
    <3> QED BY <2>2, <3>1, <3>3, <3>4
  <2>4. Marker32 \in Nat
    BY <1>2
  <2> QED BY <1>1, <2>1, <2>3, <2>4, MarkedSize
<1> QED BY <1>3, <1>4, <1>5

(* The marker tells how long the size is. *)
LEMMA MarkedHeader ==
    ASSUME Readable, NEW m \in Messages, NEW byte \in {Marker16, Marker32}, byte = Header(m.size)[1]
    PROVE  LongSize(m.size, byte, IF byte = Marker16 THEN 2 ELSE 4)
<1>1. Marker16 # Marker32
  BY FramingAssumption DEF Marker16, Marker32
<1>2. m.size \notin {Marker16, Marker32} => Header(m.size)[1] # m.size
  OBVIOUS
<1>3. LongSize(m.size, Marker16, 2) \/ LongSize(m.size, Marker32, 4)
  BY <1>2, HeaderFacts
<1>4. LongSize(m.size, Marker16, 2) => Header(m.size)[1] = Marker16
  BY DEF LongSize
<1>5. LongSize(m.size, Marker32, 4) => Header(m.size)[1] = Marker32
  BY DEF LongSize
<1> QED BY <1>1, <1>3, <1>4, <1>5

(* The first k of the bytes d are taken. *)
LEMMA Advance ==
    ASSUME NEW stream \in Seq(Nat), NEW p \in Nat, NEW d \in Seq(Nat), NEW w \in Seq(Nat),
           NEW k \in 0 .. Len(d), Follows(stream, p, d \o w)
    PROVE  /\ Follows(stream, p + k, SubSeq(d, k + 1, Len(d)) \o w)
           /\ p + k <= Len(stream)
           /\ \A i \in 1 .. k : stream[p + i] = d[i]
<1> DEFINE e == SubSeq(d, k + 1, Len(d))
           D == Len(d)
           W == Len(w)
           E == D - k
           u == d \o w
           v == e \o w
<1>1. D \in Nat /\ W \in Nat /\ Len(d) = D /\ Len(w) = W
  OBVIOUS
<1>2. k \in Nat /\ k <= D /\ E \in Nat
  OBVIOUS
<1>3. e \in Seq(Nat) /\ Len(e) = E /\ \A i \in 1 .. E : e[i] = d[k + i]
  <2>1. e \in Seq(Nat)
    BY <1>1, <1>2, Slice
  <2>2. Len(e) = E
    BY <1>1, <1>2
  <2>3. \A i \in 1 .. E : e[i] = d[k + i]
    BY <1>1, <1>2
  <2> QED BY <2>1, <2>2, <2>3
<1> HIDE DEF e, D, W, u, v
<1>4. /\ Len(u) = D + W
      /\ \A i \in 1 .. D : u[i] = d[i]
      /\ \A i \in 1 .. W : u[D + i] = w[i]
  <2>1. Joins(u, d, D, w, W)
    BY <1>1, Joined DEF u
  <2> QED BY <2>1 DEF Joins
<1> HIDE DEF E
<1>5. /\ Len(v) = E + W
      /\ \A i \in 1 .. E : v[i] = e[i]
      /\ \A i \in 1 .. W : v[E + i] = w[i]
  <2>1. Joins(v, e, E, w, W)
    BY <1>1, <1>2, <1>3, Joined DEF v
  <2> QED BY <2>1 DEF Joins
<1>6. E = D - k
  BY DEF E
<1>7. Len(stream) = p + (D + W) /\ \A i \in 1 .. D + W : stream[p + i] = u[i]
  BY <1>4 DEF Follows, u
<1>8. Len(stream) = (p + k) + Len(v) /\ p + k <= Len(stream)
  BY <1>1, <1>2, <1>5, <1>6, <1>7
<1>9. ASSUME NEW i \in 1 .. E + W
      PROVE  stream[(p + k) + i] = v[i]
  <2>1. CASE i <= E
    <3>1. i \in 1 .. E /\ k + i \in 1 .. D /\ k + i \in 1 .. D + W /\ p + (k + i) = (p + k) + i
      BY <1>1, <1>2, <1>6, <2>1
    <3>2. stream[p + (k + i)] = u[k + i]
      BY <1>7, <3>1
    <3>3. u[k + i] = d[k + i] /\ v[i] = d[k + i]
      BY <1>3, <1>4, <1>5, <3>1
    <3> QED BY <3>1, <3>2, <3>3
  <2>2. CASE ~(i <= E)
    <3> DEFINE j == i - E
    <3>1. /\ j \in 1 .. W /\ D + j \in 1 .. D + W
          /\ E + j = i /\ p + (D + j) = (p + k) + i
      BY <1>1, <1>2, <1>6, <2>2
    <3> HIDE DEF j
    <3>2. stream[p + (D + j)] = u[D + j]
      BY <1>7, <3>1
    <3>3. u[D + j] = w[j] /\ v[E + j] = w[j]
      BY <1>4, <1>5, <3>1
    <3> QED BY <3>1, <3>2, <3>3
  <2> QED BY <2>1, <2>2
<1>10. ASSUME NEW i \in 1 .. k
       PROVE  stream[p + i] = d[i]
  <2>1. i \in 1 .. D /\ i \in 1 .. D + W
    BY <1>1, <1>2
  <2> QED BY <1>4, <1>7, <2>1
<1>11. Follows(stream, p + k, v)
  BY <1>5, <1>8, <1>9 DEF Follows
<1> QED BY <1>8, <1>10, <1>11 DEF v, e

(* More is sent. *)
LEMMA Longer ==
    ASSUME NEW stream \in Seq(Nat), NEW p \in Nat, NEW u \in Seq(Nat), NEW c \in Seq(Nat),
           Follows(stream, p, u)
    PROVE  /\ Follows(stream \o c, p, u \o c)
           /\ p <= Len(stream)
           /\ \A i \in 1 .. p : (stream \o c)[i] = stream[i]
<1> DEFINE S == Len(stream)
           U == Len(u)
           C == Len(c)
           t == stream \o c
           v == u \o c
<1>1. S \in Nat /\ U \in Nat /\ C \in Nat /\ Len(stream) = S /\ Len(u) = U /\ Len(c) = C
  OBVIOUS
<1> HIDE DEF S, U, C, t, v
<1>2. /\ Len(t) = S + C
      /\ \A i \in 1 .. S : t[i] = stream[i]
      /\ \A i \in 1 .. C : t[S + i] = c[i]
  <2>1. Joins(t, stream, S, c, C)
    BY <1>1, Joined DEF t
  <2> QED BY <2>1 DEF Joins
<1>3. /\ Len(v) = U + C
      /\ \A i \in 1 .. U : v[i] = u[i]
      /\ \A i \in 1 .. C : v[U + i] = c[i]
  <2>1. Joins(v, u, U, c, C)
    BY <1>1, Joined DEF v
  <2> QED BY <2>1 DEF Joins
<1>4. S = p + U /\ \A i \in 1 .. U : stream[p + i] = u[i]
  BY <1>1 DEF Follows
<1>5. ASSUME NEW i \in 1 .. U + C
      PROVE  t[p + i] = v[i]
  <2>1. CASE i <= U
    <3>1. i \in 1 .. U /\ p + i \in 1 .. S
      BY <1>1, <1>4, <2>1
    <3> QED BY <1>2, <1>3, <1>4, <3>1
  <2>2. CASE ~(i <= U)
    <3> DEFINE j == i - U
    <3>1. j \in 1 .. C /\ U + j = i /\ S + j = p + i
      BY <1>1, <1>4, <2>2
    <3> HIDE DEF j
    <3>2. t[S + j] = c[j] /\ v[U + j] = c[j]
      BY <1>2, <1>3, <3>1
    <3> QED BY <3>1, <3>2
  <2> QED BY <2>1, <2>2
<1>6. Len(t) = p + Len(v)
  BY <1>1, <1>2, <1>3, <1>4
<1>7. Follows(t, p, v)
  BY <1>3, <1>5, <1>6 DEF Follows
<1>8. p <= S
  BY <1>1, <1>4
<1>9. ASSUME NEW i \in 1 .. p
      PROVE  t[i] = stream[i]
  <2>1. i \in 1 .. S
    BY <1>1, <1>8
  <2> QED BY <1>2, <2>1
<1> QED BY <1>1, <1>7, <1>8, <1>9 DEF t, v

(* What has been read is forgotten. *)
LEMMA Afterwards ==
    ASSUME NEW stream \in Seq(Nat), NEW p \in Nat, NEW u \in Seq(Nat), Follows(stream, p, u)
    PROVE  Follows(SubSeq(stream, p + 1, Len(stream)), 0, u)
<1> DEFINE S == Len(stream)
           U == Len(u)
           t == SubSeq(stream, p + 1, S)
<1>1. S \in Nat /\ U \in Nat /\ S = p + U /\ \A i \in 1 .. U : stream[p + i] = u[i]
  BY DEF Follows
<1>2. Len(t) = S - p /\ \A i \in 1 .. S - p : t[i] = stream[p + i]
  BY <1>1
<1> HIDE DEF S, U, t
<1>3. S - p = U
  BY <1>1
<1>4. Len(t) = 0 + U /\ \A i \in 1 .. U : t[0 + i] = u[i]
  <2>1. ASSUME NEW i \in 1 .. U
        PROVE  t[0 + i] = u[i]
    <3>1. 0 + i = i
      BY <1>1
    <3> QED BY <1>1, <1>2, <1>3, <3>1
  <2> QED BY <1>1, <1>2, <1>3, <2>1
<1> QED BY <1>4 DEF Follows, t, S, U

(* It does not matter which two of three sequences are joined first. *)
Regroup(s, t, u) == (s \o t) \o u = s \o (t \o u)

LEMMA Regrouped ==
    ASSUME NEW s \in Seq(Nat), NEW t \in Seq(Nat), NEW u \in Seq(Nat)
    PROVE  Regroup(s, t, u)
<1>1. PICK x, y : x = s \o t /\ y = t \o u /\ x \in Seq(Nat) /\ y \in Seq(Nat)
  <2>1. s \o t \in Seq(Nat)
    OBVIOUS
  <2>2. t \o u \in Seq(Nat)
    OBVIOUS
  <2> QED BY <2>1, <2>2
<1>2. /\ Joins(x, s, Len(s), t, Len(t)) /\ Joins(y, t, Len(t), u, Len(u))
      /\ Joins(x \o u, x, Len(x), u, Len(u)) /\ Joins(s \o y, s, Len(s), y, Len(y))
  BY <1>1, Joined
<1> DEFINE A == Len(s)
           B == Len(t)
           C == Len(u)
           v == x \o u
           w == s \o y
<1>3. Len(x) = A + B /\ Len(y) = B + C
  BY <1>2 DEF Joins
<1>4. Joins(x, s, A, t, B) /\ Joins(y, t, B, u, C) /\ Joins(v, x, A + B, u, C) /\ Joins(w, s, A, y, B + C)
  BY <1>2, <1>3
<1> HIDE DEF A, B, C, v, w
<1>5. A \in Nat /\ B \in Nat /\ C \in Nat
  BY <1>4 DEF Joins
<1>6. v \in Seq(Nat) /\ w \in Seq(Nat) /\ Len(v) = (A + B) + C /\ Len(w) = A + (B + C)
  BY <1>4 DEF Joins
<1>7. /\ \A i \in 1 .. A : x[i] = s[i]
      /\ \A i \in 1 .. B : x[A + i] = t[i]
      /\ \A i \in 1 .. B : y[i] = t[i]
      /\ \A i \in 1 .. C : y[B + i] = u[i]
  BY <1>4 DEF Joins
<1>8. /\ \A i \in 1 .. A + B : v[i] = x[i]
      /\ \A i \in 1 .. C : v[(A + B) + i] = u[i]
      /\ \A i \in 1 .. A : w[i] = s[i]
      /\ \A i \in 1 .. B + C : w[A + i] = y[i]
  BY <1>4 DEF Joins
<1>9. ASSUME NEW i \in 1 .. (A + B) + C
      PROVE  v[i] = w[i]
  <2>1. CASE i \in 1 .. A
    <3>1. i \in 1 .. A + B
      BY <1>5, <2>1
    <3> QED BY <1>7, <1>8, <2>1, <3>1
  <2>2. ASSUME NEW j \in 1 .. B, i = A + j
        PROVE  v[i] = w[i]
    <3>1. i \in 1 .. A + B /\ j \in 1 .. B + C
      BY <1>5, <2>2
    <3> QED BY <1>7, <1>8, <2>2, <3>1
  <2>3. ASSUME NEW j \in 1 .. C, i = (A + B) + j
        PROVE  v[i] = w[i]
    <3>1. B + j \in 1 .. B + C /\ i = A + (B + j)
      BY <1>5, <2>3
    <3>2. w[i] = y[B + j]
      BY <1>8, <3>1
    <3>3. v[i] = u[j]
      BY <1>8, <2>3
    <3>4. y[B + j] = u[j]
      BY <1>7
    <3> QED BY <3>2, <3>3, <3>4
  <2>4. \/ i \in 1 .. A
        \/ i - A \in 1 .. B /\ i = A + (i - A)
        \/ i - (A + B) \in 1 .. C /\ i = (A + B) + (i - (A + B))
    BY <1>5
  <2> QED BY <2>1, <2>2, <2>3, <2>4
<1>10. Len(v) = Len(w)
  BY <1>5, <1>6
<1>11. v = w
  BY <1>6, <1>9, <1>10, SeqEqual
<1> QED BY <1>1, <1>11 DEF Regroup, v, w

LEMMA Facts ==
    ASSUME ReaderInv
    PROVE  /\ sent \in Seq(Messages) /\ wire \in Seq(Nat) /\ data \in Seq(Nat) /\ buffer \in Seq(Nat)
           /\ state \in {0, 1, 3} /\ sizebytesleft \in Nat /\ messagesize \in Nat /\ messagetype \in Nat
           /\ state = 0 => buffer = <<>>
           /\ state = 1 /\ sizebytesleft = 0 => buffer = <<>>
           /\ state = 3 => Len(buffer) <= messagesize
  BY WordSize DEF ReaderInv, TypeOK, Stored, SizeParts, Messages

(* Its first message is at the head of a stream that is not empty. *)
LEMMA FirstMessage ==
    ASSUME ReaderInv, StreamInv, NEW stream, NEW p, Reading(stream, p), stream # <<>>
    PROVE  /\ Len(delivered) < Len(sent)
           /\ \E m \in Messages :
                /\ m = sent[Len(delivered) + 1]
                /\ Len(Code(m)) <= Len(stream)
                /\ \A j \in 1 .. Len(Code(m)) : stream[j] = Code(m)[j]
                /\ Encoded(Len(delivered) + 1, sent, SubSeq(stream, Len(Code(m)) + 1, Len(stream)))
<1>1. /\ sent \in Seq(Messages) /\ stream \in Seq(Nat) /\ Len(delivered) \in Nat
      /\ Len(delivered) <= Len(sent) /\ Encoded(Len(delivered), sent, stream)
  BY Facts DEF Reading, StreamInv, InOrder
<1>2. PICK n \in Nat : n = Len(delivered)
  BY <1>1
<1>3. n <= Len(sent) /\ Encoded(n, sent, stream)
  BY <1>1, <1>2
<1>4. /\ n < Len(sent) /\ Len(Code(sent[n + 1])) <= Len(stream)
      /\ \A j \in 1 .. Len(Code(sent[n + 1])) : stream[j] = Code(sent[n + 1])[j]
      /\ Encoded(n + 1, sent, SubSeq(stream, Len(Code(sent[n + 1])) + 1, Len(stream)))
  BY <1>1, <1>3, EncodedFirst
<1>5. sent[n + 1] \in Messages
  BY <1>1, <1>4
<1> QED BY <1>2, <1>4, <1>5

(* The same, byte by byte: its type, the bytes of its size, its content. *)
Starts(stream, m) ==
    /\ stream[1] = m.type
    /\ \A i \in 1 .. Len(Header(m.size)) : stream[1 + i] = Header(m.size)[i]
    /\ \A i \in 1 .. m.size : stream[1 + Len(Header(m.size)) + i] = m.type

LEMMA FirstBytes ==
    ASSUME NEW m \in Messages, NEW stream,
           \A j \in 1 .. Len(Code(m)) : stream[j] = Code(m)[j]
    PROVE  Starts(stream, m)
<1> DEFINE H == Len(Header(m.size))
           Z == m.size
           c == Code(m)
<1>1. H \in Nat /\ Z \in Nat /\ Len(c) = 1 + H + Z
  BY CodeFacts, MessageFacts
<1>2. /\ c[1] = m.type
      /\ \A i \in 1 .. H : c[1 + i] = Header(m.size)[i]
      /\ \A i \in 1 .. Z : c[1 + H + i] = m.type
  BY CodeFacts
<1>3. \A j \in 1 .. Len(c) : stream[j] = c[j]
  OBVIOUS
<1> HIDE DEF H, Z, c
<1>4. stream[1] = m.type
  <2>1. 1 \in 1 .. Len(c)
    BY <1>1
  <2> QED BY <1>2, <1>3, <2>1
<1>5. ASSUME NEW i \in 1 .. H
      PROVE  stream[1 + i] = Header(m.size)[i]
  <2>1. 1 + i \in 1 .. Len(c)
    BY <1>1
  <2> QED BY <1>2, <1>3, <2>1
<1>6. ASSUME NEW i \in 1 .. Z
      PROVE  stream[1 + H + i] = m.type
  <2>1. 1 + H + i \in 1 .. Len(c)
    BY <1>1
  <2> QED BY <1>2, <1>3, <2>1
<1> QED BY <1>4, <1>5, <1>6 DEF Starts, H, Z

-----------------------------------------------------------------------------
LEMMA StreamInit == Init => StreamInv
<1> SUFFICES ASSUME Init PROVE StreamInv
  OBVIOUS
<1>1. /\ sent = <<>> /\ wire = <<0>> /\ gotfirstbyte = FALSE /\ calling = FALSE /\ data = <<>>
      /\ state = 0 /\ delivered = <<>> /\ refused = FALSE /\ ends = <<>>
  BY DEF Init
<1>2. Chunks
  <2>1. wire # <<>>
    BY <1>1
  <2>2. state # 3
    BY <1>1
  <2> QED BY <1>1, <2>1, <2>2 DEF Chunks
<1>3. delivered \in Seq({<<m.type, Content(m)>> : m \in Messages}) /\ InOrder
  BY <1>1 DEF InOrder
<1>4. Unread = <<>>
  <2>1. Tail(<<0>>) = <<>>
    OBVIOUS
  <2> QED BY <1>1, <2>1 DEF Unread
<1>5. Reading(<<>>, 0)
  <2>1. Follows(<<>>, 0, Unread)
    BY <1>4 DEF Follows
  <2>2. Kept(<<>>, 0)
    BY <1>1 DEF Kept
  <2>3. Ends(0, <<>>, <<>>, [k \in 0 .. 0 |-> 0])
    BY DEF Ends
  <2>4. Encoded(Len(delivered), sent, <<>>)
    BY <1>1, <2>3 DEF Encoded
  <2>5. Measured(<<>>)
    BY <1>1 DEF Measured, Upto
  <2> QED BY <2>1, <2>2, <2>4, <2>5 DEF Reading, Measured, Upto
<1>6. Counted
  BY <1>1 DEF Counted
<1> QED BY <1>2, <1>3, <1>5, <1>6 DEF StreamInv

(* Steps that do not deliver. *)
LEMMA SameDelivered ==
    ASSUME StreamInv, UNCHANGED <<sent, ends, delivered, refused>>, Chunks', (\E stream, p : Reading(stream, p))'
    PROVE  StreamInv'
<1>1. InOrder'
  BY DEF StreamInv, InOrder
<1>2. Counted'
  BY DEF StreamInv, Counted, Upto
<1> QED BY <1>1, <1>2 DEF StreamInv

(* The lengths of the first messages stay, that of one more is added. *)
LEMMA CountsMore ==
    ASSUME Counted, sent \in Seq(Messages), NEW m \in Messages,
           sent' = Append(sent, m), ends' = Append(ends, Upto(ends, Len(ends)) + Length(m))
    PROVE  /\ Counted'
           /\ \A k \in 0 .. Len(sent) : Upto(ends', k) = Upto(ends, k) /\ Upto(ends, k) \in Nat
           /\ Upto(ends', Len(sent')) = Upto(ends, Len(sent)) + Len(Code(m))
<1> DEFINE N == Len(sent)
           C == Len(Code(m))
<1>1. Length(m) = C /\ C \in Nat
  BY CodeFacts DEF Length
<1>2. /\ N \in Nat /\ ends \in Seq(Nat) /\ Len(ends) = N
      /\ \A k \in 1 .. N : ends[k] = Upto(ends, k - 1) + Len(Code(sent[k]))
  BY DEF Counted
<1>3. \A k \in 0 .. N : Upto(ends, k) \in Nat
  BY <1>2 DEF Upto
<1> DEFINE new == Upto(ends, N) + C
<1>4. new \in Nat /\ ends' = Append(ends, new)
  <2>1. ends' = Append(ends, new)
    BY <1>1, <1>2
  <2>2. Upto(ends, N) \in Nat
    BY <1>2, <1>3
  <2> QED BY <1>1, <2>1, <2>2
<1> HIDE DEF new
<1>5. /\ ends' \in Seq(Nat) /\ Len(ends') = N + 1 /\ ends'[N + 1] = new
      /\ \A k \in 1 .. N : ends'[k] = ends[k]
  BY <1>2, <1>4
<1>6. /\ Len(sent') = N + 1 /\ sent'[N + 1] = m
      /\ \A k \in 1 .. N : sent'[k] = sent[k]
  OBVIOUS
<1> HIDE DEF N, C
<1>7. \A k \in 0 .. N : Upto(ends', k) = Upto(ends, k)
  BY <1>2, <1>5 DEF Upto
<1>8. Upto(ends', N + 1) = new
  <2>1. N + 1 # 0
    BY <1>2
  <2> QED BY <1>5, <2>1 DEF Upto
<1>9. ASSUME NEW k \in 1 .. N + 1
      PROVE  ends'[k] = Upto(ends', k - 1) + Len(Code(sent'[k]))
  <2>1. k - 1 \in 0 .. N
    BY <1>2
  <2>2. CASE k \in 1 .. N
    <3>1. ends'[k] = ends[k] /\ sent'[k] = sent[k] /\ Upto(ends', k - 1) = Upto(ends, k - 1)
      BY <1>5, <1>6, <1>7, <2>1, <2>2
    <3>2. ends[k] = Upto(ends, k - 1) + Len(Code(sent[k]))
      BY <1>2, <2>2
    <3> QED BY <3>1, <3>2
  <2>3. CASE k = N + 1
    <3>1. k - 1 = N
      BY <1>2, <2>3
    <3>2. Upto(ends', k - 1) = Upto(ends, N)
      BY <1>7, <2>1, <3>1
    <3>3. ends'[k] = new /\ sent'[k] = m
      BY <1>5, <1>6, <2>3
    <3>4. new = Upto(ends, N) + Len(Code(m))
      BY DEF new, C
    <3> QED BY <3>2, <3>3, <3>4
  <2>4. k \in 1 .. N \/ k = N + 1
    BY <1>2
  <2> QED BY <2>2, <2>3, <2>4
<1>10. Counted'
  BY <1>5, <1>6, <1>9 DEF Counted
<1>11. Upto(ends', Len(sent')) = Upto(ends, N) + C
  BY <1>6, <1>8 DEF new
<1> QED BY <1>3, <1>7, <1>10, <1>11 DEF N, C

LEMMA SendKeepsStream ==
    ASSUME ReaderInv, StreamInv, NEW type \in Types, NEW size \in Sizes, Send(type, size)
    PROVE  StreamInv'
<1>1. PICK m \in Messages : m = [type |-> type, size |-> size]
  BY DEF Messages
<1>2. /\ sent' = Append(sent, m) /\ wire' = ((wire \o <<type>>) \o Header(size)) \o Content(m)
      /\ UNCHANGED <<gotfirstbyte, calling, data, header, buffer, delivered, refused>>
  BY <1>1 DEF Send
<1>3. state' = state /\ sizebytesleft' = sizebytesleft /\ messagesize' = messagesize /\ messagetype' = messagetype
  BY <1>2 DEF header
<1>4. m.type = type /\ m.size = size
  BY <1>1
<1> DEFINE c == Code(m)
           w == IF gotfirstbyte THEN wire ELSE Tail(wire)
           x == IF gotfirstbyte THEN wire' ELSE Tail(wire')
<1>5. c \in Seq(Nat) /\ wire \in Seq(Nat) /\ data \in Seq(Nat) /\ sent \in Seq(Messages)
  BY CodeFacts, Facts
<1>6. wire' = wire \o c
  <2>1. <<type>> \in Seq(Nat) /\ Header(size) \in Seq(Nat) /\ Content(m) \in Seq(Nat)
    BY <1>4, MessageFacts
  <2>2. c = (<<type>> \o Header(size)) \o Content(m)
    BY <1>4 DEF Code
  <2> DEFINE t == <<type>>
             h == Header(size)
             z == Content(m)
  <2> HIDE DEF t, h, z
  <2>3. t \in Seq(Nat) /\ h \in Seq(Nat) /\ z \in Seq(Nat) /\ t \o h \in Seq(Nat)
    BY <2>1 DEF t, h, z
  <2>4. (wire \o t) \o h = wire \o (t \o h)
    <3>1. Regroup(wire, t, h)
      BY <1>5, <2>3, Regrouped
    <3> QED BY <3>1 DEF Regroup
  <2>5. (wire \o (t \o h)) \o z = wire \o ((t \o h) \o z)
    <3>1. Regroup(wire, t \o h, z)
      BY <1>5, <2>3, Regrouped
    <3> QED BY <3>1 DEF Regroup
  <2> QED BY <1>2, <2>2, <2>4, <2>5 DEF t, h, z
<1> HIDE DEF c
<1>14. /\ Counted'
       /\ \A k \in 0 .. Len(sent) : Upto(ends', k) = Upto(ends, k) /\ Upto(ends, k) \in Nat
       /\ Upto(ends', Len(sent')) = Upto(ends, Len(sent)) + Len(Code(m))
  <2>1. ends' = Append(ends, Upto(ends, Len(ends)) + Length(m))
    BY <1>1 DEF Send
  <2>2. Counted
    BY DEF StreamInv
  <2> QED BY <1>2, <1>5, <2>1, <2>2, CountsMore
<1>7. Chunks'
  <2>1. wire # <<>> => wire' # <<>>
    BY <1>5, <1>6
  <2> QED BY <1>2, <1>3, <2>1 DEF StreamInv, Chunks
<1>8. w \in Seq(Nat) /\ x = w \o c
  <2>1. CASE gotfirstbyte
    BY <1>5, <1>6, <2>1
  <2>2. CASE ~gotfirstbyte
    <3>1. wire # <<>>
      BY <2>2 DEF StreamInv, Chunks
    <3>2. Tail(wire) \in Seq(Nat) /\ Tail(wire \o c) = Tail(wire) \o c
      BY <1>5, <3>1
    <3> QED BY <1>6, <2>2, <3>2
  <2> QED BY <2>1, <2>2
<1>9. Unread = data \o w /\ Unread' = data \o x
  BY <1>2 DEF Unread
<1> HIDE DEF w, x
<1>10. Unread \in Seq(Nat) /\ Unread' = Unread \o c
  <2>1. (data \o w) \o c = data \o (w \o c)
    <3>1. Regroup(data, w, c)
      BY <1>5, <1>8, Regrouped
    <3> QED BY <3>1 DEF Regroup
  <2> QED BY <1>5, <1>8, <1>9, <2>1
<1>11. ASSUME ~refused
       PROVE  (\E stream, p : Reading(stream, p))'
  <2>1. PICK stream, p : Reading(stream, p)
    BY <1>11 DEF StreamInv
  <2>2. /\ stream \in Seq(Nat) /\ p \in Nat /\ Encoded(Len(delivered), sent, stream)
        /\ Follows(stream, p, Unread) /\ Kept(stream, p)
    BY <2>1 DEF Reading
  <2> DEFINE t == stream \o c
  <2>3. t \in Seq(Nat) /\ Follows(t, p, Unread \o c) /\ \A i \in 1 .. p : t[i] = stream[i]
    BY <1>5, <1>10, <2>2, Longer
  <2>4. Encoded(Len(delivered), Append(sent, m), t)
    <3>1. Len(delivered) \in Nat /\ Len(delivered) <= Len(sent)
      BY DEF StreamInv, InOrder
    <3> QED BY <1>5, <2>2, <3>1, EncodedMore DEF c
  <2> HIDE DEF t
  <2>5. Kept(t, p)'
    <3>1. /\ (state = 0 => p = 0)'
          /\ (state \in {1, 3} => p >= 1 /\ messagetype = t[1])'
          /\ (state = 1 /\ sizebytesleft = 0 => p = 1)'
      <4>1. p >= 1 => t[1] = stream[1]
        BY <2>2, <2>3
      <4> QED BY <1>3, <2>2, <4>1 DEF Kept
    <3>2. ASSUME state = 1, sizebytesleft > 0
          PROVE  /\ p = 2 + Len(buffer)
                 /\ t[2] \in {Marker16, Marker32}
                 /\ Len(buffer) + sizebytesleft = IF t[2] = Marker16 THEN 2 ELSE 4
                 /\ \A i \in 1 .. Len(buffer) : buffer[i] = t[2 + i]
      <4>1. /\ p = 2 + Len(buffer) /\ stream[2] \in {Marker16, Marker32}
            /\ Len(buffer) + sizebytesleft = IF stream[2] = Marker16 THEN 2 ELSE 4
            /\ \A i \in 1 .. Len(buffer) : buffer[i] = stream[2 + i]
        BY <2>2, <3>2 DEF Kept
      <4>2. Len(buffer) \in Nat
        BY Facts
      <4>3. t[2] = stream[2]
        <5>1. 2 \in 1 .. p
          BY <2>2, <4>1, <4>2
        <5> QED BY <2>3, <5>1
      <4>4. ASSUME NEW i \in 1 .. Len(buffer)
            PROVE  buffer[i] = t[2 + i]
        <5>1. 2 + i \in 1 .. p
          BY <2>2, <4>1, <4>2
        <5> QED BY <2>3, <4>1, <5>1
      <4> QED BY <4>1, <4>3, <4>4
    <3>3. ASSUME state = 3
          PROVE  /\ Len(delivered) < Len(sent')
                 /\ messagesize = sent'[Len(delivered) + 1].size
                 /\ p = 1 + Len(Header(messagesize)) + Len(buffer)
                 /\ \A i \in 1 .. Len(buffer) : buffer[i] = t[1 + Len(Header(messagesize)) + i]
      <4> DEFINE H == Len(Header(messagesize))
      <4>1. /\ Len(delivered) < Len(sent) /\ messagesize = sent[Len(delivered) + 1].size
            /\ p = 1 + H + Len(buffer)
            /\ \A i \in 1 .. Len(buffer) : buffer[i] = stream[1 + H + i]
        BY <2>2, <3>3 DEF Kept
      <4>2. Len(delivered) \in Nat /\ Len(buffer) \in Nat
        BY Facts DEF StreamInv
      <4>3. Len(delivered) < Len(sent') /\ sent'[Len(delivered) + 1] = sent[Len(delivered) + 1]
        BY <1>2, <1>5, <4>1, <4>2
      <4>4. H \in Nat
        <5>1. sent[Len(delivered) + 1] \in Messages
          BY <1>5, <4>1, <4>2
        <5> QED BY <4>1, <5>1, CodeFacts
      <4> HIDE DEF H
      <4>5. ASSUME NEW i \in 1 .. Len(buffer)
            PROVE  buffer[i] = t[1 + H + i]
        <5>1. 1 + H + i \in 1 .. p
          BY <2>2, <4>1, <4>2, <4>4
        <5> QED BY <2>3, <4>1, <5>1
      <4> QED BY <4>1, <4>3, <4>5 DEF H
    <3> QED BY <1>2, <1>3, <3>1, <3>2, <3>3 DEF Kept
  <2>7. Measured(t)'
    <3> DEFINE N == Len(sent)
               n == Len(delivered)
               C == Len(Code(m))
               S == Len(stream)
    <3>1. Len(t) = S + C /\ C \in Nat /\ S \in Nat
      <4>1. c \in Seq(Nat) /\ stream \in Seq(Nat)
        BY <1>5, <2>2
      <4>2. Len(stream \o c) = Len(stream) + Len(c)
        BY <4>1
      <4> QED BY <4>1, <4>2 DEF t, c
    <3>2. S = Upto(ends, N) - Upto(ends, n)
      BY <2>1 DEF Reading, Measured
    <3>3. n \in 0 .. N /\ N \in 0 .. N
      <4>1. n \in Nat /\ N \in Nat /\ n <= N
        BY <1>5 DEF StreamInv, InOrder
      <4> QED BY <4>1
    <3> HIDE DEF N, n, C, S
    <3>4. Upto(ends', n) = Upto(ends, n) /\ Upto(ends, n) \in Nat /\ Upto(ends, N) \in Nat /\ Upto(ends', Len(sent')) = Upto(ends, N) + C
      BY <1>14, <3>3 DEF N, C
    <3>5. Len(t) = Upto(ends', Len(sent')) - Upto(ends', n)
      BY <3>1, <3>2, <3>4
    <3> QED BY <1>2, <3>5 DEF Measured, n
  <2>6. Reading(t, p)'
    BY <1>2, <1>10, <2>2, <2>3, <2>4, <2>5, <2>7 DEF Reading
  <2> QED BY <2>6
<1>12. InOrder'
  <2>1. /\ delivered' = delivered /\ Len(delivered) \in Nat /\ Len(delivered) <= Len(sent)
        /\ \A i \in 1 .. Len(delivered) : delivered[i] = <<sent[i].type, Content(sent[i])>>
    BY <1>2 DEF StreamInv, InOrder
  <2>2. Len(delivered) <= Len(sent') /\ \A i \in 1 .. Len(delivered) : sent'[i] = sent[i]
    BY <1>2, <1>5, <2>1
  <2> QED BY <2>1, <2>2 DEF InOrder
<1> QED BY <1>2, <1>7, <1>11, <1>12, <1>14 DEF StreamInv

LEMMA ReceiveKeepsStream ==
    ASSUME ReaderInv, StreamInv, NEW n \in 1 .. Len(wire), Receive(n)
    PROVE  StreamInv'
<1>1. /\ ~calling /\ ~refused /\ wire' = SubSeq(wire, n + 1, Len(wire)) /\ gotfirstbyte' = TRUE
      /\ data' = SubSeq(wire, IF gotfirstbyte THEN 1 ELSE 2, n)
      /\ calling' = (data' # <<>>)
      /\ UNCHANGED <<sent, ends, header, buffer, delivered, refused>>
  BY DEF Receive
<1>2. wire \in Seq(Nat) /\ data = <<>> /\ gotfirstbyte \in BOOLEAN
  BY <1>1, Facts DEF StreamInv, Chunks
<1> DEFINE W == Len(wire)
           from == IF gotfirstbyte THEN 1 ELSE 2
<1>3. W \in Nat /\ n \in 1 .. W /\ from \in 1 .. (W + 1) /\ n \in (from - 1) .. W /\ W \in n .. W
  BY <1>2
<1> HIDE DEF W, from
<1>4. SubSeq(wire, from, n) \o SubSeq(wire, n + 1, W) = SubSeq(wire, from, W)
  <2>1. \A S : \A seq \in Seq(S) : \A m \in 1 .. Len(seq) + 1 : \A k \in m - 1 .. Len(seq) : \A l \in k .. Len(seq) :
          SubSeq(seq, m, k) \o SubSeq(seq, k + 1, l) = SubSeq(seq, m, l)
    BY ConcatAdjacentSubSeq
  <2> QED BY <1>2, <1>3, <2>1 DEF W
<1>5. SubSeq(wire, from, W) = IF gotfirstbyte THEN wire ELSE Tail(wire)
  <2>1. wire # <<>>
    BY <1>2, <1>3 DEF W
  <2>2. SubSeq(wire, 1, Len(wire)) = wire /\ SubSeq(wire, 2, Len(wire)) = Tail(wire)
    BY <1>2, <2>1
  <2> QED BY <2>2 DEF from, W
<1>6. Unread' = Unread
  <2>1. Unread' = data' \o wire'
    BY <1>1 DEF Unread
  <2>2. Unread' = SubSeq(wire, from, W)
    BY <1>1, <1>4, <2>1 DEF from, W
  <2>3. SubSeq(wire, from, W) \in Seq(Nat)
    BY <1>2, <1>5
  <2>4. Unread = <<>> \o SubSeq(wire, from, W)
    BY <1>2, <1>5 DEF Unread
  <2> QED BY <2>2, <2>3, <2>4
<1>7. Chunks'
  BY <1>1 DEF StreamInv, Chunks, header
<1>8. (\E stream, p : Reading(stream, p))'
  <2>1. PICK stream, p : Reading(stream, p)
    BY <1>1 DEF StreamInv
  <2>2. Kept(stream, p)'
    BY <1>1, <2>1 DEF Reading, Kept, header
  <2>3. Reading(stream, p)'
    BY <1>1, <1>6, <2>1, <2>2 DEF Reading, Measured, Upto
  <2> QED BY <2>3
<1> QED BY <1>1, <1>7, <1>8, SameDelivered

(* A byte of the header: the next one of the stream. *)
LEMMA NextByte ==
    ASSUME ReaderInv, StreamInv, NEW stream, NEW p, Reading(stream, p),
           NEW byte, NEW next, HeaderByte(byte, next)
    PROVE  /\ stream # <<>> /\ p + 1 <= Len(stream) /\ byte = stream[p + 1]
           /\ Follows(stream, p + 1, Unread') /\ stream \in Seq(Nat) /\ p \in Nat
<1>1. /\ calling /\ data # <<>> /\ byte = Head(data) /\ data' = Tail(data)
      /\ wire' = wire /\ gotfirstbyte' = gotfirstbyte
  BY DEF HeaderByte
<1>2. gotfirstbyte
  BY <1>1 DEF StreamInv, Chunks
<1>3. /\ data \in Seq(Nat) /\ wire \in Seq(Nat) /\ stream \in Seq(Nat) /\ p \in Nat
      /\ Follows(stream, p, data \o wire)
  BY <1>2, Facts DEF Reading, Unread
<1>4. 1 \in 0 .. Len(data) /\ Tail(data) = SubSeq(data, 1 + 1, Len(data)) /\ Head(data) = data[1]
  BY <1>1, <1>3
<1>5. /\ Follows(stream, p + 1, SubSeq(data, 1 + 1, Len(data)) \o wire)
      /\ p + 1 <= Len(stream)
      /\ \A i \in 1 .. 1 : stream[p + i] = data[i]
  BY <1>3, <1>4, Advance
<1>6. Unread' = SubSeq(data, 1 + 1, Len(data)) \o wire
  BY <1>1, <1>2, <1>4 DEF Unread
<1>7. stream # <<>>
  BY <1>3, <1>5
<1>8. byte = stream[p + 1]
  BY <1>1, <1>4, <1>5
<1>9. Follows(stream, p + 1, Unread')
  BY <1>5, <1>6, Zenon
<1> QED BY <1>3, <1>5, <1>7, <1>8, <1>9

LEMMA HeaderChunks ==
    ASSUME StreamInv, NEW byte, NEW next, HeaderByte(byte, next)
    PROVE  /\ ~refused /\ Chunks' /\ UNCHANGED <<sent, ends, delivered, refused>>
           /\ \A stream : Measured(stream) => Measured(stream)'
<1>1. calling /\ UNCHANGED <<sent, ends, wire, gotfirstbyte, calling, delivered, refused>>
  BY DEF HeaderByte
<1>2. gotfirstbyte /\ ~refused
  BY <1>1 DEF StreamInv, Chunks
<1>3. \A stream : Measured(stream) => Measured(stream)'
  BY <1>1 DEF Measured
<1> QED BY <1>1, <1>2, <1>3 DEF StreamInv, Chunks

LEMMA TypeByteKeepsStream ==
    ASSUME ReaderInv, StreamInv, NEW byte, TypeByte(byte)
    PROVE  StreamInv'
<1>1. /\ HeaderByte(byte, 0) /\ state = 0 /\ messagetype' = byte /\ state' = 1 /\ sizebytesleft' = 0
  BY DEF TypeByte, HeaderByte
<1>2. /\ ~refused /\ Chunks' /\ UNCHANGED <<sent, ends, delivered, refused>>
      /\ \A stream : Measured(stream) => Measured(stream)'
  BY <1>1, HeaderChunks
<1>3. PICK stream, p : Reading(stream, p)
  BY <1>2 DEF StreamInv
<1>4. /\ byte = stream[p + 1] /\ Follows(stream, p + 1, Unread') /\ stream \in Seq(Nat) /\ p \in Nat
  BY <1>1, <1>3, NextByte
<1>5. p = 0
  BY <1>1, <1>3 DEF Reading, Kept
<1>6. Kept(stream, p + 1)'
  BY <1>1, <1>4, <1>5 DEF Kept
<1>7. Reading(stream, p + 1)'
  BY <1>2, <1>3, <1>4, <1>6 DEF Reading
<1> QED BY <1>2, <1>7, SameDelivered

LEMMA FirstSizeByteKeepsStream ==
    ASSUME Readable, ReaderInv, StreamInv, NEW byte, FirstSizeByte(byte)
    PROVE  StreamInv'
<1>1. /\ HeaderByte(byte, 1) /\ state = 1 /\ sizebytesleft = 0
      /\ messagetype' = messagetype /\ buffer' = buffer
  BY DEF FirstSizeByte, HeaderByte
<1>2. /\ ~refused /\ Chunks' /\ UNCHANGED <<sent, ends, delivered, refused>>
      /\ \A stream : Measured(stream) => Measured(stream)'
  BY <1>1, HeaderChunks
<1>3. PICK stream, p : Reading(stream, p)
  BY <1>2 DEF StreamInv
<1>4. /\ stream # <<>> /\ byte = stream[p + 1] /\ Follows(stream, p + 1, Unread')
      /\ stream \in Seq(Nat) /\ p \in Nat
  BY <1>1, <1>3, NextByte
<1>5. p = 1 /\ messagetype = stream[1] /\ byte = stream[2]
  BY <1>1, <1>3, <1>4 DEF Reading, Kept
<1>6. buffer = <<>> /\ Len(buffer) = 0 /\ buffer' = <<>>
  BY <1>1, Facts
<1>7. PICK m \in Messages :
        /\ m = sent[Len(delivered) + 1]
        /\ \A j \in 1 .. Len(Code(m)) : stream[j] = Code(m)[j]
  BY <1>3, <1>4, FirstMessage
<1>8. Len(delivered) < Len(sent)
  BY <1>3, <1>4, FirstMessage
<1>9. \A i \in 1 .. Len(Header(m.size)) : stream[1 + i] = Header(m.size)[i]
  <2>1. Starts(stream, m)
    BY <1>7, FirstBytes
  <2> QED BY <2>1 DEF Starts
<1>10. /\ byte = Header(m.size)[1]
       /\ \/ Len(Header(m.size)) = 1 /\ byte = m.size /\ byte \notin {Marker16, Marker32}
          \/ byte \in {Marker16, Marker32}
  <2>1. \/ /\ Len(Header(m.size)) = 1 /\ Header(m.size)[1] = m.size
           /\ m.size \notin {Marker16, Marker32}
        \/ Len(Header(m.size)) >= 1 /\ Header(m.size)[1] \in {Marker16, Marker32}
    BY HeaderFacts DEF LongSize
  <2>2. 1 \in 1 .. Len(Header(m.size))
    BY <2>1, CodeFacts
  <2>3. stream[1 + 1] = Header(m.size)[1]
    BY <1>9, <2>2
  <2> QED BY <1>5, <2>1, <2>3
<1>11. Kept(stream, p + 1)'
  <2>1. CASE byte \in {Marker16, Marker32}
    <3>1. sizebytesleft' = (IF byte = Marker16 THEN 2 ELSE 4) /\ state' = 1
      BY <1>1, <2>1 DEF FirstSizeByte
    <3>2. p + 1 = 2 + Len(buffer') /\ Len(buffer') + sizebytesleft' = (IF stream[2] = Marker16 THEN 2 ELSE 4)
      BY <1>5, <1>6, <3>1
    <3>3. 1 .. Len(buffer') = {}
      BY <1>6
    <3>4. sizebytesleft' # 0 /\ p + 1 >= 1
      BY <1>5, <3>1
    <3> QED BY <1>1, <1>5, <2>1, <3>1, <3>2, <3>3, <3>4 DEF Kept
  <2>2. CASE byte \notin {Marker16, Marker32}
    <3>1. messagesize' = m.size /\ state' = 3 /\ Len(Header(messagesize')) = 1
      BY <1>1, <1>10, <2>2 DEF FirstSizeByte
    <3>2. p + 1 = 1 + Len(Header(messagesize')) + Len(buffer') /\ 1 .. Len(buffer') = {} /\ p + 1 >= 1
      BY <1>5, <1>6, <3>1
    <3> QED BY <1>1, <1>2, <1>5, <1>7, <1>8, <3>1, <3>2 DEF Kept
  <2> QED BY <2>1, <2>2
<1>12. Reading(stream, p + 1)'
  BY <1>2, <1>3, <1>4, <1>11 DEF Reading
<1> QED BY <1>2, <1>12, SameDelivered

LEMMA SizeByteKeepsStream ==
    ASSUME Readable, ReaderInv, StreamInv, NEW byte \in Nat, SizeByte(byte)
    PROVE  StreamInv'
<1>1. /\ HeaderByte(byte, 1) /\ state = 1 /\ sizebytesleft > 0 /\ sizebytesleft' = sizebytesleft - 1
      /\ messagetype' = messagetype
  BY DEF SizeByte, HeaderByte
<1>2. /\ ~refused /\ Chunks' /\ UNCHANGED <<sent, ends, delivered, refused>>
      /\ \A stream : Measured(stream) => Measured(stream)'
  BY <1>1, HeaderChunks
<1>3. PICK stream, p : Reading(stream, p)
  BY <1>2 DEF StreamInv
<1>4. /\ stream # <<>> /\ byte = stream[p + 1] /\ Follows(stream, p + 1, Unread')
      /\ stream \in Seq(Nat) /\ p \in Nat
  BY <1>1, <1>3, NextByte
<1>5. /\ p = 2 + Len(buffer) /\ messagetype = stream[1] /\ stream[2] \in {Marker16, Marker32}
      /\ Len(buffer) + sizebytesleft = IF stream[2] = Marker16 THEN 2 ELSE 4
      /\ \A i \in 1 .. Len(buffer) : buffer[i] = stream[2 + i]
  BY <1>1, <1>3 DEF Reading, Kept
<1> DEFINE bytes == Append(buffer, byte)
           B == Len(buffer)
<1>6. /\ buffer \in Seq(Nat) /\ B \in Nat /\ bytes \in Seq(Nat) /\ Len(bytes) = B + 1
      /\ \A i \in 1 .. B : bytes[i] = buffer[i]
      /\ bytes[B + 1] = byte
  BY Facts
<1> HIDE DEF bytes, B
<1>7. \A i \in 1 .. B + 1 : bytes[i] = stream[2 + i]
  <2> TAKE i \in 1 .. B + 1
  <2>1. CASE i \in 1 .. B
    BY <1>5, <1>6, <2>1 DEF B
  <2>2. CASE i = B + 1
    <3>1. 2 + i = p + 1
      BY <1>5, <1>6, <2>2 DEF B
    <3> QED BY <1>4, <1>6, <2>2, <3>1
  <2> QED BY <1>6, <2>1, <2>2
<1>8. p = 2 + B /\ B + sizebytesleft = IF stream[2] = Marker16 THEN 2 ELSE 4
  BY <1>5 DEF B
<1>9. sizebytesleft \in Nat
  BY Facts
<1>10. CASE sizebytesleft # 1
  <2>1. buffer' = bytes /\ state' = 1
    BY <1>1, <1>10 DEF SizeByte, bytes
  <2>2. p + 1 = 2 + Len(buffer') /\ Len(buffer') + sizebytesleft' = (IF stream[2] = Marker16 THEN 2 ELSE 4)
    BY <1>1, <1>4, <1>6, <1>8, <1>9, <2>1
  <2>3. \A i \in 1 .. Len(buffer') : buffer'[i] = stream[2 + i]
    BY <1>6, <1>7, <2>1
  <2>4. sizebytesleft' # 0 /\ p + 1 >= 1
    BY <1>1, <1>4, <1>9, <1>10
  <2>5. Kept(stream, p + 1)'
    BY <1>1, <1>5, <2>1, <2>2, <2>3, <2>4 DEF Kept
  <2>6. Reading(stream, p + 1)'
    BY <1>2, <1>3, <1>4, <2>5 DEF Reading
  <2> QED BY <1>2, <2>6, SameDelivered
<1>11. CASE sizebytesleft = 1
  <2>1. messagesize' = SizeIn(bytes) /\ buffer' = <<>> /\ state' = 3
    BY <1>1, <1>11 DEF SizeByte, bytes
  <2>2. PICK m \in Messages :
          /\ m = sent[Len(delivered) + 1]
          /\ \A j \in 1 .. Len(Code(m)) : stream[j] = Code(m)[j]
    BY <1>3, <1>4, FirstMessage
  <2>3. Len(delivered) < Len(sent)
    BY <1>3, <1>4, FirstMessage
  <2> DEFINE H == Header(m.size)
  <2>4. \A i \in 1 .. Len(H) : stream[1 + i] = H[i]
    <3>1. Starts(stream, m)
      BY <2>2, FirstBytes
    <3> QED BY <3>1 DEF Starts
  <2>5. Len(H) = 1 + (B + 1) /\ SizeIn(bytes) = m.size
    <3>1. Len(H) >= 1 /\ Len(H) \in Nat
      BY HeaderFacts, CodeFacts DEF LongSize
    <3>2. stream[2] = H[1]
      <4>1. 1 \in 1 .. Len(H)
        BY <3>1
      <4>2. stream[1 + 1] = H[1]
        BY <2>4, <4>1
      <4> QED BY <4>2
    <3>3. B + 1 = IF stream[2] = Marker16 THEN 2 ELSE 4
      BY <1>8, <1>11
    <3>4. LongSize(m.size, stream[2], B + 1)
      BY <1>5, <3>2, <3>3, MarkedHeader
    <3>5. /\ Len(H) = 1 + (B + 1)
          /\ Len(bytes) = B + 1 /\ (\A i \in 1 .. B + 1 : bytes[i] = H[1 + i]) => SizeIn(bytes) = m.size
      BY <1>6, <3>4 DEF LongSize
    <3> HIDE DEF H
    <3>6. ASSUME NEW i \in 1 .. B + 1
          PROVE  bytes[i] = H[1 + i]
      <4>1. 1 + i \in 1 .. Len(H) /\ 1 + (1 + i) = 2 + i
        BY <1>6, <3>5
      <4>2. stream[1 + (1 + i)] = H[1 + i]
        BY <2>4, <4>1
      <4> QED BY <1>7, <4>1, <4>2
    <3> QED BY <1>6, <3>5, <3>6
  <2>6. p + 1 = 1 + Len(H) + Len(buffer') /\ 1 .. Len(buffer') = {} /\ p + 1 >= 1
    <3>1. Len(buffer') = 0
      BY <2>1
    <3> HIDE DEF H
    <3> QED BY <1>4, <1>6, <1>8, <2>5, <3>1
  <2>7. Kept(stream, p + 1)'
    BY <1>1, <1>2, <1>5, <2>1, <2>2, <2>3, <2>5, <2>6 DEF Kept
  <2>8. Reading(stream, p + 1)'
    BY <1>2, <1>3, <1>4, <2>7 DEF Reading
  <2> QED BY <1>2, <2>8, SameDelivered
<1> QED BY <1>10, <1>11

(* k bytes of content are taken from a chunk: with what is in the buffer   *)
(* they are what the stream has after a header.                            *)
PartOf(stream, p, k, whole) ==
    /\ whole \in Seq(Nat) /\ Len(whole) = Len(buffer) + k
    /\ Len(Header(messagesize)) \in Nat
    /\ p + k = 1 + Len(Header(messagesize)) + Len(whole)
    /\ Follows(stream, p + k, SubSeq(data, k + 1, Len(data)) \o wire)
    /\ \A i \in 1 .. Len(whole) : whole[i] = stream[1 + Len(Header(messagesize)) + i]
    /\ stream # <<>>

LEMMA ContentTaken ==
    ASSUME Readable, ReaderInv, StreamInv, calling, state = 3, NEW stream, NEW p, Reading(stream, p),
           NEW k \in 0 .. Len(data), Len(buffer) + k <= messagesize,
           NEW whole, whole = buffer \o SubSeq(data, 1, k)
    PROVE  PartOf(stream, p, k, whole)
<1> DEFINE H == Len(Header(messagesize))
           B == Len(buffer)
           c == SubSeq(data, 1, k)
<1>1. gotfirstbyte
  BY DEF StreamInv, Chunks
<1>2. /\ data \in Seq(Nat) /\ wire \in Seq(Nat) /\ buffer \in Seq(Nat) /\ sent \in Seq(Messages)
      /\ stream \in Seq(Nat) /\ p \in Nat /\ Follows(stream, p, data \o wire)
  BY <1>1, Facts DEF Reading, Unread
<1>3. /\ Len(delivered) < Len(sent) /\ messagesize = sent[Len(delivered) + 1].size
      /\ p = 1 + H + B /\ p >= 1
      /\ \A i \in 1 .. B : buffer[i] = stream[1 + H + i]
  BY DEF Reading, Kept
<1>4. H \in Nat
  <2>1. Len(delivered) \in Nat
    BY DEF StreamInv
  <2>2. sent[Len(delivered) + 1] \in Messages
    BY <1>2, <1>3, <2>1
  <2> QED BY <1>3, <2>2, CodeFacts
<1>5. /\ Follows(stream, p + k, SubSeq(data, k + 1, Len(data)) \o wire)
      /\ p + k <= Len(stream)
      /\ \A i \in 1 .. k : stream[p + i] = data[i]
  BY <1>2, Advance
<1>6. c \in Seq(Nat) /\ Len(c) = k /\ (\A i \in 1 .. k : c[i] = data[i]) /\ k \in Nat
  BY <1>2
<1>7. B \in Nat /\ Len(buffer) = B
  BY <1>2
<1> HIDE DEF H, B, c
<1>8. Joins(whole, buffer, B, c, k)
  BY <1>2, <1>6, <1>7, Joined DEF c
<1>9. /\ whole \in Seq(Nat) /\ Len(whole) = B + k
      /\ \A i \in 1 .. B : whole[i] = buffer[i]
      /\ \A i \in 1 .. k : whole[B + i] = c[i]
  BY <1>8 DEF Joins
<1>10. ASSUME NEW i \in 1 .. B + k
       PROVE  whole[i] = stream[1 + H + i]
  <2>1. CASE i <= B
    <3>1. i \in 1 .. B
      BY <1>6, <1>7, <2>1
    <3> QED BY <1>3, <1>9, <3>1
  <2>2. CASE ~(i <= B)
    <3> DEFINE j == i - B
    <3>1. j \in 1 .. k /\ B + j = i /\ p + j = 1 + H + i
      BY <1>3, <1>4, <1>6, <1>7, <2>2
    <3> HIDE DEF j
    <3>2. whole[B + j] = data[j] /\ stream[p + j] = data[j]
      BY <1>5, <1>6, <1>9, <3>1
    <3> QED BY <3>1, <3>2
  <2> QED BY <2>1, <2>2
<1>11. p + k = 1 + H + (B + k)
  BY <1>3, <1>4, <1>6, <1>7
<1>12. stream # <<>>
  BY <1>2, <1>3, <1>5, <1>6
<1> QED BY <1>4, <1>5, <1>7, <1>9, <1>10, <1>11, <1>12 DEF PartOf, H, B

(* The last of them are taken: it is delivered as it was sent. *)
LEMMA DeliveryKeepsStream ==
    ASSUME Readable, ReaderInv, StreamInv, calling, state = 3,
           NEW k \in 0 .. Len(data), Len(buffer) + k = messagesize,
           Handled(buffer \o SubSeq(data, 1, k), SubSeq(data, k + 1, Len(data))),
           UNCHANGED <<sent, ends, wire, gotfirstbyte>>
    PROVE  StreamInv'
<1> DEFINE whole == buffer \o SubSeq(data, 1, k)
           rest == SubSeq(data, k + 1, Len(data))
           n == Len(delivered)
<1>1. PICK ok \in BOOLEAN :
        /\ delivered' = Append(delivered, <<messagetype, whole>>)
        /\ refused' = ~ok
        /\ state' = IF ok THEN 0 ELSE 3
        /\ calling' = (ok /\ rest # <<>>)
        /\ data' = IF ok THEN rest ELSE <<>>
  BY DEF Handled
<1>2. ~refused /\ gotfirstbyte
  BY DEF StreamInv, Chunks
<1>3. PICK stream, p : Reading(stream, p)
  BY <1>2 DEF StreamInv
<1>4. /\ stream \in Seq(Nat) /\ p \in Nat /\ messagetype = stream[1]
      /\ messagesize = sent[n + 1].size
  BY <1>3 DEF Reading, Kept
<1>5. Len(buffer) + k <= messagesize
  BY Facts
<1>6. PICK content : content = whole
  OBVIOUS
<1>7. /\ content \in Seq(Nat) /\ Len(content) = messagesize
      /\ p + k = 1 + Len(Header(messagesize)) + messagesize
      /\ Follows(stream, p + k, rest \o wire)
      /\ \A i \in 1 .. messagesize : content[i] = stream[1 + Len(Header(messagesize)) + i]
      /\ stream # <<>>
  <2>1. PartOf(stream, p, k, content)
    BY <1>3, <1>5, <1>6, ContentTaken
  <2> QED BY <2>1 DEF PartOf
<1> HIDE DEF whole, rest
<1>8. PICK m \in Messages :
        /\ m = sent[n + 1]
        /\ \A j \in 1 .. Len(Code(m)) : stream[j] = Code(m)[j]
        /\ Encoded(n + 1, sent, SubSeq(stream, Len(Code(m)) + 1, Len(stream)))
  BY <1>3, <1>7, FirstMessage
<1>9. n < Len(sent) /\ n \in Nat
  BY <1>3, <1>7, FirstMessage DEF StreamInv
<1>21. Starts(stream, m)
  BY <1>8, FirstBytes
<1>10. messagesize = m.size /\ messagetype = m.type
  BY <1>4, <1>8, <1>21 DEF Starts
<1>11. content = Content(m)
  <2>1. /\ Content(m) \in Seq(Nat) /\ Len(Content(m)) = m.size
        /\ \A i \in 1 .. m.size : Content(m)[i] = m.type
    BY MessageFacts
  <2>2. \A i \in 1 .. m.size : stream[1 + Len(Header(m.size)) + i] = m.type
    BY <1>21 DEF Starts
  <2>3. \A i \in 1 .. Len(content) : content[i] = Content(m)[i]
    BY <1>7, <1>10, <2>1, <2>2
  <2>4. Len(content) = Len(Content(m))
    BY <1>7, <1>10, <2>1
  <2> QED BY <1>7, <2>1, <2>3, <2>4, SeqEqual
<1>12. delivered' = Append(delivered, <<m.type, Content(m)>>)
  BY <1>1, <1>6, <1>10, <1>11
<1> DEFINE Sent == {<<x.type, Content(x)>> : x \in Messages}
<1>13. delivered \in Seq(Sent) /\ <<m.type, Content(m)>> \in Sent
  BY DEF StreamInv
<1>14. PICK item \in Sent : item = <<m.type, Content(m)>>
  BY <1>13
<1>15. delivered' = Append(delivered, item)
  BY <1>12, <1>14
<1> HIDE DEF Sent
<1>16. /\ delivered' \in Seq(Sent) /\ Len(delivered') = n + 1
       /\ \A i \in 1 .. n : delivered'[i] = delivered[i]
       /\ delivered'[n + 1] = item
  BY <1>13, <1>15
<1>17. InOrder'
  <2>1. \A i \in 1 .. n : delivered[i] = <<sent[i].type, Content(sent[i])>>
    BY DEF StreamInv, InOrder
  <2>2. ASSUME NEW i \in 1 .. n + 1
        PROVE  delivered'[i] = <<sent[i].type, Content(sent[i])>>
    <3>1. i \in 1 .. n \/ i = n + 1
      BY <1>9
    <3> QED BY <1>8, <1>14, <1>16, <2>1, <3>1
  <2>3. n + 1 <= Len(sent)
    <3>1. Len(sent) \in Nat
      BY Facts
    <3> QED BY <1>9, <3>1
  <2> HIDE DEF n
  <2> QED BY <1>16, <2>2, <2>3 DEF InOrder
<1>18. Chunks'
  <2>1. refused' \in BOOLEAN /\ gotfirstbyte' /\ gotfirstbyte' \in BOOLEAN
    <3>1. gotfirstbyte' = gotfirstbyte
      OBVIOUS
    <3>2. gotfirstbyte \in BOOLEAN
      BY DEF StreamInv, Chunks
    <3>3. refused' \in BOOLEAN
      BY <1>1
    <3> QED BY <1>2, <3>1, <3>2, <3>3
  <2>2. CASE ok
    <3>1. state' = 0 /\ ~refused' /\ data' = rest /\ (calling' <=> rest # <<>>)
      BY <1>1, <2>2
    <3>2. state' # 3 /\ (~calling' => data' = <<>>)
      BY <3>1
    <3> QED BY <2>1, <3>1, <3>2 DEF Chunks
  <2>3. CASE ~ok
    <3>1. refused' /\ data' = <<>> /\ ~calling'
      BY <1>1, <2>3
    <3> QED BY <2>1, <3>1 DEF Chunks
  <2> QED BY <2>2, <2>3
<1>19. ASSUME ok
       PROVE  (\E s, q : Reading(s, q))'
  <2>1. Unread' = rest \o wire
    BY <1>1, <1>2, <1>19 DEF Unread
  <2>2. Len(Code(m)) = p + k /\ p + k \in Nat
    <3>1. Len(Code(m)) = 1 + Len(Header(m.size)) + m.size
      BY CodeFacts
    <3> QED BY <1>4, <1>7, <1>10, <3>1
  <2> DEFINE t == SubSeq(stream, p + k + 1, Len(stream))
  <2>3. rest \o wire \in Seq(Nat)
    <3>1. data \in Seq(Nat) /\ wire \in Seq(Nat)
      BY Facts
    <3>2. k + 1 \in Nat /\ k + 1 >= 1 /\ Len(data) \in Nat
      BY <3>1
    <3>3. rest \in Seq(Nat)
      BY <3>1, <3>2, Slice DEF rest
    <3> HIDE DEF n
    <3> QED BY <3>1, <3>3
  <2>4. Follows(t, 0, rest \o wire)
    BY <1>4, <1>7, <2>2, <2>3, Afterwards
  <2>5. t \in Seq(Nat)
    BY <1>4, <2>2
  <2>6. Encoded(n + 1, sent, t)
    BY <1>8, <2>2
  <2> HIDE DEF t
  <2>7. Kept(t, 0)'
    BY <1>1, <1>19 DEF Kept
  <2>8. Measured(t)'
    <3> DEFINE N == Len(sent)
               C == Len(Code(m))
               S == Len(stream)
    <3>1. /\ n + 1 \in 1 .. N /\ n \in 0 .. N /\ N \in 0 .. N /\ (n + 1) - 1 = n /\ N \in Nat
      <4>1. N \in Nat
        BY Facts
      <4> QED BY <1>9, <4>1
    <3>2. ends[n + 1] = Upto(ends, (n + 1) - 1) + Len(Code(sent[n + 1]))
      BY <3>1 DEF StreamInv, Counted
    <3>3. Upto(ends, n + 1) = Upto(ends, n) + C
      <4>1. n + 1 # 0
        BY <3>1
      <4> QED BY <1>8, <3>1, <3>2, <4>1 DEF Upto
    <3>4. Upto(ends, n) \in Nat /\ Upto(ends, N) \in Nat
      <4>1. ends \in Seq(Nat) /\ Len(ends) = N
        BY DEF StreamInv, Counted
      <4> HIDE DEF N, n
      <4> QED BY <3>1, <4>1 DEF Upto
    <3>5. S = Upto(ends, N) - Upto(ends, n)
      BY <1>3 DEF Reading, Measured
    <3>6. Len(t) = S - C /\ C \in Nat /\ S \in Nat
      <4>1. S \in Nat /\ p + k \in Nat /\ p + k <= S
        BY <1>4, <1>7, <2>2, <2>3 DEF Follows
      <4>2. Len(t) = S - (p + k)
        BY <1>4, <4>1 DEF t
      <4> QED BY <2>2, <4>1, <4>2
    <3> HIDE DEF N, C, S
    <3>7. Len(t) = Upto(ends, N) - Upto(ends, n + 1)
      BY <3>3, <3>4, <3>5, <3>6
    <3>8. Upto(ends', N) = Upto(ends, N) /\ Upto(ends', n + 1) = Upto(ends, n + 1)
      BY DEF Upto
    <3> QED BY <1>16, <3>7, <3>8 DEF Measured, N
  <2>9. Reading(t, 0)'
    BY <1>16, <2>1, <2>4, <2>5, <2>6, <2>7, <2>8 DEF Reading
  <2> QED BY <2>9
<1>20. Counted'
  BY DEF StreamInv, Counted, Upto
<1> QED BY <1>1, <1>16, <1>17, <1>18, <1>19, <1>20 DEF StreamInv, Sent

LEMMA UnfragmentedKeepsStream ==
    ASSUME Readable, ReaderInv, StreamInv, Unfragmented
    PROVE  StreamInv'
<1>1. /\ calling /\ state = 3 /\ buffer = <<>> /\ Len(data) >= messagesize
      /\ Handled(SubSeq(data, 1, messagesize), SubSeq(data, messagesize + 1, Len(data)))
      /\ UNCHANGED <<sent, ends, wire, gotfirstbyte>>
  BY DEF Unfragmented
<1>2. data \in Seq(Nat) /\ messagesize \in Nat
  BY Facts
<1>3. messagesize \in 0 .. Len(data) /\ Len(buffer) + messagesize = messagesize
  BY <1>1, <1>2
<1>4. buffer \o SubSeq(data, 1, messagesize) = SubSeq(data, 1, messagesize)
  <2>1. SubSeq(data, 1, messagesize) \in Seq(Nat)
    BY <1>1, <1>2
  <2>2. PICK s \in Seq(Nat) : s = SubSeq(data, 1, messagesize)
    BY <2>1
  <2>3. <<>> \o s = s
    OBVIOUS
  <2> QED BY <1>1, <2>2, <2>3
<1> QED BY <1>1, <1>3, <1>4, DeliveryKeepsStream

LEMMA FragmentKeepsStream ==
    ASSUME Readable, ReaderInv, StreamInv, Fragment
    PROVE  StreamInv'
<1>1. calling /\ state = 3 /\ UNCHANGED <<sent, ends, wire, gotfirstbyte>>
  BY DEF Fragment
<1>2. /\ data \in Seq(Nat) /\ messagesize \in Nat /\ buffer \in Seq(Nat) /\ Len(buffer) <= messagesize
      /\ wire \in Seq(Nat)
  BY <1>1, Facts
<1>3. PICK k \in 0 .. Len(data) : k = Taken
  BY <1>1, TakenBounds
<1>4. Len(buffer) + k <= messagesize /\ (k = Len(data) \/ Len(buffer) + k = messagesize)
  BY <1>1, <1>2, <1>3, TakenBounds
<1>5. PICK whole : whole = buffer \o SubSeq(data, 1, k)
  OBVIOUS
<1>6. Len(whole) = Len(buffer) + k
  BY <1>2, <1>5
<1>7. CASE Len(whole) = messagesize
  <2>1. Handled(whole, SubSeq(data, k + 1, Len(data)))
    BY <1>3, <1>5, <1>7 DEF Fragment
  <2>2. Len(buffer) + k = messagesize
    BY <1>6, <1>7
  <2> QED BY <1>1, <1>5, <2>1, <2>2, DeliveryKeepsStream
<1>8. CASE Len(whole) # messagesize
  <2>1. /\ buffer' = whole /\ data' = <<>> /\ calling' = FALSE
        /\ UNCHANGED <<header, delivered, refused>>
    BY <1>3, <1>5, <1>8 DEF Fragment
  <2>2. /\ state' = 3 /\ messagesize' = messagesize /\ messagetype' = messagetype
    BY <1>1, <2>1 DEF header
  <2>3. ~refused /\ gotfirstbyte
    BY <1>1 DEF StreamInv, Chunks
  <2>4. Chunks'
    <3>1. Len(buffer') < messagesize
      <4>1. Len(whole) \in Nat /\ Len(whole) <= messagesize
        BY <1>2, <1>4, <1>6
      <4> QED BY <1>2, <1>8, <2>1, <4>1
    <3> QED BY <1>1, <2>1, <2>2, <2>3, <3>1 DEF StreamInv, Chunks
  <2>5. PICK stream, p : Reading(stream, p)
    BY <2>3 DEF StreamInv
  <2>6. /\ Len(Header(messagesize)) \in Nat
        /\ p + k = 1 + Len(Header(messagesize)) + Len(whole)
        /\ Follows(stream, p + k, SubSeq(data, k + 1, Len(data)) \o wire)
        /\ \A i \in 1 .. Len(whole) : whole[i] = stream[1 + Len(Header(messagesize)) + i]
    <3>1. PartOf(stream, p, k, whole)
      BY <1>1, <1>4, <1>5, <2>5, ContentTaken
    <3> QED BY <3>1 DEF PartOf
  <2>7. k = Len(data)
    BY <1>4, <1>6, <1>8
  <2>8. Unread' = SubSeq(data, k + 1, Len(data)) \o wire
    <3>1. SubSeq(data, k + 1, Len(data)) = <<>>
      BY <1>2, <2>7
    <3> QED BY <1>1, <2>1, <2>3, <3>1 DEF Unread
  <2>9. stream \in Seq(Nat) /\ p \in Nat /\ p + k \in Nat /\ p + k >= 1
    BY <1>1, <2>5 DEF Reading, Kept
  <2>10. Kept(stream, p + k)'
    BY <1>1, <2>1, <2>2, <2>5, <2>6, <2>9 DEF Reading, Kept
  <2>11. Reading(stream, p + k)'
    BY <1>1, <2>1, <2>5, <2>6, <2>8, <2>9, <2>10 DEF Reading, Measured, Upto
  <2> QED BY <1>1, <2>1, <2>4, <2>11, SameDelivered
<1> QED BY <1>7, <1>8

LEMMA StreamNext ==
    ASSUME Readable, ReaderInv, StreamInv, [Next]_vars
    PROVE  StreamInv'
<1>1. ASSUME NEW type \in Types, NEW size \in Sizes, Send(type, size)
      PROVE  StreamInv'
  BY <1>1, SendKeepsStream
<1>2. ASSUME NEW n \in 1 .. Len(wire), Receive(n)
      PROVE  StreamInv'
  BY <1>2, ReceiveKeepsStream
<1>3. ASSUME NEW byte \in 0 .. (Byte - 1), TypeByte(byte) \/ FirstSizeByte(byte) \/ SizeByte(byte)
      PROVE  StreamInv'
  <2>1. byte \in Nat
    BY WordSize
  <2> QED BY <1>3, <2>1, TypeByteKeepsStream, FirstSizeByteKeepsStream, SizeByteKeepsStream
<1>4. CASE HeaderIncomplete \/ UNCHANGED vars
  <2>1. /\ UNCHANGED <<sent, ends, wire, gotfirstbyte, data, header, buffer, delivered, refused>>
        /\ (calling' = FALSE /\ data = <<>> /\ state # 3) \/ calling' = calling
    BY <1>4 DEF HeaderIncomplete, vars
  <2>2. Chunks'
    BY <2>1 DEF StreamInv, Chunks, header
  <2>3. ASSUME ~refused
        PROVE  (\E stream, p : Reading(stream, p))'
    <3>1. PICK stream, p : Reading(stream, p)
      BY <2>3 DEF StreamInv
    <3>2. Unread' = Unread
      BY <2>1 DEF Unread
    <3>3. Kept(stream, p)'
      BY <2>1, <3>1 DEF Reading, Kept, header
    <3>4. Reading(stream, p)'
      BY <2>1, <3>1, <3>2, <3>3 DEF Reading, Measured, Upto
    <3> QED BY <3>4
  <2>4. InOrder'
    BY <2>1 DEF StreamInv, InOrder
  <2>5. Counted'
    BY <2>1 DEF StreamInv, Counted, Upto
  <2> QED BY <2>1, <2>2, <2>3, <2>4, <2>5 DEF StreamInv
<1>5. CASE Unfragmented
  BY <1>5, UnfragmentedKeepsStream
<1>6. CASE Fragment
  BY <1>6, FragmentKeepsStream
<1> QED BY <1>1, <1>2, <1>3, <1>4, <1>5, <1>6 DEF Next

LEMMA StreamSpec ==
    ASSUME Readable
    PROVE  Spec => [](ReaderInv /\ StreamInv)
<1>1. ReaderInv /\ StreamInv /\ [Next]_vars => (ReaderInv /\ StreamInv)'
  BY ReaderNext, StreamNext
<1> QED BY <1>1, ReaderInit, StreamInit, PTL DEF Spec

(* However the stream is cut, what the handler gets is what was sent, in   *)
(* order: for bytes of 8 bits, any number of messages, any types and any   *)
(* sizes but those that the reader takes for negative.                     *)
THEOREM InOrderHolds ==
    ASSUME Readable
    PROVE  Spec => []InOrder
<1>1. StreamInv => InOrder
  BY DEF StreamInv
<1> QED BY <1>1, StreamSpec, PTL

(* Between calls, less than the first message has been read. *)
LEMMA MessageMissing ==
    ASSUME Readable, ReaderInv, StreamInv, ~calling, ~refused, NEW stream, NEW p, Reading(stream, p),
           stream # <<>>, NEW m \in Messages, m = sent[Len(delivered) + 1],
           \A j \in 1 .. Len(Code(m)) : stream[j] = Code(m)[j]
    PROVE  p < Len(Code(m))
<1> DEFINE H == Len(Header(m.size))
           Z == m.size
           B == Len(buffer)
<1>1. H \in Nat /\ Z \in Nat /\ Len(Code(m)) = 1 + H + Z
  BY CodeFacts, MessageFacts
<1>2. B \in Nat /\ sizebytesleft \in Nat /\ p \in Nat /\ state \in {0, 1, 3}
  BY Facts DEF Reading
<1>3. 1 <= H
  BY <1>1, HeaderFacts DEF LongSize
<1>4. CASE state = 0
  <2>1. p = 0
    BY <1>4 DEF Reading, Kept
  <2> HIDE DEF H, Z
  <2> QED BY <1>1, <2>1
<1>5. CASE state = 1 /\ sizebytesleft = 0
  <2>1. p = 1
    BY <1>5 DEF Reading, Kept
  <2> HIDE DEF H, Z
  <2> QED BY <1>1, <1>3, <2>1
<1>6. CASE state = 1 /\ sizebytesleft > 0
  <2> DEFINE L == IF stream[2] = Marker16 THEN 2 ELSE 4
  <2>1. p = 2 + B /\ B + sizebytesleft = L /\ stream[2] \in {Marker16, Marker32}
    BY <1>6 DEF Reading, Kept
  <2>2. stream[2] = Header(m.size)[1]
    <3>1. Starts(stream, m)
      BY FirstBytes
    <3>2. 1 \in 1 .. H
      BY <1>1, <1>3
    <3>3. stream[1 + 1] = Header(m.size)[1]
      BY <3>1, <3>2 DEF Starts
    <3> QED BY <3>3
  <2>3. H = 1 + L
    <3>1. LongSize(m.size, stream[2], L)
      BY <2>1, <2>2, MarkedHeader
    <3> QED BY <3>1 DEF LongSize
  <2>4. L \in Nat
    OBVIOUS
  <2> HIDE DEF H, Z, B, L
  <2> QED BY <1>1, <1>2, <1>6, <2>1, <2>3, <2>4
<1>7. CASE state = 3
  <2>1. p = 1 + H + B
    BY <1>7 DEF Reading, Kept
  <2>2. B < Z
    BY <1>7 DEF StreamInv, Chunks, Reading, Kept
  <2> HIDE DEF H, Z, B
  <2> QED BY <1>1, <1>2, <2>1, <2>2
<1> QED BY <1>2, <1>4, <1>5, <1>6, <1>7

(* However the stream is cut, a message is delivered in the call that gets *)
(* its last byte: between calls the next one is not on the wire complete.  *)
THEOREM PromptHolds ==
    ASSUME Readable
    PROVE  Spec => []Prompt
<1>1. ReaderInv /\ StreamInv => Prompt
  <2> DEFINE n == Len(delivered)
             N == Len(sent)
             W == Len(wire)
  <2> SUFFICES ASSUME ReaderInv, StreamInv, ~calling, ~refused, n + 1 <= N
               PROVE  W > BytesAfter(n + 1)
    BY DEF Prompt
  <2>1. PICK stream, p : Reading(stream, p)
    BY DEF StreamInv
  <2>2. /\ wire \in Seq(Nat) /\ data = <<>> /\ stream \in Seq(Nat) /\ p \in Nat
        /\ Follows(stream, p, Unread) /\ W \in Nat /\ n \in Nat /\ N \in Nat
    <3>1. wire \in Seq(Nat) /\ W \in Nat /\ N \in Nat
      BY Facts
    <3>2. data = <<>> /\ n \in Nat
      BY DEF StreamInv, Chunks
    <3>3. stream \in Seq(Nat) /\ p \in Nat /\ Follows(stream, p, Unread)
      BY <2>1 DEF Reading
    <3> QED BY <3>1, <3>2, <3>3
  <2>3. stream # <<>>
    <3>1. Encoded(n, sent, stream) /\ sent \in Seq(Messages)
      BY <2>1, Facts DEF Reading
    <3> QED BY <2>2, <3>1, EncodedSome
  <2>4. PICK m \in Messages :
          /\ m = sent[n + 1]
          /\ Len(Code(m)) <= Len(stream)
          /\ \A j \in 1 .. Len(Code(m)) : stream[j] = Code(m)[j]
    BY <2>1, <2>3, FirstMessage
  <2> DEFINE C == Len(Code(m))
             S == Len(stream)
  <2>5. p < C
    BY <2>1, <2>3, <2>4, MessageMissing
  <2>6. C \in Nat /\ S \in Nat
    BY <2>2, CodeFacts
  <2>7. W >= S - p
    <3>1. CASE gotfirstbyte
      <4>1. Unread = wire
        BY <2>2, <3>1 DEF Unread
      <4> QED BY <2>2, <2>6, <4>1 DEF Follows
    <3>2. CASE ~gotfirstbyte
      <4>1. wire # <<>>
        BY <3>2 DEF StreamInv, Chunks
      <4>2. Tail(wire) \in Seq(Nat) /\ Len(Tail(wire)) = W - 1
        BY <2>2, <4>1
      <4>3. Unread = Tail(wire)
        BY <2>2, <3>2, <4>2 DEF Unread
      <4> QED BY <2>2, <2>6, <4>2, <4>3 DEF Follows
    <3> QED BY <3>1, <3>2
  <2>8. S = Upto(ends, N) - Upto(ends, n)
    BY <2>1 DEF Reading, Measured
  <2>9. Upto(ends, n + 1) = Upto(ends, n) + C /\ Upto(ends, n) \in Nat /\ Upto(ends, N) \in Nat
    <3>1. /\ n + 1 \in 1 .. N /\ n \in 0 .. N /\ N \in 0 .. N /\ (n + 1) - 1 = n
      BY <2>2
    <3>2. ends[n + 1] = Upto(ends, (n + 1) - 1) + Len(Code(sent[n + 1]))
      BY <3>1 DEF StreamInv, Counted
    <3>3. Upto(ends, n + 1) = Upto(ends, n) + C
      <4>1. n + 1 # 0
        BY <3>1
      <4> QED BY <2>4, <3>1, <3>2, <4>1 DEF Upto
    <3>4. Upto(ends, n) \in Nat /\ Upto(ends, N) \in Nat
      <4>1. ends \in Seq(Nat) /\ Len(ends) = N
        BY DEF StreamInv, Counted
      <4> HIDE DEF N, n
      <4> QED BY <3>1, <4>1 DEF Upto
    <3> QED BY <3>3, <3>4
  <2>10. BytesAfter(n + 1) = Upto(ends, N) - Upto(ends, n + 1)
    BY DEF BytesAfter
  <2>11. W \in Nat /\ p \in Nat
    BY <2>2
  <2> DEFINE x == Upto(ends, N)
             y == Upto(ends, n)
             z == Upto(ends, n + 1)
  <2>12. S = x - y /\ z = y + C /\ x \in Nat /\ y \in Nat
    BY <2>8, <2>9
  <2> HIDE DEF C, S, W, x, y, z
  <2>13. W > x - z
    BY <2>5, <2>6, <2>7, <2>11, <2>12
  <2> QED BY <2>10, <2>13 DEF x, z
<1> QED BY <1>1, StreamSpec, PTL
=============================================================================
