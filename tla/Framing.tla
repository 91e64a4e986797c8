------------------------------ MODULE Framing ------------------------------
(***************************************************************************)
(* Messages over a TCP stream: the header that framebuilder puts before    *)
(* each (Lacewing/FrameBuilder.h) and framereader, which gets the bytes    *)
(* back in chunks of any size and hands whole messages to a handler        *)
(* (Lacewing/FrameReader.h).                                               *)
(*                                                                         *)
(* A byte is a number below Byte, 256 in the code; what the code writes    *)
(* as 254, 255, 0xffff and as integers of 16 and 32 bits is derived from   *)
(* it.  Every byte of a message's content is equal to its type, which      *)
(* makes some contents look like headers.                                  *)
(*                                                                         *)
(* process() works through its chunk message by message, with a call of    *)
(* itself for what is left; here each of its branches is an action, and    *)
(* `calling` says that the call goes on.                                   *)
(***************************************************************************)
EXTENDS Integers, Sequences

CONSTANTS Byte,
          Types, Sizes,   \* of the messages sent
          MaxSent         \* bound: messages sent

ASSUME FramingAssumption ==
    /\ Byte \in Nat /\ Byte >= 4 /\ Byte % 2 = 0
    /\ Types \subseteq 0 .. (Byte - 1)
    /\ Sizes \subseteq Nat
    /\ MaxSent \in Nat

Marker16 == Byte - 2                \* 254
Marker32 == Byte - 1                \* 255
Max16    == Byte * Byte - 1         \* 0xffff
Word     == Byte * Byte * Byte * Byte

VARIABLES
    sent,            \* the messages, in the order they were sent
    ends,            \* history: how many bytes had been sent with each
    wire,            \* the bytes on their way
    gotfirstbyte,    \* client::gotfirstbyte
    calling, data,   \* process() is running, with this much of the chunk left
    state,           \* 0: no type yet, 1: no size yet, 3: header read
    sizebytesleft, messagesize, messagetype, buffer,
    delivered,       \* the messages given to the handler
    refused          \* did the handler return false?

header == <<state, sizebytesleft, messagesize, messagetype>>
vars == <<sent, ends, wire, gotfirstbyte, calling, data, header, buffer, delivered, refused>>

(* A client's first byte is not part of any message. *)
Init == /\ sent = <<>>
        /\ ends = <<>>
        /\ wire = <<0>>
        /\ gotfirstbyte = FALSE
        /\ calling = FALSE
        /\ data = <<>>
        /\ state = 0
        /\ sizebytesleft = 0
        /\ messagesize = 0
        /\ messagetype = 0
        /\ buffer = <<>>
        /\ delivered = <<>>
        /\ refused = FALSE

(***************************************************************************)
(* The sender.                                                             *)
(***************************************************************************)

(* Integers of 16 and 32 bits, least significant byte first. *)
Bytes16(n) == <<n % Byte, n \div Byte>>
Bytes32(n) == Bytes16(n % (Byte * Byte)) \o Bytes16(n \div (Byte * Byte))

(* preparefortransmission: the size, after the type. *)
Header(size) ==
    IF size < Marker16 THEN <<size>>
    ELSE IF size < Max16 THEN <<Marker16>> \o Bytes16(size)
    ELSE <<Marker32>> \o Bytes32(size)

Content(m) == [i \in 1 .. m.size |-> m.type]

Length(m) == 1 + Len(Header(m.size)) + m.size

(* How many bytes the first k messages have. *)
Upto(cuts, k) == IF k = 0 THEN 0 ELSE cuts[k]

Send(type, size) ==
    /\ Len(sent) < MaxSent
    /\ LET m == [type |-> type, size |-> size]
       IN  /\ sent' = Append(sent, m)
           /\ ends' = Append(ends, Upto(ends, Len(ends)) + Length(m))
           /\ wire' = wire \o <<type>> \o Header(size) \o Content(m)
    /\ UNCHANGED <<gotfirstbyte, calling, data, header, buffer, delivered, refused>>

(***************************************************************************)
(* The reader.                                                             *)
(***************************************************************************)

(* generic_handlerreceive: a chunk of n bytes, less the very first. *)
Receive(n) ==
    LET chunk == SubSeq(wire, IF gotfirstbyte THEN 1 ELSE 2, n)
    IN  /\ ~calling /\ ~refused
        /\ wire' = SubSeq(wire, n + 1, Len(wire))
        /\ gotfirstbyte' = TRUE
        /\ data' = chunk
        /\ calling' = (chunk # <<>>)
        /\ UNCHANGED <<sent, ends, header, buffer, delivered, refused>>

(* The size is read as a signed integer and kept in an unsigned one. *)
SizeIn(bytes) ==
    IF Len(bytes) = 2
    THEN LET n == bytes[1] + Byte * bytes[2]
         IN  IF 2 * n < Byte * Byte THEN n ELSE Word - Byte * Byte + n
    ELSE bytes[1] + Byte * (bytes[2] + Byte * (bytes[3] + Byte * bytes[4]))

(* Each turn of process()'s loop takes a byte of the header. *)
HeaderByte(byte, next) == /\ calling /\ data # <<>>
                          /\ byte = Head(data)
                          /\ state = next
                          /\ data' = Tail(data)
                          /\ UNCHANGED <<sent, ends, wire, gotfirstbyte, calling, delivered, refused>>

TypeByte(byte) ==
    /\ HeaderByte(byte, 0)
    /\ messagetype' = byte
    /\ state' = 1
    /\ sizebytesleft' = 0
    /\ UNCHANGED <<messagesize, buffer>>

FirstSizeByte(byte) ==
    /\ HeaderByte(byte, 1)
    /\ sizebytesleft = 0
    /\ IF byte \in {Marker16, Marker32}
       THEN /\ sizebytesleft' = (IF byte = Marker16 THEN 2 ELSE 4)
            /\ UNCHANGED <<messagesize, state>>
       ELSE /\ messagesize' = byte
            /\ state' = 3
            /\ UNCHANGED sizebytesleft
    /\ UNCHANGED <<messagetype, buffer>>

(* Fault: the bytes of the size are left in the buffer. *)
SizeByte_KeepsBuffer(byte) ==
    /\ HeaderByte(byte, 1)
    /\ sizebytesleft > 0
    /\ sizebytesleft' = sizebytesleft - 1
    /\ buffer' = Append(buffer, byte)
    /\ IF sizebytesleft = 1
       THEN messagesize' = SizeIn(Append(buffer, byte)) /\ state' = 3
       ELSE UNCHANGED <<messagesize, state>>
    /\ UNCHANGED messagetype

SizeByte(byte) ==
    /\ HeaderByte(byte, 1)
    /\ sizebytesleft > 0
    /\ sizebytesleft' = sizebytesleft - 1
    /\ IF sizebytesleft = 1
       THEN /\ messagesize' = SizeIn(Append(buffer, byte))
            /\ buffer' = <<>>
            /\ state' = 3
       ELSE /\ buffer' = Append(buffer, byte)
            /\ UNCHANGED <<messagesize, state>>
    /\ UNCHANGED messagetype

(* Fault: a chunk that ends with a header waits for the next one, even if  *)
(* there is nothing to wait for.                                           *)
HeaderIncomplete_AnyState ==
    /\ calling /\ data = <<>>
    /\ calling' = FALSE
    /\ UNCHANGED <<sent, ends, wire, gotfirstbyte, data, header, buffer, delivered, refused>>

(* The chunk ends inside the header. *)
HeaderIncomplete ==
    /\ calling /\ data = <<>>
    /\ state < 3
    /\ calling' = FALSE
    /\ UNCHANGED <<sent, ends, wire, gotfirstbyte, data, header, buffer, delivered, refused>>

(* messagehandler gets a message; rest is the chunk after it.  When it     *)
(* returns false process() returns at once.                                *)
Handled(content, rest) ==
    \E ok \in BOOLEAN :
        /\ delivered' = Append(delivered, <<messagetype, content>>)
        /\ refused' = ~ok
        /\ state' = IF ok THEN 0 ELSE 3
        /\ calling' = (ok /\ rest # <<>>)
        /\ data' = IF ok THEN rest ELSE <<>>
        /\ UNCHANGED <<sizebytesleft, messagesize, messagetype>>

(* The message is in this chunk from its start to its end. *)
Unfragmented ==
    /\ calling /\ state = 3
    /\ buffer = <<>>
    /\ Len(data) >= messagesize
    /\ Handled(SubSeq(data, 1, messagesize), SubSeq(data, messagesize + 1, Len(data)))
    /\ UNCHANGED <<sent, ends, wire, gotfirstbyte, buffer>>

(* Fault: all that is left of the chunk is taken. *)
Taken_All == Len(data)

Taken == LET missing == messagesize - Len(buffer)
         IN  IF Len(data) < missing THEN Len(data) ELSE missing

(* The message is put together in the buffer. *)
Fragment ==
    /\ calling /\ state = 3
    /\ buffer # <<>> \/ Len(data) < messagesize
    /\ LET whole == buffer \o SubSeq(data, 1, Taken)
       IN  IF Len(whole) = messagesize
           THEN /\ Handled(whole, SubSeq(data, Taken + 1, Len(data)))
                /\ buffer' = IF refused' THEN whole ELSE <<>>
           ELSE /\ buffer' = whole
                /\ data' = <<>>
                /\ calling' = FALSE
                /\ UNCHANGED <<header, delivered, refused>>
    /\ UNCHANGED <<sent, ends, wire, gotfirstbyte>>

Next ==
    \/ \E type \in Types, size \in Sizes : Send(type, size)
    \/ \E n \in 1 .. Len(wire) : Receive(n)
    \/ \E byte \in 0 .. (Byte - 1) : TypeByte(byte) \/ FirstSizeByte(byte) \/ SizeByte(byte)
    \/ HeaderIncomplete
    \/ Unfragmented \/ Fragment

Spec == Init /\ [][Next]_vars

-----------------------------------------------------------------------------
(***************************************************************************)
(* Properties.                                                             *)
(***************************************************************************)

(* The reader's state is one it can be in: it never holds more of a        *)
(* message than there is, nor anything but size bytes before that.         *)
TypeOK ==
    /\ state \in {0, 1, 3}
    /\ sizebytesleft \in 0 .. 4
    /\ messagesize \in 0 .. (Word - 1) /\ messagetype \in 0 .. (Byte - 1)
    /\ state = 3 => Len(buffer) <= messagesize
    /\ state = 1 => Len(buffer) < 4
    /\ state = 0 => buffer = <<>>

(* What the handler gets is what was sent, in order, however it was cut.   *)
InOrder ==
    /\ Len(delivered) <= Len(sent)
    /\ \A i \in 1 .. Len(delivered) : delivered[i] = <<sent[i].type, Content(sent[i])>>

(* The bytes of the messages sent after the i-th. *)
BytesAfter(i) == Upto(ends, Len(sent)) - Upto(ends, i)

(* The 16-bit sizes with the sign bit set, which SizeIn misreads. *)
Misread(m) == m.size < Max16 /\ 2 * m.size >= Byte * Byte

(* A message is handed over in the call that gets its last byte: between   *)
(* calls, some of the first one not delivered is still on its way, unless  *)
(* its size is misread (then nothing more is delivered).                   *)
Prompt ==
    LET next == Len(delivered) + 1
    IN  ~calling /\ ~refused /\ next <= Len(sent) /\ ~Misread(sent[next])
        => Len(wire) > BytesAfter(next)

(* "16 bit message size to follow" (FrameReader.h): the same, whatever the *)
(* size.                                                                   *)
AnySizePrompt ==
    LET next == Len(delivered) + 1
    IN  ~calling /\ ~refused /\ next <= Len(sent) => Len(wire) > BytesAfter(next)
=============================================================================
