-------------------------------- MODULE Wire --------------------------------
(***************************************************************************)
(* What carries a call's data: rpc::Serializer (rpc/serializer.h) putting  *)
(* values into a ByteArray and taking them out, Protocol framing the bytes *)
(* of the array (rpc/protocol.cpp), and the frame going over a connection  *)
(* by RpcSession, Stream and SocketStream.                                 *)
(*                                                                         *)
(* One user works on one array: it writes values, goes back to the start,  *)
(* reads them, seeks, clears, or frames and sends what it wrote while the  *)
(* connection loses room, times out or is closed under it.  items, next    *)
(* and flat are history: the values written in order, the one to be read   *)
(* next, and the bytes written by position.  strayed says that a read      *)
(* started past the first block (ByteArray.tla, Read).                     *)
(***************************************************************************)
EXTENDS ByteArray

CONSTANTS Items,      \* values the user writes
          MaxItems,   \* values in the array at most
          MaxBytes,   \* and bytes
          MaxSeeks,   \* seeks and clears of the user at most
          MaxFails    \* failing system calls during a send at most

\* The values are of the types the code gives them.
Int8   == -Pow2[Group] .. Pow2[Group] - 1
Uint16 == 0 .. Radix * Radix - 1
Uint32 == 0 .. Pow2[Bits] - 1
Int32  == -Pow2[Bits - 1] .. Pow2[Bits - 1] - 1
Typed(it) ==
  LET v == it.value
  IN  \/ it.type = "int8"   /\ v \in Seq(Int8) /\ Len(v) = 1
      \/ it.type = "uint16" /\ v \in Seq(Uint16) /\ Len(v) = 1
      \/ it.type = "uint32" /\ v \in Seq(Uint32) /\ Len(v) = 1
      \/ it.type = "int32"  /\ v \in Seq(Int32) /\ Len(v) = 1
      \/ it.type = "string" /\ v \in Seq(0 .. Radix - 1) /\ Len(v) \in Uint32
      \/ it.type = "list"   /\ v \in Seq(Int32) /\ Len(v) \in Uint32
      \/ it.type = "tuple"  /\ v \in Int8 \X Uint32
      \/ it.type = "map"    /\ v \in Seq(Uint32) /\ Len(v) \in Uint32 /\ Len(v) % 2 = 0

ASSUME WireAssumption ==
  /\ MaxItems \in Nat /\ MaxBytes \in Nat /\ MaxSeeks \in Nat /\ MaxFails \in Nat
  /\ \A it \in Items : Typed(it)

VARIABLES ba, mode, items, next, flat, strayed, got, seeks, frame, arrived, send, conn, fails

arrayVars == <<ba, items, next, flat, strayed, got, seeks>>
sendVars  == <<frame, arrived, send, conn, fails>>
wireVars == <<mode, arrayVars, sendVars>>

Nothing == [type |-> "none", value |-> <<>>, expected |-> <<>>, pos |-> 0]
NoSend  == [left |-> 0, ret |-> "none"]

\* Serializer::write() by type, and the containers.  For a map operator<<
\* of a const pair resolves to the generic one, whose write() knows no pair:
\* only the size is written.
Varints(s) ==
  LET upTo[i \in 0 .. Len(s)] ==
        IF i = 0 THEN <<>> ELSE upTo[i - 1] \o VarBytes(EncodeZigzag(s[i]))
  IN  upTo[Len(s)]
StringBytes(s) == VarBytes(Len(s)) \o s
SequenceBytes(s) == VarBytes(Len(s)) \o Varints(s)
TupleBytes(s) == FixBytes(s[1], 1) \o VarBytes(s[2])
MapBytes(s) == VarBytes(Len(s) \div 2)
Encode(it) ==
  CASE it.type = "int8"   -> FixBytes(it.value[1], 1)
    [] it.type = "uint16" -> FixBytes(it.value[1], 2)
    [] it.type = "uint32" -> VarBytes(it.value[1])
    [] it.type = "int32"  -> VarBytes(EncodeZigzag(it.value[1]))
    [] it.type = "string" -> StringBytes(it.value)
    [] it.type = "list"   -> SequenceBytes(it.value)
    [] it.type = "tuple"  -> TupleBytes(it.value)
    [] it.type = "map"    -> MapBytes(it.value)

\* A reader: the array and the values taken from it.  An exception or an
\* undefined access ends the reading.
Going(r)     == r.ba.ok /\ ~r.ba.thrown
Took(r, b, v) == [ba |-> b, value |-> IF b.ok /\ ~b.thrown THEN Append(r.value, v) ELSE r.value]
TakeFix(r, n) == LET b == Read(r.ba, n) IN IF Going(r) THEN Took(r, b.ba, FixValue(b.data)) ELSE r
TakeInt8(r)   == LET b == Read(r.ba, 1)
                 IN  IF Going(r) THEN Took(r, b.ba, Signed(FixValue(b.data), Group + 1)) ELSE r
TakeVar(r)   == LET b == ReadVar(r.ba) IN IF Going(r) THEN Took(r, b.ba, b.value) ELSE r
TakeZigzag(r) == LET b == ReadVar(r.ba) IN IF Going(r) THEN Took(r, b.ba, DecodeZigzag(b.value)) ELSE r
Times(r, n, Op(_)) ==
  LET after[i \in 0 .. n] == IF i = 0 THEN r ELSE Op(after[i - 1])
  IN  after[n]
\* A count, which is not part of the value, and what follows it.
TakeCount(r) == LET c == ReadVar(r.ba)
                IN  [r |-> [r EXCEPT !.ba = c.ba],
                     count |-> IF c.ba.ok /\ ~c.ba.thrown THEN c.value ELSE 0]
TakeString(r) == LET c == TakeCount(r)
                     b == Read(c.r.ba, c.count)
                 IN  IF Going(c.r) THEN [ba |-> b.ba, value |-> b.data] ELSE c.r
TakeList(r) == LET c == TakeCount(r) IN Times(c.r, c.count, TakeZigzag)
TakeMap(r)  == LET c == TakeCount(r) IN Times(c.r, 2 * c.count, TakeVar)

Decode(b, type) ==
  LET r == [ba |-> [b EXCEPT !.thrown = FALSE], value |-> <<>>]
  IN  CASE type = "int8"   -> TakeInt8(r)
        [] type = "uint16" -> TakeFix(r, 2)
        [] type = "uint32" -> TakeVar(r)
        [] type = "int32"  -> TakeZigzag(r)
        [] type = "string" -> TakeString(r)
        [] type = "list"   -> TakeList(r)
        [] type = "tuple"  -> TakeVar(TakeInt8(r))
        [] type = "map"    -> TakeMap(r)

WireInit ==
  /\ ba = New /\ mode = "write" /\ items = <<>> /\ next = 1 /\ flat = <<>> /\ strayed = FALSE
  /\ got = Nothing /\ seeks = 0
  /\ frame = New /\ arrived = <<>> /\ send = NoSend /\ conn = TRUE /\ fails = 0

\* The bytes by position once s is written at p.
Known(p, s) == [i \in 1 .. Most(Len(flat), p + Len(s)) |->
                  IF i - p \in DOMAIN s THEN s[i - p]
                  ELSE IF i <= Len(flat) THEN flat[i] ELSE Unknown]

\* serializer << value
Put(it) ==
  LET s == Encode(it)
  IN  /\ mode \in {"write", "raw"} /\ Len(items) < MaxItems /\ ba.ok
      /\ ba.pos + Len(s) <= MaxBytes
      /\ ba' = Write([ba EXCEPT !.thrown = FALSE], s)
      /\ items' = IF mode = "write" THEN Append(items, it) ELSE items
      /\ flat' = Known(ba.pos, s)
      /\ mode' = IF mode = "write" THEN mode ELSE "over"
      /\ UNCHANGED <<next, strayed, got, seeks, sendVars>>

\* Serializer::reset()
Reset ==
  /\ mode = "write" /\ items # <<>> /\ ba.ok
  /\ ba' = SetPosition([ba EXCEPT !.thrown = FALSE], 0)
  /\ mode' = "read" /\ next' = 1
  /\ UNCHANGED <<items, flat, strayed, got, seeks, sendVars>>

\* serializer >> value, of the type that was written there.
Get ==
  LET r == Decode(ba, items[next].type)
  IN  /\ mode = "read" /\ next <= Len(items) /\ ba.ok
      /\ ba' = r.ba
      /\ got' = [type |-> items[next].type, value |-> r.value,
                 expected |-> items[next].value, pos |-> r.ba.pos]
      /\ next' = next + 1
      /\ strayed' = (strayed \/ r.ba.pos > BaseSize)
      /\ mode' = IF r.ba.thrown THEN "over" ELSE mode
      /\ UNCHANGED <<items, flat, seeks, sendVars>>

\* Serializer::offset(), ByteArray::set_position(): the user goes anywhere
\* and writes once more from there (mode "raw": not a sequence of values
\* from 0).
Seek(p) ==
  /\ send = NoSend /\ ba.ok /\ seeks < MaxSeeks
  /\ seeks' = seeks + 1
  /\ ba' = SetPosition([ba EXCEPT !.thrown = FALSE], p)
  /\ flat' = IF ba'.thrown THEN flat ELSE Known(p, <<>>)
  /\ mode' = IF ba'.pos = 0 THEN "write" ELSE "raw"
  /\ items' = <<>> /\ got' = Nothing
  /\ UNCHANGED <<next, strayed, sendVars>>

\* Serializer::clear(), ByteArray::clear()
ClearArray ==
  /\ send = NoSend /\ ba.ok /\ seeks < MaxSeeks
  /\ seeks' = seeks + 1
  /\ ba' = Clear([ba EXCEPT !.thrown = FALSE])
  /\ flat' = <<>> /\ items' = <<>> /\ next' = 1 /\ strayed' = FALSE /\ got' = Nothing
  /\ mode' = "write"
  /\ UNCHANGED sendVars

-----------------------------------------------------------------------------
\* Protocol: magic, type, sequence id, the length of the content, the
\* content (version, like magic, is a constant and is left out).
Magic == 3
BaseLength == 5

\* The length field holds the length of every content that fits a block: 32
\* bits of it for blocks of 4096 bytes.
ASSUME FrameAssumption == BaseSize - BaseLength < Radix * Radix

Header(type, id, n) == <<Magic, type, id>> \o FixBytes(n, 2)
EncodeFrame(type, id, content) ==
  SetPosition(Write(New, Header(type, id, Len(content)) \o content), 0)
DecodeFrame(f) ==
  LET h == Times([ba |-> f, value |-> <<>>], 3, LAMBDA q : TakeFix(q, 1))
      n == TakeFix(h, 2)
      c == Read(n.ba, n.value[4])
  IN  [magic |-> n.value[1], type |-> n.value[2], id |-> n.value[3], content |-> c.data]

\* send_protocol(): a response whose content is Serializer::to_string();
\* the serializer and its array go out of scope, flat is now the content.
SendProtocol ==
  LET text == Rest(ba)
  IN  /\ mode = "read" /\ next = 1 /\ ba.ok
      /\ ba' = New /\ items' = <<>> /\ flat' = text.data
      /\ seeks' = MaxSeeks /\ strayed' = FALSE
      /\ frame' = EncodeFrame(2, 1, text.data)
      /\ send' = [left |-> frame'.size, ret |-> "none"]
      /\ mode' = "send"
      /\ UNCHANGED <<next, got, arrived, conn, fails>>

\* Mutant: the array not moved past what was sent.
SendsAgain(n) ==
  LET offered == ReadBuffers(frame, send.left)
  IN  /\ mode = "send" /\ send.ret = "none" /\ conn
      /\ n \in 0 .. Len(offered) /\ (n = 0 => offered = <<>>)
      /\ arrived' = arrived \o SubSeq(offered, 1, n)
      /\ send' = IF n = 0 THEN [send EXCEPT !.ret = "closed"]
                 ELSE [left |-> send.left - n, ret |-> IF send.left = n THEN "sent" ELSE "none"]
      /\ UNCHANGED <<mode, arrayVars, frame, conn, fails>>

\* One turn of write_fix_size() over SocketStream::write(): the kernel takes
\* some of what is offered and the array moves on by as much.  A vector of
\* no pieces sends nothing, and 0 is returned as "closed".
Sends(n) ==
  LET offered == ReadBuffers(frame, send.left)
  IN  /\ mode = "send" /\ send.ret = "none" /\ conn
      /\ n \in 0 .. Len(offered) /\ (n = 0 => offered = <<>>)
      /\ arrived' = arrived \o SubSeq(offered, 1, n)
      /\ frame' = IF n = 0 THEN frame ELSE SetPosition(frame, frame.pos + n)
      /\ send' = IF n = 0 THEN [send EXCEPT !.ret = "closed"]
                 ELSE [left |-> send.left - n, ret |-> IF send.left = n THEN "sent" ELSE "none"]
      /\ UNCHANGED <<mode, arrayVars, conn, fails>>

\* The system call fails (a timeout, or the socket was closed by another
\* fiber and is not connected any more): -1 is a huge size_t to the loop,
\* which takes it for progress and has one byte more left.
SendFails ==
  /\ mode = "send" /\ send.ret = "none" /\ fails < MaxFails
  /\ fails' = fails + 1
  /\ conn' \in {conn, FALSE}
  /\ send' = [send EXCEPT !.left = @ + 1]
  /\ UNCHANGED <<mode, arrayVars, frame, arrived>>

\* The other end: recv_protocol() reads the header into a fresh array.
RecvProtocol ==
  /\ mode = "send" /\ send.ret # "none" /\ arrived # <<>>
  /\ WriteBuffers(New, BaseLength) = 0
  /\ mode' = "over"
  /\ UNCHANGED <<arrayVars, sendVars>>

SetFromFile(file) ==
  /\ mode \in {"write", "raw"} /\ items = <<>> /\ ba.ok /\ seeks < MaxSeeks
  /\ seeks' = seeks + 1
  /\ ba' = FromFile([ba EXCEPT !.thrown = FALSE], file)
  /\ flat' = Known(ba.pos, file)
  /\ mode' = "raw"
  /\ UNCHANGED <<items, next, strayed, got, sendVars>>

\* A file the user reads in: longer than one block.
File == [i \in 1 .. BaseSize + 2 |-> i % Radix]

\* Where a user may go: around the ends of a block and of the array, and
\* out of it on both sides.
Places == {-1, 0, 1, BaseSize - 1, BaseSize, BaseSize + 1, Len(ba.mem), Len(ba.mem) + 1}

WireNext ==
  \/ \E it \in Items : Put(it)
  \/ Reset
  \/ Get
  \/ \E p \in Places : Seek(p)
  \/ ClearArray
  \/ SetFromFile(File)
  \/ SendProtocol
  \/ \E n \in 0 .. BaseSize * Nodes(frame) : Sends(n)
  \/ SendFails
  \/ RecvProtocol

WireSpec == WireInit /\ [][WireNext]_wireVars

-----------------------------------------------------------------------------
\* The array's fields hold together: the position is inside the data, the
\* data inside whole blocks (byte_array.cpp).
WireTypeOK ==
  /\ Len(ba.mem) % BaseSize = 0 /\ ba.pos \in 0 .. ba.size /\ ba.size <= Len(ba.mem)
  /\ ba.cur \in (0 .. Nodes(ba) - 1) \cup {Nil}
  /\ ba.ok \in BOOLEAN /\ ba.thrown \in BOOLEAN
  /\ mode \in {"write", "raw", "read", "send", "over"}
  /\ items \in Seq(Items) /\ next \in 1 .. MaxItems + 1
  /\ send.left \in 0 .. Len(frame.mem) + MaxFails /\ send.ret \in {"none", "closed", "sent"}

\* Whatever is written, wherever, across however many blocks and after
\* whatever seeks, the array is a flat sequence of bytes: each is where it
\* was written, m_cur is the block of the position, to_string() is the rest
\* of the data, a vector of read buffers a prefix of it, and a file of an
\* array at the start of a block the whole rest (write, add_capacity,
\* set_position, clear, read_from_file).  A read past the first block ends
\* that.
Agree(s, known) == /\ Len(s) = Len(known)
                   /\ \A i \in DOMAIN s : known[i] \in {Unknown, s[i]}
BytesKept ==
  (~strayed /\ ba.ok /\ send = NoSend) =>
     /\ Agree(SubSeq(ba.mem, 1, ba.size), flat)
     /\ ba.cur = LET b == ba.pos \div BaseSize IN IF b < Nodes(ba) THEN b ELSE Nil
     /\ Agree(Rest(ba).data, SubSeq(flat, ba.pos + 1, ba.size))
     /\ ba.cur = 0 => LET offered == ReadBuffersAt(ba, ba.size, ba.pos)
                      IN  Agree(offered, SubSeq(flat, ba.pos + 1, ba.pos + Len(offered)))
     /\ Npos(ba.pos) = 0 => Agree(ToFile(ba).data, SubSeq(flat, ba.pos + 1, ba.size))

\* None of the first n values is a map with an element.
Plain(n) == \A i \in 1 .. n : items[i].type = "map" => items[i].value = <<>>

\* Every value read in the order of the writes is the value written, and no
\* read of it throws or leaves its block, while it ends inside the first
\* block and no map with an element came before it (serializer.h,
\* byte_array.cpp read and write).
RoundTrip ==
  (mode \in {"read", "over"} /\ got # Nothing /\ Plain(next - 1) /\ got.pos < BaseSize) =>
     ba.ok /\ ~ba.thrown /\ got.value = got.expected

\* What reaches the other end is at every moment a prefix of the frame:
\* failed and partial sends neither lose, repeat nor reorder a byte of it
\* (Stream::write_fix_size over SocketStream::write), and nothing is
\* reported as sent that was not.
LinePrefix ==
  mode = "send" => /\ arrived = SubSeq(frame.mem, 1, Len(arrived))
                   /\ send.ret = "sent" => Len(arrived) = frame.size

\* decode() of an encoded frame that fits a block gives back its fields
\* (protocol.cpp encode, decode, decode_meta).
FrameDecodes ==
  (mode = "send" /\ frame.pos = 0 /\ frame.size <= BaseSize) =>
     DecodeFrame(frame) = [magic |-> Magic, type |-> 2, id |-> 1, content |-> flat]

\* The fields of the array fit together and its bytes are those written
\* (byte_array.cpp).
ArraySound == WireTypeOK /\ BytesKept

\* What is encoded decodes to itself, a value and a frame, as far as the array
\* reads what it has (serializer.h, protocol.cpp).
ValuesKept == RoundTrip /\ FrameDecodes
==============================================================================
