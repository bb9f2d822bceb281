------------------------------ MODULE ByteArray ------------------------------
(***************************************************************************)
(* acid::ByteArray (common/byte_array.cpp): a growing chain of blocks of   *)
(* one size, read and written at one position, and the encodings of its    *)
(* typed calls.  An array is a record: mem is the bytes of its blocks in   *)
(* order, pos, size the fields of those names, cur the block m_cur points  *)
(* at (0 for m_root, Nil for the null pointer past the last block).  No    *)
(* operator has state; Wire.tla keeps one array and calls them.            *)
(*                                                                         *)
(* A memory access the code makes outside its block, or through a null     *)
(* m_cur, has no defined result: ok becomes FALSE and the array is not     *)
(* followed any further.  An exception leaves thrown set.                  *)
(*                                                                         *)
(* Widths are scaled: a "byte" is Group + 1 bits (8 in the code, Group     *)
(* being the 7 bits a varint byte carries), an integer Bits bits (32, 64). *)
(***************************************************************************)
EXTENDS Integers, Sequences

CONSTANTS BaseSize, Group, Bits

ASSUME SizesAssumption == /\ BaseSize \in Nat \ {0}
                          /\ Group \in Nat \ {0}
                          /\ Bits \in Nat \ {0}

Nil     == -1
Unknown == -1             \* what memory nobody wrote holds
\* 2 ^ n.
Pow2[n \in Nat] == IF n = 0 THEN 1 ELSE 2 * Pow2[n - 1]
Radix   == Pow2[Group + 1]

Least(a, b) == IF a < b THEN a ELSE b
Most(a, b)  == IF a < b THEN b ELSE a

\* One fresh block.
Fresh(n) == [i \in 1 .. n * BaseSize |-> Unknown]
New == [mem |-> Fresh(1), pos |-> 0, size |-> 0, cur |-> 0, ok |-> TRUE, thrown |-> FALSE]

Nodes(ba)     == Len(ba.mem) \div BaseSize
ReadSize(ba)  == ba.size - ba.pos
GetCapacity(ba)  == Len(ba.mem) - ba.pos
Npos(p)       == p % BaseSize
\* The address the block in cur and the offset of a position make.
AddressOf(ba, p) == ba.cur * BaseSize + Npos(p)
\* Mutant: a block that was filled exactly stays the current one.
NodeAtLate(ba, a) == IF a = 0 THEN 0 ELSE (a - 1) \div BaseSize

\* The block a walk that stops at an address ends in.
NodeAt(ba, a) == IF a \div BaseSize < Nodes(ba) THEN a \div BaseSize ELSE Nil
Undefined(ba) == [ba EXCEPT !.ok = FALSE]
Throws(ba)    == [ba EXCEPT !.thrown = TRUE]
Bytes(ba, a, n) == SubSeq(ba.mem, a + 1, a + n)

AddCapacity(ba, n) ==
  LET old   == GetCapacity(ba)
      count == (n - old + BaseSize - 1) \div BaseSize
  IN  IF n = 0 \/ old > n THEN ba
      ELSE [ba EXCEPT !.mem = @ \o Fresh(count), !.cur = IF old = 0 THEN Nodes(ba) ELSE @]

Overwrite(mem, a, s) == [i \in DOMAIN mem |-> IF i - a \in DOMAIN s THEN s[i - a] ELSE mem[i]]

Write(ba0, s) ==
  LET ba == AddCapacity(ba0, Len(s))
      a  == AddressOf(ba, ba.pos)
  IN  IF s = <<>> THEN ba0
      ELSE IF ba.cur = Nil THEN Undefined(ba)
      ELSE [ba EXCEPT !.mem  = Overwrite(@, a, s),
                      !.cur  = NodeAt(ba, a + Len(s)),
                      !.pos  = @ + Len(s),
                      !.size = Most(@, ba.pos + Len(s))]

(***************************************************************************)
(* read(): the room left in the current block is taken as the block's size *)
(* minus m_position, not minus its offset in the block.  In the first      *)
(* block the two agree; at its end nothing is taken to be left and the     *)
(* walk skips a block; beyond, the unsigned difference is huge, the copy   *)
(* runs on past the block and m_cur stays where it was.                    *)
(***************************************************************************)
NodeRoom(ba) == IF ba.pos <= BaseSize THEN BaseSize - ba.pos ELSE BaseSize + ba.size
Moved(ba, n, node) == [ba EXCEPT !.pos = @ + n, !.cur = node]

Read(ba, n) ==
  LET a == IF NodeRoom(ba) = 0 THEN (ba.cur + 1) * BaseSize ELSE AddressOf(ba, ba.pos)
      result(data, array) == [data |-> data, ba |-> array]
  IN  IF n > ReadSize(ba) THEN result(<<>>, Throws(ba))
      ELSE IF ba.cur = Nil THEN result(<<>>, Undefined(ba))
      ELSE IF n = 0 THEN result(<<>>, ba)
      ELSE IF NodeRoom(ba) > BaseSize
           THEN IF Npos(ba.pos) + n <= BaseSize
                THEN result(Bytes(ba, a, n), Moved(ba, n, ba.cur))
                ELSE result(<<>>, Undefined(ba))
      ELSE IF a + n <= Len(ba.mem) THEN result(Bytes(ba, a, n), Moved(ba, n, NodeAt(ba, a + n)))
      ELSE result(<<>>, Undefined(ba))

\* read(buffer, size, position): the position's offset in whatever block is
\* the current one.
ReadAt(ba, n, p) ==
  IF p <= ba.size /\ n > ba.size - p THEN [data |-> <<>>, ba |-> Throws(ba)]
  ELSE IF ba.cur = Nil \/ AddressOf(ba, p) + n > Len(ba.mem) THEN [data |-> <<>>, ba |-> Undefined(ba)]
  ELSE [data |-> Bytes(ba, AddressOf(ba, p), n), ba |-> ba]

\* to_string(): what is left to read.
Rest(ba) == IF ReadSize(ba) = 0 THEN [data |-> <<>>, ba |-> ba]
                ELSE ReadAt(ba, ReadSize(ba), ba.pos)

SetPosition(ba, p) ==
  IF p \notin 0 .. Len(ba.mem) THEN Throws(ba)
  ELSE [ba EXCEPT !.pos = p, !.size = Most(@, p), !.cur = NodeAt(ba, p)]

Clear(ba) == [ba EXCEPT !.mem = SubSeq(@, 1, BaseSize), !.pos = 0, !.size = 0, !.cur = 0]

\* The file write_to_file() makes of what is left to read: the first piece
\* is cut to a block before the offset is taken off it, so the tail of an
\* array that is read from inside a block goes wrong.
ToFile(ba) ==
  LET n == ReadSize(ba)
  IN  IF n = 0 THEN [data |-> <<>>, ba |-> ba]
      ELSE IF ba.cur = Nil \/ (Npos(ba.pos) > 0 /\ n <= BaseSize)
           THEN [data |-> <<>>, ba |-> Undefined(ba)]
      ELSE ReadAt(ba, n, ba.pos)

\* read_from_file(): block by block through write().
FromFile(ba, file) ==
  LET piece(k) == SubSeq(file, k * BaseSize + 1, Least((k + 1) * BaseSize, Len(file)))
      after[k \in 0 .. (Len(file) \div BaseSize) + 1] ==
        IF k = 0 THEN ba ELSE Write(after[k - 1], piece(k - 1))
  IN  after[(Len(file) \div BaseSize) + 1]

(***************************************************************************)
(* get_read_buffers(), get_write_buffers(): the loop leaves before it adds *)
(* the piece that ends the range to the vector, so of len bytes only those *)
(* before the last block the range touches are offered.                    *)
(***************************************************************************)
Offered(ba, p, n) ==
  LET first == BaseSize - Npos(p)
  IN  IF n <= first THEN 0 ELSE first + ((n - first - 1) \div BaseSize) * BaseSize

ReadBuffers(ba, n) ==
  LET len == Least(n, ReadSize(ba))
  IN  IF len = 0 THEN <<>> ELSE Bytes(ba, AddressOf(ba, ba.pos), Offered(ba, ba.pos, len))

\* The same from a position, counted in blocks from the current one.
ReadBuffersAt(ba, n, p) ==
  LET len == Least(n, ReadSize(ba))
      a   == AddressOf(ba, p) + (p \div BaseSize) * BaseSize
  IN  IF len = 0 THEN <<>> ELSE Bytes(ba, a, Offered(ba, p, len))

\* How many bytes the peer may put into the array.
WriteBuffers(ba, n) ==
  IF n = 0 THEN 0 ELSE LET b == AddCapacity(ba, n) IN Offered(b, b.pos, n)

-----------------------------------------------------------------------------
(***************************************************************************)
(* Typed values, each a sequence of bytes.  Signed values are given as     *)
(* integers.                                                               *)
(***************************************************************************)
\* Big endian, n bytes, whatever does not fit cut off.
FixBytes(v, n) == [i \in 1 .. n |-> (v \div Pow2[(n - i) * (Group + 1)]) % Radix]
FixValue(s) ==
  LET upTo[i \in 0 .. Len(s)] == IF i = 0 THEN 0 ELSE upTo[i - 1] * Radix + s[i]
  IN  upTo[Len(s)]
Signed(v, w)   == IF v < Pow2[w - 1] THEN v ELSE v - Pow2[w]

EncodeZigzag(v) == IF v >= 0 THEN 2 * v ELSE -2 * v - 1
DecodeZigzag(u) == IF u % 2 = 0 THEN u \div 2 ELSE -((u + 1) \div 2)

\* The bytes a varint takes at most, and those of one value.
VarMost == (Bits + Group - 1) \div Group
VarLen(v) == CHOOSE n \in 1 .. VarMost : /\ v < Pow2[n * Group]
                                         /\ n > 1 => v >= Pow2[(n - 1) * Group]
VarBytes(v) ==
  [i \in 1 .. VarLen(v) |->
     ((v \div Pow2[(i - 1) * Group]) % Pow2[Group]) + (IF i < VarLen(v) THEN Pow2[Group] ELSE 0)]

\* Mutant: every byte shifted by its full width.
VarStepWide(r) ==
  LET b == Read(r.ba, 1)
  IN  IF ~r.more \/ b.data = <<>> THEN r
      ELSE [ba    |-> b.ba,
            value |-> (r.value + (b.data[1] % Pow2[Group]) * Pow2[r.shift]) % Pow2[Bits],
            shift |-> r.shift + Group + 1,
            more  |-> b.data[1] >= Pow2[Group]]

\* read_var_uint32(): one byte at a time, until one without the high bit or
\* the width is used up; what is shifted out of the integer is lost.  A
\* reader is the array, the value so far and the bits taken.
VarStep(r) ==
  LET b == Read(r.ba, 1)
      go == r.more /\ r.ba.ok /\ ~r.ba.thrown
  IN  IF ~go THEN r
      ELSE IF b.data = <<>> THEN [r EXCEPT !.ba = b.ba]
      ELSE [ba    |-> b.ba,
            value |-> (r.value + (b.data[1] % Pow2[Group]) * Pow2[r.shift]) % Pow2[Bits],
            shift |-> r.shift + Group,
            more  |-> b.data[1] >= Pow2[Group]]

ReadVar(ba) ==
  LET after[i \in 0 .. VarMost] ==
        IF i = 0 THEN [ba |-> ba, value |-> 0, shift |-> 0, more |-> TRUE]
        ELSE VarStep(after[i - 1])
  IN  after[VarMost]
==============================================================================
