-------------------------------- MODULE Buffer --------------------------------
(***************************************************************************)
(* muduo::net::Buffer: bytes between two indices of a vector that grows.   *)
(* The operations are functions of a buffer [cells, reader, writer];       *)
(* cells[i + 1] is buffer_[i].  One buffer is used at random beside the    *)
(* sequence of bytes it should hold.                                       *)
(***************************************************************************)
EXTENDS Integers, SequencesExt, FiniteSetsExt

CONSTANTS
  kCheapPrepend, kInitialSize,
  ExtraSize,             \* sizeof(extrabuf) in readFd()
  ByteBase,              \* values of a byte
  MaxLen                 \* bound: bytes in the buffer, and bytes of an operation

ASSUME BufferAssumption ==
  kCheapPrepend \in Nat /\ kInitialSize \in Nat /\ ExtraSize \in Nat /\ MaxLen \in Nat
    /\ ByteBase \in Nat \ {0, 1}

Zeros(n) == [i \in 1 .. n |-> 0]
NewBuffer ==
  [cells |-> Zeros(kCheapPrepend + kInitialSize), reader |-> kCheapPrepend, writer |-> kCheapPrepend]

ReadableBytes(b) == b.writer - b.reader
WritableBytes(b) == Len(b.cells) - b.writer
PrependableBytes(b) == b.reader
Content(b) == SubSeq(b.cells, b.reader + 1, b.writer)

(* cells with data copied to index at and following. *)
Copy(cells, at, data) ==
  [i \in DOMAIN cells |-> IF i \in at + 1 .. at + Len(data) THEN data[i - at] ELSE cells[i]]

CR == <<"CR">>
LF == <<"LF">>

(* findCRLF(): the index of the first CRLF of s, 0 if there is none. *)
FindCRLF(s) ==
  LET found == {i \in 1 .. Len(s) - 1 : s[i] = CR /\ s[i + 1] = LF}
  IN  IF found = {} THEN 0 ELSE Min(found)

RetrieveAll(b) == [b EXCEPT !.reader = kCheapPrepend, !.writer = kCheapPrepend]

(* retrieve() requires n <= readableBytes(). *)
Retrieve(b, n) == IF n < ReadableBytes(b) THEN [b EXCEPT !.reader = @ + n] ELSE RetrieveAll(b)

(* makeSpace(): the vector grows, or the bytes are moved to the front.     *)
MakeSpace(b, n) ==
  IF WritableBytes(b) + PrependableBytes(b) < n + kCheapPrepend
  THEN [b EXCEPT !.cells = @ \o Zeros(b.writer + n - Len(@))]
  ELSE [b EXCEPT !.cells = Copy(@, kCheapPrepend, Content(b)),
                 !.reader = kCheapPrepend, !.writer = kCheapPrepend + ReadableBytes(b)]

EnsureWritableBytes(b, n) == IF WritableBytes(b) < n THEN MakeSpace(b, n) ELSE b

AppendBytes(b, data) ==
  LET e == EnsureWritableBytes(b, Len(data))
  IN  [e EXCEPT !.cells = Copy(@, e.writer, data), !.writer = @ + Len(data)]

(* prepend() requires Len(data) <= prependableBytes(). *)
PrependBytes(b, data) ==
  LET r == b.reader - Len(data) IN [b EXCEPT !.reader = r, !.cells = Copy(@, r, data)]

(* shrink(): the bytes are copied to a new buffer. *)
Shrink(b, reserve) ==
  AppendBytes(EnsureWritableBytes(NewBuffer, ReadableBytes(b) + reserve), Content(b))

(* A bug: the bytes beyond the vector are appended without moving writer.  *)
ReadFd_WriterStays(b, data) ==
  LET writable == WritableBytes(b)
      first == [b EXCEPT !.cells = Copy(@, b.writer, SubSeq(data, 1, Min({writable, Len(data)})))]
  IN  IF Len(data) <= writable THEN [first EXCEPT !.writer = @ + Len(data)]
      ELSE AppendBytes(first, SubSeq(data, writable + 1, Len(data)))

(* readFd() when readv() returned data: what does not fit behind the       *)
(* writer index comes through extrabuf.                                    *)
ReadFd(b, data) ==
  LET writable == WritableBytes(b)
      first == [b EXCEPT !.cells = Copy(@, b.writer, SubSeq(data, 1, Min({writable, Len(data)})))]
  IN  IF Len(data) <= writable THEN [first EXCEPT !.writer = @ + Len(data)]
      ELSE AppendBytes([first EXCEPT !.writer = Len(b.cells)], SubSeq(data, writable + 1, Len(data)))

(* The bytes of a signed integer of n bytes, most significant first, as    *)
(* appendInt8(), appendInt16() and appendInt32() write them, and what      *)
(* peekInt8(), peekInt16() and peekInt32() make of them.                   *)
Pow(n) == ByteBase ^ n

HostToNetwork(x, n) == [i \in 1 .. n |-> (x \div Pow(n - i)) % ByteBase]
PeekInt(s, n) ==
  LET u == FoldFunction(+, 0, [i \in 1 .. n |-> s[i] * Pow(n - i)])
  IN  IF 2 * u < Pow(n) THEN u ELSE u - Pow(n)

-----------------------------------------------------------------------------
VARIABLES
  buffer,
  bytes,        \* the bytes it should hold
  stamp         \* the next bytes, so that neighbours differ

bufferVars == <<buffer, bytes, stamp>>

BufferInit == buffer = NewBuffer /\ bytes = <<>> /\ stamp = 0

(* No operation reads the cells outside the indices: they are forgotten. *)
Forget(b) == [b EXCEPT !.cells = [i \in DOMAIN @ |-> IF i \in b.reader + 1 .. b.writer THEN @[i] ELSE 0]]

Data(n) == [i \in 1 .. n |-> (stamp + i) % ByteBase]
Fresh(n) == Len(bytes) + n <= MaxLen /\ stamp' = (stamp + n) % ByteBase

DoAppend(n) ==
  /\ Fresh(n)
  /\ buffer' = Forget(AppendBytes(buffer, Data(n)))
  /\ bytes' = bytes \o Data(n)

DoReadFd(n) ==
  /\ Fresh(n) /\ n <= WritableBytes(buffer) + ExtraSize
  /\ buffer' = Forget(ReadFd(buffer, Data(n)))
  /\ bytes' = bytes \o Data(n)

DoPrepend(n) ==
  /\ Fresh(n) /\ n <= PrependableBytes(buffer)
  /\ buffer' = Forget(PrependBytes(buffer, Data(n)))
  /\ bytes' = Data(n) \o bytes

DoRetrieve(n) ==
  /\ n <= ReadableBytes(buffer)
  /\ buffer' = Forget(Retrieve(buffer, n))
  /\ bytes' = SubSeq(bytes, n + 1, Len(bytes))
  /\ UNCHANGED stamp

DoShrink(n) ==
  /\ buffer' = Forget(Shrink(buffer, n))
  /\ UNCHANGED <<bytes, stamp>>

BufferNext ==
  \E n \in 0 .. MaxLen : DoAppend(n) \/ DoReadFd(n) \/ DoPrepend(n) \/ DoRetrieve(n) \/ DoShrink(n)

(* The comment on the class: 0 <= readerIndex_ <= writerIndex_ <= size().  *)
BufferTypeOK ==
  /\ buffer.cells \in Seq(0 .. ByteBase - 1)
  /\ 0 <= buffer.reader /\ buffer.reader <= buffer.writer /\ buffer.writer <= Len(buffer.cells)

(* Whatever was appended, prepended, read from a descriptor, retrieved,    *)
(* moved by makeSpace() or copied by shrink(), peek() and readableBytes()  *)
(* give the bytes that went in and did not come out, in order.             *)
HoldsTheBytes == Content(buffer) = bytes

(* An integer appended to a buffer in any state is the one peekInt reads   *)
(* when the bytes before it have been retrieved, negative ones included.   *)
IntsSurvive ==
  \A n \in {1, 2, 4} : \A x \in {-(Pow(n) \div 2), -ByteBase, -1, 0, 1, ByteBase, Pow(n) \div 2 - 1} :
    -Pow(n) <= 2 * x /\ 2 * x < Pow(n) =>
      LET b == AppendBytes(buffer, HostToNetwork(x, n))
      IN  PeekInt(Content(Retrieve(b, Len(bytes))), n) = x

=============================================================================
