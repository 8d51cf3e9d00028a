------------------------------ MODULE LogStream ------------------------------
(***************************************************************************)
(* muduo::LogStream: items [kind, size] put into a FixedBuffer, and the    *)
(* digits of a number.                                                     *)
(***************************************************************************)
EXTENDS Integers, SequencesExt, FiniteSetsExt

CONSTANTS
  kSmallBuffer,          \* size of a line's buffer
  kMaxNumericSize        \* space a number needs, its final '\0' included

VARIABLE number          \* a number to convert

Size(items) == FoldLeft(LAMBDA n, i : n + i.size, 0, items)

Avail(kept) == kSmallBuffer - Size(kept)

(* FixedBuffer::append(): an item that does not fit is left out. *)
PutText(kept, item) == IF Avail(kept) > item.size THEN Append(kept, item) ELSE kept

(* Integers, pointers and doubles are written in place. *)
PutNumber(kept, item) == IF Avail(kept) >= kMaxNumericSize THEN Append(kept, item) ELSE kept

(* LogStream::operator<< *)
Put(kept, item) == IF item.kind = "number" THEN PutNumber(kept, item) ELSE PutText(kept, item)

(* convert(): digits of a number, least significant first until reversed;  *)
(* the remainder of a negative number is negative, and zero[lsd] its       *)
(* absolute value.  10 stands for '-'.  The value itself is never negated, *)
(* so the arithmetic does not leave its type.                              *)
LQuot(a, b) == IF a >= 0 THEN a \div b ELSE -((-a) \div b)
Zero(lsd) == IF lsd >= 0 THEN lsd ELSE -lsd
RECURSIVE Lsds(_, _)
Lsds(i, base) ==
  LET rest == LQuot(i, base)
  IN  <<Zero(i - base * rest)>> \o (IF rest # 0 THEN Lsds(rest, base) ELSE <<>>)

Convert(value) == Reverse(Lsds(value, 10) \o IF value < 0 THEN <<10>> ELSE <<>>)
ConvertHex(value) == Reverse(Lsds(value, 16))

(* Reference: the value of digits. *)
Value(digits, base) == FoldLeft(LAMBDA n, d : n * base + d, 0, digits)

(* A number's digits, made by convert() from the last to the first, have   *)
(* its value, with a sign if it is negative and no leading zero.           *)
DigitsReadBack ==
  LET digits == Convert(number)
      absolute == IF number < 0 THEN Tail(digits) ELSE digits
  IN  /\ Value(absolute, 10) = (IF number < 0 THEN -number ELSE number)
      /\ digits # <<>> /\ (number < 0 <=> Head(digits) = 10)
      /\ Head(absolute) = 0 => number = 0
      /\ number >= 0 => Value(ConvertHex(number), 16) = number
=============================================================================
