------------------------------ MODULE JavaBits ------------------------------
(***************************************************************************)
(* The Java values the two stream classes are built from: ints that wrap,  *)
(* bytes and chars, and the layout com.hazelcast.nio.Bits gives them in a  *)
(* byte array.  Bits is a library class: its operators here are what the   *)
(* calls in com.nc.io rely on.                                             *)
(*                                                                         *)
(* A fixed-width value (char, short, int, float, long, double) is the      *)
(* tuple of its bytes, most significant first; a char is its code, a       *)
(* String the sequence of its chars.  An element of an array of strings    *)
(* may be null.                                                            *)
(***************************************************************************)
EXTENDS Integers, Sequences

\* Integer.MAX_VALUE.  TLC uses a small value so that sums do overflow.
CONSTANT IntMax

ASSUME IntMaxAssumption == IntMax \in Nat /\ IntMax >= 8

Byte == 0..255
Char == 0..65535

NULL_ARRAY_LENGTH == -1   \* Bits.NULL_ARRAY_LENGTH

\* A null String, which is no sequence of chars; its length and chars as written.
NoString == << NULL_ARRAY_LENGTH >>
StringOrNull == Seq(Char) \cup {NoString}
StringLength(s) == IF s = NoString THEN NULL_ARRAY_LENGTH ELSE Len(s)
CharsOf(s) == IF s = NoString THEN << >> ELSE s

MaxOf(a, b) == IF a >= b THEN a ELSE b
MinOf(a, b) == IF a <= b THEN a ELSE b

\* What an int expression of mathematical value x evaluates to, for x at most
\* one lap away from the range of int (sums, and products up to 3 * IntMax).
Wrap(x) == IF x > IntMax THEN x - 2 * (IntMax + 1)
           ELSE IF x < -IntMax - 1 THEN x + 2 * (IntMax + 1)
           ELSE x

\* x * 8, as three doublings: the product may lap the int range several times.
Times8(x) == Wrap(2 * Wrap(2 * Wrap(2 * x)))

\* The bytes of a fixed-width value in the order they occupy in the array.
InOrder(value, bigEndian) ==
  IF bigEndian THEN value
  ELSE [i \in 1..Len(value) |-> value[Len(value) + 1 - i]]

\* The value of an int as its four bytes, and back.
IntBytes(n) == << (n \div 16777216) % 256, (n \div 65536) % 256,
                  (n \div 256) % 256, n % 256 >>

IntValue(b) ==
  (IF b[1] > 127 THEN b[1] - 256 ELSE b[1]) * 16777216
    + b[2] * 65536 + b[3] * 256 + b[4]

CharBytes(c) == << c \div 256, c % 256 >>

\* Bits.writeUtf8Char: one to three bytes per char, surrogates included.
Utf8Bytes(c) ==
  IF c <= 127 THEN << c >>
  ELSE IF c <= 2047 THEN << 192 + (c \div 64), 128 + (c % 64) >>
  ELSE << 224 + (c \div 4096), 128 + ((c \div 64) % 64), 128 + (c % 64) >>
=============================================================================
