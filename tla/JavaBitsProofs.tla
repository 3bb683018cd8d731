--------------------------- MODULE JavaBitsProofs ---------------------------
(***************************************************************************)
(* Facts about sequences given as functions, and about the values of       *)
(* JavaBits, that the proofs of both streams use.                          *)
(***************************************************************************)
EXTENDS JavaBits, SequenceTheorems, TLAPS

-----------------------------------------------------------------------------
(* Sequences.                                                              *)
LEMMA FunctionIsSeq ==
  ASSUME NEW S, NEW n \in Nat, NEW f \in [1..n -> S]
  PROVE  f \in Seq(S) /\ Len(f) = n /\ DOMAIN f = 1..n
<1>1. f \in Seq(S) BY SeqDef
<1>2. DOMAIN f = 1..n OBVIOUS
<1>3. Len(f) \in Nat /\ DOMAIN f = 1..Len(f) BY <1>1, LenProperties
<1>4. Len(f) = n BY <1>2, <1>3
<1> QED BY <1>1, <1>2, <1>4

\* The same for 1..n that may be empty because n is negative.
LEMMA LoopIsSeq ==
  ASSUME NEW S, NEW n \in Int, NEW f, f = [i \in 1..n |-> f[i]], \A i \in 1..n : f[i] \in S
  PROVE  f \in Seq(S) /\ DOMAIN f = 1..n
<1>1. CASE n >= 0
  <2>1. n \in Nat /\ f \in [1..n -> S] BY <1>1
  <2> QED BY <2>1, FunctionIsSeq
<1>2. CASE n < 0
  <2>1. 1..n = 1..0 BY <1>2
  <2>2. f \in [1..0 -> S] /\ 0 \in Nat BY <2>1
  <2> QED BY <2>1, <2>2, FunctionIsSeq
<1> QED BY <1>1, <1>2

LEMMA ConcatElements ==
  ASSUME NEW S, NEW s \in Seq(S), NEW t \in Seq(S), NEW i \in DOMAIN (s \o t)
  PROVE  (\E j \in DOMAIN s : (s \o t)[i] = s[j]) \/ (\E j \in DOMAIN t : (s \o t)[i] = t[j])
<1>1. s \o t \in Seq(S) /\ Len(s \o t) = Len(s) + Len(t)
      /\ \A k \in 1..Len(s) + Len(t) : (s \o t)[k] = IF k <= Len(s) THEN s[k] ELSE t[k - Len(s)]
  BY ConcatProperties
<1>2. i \in 1..Len(s) + Len(t) BY <1>1, LenProperties
<1>3. Len(s) \in Nat /\ Len(t) \in Nat /\ DOMAIN s = 1..Len(s) /\ DOMAIN t = 1..Len(t)
  BY LenProperties
<1>4. CASE i <= Len(s)
  <2>1. i \in DOMAIN s /\ (s \o t)[i] = s[i] BY <1>1, <1>2, <1>3, <1>4
  <2> QED BY <2>1
<1>5. CASE i > Len(s)
  <2>1. i - Len(s) \in DOMAIN t /\ (s \o t)[i] = t[i - Len(s)] BY <1>1, <1>2, <1>3, <1>5
  <2> QED BY <2>1
<1> QED BY <1>2, <1>3, <1>4, <1>5

LEMMA Tuples ==
  ASSUME NEW S, NEW a \in S, NEW b \in S, NEW c \in S, NEW d \in S
  PROVE  /\ << a >> \in Seq(S) /\ Len(<< a >>) = 1
         /\ << a, b >> \in Seq(S) /\ Len(<< a, b >>) = 2
         /\ << a, b, c >> \in Seq(S) /\ Len(<< a, b, c >>) = 3
         /\ << a, b, c, d >> \in Seq(S) /\ Len(<< a, b, c, d >>) = 4
OBVIOUS

-----------------------------------------------------------------------------
(* Values.                                                                 *)
LEMMA WrapBelow ==
  ASSUME NEW x \in Int, -IntMax - 1 <= x, x <= 3 * IntMax
  PROVE  /\ Wrap(x) \in Int /\ Wrap(x) <= IntMax
         /\ Wrap(x) # x => x > IntMax
         /\ x > IntMax /\ x <= 2 * IntMax => Wrap(x) < 0
BY IntMaxAssumption DEF Wrap

\* The quotients that come up in the bytes of a char fit the prefixes.
LEMMA Quotients ==
  ASSUME NEW c \in Int, 0 <= c, c <= 65535
  PROVE  /\ c \div 256 \in Int /\ 0 <= c \div 256 /\ c \div 256 <= 255
         /\ c \div 64 \in Int /\ 0 <= c \div 64 /\ (c <= 2047 => c \div 64 <= 31)
         /\ c \div 4096 \in Int /\ 0 <= c \div 4096 /\ c \div 4096 <= 15
BY SMT

LEMMA Remainders ==
  ASSUME NEW c \in Int
  PROVE  /\ c % 256 \in Int /\ 0 <= c % 256 /\ c % 256 <= 255
         /\ c % 64 \in Int /\ 0 <= c % 64 /\ c % 64 <= 63
BY SMT

LEMMA CharIsInt == \A c \in Char : c \in Int
BY DEF Char

LEMMA LowByteIsByte == \A c \in Char : c % 256 \in Byte
<1>1. \A c \in Int : c % 256 \in Byte BY Remainders DEF Byte
<1> QED BY <1>1, CharIsInt

LEMMA CharBytesType ==
  ASSUME NEW c \in Char PROVE CharBytes(c) \in Seq(Byte) /\ Len(CharBytes(c)) = 2
<1>1. c \in Int /\ 0 <= c /\ c <= 65535 BY DEF Char
<1>2. c \div 256 \in Byte /\ c % 256 \in Byte BY <1>1, Quotients, Remainders DEF Byte
<1> QED BY <1>2, Tuples DEF CharBytes

LEMMA Utf8BytesType ==
  ASSUME NEW c \in Char PROVE Utf8Bytes(c) \in Seq(Byte) /\ Len(Utf8Bytes(c)) <= 3
<1>1. c \in Int /\ 0 <= c /\ c <= 65535 BY DEF Char
<1>2. CASE c <= 127
  <2>1. c \in Byte BY <1>1, <1>2 DEF Byte
  <2> QED BY <2>1, <1>2, Tuples DEF Utf8Bytes
<1>3. CASE c > 127 /\ c <= 2047
  <2>1. 192 + (c \div 64) \in Byte /\ 128 + (c % 64) \in Byte
    BY <1>1, <1>3, Quotients, Remainders DEF Byte
  <2>2. Utf8Bytes(c) = << 192 + (c \div 64), 128 + (c % 64) >>
    BY <1>1, <1>3 DEF Utf8Bytes
  <2> QED BY <2>1, <2>2, Tuples
<1>4. CASE c > 2047
  <2>1. c \div 64 \in Int BY <1>1, Quotients
  <2>2. (c \div 64) % 64 \in Int /\ 0 <= (c \div 64) % 64 /\ (c \div 64) % 64 <= 63
    BY <2>1, Remainders
  <2>3. /\ 224 + (c \div 4096) \in Byte /\ 128 + ((c \div 64) % 64) \in Byte
        /\ 128 + (c % 64) \in Byte
    BY <1>1, <2>2, Quotients, Remainders DEF Byte
  <2>4. Utf8Bytes(c) =
          << 224 + (c \div 4096), 128 + ((c \div 64) % 64), 128 + (c % 64) >>
    BY <1>1, <1>4 DEF Utf8Bytes
  <2> QED BY <2>3, <2>4, Tuples
<1> QED BY <1>1, <1>2, <1>3, <1>4

LEMMA IntBytesType ==
  ASSUME NEW n \in Int PROVE IntBytes(n) \in Seq(Byte) /\ Len(IntBytes(n)) = 4
<1>1. \A k \in Int : k % 256 \in Byte BY Remainders DEF Byte
<1>2. n \div 16777216 \in Int /\ n \div 65536 \in Int /\ n \div 256 \in Int BY SMT
<1> QED BY <1>1, <1>2, Tuples DEF IntBytes

\* Null is no sequence of chars; what is written for it are no chars.
LEMMA StringParts ==
  ASSUME NEW s \in StringOrNull
  PROVE  /\ CharsOf(s) \in Seq(Char)
         /\ StringLength(s) \in Int /\ StringLength(s) >= -1
         /\ s \in Seq(Char) => CharsOf(s) = s /\ StringLength(s) = Len(s)
         /\ s # NoString => s \in Seq(Char) /\ CharsOf(s) = s /\ StringLength(s) = Len(s)
         /\ s = NoString => CharsOf(s) = << >> /\ StringLength(s) = NULL_ARRAY_LENGTH
<1>1. NoString \notin Seq(Char)
  <2> SUFFICES ASSUME NoString \in Seq(Char) PROVE FALSE OBVIOUS
  <2>1. NoString = << -1 >> BY DEF NoString, NULL_ARRAY_LENGTH
  <2>2. Len(NoString) = 1 /\ NoString[1] = -1 BY <2>1
  <2>3. NoString[1] \in Char BY <2>2, LenProperties
  <2> QED BY <2>2, <2>3 DEF Char
<1>2. CASE s = NoString
  <2>1. CharsOf(s) = << >> /\ StringLength(s) = -1
    BY <1>2 DEF CharsOf, StringLength, NULL_ARRAY_LENGTH
  <2> QED BY <1>1, <1>2, <2>1 DEF NULL_ARRAY_LENGTH
<1>3. CASE s # NoString
  <2>1. s \in Seq(Char) BY <1>3 DEF StringOrNull
  <2>2. CharsOf(s) = s /\ StringLength(s) = Len(s) BY <1>3 DEF CharsOf, StringLength
  <2>3. Len(s) \in Nat BY <2>1, LenProperties
  <2> QED BY <1>3, <2>1, <2>2, <2>3
<1> QED BY <1>2, <1>3

LEMMA InOrderType ==
  ASSUME NEW v \in Seq(Byte), NEW be
  PROVE  InOrder(v, be) \in Seq(Byte) /\ Len(InOrder(v, be)) = Len(v)
<1>1. Len(v) \in Nat /\ v \in [1..Len(v) -> Byte] BY LenProperties
<1>2. [i \in 1..Len(v) |-> v[Len(v) + 1 - i]] \in [1..Len(v) -> Byte]
  <2>1. \A i \in 1..Len(v) : Len(v) + 1 - i \in 1..Len(v) BY <1>1
  <2> QED BY <1>1, <2>1
<1>3. /\ [i \in 1..Len(v) |-> v[Len(v) + 1 - i]] \in Seq(Byte)
      /\ Len([i \in 1..Len(v) |-> v[Len(v) + 1 - i]]) = Len(v)
  BY <1>1, <1>2, FunctionIsSeq
<1> QED BY <1>3 DEF InOrder

=============================================================================
