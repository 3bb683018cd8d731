-------------------------- MODULE RoundTripProofs ---------------------------
(***************************************************************************)
(* Proofs about RoundTrip, for every heap, int, byte order, char buffer    *)
(* and set of records.  The array is cut into chunks of bytes, one per     *)
(* value; a queue of puts writes the chunks of a record, and a queue of    *)
(* gets reads its values from them.  The invariant says where in its       *)
(* record each side is, and that the writer spares the reader's message.   *)
(*                                                                         *)
(* Order: numbers and bytes; chunks in an array; what gets read; what puts *)
(* write; the writer; the array between the two; the steps of the reader;  *)
(* the invariant and the theorems.                                         *)
(***************************************************************************)
EXTENDS RoundTrip, JavaBitsProofs, WellFoundedInduction

-----------------------------------------------------------------------------
(* Induction on numbers.                                                   *)
LEMMA Induction ==
  ASSUME NEW S, 0 \in S, \A n \in Nat : n \in S => n + 1 \in S
  PROVE  Nat \subseteq S
<1> SUFFICES ASSUME ~(Nat \subseteq S) PROVE FALSE OBVIOUS
<1> DEFINE T == Nat \ S
           R == OpToRel(<, Nat)
<1>1. IsWellFoundedOn(R, Nat) BY NatLessThanWellFounded
<1>2. \A x, y \in Nat : <<x, y>> \in R <=> x < y BY DEF OpToRel
<1>3. T \in SUBSET Nat /\ T # {} OBVIOUS
<1> HIDE DEF R, T
<1>4. PICK m \in T : \A y \in T : ~ (<<y, m>> \in R) BY <1>1, <1>3, WFMin
<1> USE DEF T
<1>5. m \in Nat /\ m # 0 BY <1>4
<1>6. m - 1 \in Nat /\ m - 1 < m BY <1>5
<1>7. <<m - 1, m>> \in R BY <1>2, <1>5, <1>6, Zenon
<1>8. m - 1 \in S BY <1>4, <1>6, <1>7
<1>9. (m - 1) + 1 = m BY <1>5
<1> QED BY <1>4, <1>6, <1>8, <1>9

-----------------------------------------------------------------------------
(* Values and the bytes that stand for them.                               *)
LEMMA IntValueIs ==
  ASSUME NEW b, NEW x \in Int, NEW y \in Int, NEW z \in Int, NEW w \in Int,
         b[1] = w, b[2] = x, b[3] = y, b[4] = z
  PROVE  IntValue(b) =
           (IF w > 127 THEN w - 256 ELSE w) * 16777216 + x * 65536 + y * 256 + z
BY SMT DEF IntValue

\* A number and the quotients that its four bytes are taken from.
LEMMA Digits ==
  ASSUME NEW n \in Nat
  PROVE  /\ n \div 256 \in Nat /\ n % 256 \in 0..255 /\ n = 256 * (n \div 256) + (n % 256)
         /\ n \div 65536 = (n \div 256) \div 256
         /\ n \div 16777216 = (n \div 65536) \div 256
<1>1. n \div 256 \in Nat /\ n % 256 \in 0..255 /\ n = 256 * (n \div 256) + (n % 256) BY SMT
<1>2. n \div 65536 = (n \div 256) \div 256 BY SMT
<1>3. n \div 16777216 = (n \div 65536) \div 256 BY SMT
<1> QED BY <1>1, <1>2, <1>3, SMT

\* An int comes back from its four bytes.
LEMMA IntValueOfBytes ==
  ASSUME NEW n \in Int, -1 <= n, n <= MAX_VALUE
  PROVE  IntValue(IntBytes(n)) = n
<1>1. CASE n < 0
  <2>1. n \div 16777216 = -1 /\ n \div 65536 = -1 /\ n \div 256 = -1 BY <1>1, SMT
  <2>2. n % 256 = 255 BY <1>1, SMT
  <2>3. (n \div 16777216) % 256 = 255 /\ (n \div 65536) % 256 = 255 /\ (n \div 256) % 256 = 255
    <3>1. \A k \in Int : -1 <= k /\ k < 0 => k % 256 = 255 BY SMT
    <3> QED BY <2>1, <3>1, SMT
  <2> DEFINE b == IntBytes(n)
  <2>4. b[1] = 255 /\ b[2] = 255 /\ b[3] = 255 /\ b[4] = 255 BY <2>2, <2>3, SMT DEF IntBytes
  <2> HIDE DEF b
  <2>5. IntValue(b) = (255 - 256) * 16777216 + 255 * 65536 + 255 * 256 + 255
    BY <2>4, IntValueIs, SMT
  <2>6. IntValue(b) = -1 BY <2>5, SMT
  <2> QED BY <1>1, <2>6, SMT DEF b
<1>2. CASE n >= 0
  <2> DEFINE a == n \div 256
             c == n \div 65536
             d == n \div 16777216
  <2>1. /\ a \in Nat /\ n % 256 \in 0..255 /\ n = 256 * a + (n % 256)
        /\ c = a \div 256 /\ d = c \div 256
    BY <1>2, Digits, SMT
  <2>2. d <= 127 BY <1>2, SMT DEF MAX_VALUE
  <2>3. IntBytes(n) = << d % 256, c % 256, a % 256, n % 256 >> BY SMT DEF IntBytes
  <2> HIDE DEF a, c, d
  <2>4. c \in Nat /\ a % 256 \in 0..255 /\ a = 256 * c + (a % 256) BY <2>1, Digits, SMT
  <2>5. d \in Nat /\ c % 256 \in 0..255 /\ c = 256 * d + (c % 256) BY <2>1, <2>4, Digits, SMT
  <2>6. d % 256 = d BY <2>2, <2>5, SMT
  <2> DEFINE b == IntBytes(n)
             x == c % 256
             y == a % 256
             z == n % 256
  <2>7. b[1] = d /\ b[2] = x /\ b[3] = y /\ b[4] = z BY <2>3, <2>6, SMT
  <2>8. /\ x \in Int /\ y \in Int /\ z \in Int /\ d \in Int /\ d <= 127
        /\ n = 256 * (256 * (256 * d + x) + y) + z
    BY <2>1, <2>2, <2>4, <2>5, SMT
  <2> HIDE DEF b, x, y, z
  <2>9. IntValue(b) = (IF d > 127 THEN d - 256 ELSE d) * 16777216 + x * 65536 + y * 256 + z
    BY <2>7, <2>8, IntValueIs, SMT
  <2> QED BY <2>8, <2>9, SMT DEF b
<1> QED BY <1>1, <1>2, SMT

\* Either byte order undoes itself.
LEMMA InOrderTwice ==
  ASSUME NEW v \in Seq(Byte), NEW be
  PROVE  InOrder(InOrder(v, be), be) = v
<1>1. CASE be = TRUE BY <1>1 DEF InOrder
<1>2. CASE be # TRUE /\ be BY <1>2 DEF InOrder
<1>3. CASE ~be
  <2> DEFINE w == InOrder(v, be)
             x == InOrder(w, be)
  <2>1. w \in Seq(Byte) /\ Len(w) = Len(v) /\ Len(v) \in Nat BY InOrderType, LenProperties
  <2>2. x \in Seq(Byte) /\ Len(x) = Len(v) BY <2>1, InOrderType
  <2>3. \A i \in 1..Len(v) : w[i] = v[Len(v) + 1 - i] BY <1>3 DEF InOrder
  <2> HIDE DEF w
  <2>4. \A i \in 1..Len(w) : x[i] = w[Len(w) + 1 - i] BY <1>3 DEF InOrder
  <2> HIDE DEF x
  <2>5. ASSUME NEW i \in 1..Len(v) PROVE x[i] = v[i]
    <3> DEFINE k == Len(v) + 1 - i
    <3>1. k \in 1..Len(v) /\ Len(v) + 1 - k = i BY <2>1
    <3>2. x[i] = w[k] BY <2>1, <2>4
    <3> HIDE DEF k
    <3>3. w[k] = v[Len(v) + 1 - k] BY <2>3, <3>1
    <3> QED BY <3>1, <3>2, <3>3
  <2>6. x = v BY <2>1, <2>2, <2>5, SeqEqual
  <2> QED BY <2>6 DEF x, w
<1> QED BY <1>1, <1>2, <1>3

\* A char comes back from its bytes, and its first byte tells both readers how
\* many there are.
LEMMA CharOfBytes ==
  ASSUME NEW c \in Char
  PROVE  /\ In!CharOf(Utf8Bytes(c)) = c
         /\ Len(Utf8Bytes(c)) \in 1..3
         /\ In!CharWidth(Utf8Bytes(c)[1]) = Len(Utf8Bytes(c))
         /\ In!NativeWidth(Utf8Bytes(c)[1]) = Len(Utf8Bytes(c))
<1>1. c \in Int /\ 0 <= c /\ c <= 65535 BY SMT DEF Char
<1>2. CASE c <= 127
  <2>1. Utf8Bytes(c) = << c >> BY <1>2, SMT DEF Utf8Bytes
  <2>2. Len(Utf8Bytes(c)) = 1 /\ Utf8Bytes(c)[1] = c BY <2>1, SMT
  <2>3. In!CharOf(Utf8Bytes(c)) = c BY <2>2, SMT DEF In!CharOf
  <2>4. In!CharWidth(c) = 1 /\ In!NativeWidth(c) = 1
    BY <1>2, SMT DEF In!CharWidth, In!NativeWidth
  <2> QED BY <2>2, <2>3, <2>4, SMT
<1>3. CASE c > 127 /\ c <= 2047
  <2> DEFINE a == c \div 64
             b == c % 64
  <2>1. a \in Int /\ 2 <= a /\ a <= 31 /\ b \in Int /\ 0 <= b /\ b <= 63 /\ c = 64 * a + b
    BY <1>1, <1>3, SMT
  <2>2. Utf8Bytes(c) = << 192 + a, 128 + b >> BY <1>1, <1>3, SMT DEF Utf8Bytes
  <2> HIDE DEF a, b
  <2>3. (192 + a) % 32 = a /\ (128 + b) % 64 = b /\ (192 + a) \div 16 < 14 BY <2>1, SMT
  <2>4. In!CharOf(Utf8Bytes(c)) = c
    <3> DEFINE u == Utf8Bytes(c)
    <3>1. Len(u) = 2 /\ u[1] = 192 + a /\ u[2] = 128 + b BY <2>2, SMT
    <3> HIDE DEF u
    <3>2. In!CharOf(u) = (u[1] % 32) * 64 + (u[2] % 64) BY <3>1 DEF In!CharOf
    <3>3. u[1] % 32 = a /\ u[2] % 64 = b BY <2>3, <3>1
    <3>4. In!CharOf(u) = a * 64 + b BY <3>2, <3>3
    <3> QED BY <2>1, <3>4 DEF u
  <2>5. Len(Utf8Bytes(c)) = 2 /\ Utf8Bytes(c)[1] = 192 + a BY <2>2, SMT
  <2>6. In!CharWidth(192 + a) = 2 BY <2>1, SMT DEF In!CharWidth
  <2>7. In!NativeWidth(192 + a) = 2 BY <2>1, <2>3, SMT DEF In!NativeWidth
  <2> QED BY <2>4, <2>5, <2>6, <2>7, SMT
<1>4. CASE c > 2047
  <2> DEFINE a == c \div 4096
             m == c \div 64
             d == m % 64
             b == c % 64
  <2>1. /\ a \in Int /\ 0 <= a /\ a <= 15 /\ b \in Int /\ 0 <= b /\ b <= 63 /\ m \in Int
        /\ c = 64 * m + b /\ a = m \div 64
    BY <1>1, <1>4, SMT
  <2>2. d \in Int /\ 0 <= d /\ d <= 63 /\ m = 64 * a + d BY <2>1, SMT
  <2>3. Utf8Bytes(c) = << 224 + a, 128 + d, 128 + b >> BY <1>1, <1>4, SMT DEF Utf8Bytes
  <2> HIDE DEF a, b, d, m
  <2>4. /\ (224 + a) % 16 = a /\ (128 + d) % 64 = d /\ (128 + b) % 64 = b
        /\ ~((224 + a) \div 16 < 14)
    BY <2>1, <2>2, SMT
  <2>5. In!CharOf(Utf8Bytes(c)) = c
    <3> DEFINE u == Utf8Bytes(c)
    <3>1. Len(u) = 3 /\ u[1] = 224 + a /\ u[2] = 128 + d /\ u[3] = 128 + b BY <2>3, SMT
    <3> HIDE DEF u
    <3>2. In!CharOf(u) = (u[1] % 16) * 4096 + (u[2] % 64) * 64 + (u[3] % 64)
      BY <3>1, SMT DEF In!CharOf
    <3>3. u[1] % 16 = a /\ u[2] % 64 = d /\ u[3] % 64 = b BY <2>4, <3>1, SMT
    <3>4. In!CharOf(u) = a * 4096 + d * 64 + b BY <3>2, <3>3, SMT
    <3> QED BY <2>1, <2>2, <3>4, SMT DEF u
  <2>6. Len(Utf8Bytes(c)) = 3 /\ Utf8Bytes(c)[1] = 224 + a BY <2>3, SMT
  <2>7. In!CharWidth(224 + a) = 3 BY <2>1, SMT DEF In!CharWidth
  <2>8. In!NativeWidth(224 + a) = 3 BY <2>1, <2>4, SMT DEF In!NativeWidth
  <2> QED BY <2>5, <2>6, <2>7, <2>8, SMT
<1> QED BY <1>1, <1>2, <1>3, <1>4, SMT

\* A chunk of bytes of the array, and a value of the reader.
Chunk == Seq(Byte)
Word == Seq(Int)

-----------------------------------------------------------------------------
(* Chunks of bytes that lie in an array, one behind the other.             *)
\* These chunks are the bytes of array a from p to q, the first ending at at[1].
Ends(a, cs, p, q, at) ==
  /\ at \in [0..Len(cs) -> p..q]
  /\ at[0] = p /\ at[Len(cs)] = q
  /\ \A i \in 1..Len(cs) :
       /\ at[i] = at[i - 1] + Len(cs[i])
       /\ \A j \in 1..Len(cs[i]) : a[at[i - 1] + j] = cs[i][j]

\* The chunks cs lie in array a from p to q.
Holds(a, cs, p, q) == q <= Len(a) /\ \E at : Ends(a, cs, p, q, at)

LEMMA HoldsNothing ==
  ASSUME NEW a \in Chunk, NEW p \in Nat, p <= Len(a)
  PROVE  Holds(a, << >>, p, p)
<1> DEFINE at == [i \in 0..0 |-> p]
<1>1. Len(<< >>) = 0 OBVIOUS
<1>2. at \in [0..0 -> p..p] /\ at[0] = p OBVIOUS
<1> HIDE DEF at
<1>3. Ends(a, << >>, p, p, at) BY <1>1, <1>2 DEF Ends
<1> QED BY <1>3 DEF Holds

LEMMA HoldsEmpty ==
  ASSUME NEW a, NEW p, NEW q, Holds(a, << >>, p, q) PROVE p = q
<1>1. PICK at : Ends(a, << >>, p, q, at) BY DEF Holds
<1>2. Len(<< >>) = 0 OBVIOUS
<1> QED BY <1>1, <1>2 DEF Ends

\* One more chunk behind those an array holds.
LEMMA HoldsMore ==
  ASSUME NEW a \in Chunk, NEW cs \in Seq(Chunk), NEW c \in Chunk, NEW p \in Nat, NEW q \in Nat,
         Holds(a, cs, p, q), q + Len(c) <= Len(a), \A j \in 1..Len(c) : a[q + j] = c[j]
  PROVE  Holds(a, Append(cs, c), p, q + Len(c))
<1> DEFINE n == Len(cs)
           ds == Append(cs, c)
           r == q + Len(c)
<1>1. PICK at : Ends(a, cs, p, q, at) BY DEF Holds
<1>2. n \in Nat /\ Len(c) \in Nat /\ r \in Nat /\ q <= r BY LenProperties
<1>3. Len(ds) = n + 1 /\ ds[n + 1] = c /\ \A i \in 1..n : ds[i] = cs[i] BY AppendProperties
<1> HIDE DEF ds, r
<1> DEFINE bt == [i \in 0..n + 1 |-> IF i = n + 1 THEN r ELSE at[i]]
<1>4. /\ at \in [0..n -> p..q] /\ at[0] = p /\ at[n] = q
      /\ \A i \in 1..n : /\ at[i] = at[i - 1] + Len(cs[i])
                         /\ \A j \in 1..Len(cs[i]) : a[at[i - 1] + j] = cs[i][j]
  BY <1>1 DEF Ends
<1>5. p <= q BY <1>2, <1>4
<1>6. bt \in [0..n + 1 -> p..r]
  <2>1. \A i \in 0..n + 1 : i # n + 1 => i \in 0..n BY <1>2
  <2> QED BY <1>2, <1>4, <1>5, <2>1
<1>7. bt[0] = p /\ bt[n + 1] = r /\ \A i \in 0..n : bt[i] = at[i] BY <1>2, <1>4
<1> HIDE DEF bt, n
<1>8. ASSUME NEW i \in 1..n + 1
      PROVE  /\ bt[i] = bt[i - 1] + Len(ds[i])
             /\ \A j \in 1..Len(ds[i]) : a[bt[i - 1] + j] = ds[i][j]
  <2>1. CASE i = n + 1
    <3>1. i - 1 = n BY <1>2, <2>1
    <3> QED BY <1>2, <1>3, <1>4, <1>7, <2>1, <3>1 DEF r
  <2>2. CASE i # n + 1
    <3>1. i \in 1..n /\ i \in 0..n /\ i - 1 \in 0..n BY <1>2, <2>2
    <3>2. bt[i] = at[i] /\ bt[i - 1] = at[i - 1] /\ ds[i] = cs[i] BY <1>3, <1>7, <3>1
    <3> QED BY <1>4, <3>1, <3>2
  <2> QED BY <2>1, <2>2
<1>9. Ends(a, ds, p, r, bt) BY <1>3, <1>6, <1>7, <1>8 DEF Ends, n
<1>10. r <= Len(a) BY DEF r
<1>11. Holds(a, ds, p, r) BY <1>9, <1>10 DEF Holds
<1> QED BY <1>11 DEF ds, r

\* The first of the chunks an array holds, and those behind it.
LEMMA HoldsFirst ==
  ASSUME NEW a \in Chunk, NEW cs \in Seq(Chunk), cs # << >>, NEW p \in Nat, NEW q \in Nat,
         Holds(a, cs, p, q)
  PROVE  /\ p + Len(Head(cs)) <= q /\ q <= Len(a)
         /\ \A j \in 1..Len(Head(cs)) : a[p + j] = Head(cs)[j]
         /\ Holds(a, Tail(cs), p + Len(Head(cs)), q)
<1> DEFINE n == Len(cs)
           c == Head(cs)
           ds == Tail(cs)
           r == p + Len(c)
<1>1. PICK at : Ends(a, cs, p, q, at) BY DEF Holds
<1>2. n \in Nat /\ n >= 1 BY EmptySeq, LenProperties
<1>3. /\ c \in Chunk /\ ds \in Seq(Chunk) /\ Len(ds) = n - 1
      /\ \A i \in 1..n - 1 : ds[i] = cs[i + 1]
  BY HeadTailProperties
<1>4. c = cs[1] /\ Len(c) \in Nat BY <1>3, LenProperties
<1>5. /\ at \in [0..n -> p..q] /\ at[0] = p /\ at[n] = q
      /\ \A i \in 1..n : /\ at[i] = at[i - 1] + Len(cs[i])
                         /\ \A j \in 1..Len(cs[i]) : a[at[i - 1] + j] = cs[i][j]
  BY <1>1 DEF Ends
<1> HIDE DEF c, ds, n
<1>6. 1 \in 1..n /\ 1 - 1 = 0 /\ 1 \in 0..n BY <1>2
<1>7. at[1] = r /\ \A j \in 1..Len(c) : a[p + j] = c[j] BY <1>4, <1>5, <1>6
<1>8. r \in Nat /\ r <= q BY <1>4, <1>5, <1>6, <1>7
<1>9. \A i \in 0..n : r <= at[i] \/ i = 0
  <2> DEFINE S == {i \in Nat : i + 1 \in 0..n => r <= at[i + 1]}
  <2>1. 0 \in S BY <1>7, <1>8
  <2>2. ASSUME NEW i \in Nat, i \in S PROVE i + 1 \in S
    <3> SUFFICES ASSUME (i + 1) + 1 \in 0..n PROVE r <= at[(i + 1) + 1] OBVIOUS
    <3> DEFINE k == (i + 1) + 1
    <3>1. k \in 1..n /\ k - 1 = i + 1 /\ i + 1 \in 0..n /\ i + 1 \in 1..n BY <1>2
    <3>2. r <= at[i + 1] /\ at[i + 1] \in Nat BY <1>5, <2>2, <3>1
    <3>3. Len(cs[k]) \in Nat
      <4>1. cs[k] \in Chunk BY <3>1, ElementOfSeq DEF n
      <4> QED BY <4>1, LenProperties
    <3> HIDE DEF k
    <3>4. at[k] = at[i + 1] + Len(cs[k]) BY <1>5, <3>1
    <3>5. r <= at[k] BY <1>8, <3>2, <3>3, <3>4
    <3> QED BY <3>5 DEF k
  <2> HIDE DEF S
  <2>3. Nat \subseteq S BY <2>1, <2>2, Induction
  <2>4. ASSUME NEW i \in 0..n, i # 0 PROVE r <= at[i]
    <3>1. i - 1 \in Nat /\ (i - 1) + 1 = i BY <1>2, <2>4
    <3>2. i - 1 \in S BY <2>3, <3>1
    <3> QED BY <3>1, <3>2 DEF S
  <2> QED BY <2>4
<1> DEFINE bt == [i \in 0..n - 1 |-> at[i + 1]]
<1>10. bt \in [0..n - 1 -> r..q]
  <2>1. \A i \in 0..n - 1 : i + 1 \in 0..n /\ i + 1 # 0 BY <1>2
  <2>2. \A i \in 0..n - 1 : at[i + 1] \in r..q BY <1>5, <1>8, <1>9, <2>1
  <2> QED BY <2>2
<1>11. bt[0] = r /\ bt[n - 1] = q
  <2>1. 0 \in 0..n - 1 /\ n - 1 \in 0..n - 1 /\ 0 + 1 = 1 /\ (n - 1) + 1 = n BY <1>2
  <2> QED BY <1>5, <1>7, <2>1
<1>12. ASSUME NEW i \in 1..n - 1
       PROVE  /\ bt[i] = bt[i - 1] + Len(ds[i])
              /\ \A j \in 1..Len(ds[i]) : a[bt[i - 1] + j] = ds[i][j]
  <2> DEFINE k == i + 1
  <2>1. k \in 1..n /\ k - 1 = i /\ i \in 0..n - 1 /\ i - 1 \in 0..n - 1 /\ (i - 1) + 1 = i
    BY <1>2
  <2>2. bt[i] = at[k] /\ bt[i - 1] = at[i] /\ ds[i] = cs[k] BY <1>3, <2>1
  <2> HIDE DEF k, bt
  <2> QED BY <1>5, <2>1, <2>2
<1> HIDE DEF bt
<1>13. Ends(a, ds, r, q, bt) BY <1>3, <1>10, <1>11, <1>12 DEF Ends
<1>14. q <= Len(a) BY DEF Holds
<1> HIDE DEF r
<1>15. Holds(a, ds, r, q) BY <1>13, <1>14 DEF Holds
<1> QED BY <1>7, <1>8, <1>14, <1>15 DEF c, ds, r

\* An array that has the same bytes up to q.
Agree(a, b, q) == q <= Len(b) /\ \A i \in 1..q : a[i] = b[i]

\* What an array holds below q, an array with the same bytes up there holds too.
LEMMA HoldsSame ==
  ASSUME NEW a, NEW b, NEW cs \in Seq(Chunk), NEW p \in Nat, NEW q \in Nat, NEW r \in Nat, q <= r,
         Holds(a, cs, p, q), Agree(a, b, r), Len(b) \in Nat
  PROVE  Holds(b, cs, p, q)
<1>1. PICK at : Ends(a, cs, p, q, at) BY DEF Holds
<1>2. Len(cs) \in Nat BY LenProperties
<1>3. ASSUME NEW i \in 1..Len(cs), NEW j \in 1..Len(cs[i])
      PROVE  b[at[i - 1] + j] = cs[i][j]
  <2>1. i - 1 \in 0..Len(cs) /\ i \in 0..Len(cs) BY <1>2
  <2>2. at[i - 1] \in p..q /\ at[i] \in p..q /\ at[i] = at[i - 1] + Len(cs[i])
    BY <1>1, <2>1 DEF Ends
  <2>3. Len(cs[i]) \in Nat
    <3>1. cs[i] \in Chunk BY ElementOfSeq
    <3> QED BY <3>1, LenProperties
  <2> DEFINE k == at[i - 1] + j
  <2>4. k \in 1..r BY <2>2, <2>3
  <2>5. a[k] = cs[i][j] BY <1>1 DEF Ends
  <2> HIDE DEF k
  <2>6. a[k] = b[k] BY <2>4 DEF Agree
  <2> QED BY <2>5, <2>6 DEF k
<1>4. Ends(b, cs, p, q, at) BY <1>1, <1>3 DEF Ends
<1>5. q <= Len(b) BY DEF Agree
<1> QED BY <1>4, <1>5 DEF Holds

-----------------------------------------------------------------------------
(* Sequences taken apart at the front.                                     *)
LEMMA FrontOfConcat ==
  ASSUME NEW S, NEW s \in Seq(S), s # << >>, NEW t \in Seq(S)
  PROVE  /\ s \o t # << >> /\ Head(s \o t) = Head(s) /\ Tail(s \o t) = Tail(s) \o t
         /\ s \o t = << Head(s) >> \o (Tail(s) \o t)
<1> DEFINE u == s \o t
           v == Tail(s) \o t
<1>1. /\ u \in Seq(S) /\ Len(u) = Len(s) + Len(t)
      /\ \A i \in 1..Len(s) + Len(t) : u[i] = IF i <= Len(s) THEN s[i] ELSE t[i - Len(s)]
  BY ConcatProperties
<1>2. Len(s) \in Nat /\ Len(t) \in Nat /\ Len(s) >= 1 BY EmptySeq, LenProperties
<1>3. /\ Head(s) \in S /\ Tail(s) \in Seq(S) /\ Len(Tail(s)) = Len(s) - 1
      /\ \A i \in 1..Len(Tail(s)) : Tail(s)[i] = s[i + 1]
  BY HeadTailProperties
<1>4. /\ v \in Seq(S) /\ Len(v) = (Len(s) - 1) + Len(t)
      /\ \A i \in 1..(Len(s) - 1) + Len(t) :
           v[i] = IF i <= Len(s) - 1 THEN Tail(s)[i] ELSE t[i - (Len(s) - 1)]
  BY <1>3, ConcatProperties
<1>5. Head(s) = s[1] OBVIOUS
<1> HIDE DEF u, v
<1>6. u # << >>
  <2>1. Len(u) # 0 BY <1>1, <1>2
  <2> QED BY <2>1
<1>7. Head(u) = Head(s)
  <2>1. Head(u) = u[1] BY <1>1, <1>6
  <2>2. u[1] = s[1] BY <1>1, <1>2
  <2> QED BY <1>5, <2>1, <2>2
<1>8. Tail(u) = v
  <2>1. /\ Tail(u) \in Seq(S) /\ Len(Tail(u)) = Len(u) - 1
        /\ \A i \in 1..Len(Tail(u)) : Tail(u)[i] = u[i + 1]
    BY <1>1, <1>6, HeadTailProperties
  <2>2. Len(Tail(u)) = Len(v) BY <1>1, <1>2, <1>4, <2>1
  <2>3. ASSUME NEW i \in 1..Len(Tail(u)) PROVE Tail(u)[i] = v[i]
    <3> DEFINE k == i + 1
    <3>1. i \in 1..(Len(s) - 1) + Len(t) /\ k \in 1..Len(s) + Len(t) BY <1>1, <1>2, <2>1
    <3>2. k <= Len(s) <=> i <= Len(s) - 1 BY <1>2
    <3>3. k - Len(s) = i - (Len(s) - 1) BY <1>2
    <3>4. i <= Len(s) - 1 => Tail(s)[i] = s[k] BY <1>2, <1>3
    <3>5. Tail(u)[i] = u[k] BY <2>1
    <3> HIDE DEF k
    <3>6. u[k] = IF k <= Len(s) THEN s[k] ELSE t[k - Len(s)] BY <1>1, <3>1
    <3>7. v[i] = IF i <= Len(s) - 1 THEN Tail(s)[i] ELSE t[i - (Len(s) - 1)] BY <1>4, <3>1
    <3> QED BY <3>2, <3>3, <3>4, <3>5, <3>6, <3>7
  <2> QED BY <1>4, <2>1, <2>2, <2>3, SeqEqual
<1>9. u = << Head(u) >> \o Tail(u)
  <2>1. 1 \in 1..Len(u) /\ Len(u) \in 1..Len(u) BY <1>1, <1>2
  <2>2. SubSeq(u, 1, Len(u)) = << u[1] >> \o SubSeq(u, 1 + 1, Len(u))
    BY <1>1, <2>1, SubSeqRecursiveFirst
  <2>3. SubSeq(u, 1, Len(u)) = u BY <1>1, SubSeqFull
  <2>4. Tail(u) = SubSeq(u, 2, Len(u)) BY <1>1, <1>6, TailIsSubSeq
  <2>5. Head(u) = u[1] /\ 1 + 1 = 2 BY <1>1, <1>6
  <2> QED BY <2>2, <2>3, <2>4, <2>5
<1> QED BY <1>6, <1>7, <1>8, <1>9 DEF u, v

\* The first element, and the rest.
LEMMA FrontOfCons ==
  ASSUME NEW S, NEW e \in S, NEW t \in Seq(S)
  PROVE  /\ << e >> \o t \in Seq(S) /\ << e >> \o t # << >>
         /\ Head(<< e >> \o t) = e /\ Tail(<< e >> \o t) = t
         /\ Len(<< e >> \o t) = Len(t) + 1
<1> DEFINE s == << e >>
<1>1. s \in Seq(S) /\ s # << >> /\ Head(s) = e /\ Tail(s) = << >> /\ Len(s) = 1 OBVIOUS
<1> HIDE DEF s
<1>2. s \o t # << >> /\ Head(s \o t) = Head(s) /\ Tail(s \o t) = Tail(s) \o t
  BY <1>1, FrontOfConcat
<1>3. << >> \o t = t BY ConcatEmptySeq
<1>4. s \o t \in Seq(S) /\ Len(s \o t) = Len(t) + 1 BY <1>1, ConcatProperties, LenProperties
<1> QED BY <1>1, <1>2, <1>3, <1>4 DEF s

LEMMA Cons ==
  ASSUME NEW S, NEW s \in Seq(S), s # << >>
  PROVE  s = << Head(s) >> \o Tail(s)
<1>1. << >> \in Seq(S) /\ s \o << >> = s BY EmptySeq, ConcatEmptySeq
<1>2. Tail(s) \in Seq(S) /\ Tail(s) \o << >> = Tail(s) BY HeadTailProperties, ConcatEmptySeq
<1>3. s \o << >> = << Head(s) >> \o (Tail(s) \o << >>) BY <1>1, FrontOfConcat
<1> QED BY <1>1, <1>2, <1>3

-----------------------------------------------------------------------------
(* What a queue of gets delivers from which chunks.                        *)
IntChunk(n) == InOrder(IntBytes(n), BigEndian)

\* This get delivers the value v from the chunk c.
Delivers(get, c, v) ==
  /\ get \in In!Get /\ c \in Chunk /\ v \in Word
  /\ \/ /\ get.kind = "fixed" /\ get.be = BigEndian /\ get.n = Len(c) /\ Len(c) >= 1
        /\ v = InOrder(c, BigEndian)
     \/ /\ get.kind \in {"byte", "boolean"} /\ Len(c) = 1 /\ v = c
        /\ get.kind = "boolean" => c[1] \in {0, 1}
     \/ get.kind = "fill" /\ get.n = Len(c) /\ Len(c) >= 1 /\ v = c
     \/ get.kind = "char" /\ \E ch \in Char : c = Utf8Bytes(ch) /\ v = << ch >>

\* The gets in the place of one that takes the length m.
Native(k, n) == << In!GetOf("native", k), In!GetOf("string", n) >>
Expansion(get, m) ==
  IF m = NULL_ARRAY_LENGTH THEN << >>
  ELSE CASE get.kind = "bytes" -> IF m > 0 THEN << In!GetOf("fill", m) >> ELSE << >>
         [] get.kind = "booleans" -> In!Repeat(In!GetOf("boolean", 1), m)
         [] get.kind = "fixeds" -> In!Repeat(In!GetOf("fixed", get.n), m)
         [] get.kind = "utfs" -> In!Repeat(In!GetOf("utf", 0), m)
         [] get.kind = "utf" -> [i \in 1..m |-> In!GetOf("char", i - 1)]
         [] OTHER -> Native(m, m)

\* How many values a record has behind its first.
Behind(r) == Len(Values(r)) - 1

\* This get, for record r or a part of it, takes the length m.  A string that
\* readUTF reads is a string of the record, a native one the whole record.
Counts(get, m, r) ==
  /\ m \in -1..HeapMax
  /\ \/ get.kind \in {"bytes", "booleans", "fixeds", "utfs"}
     \/ /\ get.kind = "utf"
        /\ m = NULL_ARRAY_LENGTH \/ StringReader = "utf" \/ m \in StringLengths(r)
     \/ get.kind = "utfJNI" /\ m = Behind(r)

\* The first get of a queue delivers v from c and leaves the queue rest.
Takes(queue, c, v, rest, r) ==
  /\ queue # << >>
  /\ \/ Delivers(Head(queue), c, v) /\ rest = Tail(queue)
     \/ \E m \in Int : /\ Counts(Head(queue), m, r)
                       /\ c = IntChunk(m) /\ v = << m >>
                       /\ rest = Expansion(Head(queue), m) \o Tail(queue)
     \/ \E k \in Nat, ch \in Char : /\ queue = Native(k + 1, Behind(r))
                                    /\ rest = Native(k, Behind(r))
                                    /\ c = Utf8Bytes(ch) /\ v = << ch >>

\* Nothing is left to deliver, though native code may still have to return.
Final(queue, r) ==
  queue \in {<< >>, Native(0, Behind(r)), << In!GetOf("string", Behind(r)) >>}

\* A queue delivers the values vs from the chunks cs, through these queues.
Queues(f, queue, cs, vs, r) ==
  /\ f \in [0..Len(cs) -> Seq(In!Get)]
  /\ f[0] = queue /\ Final(f[Len(cs)], r)
  /\ \A i \in 1..Len(cs) : Takes(f[i - 1], cs[i], vs[i], f[i], r)

\* There are such queues, one value for each chunk.
Reads(queue, cs, vs, r) == Len(vs) = Len(cs) /\ \E f : Queues(f, queue, cs, vs, r)

LEMMA ReadsNothing ==
  ASSUME NEW queue \in Seq(In!Get), NEW r, Final(queue, r)
  PROVE  Reads(queue, << >>, << >>, r)
<1> DEFINE f == [i \in 0..0 |-> queue]
<1>1. f \in [0..0 -> Seq(In!Get)] /\ f[0] = queue /\ Len(<< >>) = 0 OBVIOUS
<1> HIDE DEF f
<1>2. Queues(f, queue, << >>, << >>, r) BY <1>1 DEF Queues
<1> QED BY <1>2 DEF Reads

LEMMA NothingReads == ASSUME NEW r PROVE Reads(<< >>, << >>, << >>, r)
<1>1. << >> \in Seq(In!Get) BY EmptySeq
<1>2. Final(<< >>, r) BY DEF Final
<1> QED BY <1>1, <1>2, ReadsNothing

LEMMA ReadsEmpty ==
  ASSUME NEW queue, NEW vs \in Seq(Word), NEW r, Reads(queue, << >>, vs, r)
  PROVE  vs = << >> /\ Final(queue, r)
<1>1. Len(<< >>) = 0 OBVIOUS
<1>2. Len(vs) = 0 BY <1>1 DEF Reads
<1>3. PICK f : Queues(f, queue, << >>, vs, r) BY DEF Reads
<1>4. vs = << >> BY <1>2, EmptySeq
<1> QED BY <1>1, <1>3, <1>4 DEF Queues

\* A get that delivers its value in front of gets that deliver theirs.
LEMMA ReadsMore ==
  ASSUME NEW queue \in Seq(In!Get), NEW c \in Chunk, NEW v \in Word, NEW rest, NEW r,
         NEW cs \in Seq(Chunk), NEW vs \in Seq(Word),
         Takes(queue, c, v, rest, r), Reads(rest, cs, vs, r)
  PROVE  Reads(queue, << c >> \o cs, << v >> \o vs, r)
<1> DEFINE l == Len(cs)
           ds == << c >> \o cs
           ws == << v >> \o vs
           g(f) == [i \in 0..l + 1 |-> IF i = 0 THEN queue ELSE f[i - 1]]
<1>1. PICK f : Queues(f, rest, cs, vs, r) BY DEF Reads
<1>2. l \in Nat /\ Len(vs) = l BY LenProperties DEF Reads
<1>3. /\ ds \in Seq(Chunk) /\ Len(ds) = l + 1 /\ ds[1] = c /\ \A i \in 1..l : ds[i + 1] = cs[i]
  <2>1. /\ ds \in Seq(Chunk) /\ ds # << >> /\ Head(ds) = c /\ Tail(ds) = cs /\ Len(ds) = l + 1
    BY FrontOfCons
  <2> HIDE DEF ds
  <2>2. Head(ds) = ds[1] BY <2>1
  <2>3. \A i \in 1..Len(Tail(ds)) : Tail(ds)[i] = ds[i + 1] BY <2>1, HeadTailProperties
  <2> QED BY <2>1, <2>2, <2>3
<1>4. /\ ws \in Seq(Word) /\ Len(ws) = l + 1 /\ ws[1] = v /\ \A i \in 1..l : ws[i + 1] = vs[i]
  <2>1. /\ ws \in Seq(Word) /\ ws # << >> /\ Head(ws) = v /\ Tail(ws) = vs /\ Len(ws) = l + 1
    BY <1>2, FrontOfCons
  <2> HIDE DEF ws
  <2>2. Head(ws) = ws[1] BY <2>1
  <2>3. \A i \in 1..Len(Tail(ws)) : Tail(ws)[i] = ws[i + 1] BY <2>1, HeadTailProperties
  <2> QED BY <1>2, <2>1, <2>2, <2>3
<1> HIDE DEF ds, ws
<1>5. /\ f \in [0..l -> Seq(In!Get)] /\ f[0] = rest /\ Final(f[l], r)
      /\ \A i \in 1..l : Takes(f[i - 1], cs[i], vs[i], f[i], r)
  BY <1>1 DEF Queues
<1>6. g(f) \in [0..l + 1 -> Seq(In!Get)]
  <2>1. \A i \in 0..l + 1 : i # 0 => i - 1 \in 0..l BY <1>2
  <2> QED BY <1>5, <2>1
<1>7. g(f)[0] = queue /\ \A i \in 1..l + 1 : g(f)[i] = f[i - 1] BY <1>2
<1> DEFINE h == g(f)
<1>8. h \in [0..l + 1 -> Seq(In!Get)] /\ h[0] = queue /\ \A i \in 1..l + 1 : h[i] = f[i - 1]
  BY <1>6, <1>7
<1> HIDE DEF h, l
<1>9. Final(h[l + 1], r)
  <2>1. l + 1 \in 1..l + 1 /\ (l + 1) - 1 = l BY <1>2
  <2> QED BY <1>5, <1>8, <2>1
<1>10. ASSUME NEW i \in 1..l + 1 PROVE Takes(h[i - 1], ds[i], ws[i], h[i], r)
  <2>1. CASE i = 1
    <3>1. i - 1 = 0 /\ 1 \in 1..l + 1 /\ 1 - 1 = 0 BY <1>2, <2>1
    <3>2. h[1] = rest BY <1>5, <1>8, <3>1
    <3> QED BY <1>3, <1>4, <1>8, <2>1, <3>1, <3>2
  <2>2. CASE i # 1
    <3> DEFINE j == i - 1
    <3>1. j \in 1..l /\ j + 1 = i /\ j \in 1..l + 1 BY <1>2, <2>2
    <3>2. h[i] = f[j] /\ h[j] = f[j - 1] BY <1>8, <3>1
    <3> HIDE DEF j
    <3>3. ds[i] = cs[j] /\ ws[i] = vs[j] BY <1>3, <1>4, <3>1
    <3>4. Takes(f[j - 1], cs[j], vs[j], f[j], r) BY <1>5, <3>1
    <3> QED BY <3>2, <3>3, <3>4 DEF j
  <2> QED BY <2>1, <2>2
<1>11. Queues(h, queue, ds, ws, r) BY <1>3, <1>8, <1>9, <1>10 DEF Queues
<1>12. Reads(queue, ds, ws, r) BY <1>3, <1>4, <1>11 DEF Reads
<1> QED BY <1>12 DEF ds, ws

\* The first value of a queue, and the gets that are left for the others.
LEMMA ReadsFirst ==
  ASSUME NEW queue, NEW cs \in Seq(Chunk), cs # << >>, NEW vs \in Seq(Word), NEW r,
         Reads(queue, cs, vs, r)
  PROVE  /\ vs # << >>
         /\ \E rest \in Seq(In!Get) : /\ Takes(queue, Head(cs), Head(vs), rest, r)
                                      /\ Reads(rest, Tail(cs), Tail(vs), r)
<1> DEFINE l == Len(cs)
           ds == Tail(cs)
           ws == Tail(vs)
<1>1. PICK f : Queues(f, queue, cs, vs, r) BY DEF Reads
<1>2. l \in Nat /\ l >= 1 /\ Len(vs) = l BY EmptySeq, LenProperties DEF Reads
<1>3. vs # << >> BY <1>2
<1>4. /\ ds \in Seq(Chunk) /\ Len(ds) = l - 1 /\ Head(cs) = cs[1]
      /\ \A i \in 1..l - 1 : ds[i] = cs[i + 1]
  BY HeadTailProperties
<1>5. /\ ws \in Seq(Word) /\ Len(ws) = l - 1 /\ Head(vs) = vs[1]
      /\ \A i \in 1..l - 1 : ws[i] = vs[i + 1]
  BY <1>2, <1>3, HeadTailProperties
<1> HIDE DEF ds, ws
<1>6. /\ f \in [0..l -> Seq(In!Get)] /\ f[0] = queue /\ Final(f[l], r)
      /\ \A i \in 1..l : Takes(f[i - 1], cs[i], vs[i], f[i], r)
  BY <1>1 DEF Queues
<1> HIDE DEF l
<1> DEFINE h == [i \in 0..l - 1 |-> f[i + 1]]
<1>7. h \in [0..l - 1 -> Seq(In!Get)]
  <2>1. \A i \in 0..l - 1 : i + 1 \in 0..l BY <1>2
  <2> QED BY <1>6, <2>1
<1>8. h[0] = f[1] /\ h[l - 1] = f[l]
  <2>1. 0 \in 0..l - 1 /\ l - 1 \in 0..l - 1 /\ 0 + 1 = 1 /\ (l - 1) + 1 = l BY <1>2
  <2> QED BY <2>1
<1>9. ASSUME NEW i \in 1..l - 1 PROVE Takes(h[i - 1], ds[i], ws[i], h[i], r)
  <2> DEFINE k == i + 1
  <2>1. k \in 1..l /\ k - 1 = i /\ i \in 0..l - 1 /\ i - 1 \in 0..l - 1 /\ (i - 1) + 1 = i
    BY <1>2
  <2>2. h[i] = f[k] /\ h[i - 1] = f[i] /\ ds[i] = cs[k] /\ ws[i] = vs[k] BY <1>4, <1>5, <2>1
  <2> HIDE DEF k, h
  <2> QED BY <1>6, <2>1, <2>2
<1> HIDE DEF h
<1>10. Queues(h, f[1], ds, ws, r) BY <1>4, <1>6, <1>7, <1>8, <1>9 DEF Queues
<1>11. Reads(f[1], ds, ws, r) BY <1>4, <1>5, <1>10 DEF Reads
<1>12. Takes(queue, Head(cs), Head(vs), f[1], r)
  <2>1. 1 \in 1..l /\ 1 - 1 = 0 BY <1>2
  <2> QED BY <1>4, <1>5, <1>6, <2>1
<1>13. f[1] \in Seq(In!Get)
  <2>1. 1 \in 0..l BY <1>2
  <2> QED BY <1>6, <2>1
<1> QED BY <1>3, <1>11, <1>12, <1>13 DEF ds, ws

-----------------------------------------------------------------------------
(* Gets in a row.                                                          *)
LEMMA IntChunkType == ASSUME NEW n \in Int PROVE IntChunk(n) \in Chunk /\ Len(IntChunk(n)) = 4
BY IntBytesType, InOrderType DEF IntChunk, Chunk

\* Gets that deliver one value each, in front of a queue.
LEMMA ReadsEach ==
  ASSUME NEW rest \in Seq(In!Get), NEW ds \in Seq(Chunk), NEW ws \in Seq(Word), NEW r,
         Reads(rest, ds, ws, r),
         NEW queue \in Seq(In!Get), NEW cs \in Seq(Chunk), NEW vs \in Seq(Word),
         Len(cs) = Len(queue), Len(vs) = Len(queue),
         \A i \in 1..Len(queue) : Delivers(queue[i], cs[i], vs[i])
  PROVE  Reads(queue \o rest, cs \o ds, vs \o ws, r)
<1> DEFINE P(q, c, v) == /\ Len(c) = Len(q) /\ Len(v) = Len(q)
                         /\ \A i \in 1..Len(q) : Delivers(q[i], c[i], v[i])
           S == {k \in Nat : \A q \in Seq(In!Get), c \in Seq(Chunk), v \in Seq(Word) :
                    Len(q) = k /\ P(q, c, v) => Reads(q \o rest, c \o ds, v \o ws, r)}
<1>1. 0 \in S
  <2> SUFFICES ASSUME NEW q \in Seq(In!Get), NEW c \in Seq(Chunk), NEW v \in Seq(Word),
                      Len(q) = 0, Len(c) = 0, Len(v) = 0
               PROVE  Reads(q \o rest, c \o ds, v \o ws, r)
    OBVIOUS
  <2>1. q = << >> /\ c = << >> /\ v = << >> BY EmptySeq
  <2>2. q \o rest = rest BY <2>1, ConcatEmptySeq
  <2>3. c \o ds = ds BY <2>1, ConcatEmptySeq
  <2>4. v \o ws = ws BY <2>1, ConcatEmptySeq
  <2> QED BY <2>2, <2>3, <2>4
<1>2. ASSUME NEW k \in Nat, k \in S PROVE k + 1 \in S
  <2> SUFFICES ASSUME NEW q \in Seq(In!Get), NEW c \in Seq(Chunk), NEW v \in Seq(Word),
                      Len(q) = k + 1, P(q, c, v)
               PROVE  Reads(q \o rest, c \o ds, v \o ws, r)
    OBVIOUS
  <2>1. q # << >> /\ c # << >> /\ v # << >>
    <3>1. Len(q) # 0 /\ Len(c) # 0 /\ Len(v) # 0 OBVIOUS
    <3> QED BY <3>1, EmptySeq
  <2>2. /\ Head(q) \in In!Get /\ Tail(q) \in Seq(In!Get) /\ Len(Tail(q)) = k /\ Head(q) = q[1]
        /\ \A i \in 1..k : Tail(q)[i] = q[i + 1]
    BY <2>1, HeadTailProperties
  <2>3. /\ Head(c) \in Chunk /\ Tail(c) \in Seq(Chunk) /\ Len(Tail(c)) = k /\ Head(c) = c[1]
        /\ \A i \in 1..k : Tail(c)[i] = c[i + 1]
    BY <2>1, HeadTailProperties
  <2>4. /\ Head(v) \in Word /\ Tail(v) \in Seq(Word) /\ Len(Tail(v)) = k /\ Head(v) = v[1]
        /\ \A i \in 1..k : Tail(v)[i] = v[i + 1]
    BY <2>1, HeadTailProperties
  <2>5. P(Tail(q), Tail(c), Tail(v))
    <3>1. ASSUME NEW i \in 1..k PROVE Delivers(Tail(q)[i], Tail(c)[i], Tail(v)[i])
      <4>1. i + 1 \in 1..Len(q) OBVIOUS
      <4>2. Delivers(q[i + 1], c[i + 1], v[i + 1]) BY <4>1
      <4> QED BY <2>2, <2>3, <2>4, <4>2
    <3> QED BY <2>2, <2>3, <2>4, <3>1
  <2> DEFINE q2 == Tail(q) \o rest
             c2 == Tail(c) \o ds
             v2 == Tail(v) \o ws
  <2>6. Reads(q2, c2, v2, r) BY <1>2, <2>2, <2>3, <2>4, <2>5
  <2>7. q2 \in Seq(In!Get) /\ c2 \in Seq(Chunk) /\ v2 \in Seq(Word)
    BY <2>2, <2>3, <2>4, ConcatProperties
  <2>8. q \o rest # << >> /\ Head(q \o rest) = Head(q) /\ Tail(q \o rest) = q2
    BY <2>1, FrontOfConcat
  <2>9. c \o ds = << Head(c) >> \o c2 BY <2>1, FrontOfConcat
  <2>10. v \o ws = << Head(v) >> \o v2 BY <2>1, FrontOfConcat
  <2>11. Delivers(Head(q), Head(c), Head(v))
    <3>1. 1 \in 1..Len(q) OBVIOUS
    <3>2. Delivers(q[1], c[1], v[1]) BY <3>1
    <3> QED BY <2>2, <2>3, <2>4, <3>2
  <2> HIDE DEF q2, c2, v2
  <2>12. Takes(q \o rest, Head(c), Head(v), q2, r) BY <2>8, <2>11 DEF Takes
  <2>13. q \o rest \in Seq(In!Get) BY ConcatProperties
  <2>14. Reads(q \o rest, << Head(c) >> \o c2, << Head(v) >> \o v2, r)
    BY <2>3, <2>4, <2>6, <2>7, <2>12, <2>13, ReadsMore
  <2> QED BY <2>9, <2>10, <2>14
<1> HIDE DEF S
<1>3. Nat \subseteq S BY <1>1, <1>2, Induction
<1>4. Len(queue) \in S BY <1>3, LenProperties
<1> QED BY <1>4 DEF S

\* A get that takes a length, and the gets in its place.
LEMMA ReadsCounted ==
  ASSUME NEW get \in In!Get, NEW m \in Int, NEW r, Counts(get, m, r),
         NEW rest \in Seq(In!Get), NEW cs \in Seq(Chunk), NEW vs \in Seq(Word),
         Expansion(get, m) \o rest \in Seq(In!Get), Reads(Expansion(get, m) \o rest, cs, vs, r)
  PROVE  Reads(<< get >> \o rest, << IntChunk(m) >> \o cs, << << m >> >> \o vs, r)
<1> DEFINE queue == << get >> \o rest
           after == Expansion(get, m) \o rest
<1>1. queue \in Seq(In!Get) /\ queue # << >> /\ Head(queue) = get /\ Tail(queue) = rest
  BY FrontOfCons
<1> HIDE DEF queue
<1>2. after = Expansion(Head(queue), m) \o Tail(queue) BY <1>1
<1>3. << m >> \in Word /\ IntChunk(m) \in Chunk BY IntChunkType DEF Word
<1> HIDE DEF after
<1>4. Takes(queue, IntChunk(m), << m >>, after, r) BY <1>1, <1>2 DEF Takes
<1>5. Reads(queue, << IntChunk(m) >> \o cs, << << m >> >> \o vs, r)
  BY <1>1, <1>3, <1>4, ReadsMore DEF after
<1> QED BY <1>5 DEF queue

-----------------------------------------------------------------------------
(* Strings.                                                                *)
Utf8(s) == [i \in 1..Len(s) |-> Utf8Bytes(s[i])]
\* A string in the array: its length, then its chars; of a null one the length.
Text(s) == << IntChunk(StringLength(s)) >> \o Utf8(CharsOf(s))
TextValues(s) == << << StringLength(s) >> >> \o Singles(CharsOf(s))

LEMMA GetOfType ==
  ASSUME NEW kind \in In!GetKind, NEW n \in Int
  PROVE  /\ In!GetOf(kind, n) \in In!Get /\ In!GetOf(kind, n).kind = kind
         /\ In!GetOf(kind, n).n = n /\ In!GetOf(kind, n).be = BigEndian
BY SizeAssumption DEF In!GetOf, In!Get

LEMMA Utf8Type ==
  ASSUME NEW s \in Seq(Char)
  PROVE  /\ Utf8(s) \in Seq(Chunk) /\ Len(Utf8(s)) = Len(s)
         /\ \A i \in 1..Len(s) : Utf8(s)[i] = Utf8Bytes(s[i])
<1>1. Len(s) \in Nat BY LenProperties
<1>2. \A i \in 1..Len(s) : Utf8Bytes(s[i]) \in Chunk
  <2> SUFFICES ASSUME NEW i \in 1..Len(s) PROVE Utf8Bytes(s[i]) \in Chunk OBVIOUS
  <2>1. s[i] \in Char BY ElementOfSeq
  <2> QED BY <2>1, Utf8BytesType DEF Chunk
<1>3. Utf8(s) \in [1..Len(s) -> Chunk] /\ \A i \in 1..Len(s) : Utf8(s)[i] = Utf8Bytes(s[i])
  BY <1>2 DEF Utf8
<1> QED BY <1>1, <1>3, FunctionIsSeq

LEMMA SinglesType ==
  ASSUME NEW s, Len(s) \in Nat, \A i \in 1..Len(s) : s[i] \in Int
  PROVE  /\ Singles(s) \in Seq(Word) /\ Len(Singles(s)) = Len(s)
         /\ \A i \in 1..Len(s) : Singles(s)[i] = << s[i] >>
<1>1. \A i \in 1..Len(s) : << s[i] >> \in Word BY DEF Word
<1>2. /\ Singles(s) \in [1..Len(s) -> Word]
      /\ \A i \in 1..Len(s) : Singles(s)[i] = << s[i] >>
  BY <1>1 DEF Singles
<1> QED BY <1>2, FunctionIsSeq

LEMMA StringSingles ==
  ASSUME NEW s \in Seq(Char)
  PROVE  /\ Singles(s) \in Seq(Word) /\ Len(Singles(s)) = Len(s)
         /\ \A i \in 1..Len(s) : Singles(s)[i] = << s[i] >>
<1>1. Len(s) \in Nat BY LenProperties
<1>2. \A i \in 1..Len(s) : s[i] \in Int BY ElementOfSeq, CharIsInt
<1> QED BY <1>1, <1>2, SinglesType

LEMMA TextType ==
  ASSUME NEW s \in StringOrNull
  PROVE  Text(s) \in Seq(Chunk) /\ TextValues(s) \in Seq(Word)
<1> DEFINE n == StringLength(s)
           u == CharsOf(s)
<1>1. n \in Int /\ u \in Seq(Char) BY StringParts
<1> HIDE DEF n, u
<1>2. IntChunk(n) \in Chunk /\ << n >> \in Word BY <1>1, IntChunkType DEF Word
<1>3. << IntChunk(n) >> \in Seq(Chunk) /\ << << n >> >> \in Seq(Word) BY <1>2
<1>4. << IntChunk(n) >> \o Utf8(u) \in Seq(Chunk) BY <1>1, <1>3, Utf8Type, ConcatProperties
<1>5. << << n >> >> \o Singles(u) \in Seq(Word) BY <1>1, <1>3, StringSingles, ConcatProperties
<1> QED BY <1>4, <1>5 DEF Text, TextValues, n, u

\* The gets of n chars.
CharGets(n) == [i \in 1..n |-> In!GetOf("char", i - 1)]

LEMMA CharGetsType ==
  ASSUME NEW n \in Nat
  PROVE  /\ CharGets(n) \in Seq(In!Get) /\ Len(CharGets(n)) = n
         /\ \A i \in 1..n : CharGets(n)[i] = In!GetOf("char", i - 1)
<1>1. \A i \in 1..n : In!GetOf("char", i - 1) \in In!Get
  <2>1. "char" \in In!GetKind BY DEF In!GetKind
  <2> QED BY <2>1, GetOfType
<1>2. /\ CharGets(n) \in [1..n -> In!Get]
      /\ \A i \in 1..n : CharGets(n)[i] = In!GetOf("char", i - 1)
  BY <1>1 DEF CharGets
<1> QED BY <1>2, FunctionIsSeq

\* The gets of readUTF deliver the chars of a string of a record, or a null.
LEMMA ReadsText ==
  ASSUME NEW get \in In!Get, get.kind = "utf", NEW s \in StringOrNull, NEW r,
         Len(CharsOf(s)) <= HeapMax, Len(CharsOf(s)) \in StringLengths(r),
         NEW rest \in Seq(In!Get), NEW ds \in Seq(Chunk), NEW ws \in Seq(Word),
         Reads(rest, ds, ws, r)
  PROVE  Reads(<< get >> \o rest, Text(s) \o ds, TextValues(s) \o ws, r)
<1> DEFINE m == StringLength(s)
           u == CharsOf(s)
           l == Len(u)
           q == Expansion(get, m)
           cs == Utf8(u)
           vs == Singles(u)
<1>1. /\ u \in Seq(Char) /\ l \in Nat /\ l <= HeapMax /\ l \in StringLengths(r)
      /\ m \in Int
      /\ \/ m = NULL_ARRAY_LENGTH /\ l = 0
         \/ m # NULL_ARRAY_LENGTH /\ m = l
  <2>1. u \in Seq(Char) /\ m \in Int BY StringParts
  <2>2. l \in Nat BY <2>1, LenProperties
  <2>3. CASE s = NoString BY <2>1, <2>2, <2>3, StringParts
  <2>4. CASE s # NoString BY <2>1, <2>2, <2>4, StringParts DEF NULL_ARRAY_LENGTH
  <2> QED BY <2>3, <2>4
<1> HIDE DEF m, u
<1>2. /\ q \in Seq(In!Get) /\ Len(q) = l
      /\ \A i \in 1..l : q[i] = In!GetOf("char", i - 1)
  <2>1. CASE m = NULL_ARRAY_LENGTH
    <3>1. q = << >> /\ l = 0 BY <1>1, <2>1 DEF Expansion, NULL_ARRAY_LENGTH
    <3> HIDE DEF q, l
    <3> QED BY <3>1, EmptySeq
  <2>2. CASE m # NULL_ARRAY_LENGTH
    <3>1. q = CharGets(l) BY <1>1, <2>2 DEF Expansion, CharGets
    <3> HIDE DEF q, l
    <3> QED BY <1>1, <3>1, CharGetsType
  <2> QED BY <2>1, <2>2
<1>3. cs \in Seq(Chunk) /\ Len(cs) = l /\ \A i \in 1..l : cs[i] = Utf8Bytes(u[i])
  BY <1>1, Utf8Type
<1>4. vs \in Seq(Word) /\ Len(vs) = l /\ \A i \in 1..l : vs[i] = << u[i] >>
  BY <1>1, StringSingles
<1>5. Counts(get, m, r) BY <1>1, SizeAssumption DEF Counts, NULL_ARRAY_LENGTH
<1>6. \A i \in 1..l : u[i] \in Char BY <1>1, ElementOfSeq
<1> HIDE DEF q, cs, vs, l
<1>7. ASSUME NEW i \in 1..l PROVE Delivers(q[i], cs[i], vs[i])
  <2>1. q[i] \in In!Get /\ cs[i] \in Chunk /\ vs[i] \in Word BY <1>2, <1>3, <1>4, ElementOfSeq
  <2>2. q[i].kind = "char"
    <3>1. "char" \in In!GetKind /\ i - 1 \in Int BY <1>1 DEF In!GetKind
    <3> QED BY <1>2, <3>1, GetOfType
  <2> QED BY <1>3, <1>4, <1>6, <2>1, <2>2 DEF Delivers
<1>8. Reads(q \o rest, cs \o ds, vs \o ws, r) BY <1>2, <1>3, <1>4, <1>7, ReadsEach
<1>9. q \o rest \in Seq(In!Get) /\ cs \o ds \in Seq(Chunk) /\ vs \o ws \in Seq(Word)
  BY <1>2, <1>3, <1>4, ConcatProperties
<1> DEFINE c == IntChunk(m)
           v == << m >>
<1>10. c \in Chunk /\ v \in Word BY <1>1, IntChunkType DEF Word
<1>11. << c >> \in Seq(Chunk) /\ << v >> \in Seq(Word) BY <1>10
<1>12. Reads(<< get >> \o rest, << c >> \o (cs \o ds), << v >> \o (vs \o ws), r)
  BY <1>1, <1>5, <1>8, <1>9, ReadsCounted DEF q
<1>13. Text(s) = << c >> \o cs /\ TextValues(s) = << v >> \o vs
  BY DEF Text, TextValues, cs, vs, m, u
<1> HIDE DEF c, v
<1>14. (<< c >> \o cs) \o ds = << c >> \o (cs \o ds) BY <1>3, <1>11, ConcatAssociative
<1>15. (<< v >> \o vs) \o ws = << v >> \o (vs \o ws) BY <1>4, <1>11, ConcatAssociative
<1> QED BY <1>12, <1>13, <1>14, <1>15

\* A native string.
LEMMA ReadsNative ==
  ASSUME NEW r, Behind(r) \in Int, NEW s \in Seq(Char)
  PROVE  /\ Native(Len(s), Behind(r)) \in Seq(In!Get)
         /\ Reads(Native(Len(s), Behind(r)), Utf8(s), Singles(s), r)
<1> DEFINE n == Behind(r)
<1> DEFINE S == {k \in Nat : \A t \in Seq(Char) : Len(t) = k =>
                                Reads(Native(k, n), Utf8(t), Singles(t), r)}
<1>1. \A k \in Nat : Native(k, n) \in Seq(In!Get)
  <2> SUFFICES ASSUME NEW k \in Nat PROVE Native(k, n) \in Seq(In!Get) OBVIOUS
  <2>1. "native" \in In!GetKind /\ "string" \in In!GetKind /\ k \in Int BY DEF In!GetKind
  <2>2. In!GetOf("native", k) \in In!Get /\ In!GetOf("string", n) \in In!Get
    BY <2>1, GetOfType
  <2> QED BY <2>2 DEF Native
<1>2. 0 \in S
  <2> SUFFICES ASSUME NEW t \in Seq(Char), Len(t) = 0
               PROVE  Reads(Native(0, n), Utf8(t), Singles(t), r)
    OBVIOUS
  <2>1. Utf8(t) = << >> BY Utf8Type, EmptySeq
  <2>2. Singles(t) = << >> BY StringSingles, EmptySeq
  <2>3. Final(Native(0, n), r) /\ Native(0, n) \in Seq(In!Get) BY <1>1 DEF Final
  <2> QED BY <2>1, <2>2, <2>3, ReadsNothing
<1>3. ASSUME NEW k \in Nat, k \in S PROVE k + 1 \in S
  <2> SUFFICES ASSUME NEW t \in Seq(Char), Len(t) = k + 1
               PROVE  Reads(Native(k + 1, n), Utf8(t), Singles(t), r)
    OBVIOUS
  <2> DEFINE u == Tail(t)
  <2>1. t # << >> BY EmptySeq
  <2>2. u \in Seq(Char) /\ Len(u) = k /\ t[1] \in Char /\ \A i \in 1..k : u[i] = t[i + 1]
    BY <2>1, HeadTailProperties
  <2>3. Reads(Native(k, n), Utf8(u), Singles(u), r) BY <1>3, <2>2
  <2> HIDE DEF u
  <2> DEFINE c == Utf8Bytes(t[1])
             v == << t[1] >>
             a == Utf8(t)
             b == Utf8(u)
  <2>4. c \in Chunk /\ v \in Word BY <2>2, Utf8BytesType, CharIsInt DEF Chunk, Word
  <2>5. a = << c >> \o b
    <3>1. a \in Seq(Chunk) /\ Len(a) = k + 1 /\ \A i \in 1..k + 1 : a[i] = Utf8Bytes(t[i])
      BY Utf8Type
    <3>2. b \in Seq(Chunk) /\ Len(b) = k /\ \A i \in 1..k : b[i] = Utf8Bytes(u[i])
      BY <2>2, Utf8Type
    <3> HIDE DEF a, b
    <3>3. a # << >> BY <3>1, EmptySeq
    <3>4. Head(a) = c
      <4>1. Head(a) = a[1] /\ 1 \in 1..k + 1 BY <3>1, <3>3
      <4> QED BY <3>1, <4>1
    <3>5. Tail(a) = b
      <4>1. Tail(a) \in Seq(Chunk) /\ Len(Tail(a)) = k /\ \A i \in 1..k : Tail(a)[i] = a[i + 1]
        BY <3>1, <3>3, HeadTailProperties
      <4>2. ASSUME NEW i \in 1..k PROVE Tail(a)[i] = b[i]
        <5>1. i + 1 \in 1..k + 1 OBVIOUS
        <5>2. Tail(a)[i] = Utf8Bytes(t[i + 1]) BY <3>1, <4>1, <5>1
        <5> QED BY <2>2, <3>2, <5>2
      <4> QED BY <3>2, <4>1, <4>2, SeqEqual
    <3> QED BY <3>1, <3>3, <3>4, <3>5, Cons
  <2> DEFINE d == Singles(t)
             e == Singles(u)
  <2>6. d = << v >> \o e
    <3>1. d \in Seq(Word) /\ Len(d) = k + 1 /\ \A i \in 1..k + 1 : d[i] = << t[i] >>
      BY StringSingles
    <3>2. e \in Seq(Word) /\ Len(e) = k /\ \A i \in 1..k : e[i] = << u[i] >>
      BY <2>2, StringSingles
    <3> HIDE DEF d, e
    <3>3. d # << >> BY <3>1, EmptySeq
    <3>4. Head(d) = v
      <4>1. Head(d) = d[1] /\ 1 \in 1..k + 1 BY <3>1, <3>3
      <4> QED BY <3>1, <4>1
    <3>5. Tail(d) = e
      <4>1. Tail(d) \in Seq(Word) /\ Len(Tail(d)) = k /\ \A i \in 1..k : Tail(d)[i] = d[i + 1]
        BY <3>1, <3>3, HeadTailProperties
      <4>2. ASSUME NEW i \in 1..k PROVE Tail(d)[i] = e[i]
        <5>1. i + 1 \in 1..k + 1 OBVIOUS
        <5>2. Tail(d)[i] = << t[i + 1] >> BY <3>1, <4>1, <5>1
        <5> QED BY <2>2, <3>2, <5>2
      <4> QED BY <3>2, <4>1, <4>2, SeqEqual
    <3> QED BY <3>1, <3>3, <3>4, <3>5, Cons
  <2>7. Takes(Native(k + 1, n), c, v, Native(k, n), r)
    <3>1. Native(k + 1, n) # << >> BY DEF Native
    <3> QED BY <2>2, <3>1 DEF Takes
  <2>8. b \in Seq(Chunk) /\ e \in Seq(Word) BY <2>2, Utf8Type, StringSingles
  <2>9. Native(k + 1, n) \in Seq(In!Get) BY <1>1
  <2> HIDE DEF a, b, c, d, e, v
  <2>10. Reads(Native(k, n), b, e, r) BY <2>3 DEF b, e
  <2>11. Reads(Native(k + 1, n), << c >> \o b, << v >> \o e, r)
    BY <2>4, <2>7, <2>8, <2>9, <2>10, ReadsMore
  <2>12. Reads(Native(k + 1, n), a, d, r) BY <2>5, <2>6, <2>11
  <2> QED BY <2>12 DEF a, d
<1> HIDE DEF S
<1>4. Nat \subseteq S BY <1>2, <1>3, Induction
<1>5. Len(s) \in S /\ Len(s) \in Nat BY <1>4, LenProperties
<1> QED BY <1>1, <1>5 DEF S

-----------------------------------------------------------------------------
(* Arrays of strings.                                                      *)
\* The sequences of ss one behind the other, up to each.
Joins(f, n, ss, S) ==
  /\ f \in [0..n -> Seq(S)] /\ f[0] = << >>
  /\ \A i \in 1..n : f[i] = f[i - 1] \o ss[i]

\* The function that Concat takes the last element of exists.
LEMMA JoinExists ==
  ASSUME NEW S, NEW ss \in Seq(Seq(S)), NEW n \in Nat, n <= Len(ss)
  PROVE  \E f : Joins(f, n, ss, S)
<1> DEFINE N == {m \in Nat : m <= Len(ss) => \E f : Joins(f, m, ss, S)}
<1>1. 0 \in N
  <2> DEFINE f == [k \in 0..0 |-> << >>]
  <2>1. f \in [0..0 -> Seq(S)] /\ f[0] = << >> BY EmptySeq
  <2> HIDE DEF f
  <2>2. Joins(f, 0, ss, S) BY <2>1 DEF Joins
  <2> QED BY <2>2
<1>2. ASSUME NEW m \in Nat, m \in N PROVE m + 1 \in N
  <2> SUFFICES ASSUME m + 1 <= Len(ss) PROVE \E f : Joins(f, m + 1, ss, S) OBVIOUS
  <2>1. PICK f : Joins(f, m, ss, S) BY <1>2, LenProperties
  <2>2. ss[m + 1] \in Seq(S)
    <3>1. m + 1 \in 1..Len(ss) BY LenProperties
    <3> QED BY <3>1, ElementOfSeq
  <2>3. f \in [0..m -> Seq(S)] /\ f[0] = << >> /\ \A k \in 1..m : f[k] = f[k - 1] \o ss[k]
    BY <2>1 DEF Joins
  <2> DEFINE last == f[m] \o ss[m + 1]
             g == [k \in 0..m + 1 |-> IF k = m + 1 THEN last ELSE f[k]]
  <2>4. last \in Seq(S)
    <3>1. f[m] \in Seq(S) BY <2>3
    <3> QED BY <2>2, <3>1, ConcatProperties
  <2>5. g \in [0..m + 1 -> Seq(S)]
    <3> HIDE DEF last
    <3>1. \A k \in 0..m + 1 : k # m + 1 => k \in 0..m OBVIOUS
    <3> QED BY <2>3, <2>4, <3>1
  <2>6. g[0] = << >> BY <2>3
  <2>7. ASSUME NEW k \in 1..m + 1 PROVE g[k] = g[k - 1] \o ss[k]
    <3>1. k - 1 \in 0..m + 1 /\ k - 1 # m + 1 /\ k \in 0..m + 1 OBVIOUS
    <3>2. g[k - 1] = f[k - 1] BY <3>1
    <3>3. CASE k = m + 1
      <4>1. k - 1 = m BY <3>3
      <4> QED BY <3>1, <3>2, <3>3, <4>1
    <3>4. CASE k # m + 1
      <4>1. k \in 1..m BY <3>4
      <4>2. g[k] = f[k] BY <3>1, <3>4
      <4> QED BY <2>3, <3>2, <4>1, <4>2
    <3> QED BY <3>3, <3>4
  <2> HIDE DEF g
  <2>8. Joins(g, m + 1, ss, S) BY <2>5, <2>6, <2>7 DEF Joins
  <2> QED BY <2>8
<1> HIDE DEF N
<1>3. Nat \subseteq N BY <1>1, <1>2, Induction
<1> QED BY <1>3 DEF N

\* Concat is what its recursion says.
LEMMA ConcatJoins ==
  ASSUME NEW S, NEW ss \in Seq(Seq(S))
  PROVE  \E f : Joins(f, Len(ss), ss, S) /\ Concat(ss) = f[Len(ss)]
<1> DEFINE n == Len(ss)
           Body(f) == [i \in 0..n |-> IF i = 0 THEN << >> ELSE f[i - 1] \o ss[i]]
           Eqn(f) == f = Body(f)
           g == CHOOSE f : Eqn(f)
<1>1. n \in Nat BY LenProperties
<1>2. Concat(ss) = g[n] BY Zenon DEF Concat
<1>3. PICK f : Joins(f, n, ss, S) BY <1>1, JoinExists
<1>4. /\ f \in [0..n -> Seq(S)] /\ f[0] = << >>
      /\ \A i \in 1..n : f[i] = f[i - 1] \o ss[i]
  BY <1>3 DEF Joins
<1>5. Eqn(f)
  <2>1. \A i \in 0..n : f[i] = Body(f)[i]
    <3> SUFFICES ASSUME NEW i \in 0..n PROVE f[i] = Body(f)[i] OBVIOUS
    <3>1. CASE i = 0 BY <1>4, <3>1
    <3>2. CASE i # 0
      <4>1. i \in 1..n BY <1>1, <3>2
      <4> QED BY <1>4, <3>2, <4>1
    <3> QED BY <3>1, <3>2
  <2> HIDE DEF n
  <2> QED BY <1>4, <2>1
<1>6. Eqn(g) BY <1>5, Zenon
<1> HIDE DEF g, n
<1>7. g[0] = << >>
  <2>1. 0 \in 0..n BY <1>1
  <2> QED BY <1>6, <2>1
<1>8. \A i \in 1..n : g[i] = g[i - 1] \o ss[i]
  <2>1. \A i \in 1..n : i \in 0..n /\ i # 0 BY <1>1
  <2> QED BY <1>6, <2>1
<1>9. \A i \in 0..n : g[i] = f[i]
  <2> DEFINE N == {i \in Nat : i \in 0..n => g[i] = f[i]}
  <2>1. 0 \in N BY <1>4, <1>7
  <2>2. ASSUME NEW i \in Nat, i \in N PROVE i + 1 \in N
    <3> SUFFICES ASSUME i + 1 \in 0..n PROVE g[i + 1] = f[i + 1] OBVIOUS
    <3> DEFINE k == i + 1
    <3>1. k \in 1..n /\ k - 1 = i /\ i \in 0..n BY <1>1
    <3>2. g[i] = f[i] BY <2>2, <3>1
    <3> HIDE DEF k
    <3>3. g[k] = f[k] BY <1>4, <1>8, <3>1, <3>2
    <3> QED BY <3>3 DEF k
  <2> HIDE DEF N
  <2>3. Nat \subseteq N BY <2>1, <2>2, Induction
  <2>4. \A i \in 0..n : i \in Nat BY <1>1
  <2> QED BY <2>3, <2>4 DEF N
<1>10. n \in 0..n BY <1>1
<1> QED BY <1>2, <1>3, <1>9, <1>10 DEF n

\* An array of strings.
Texts(a) == Concat([i \in 1..Len(a) |-> Text(a[i])])
TextsValues(a) == Concat([i \in 1..Len(a) |-> TextValues(a[i])])

\* Concatenation is associative; a name for it keeps the provers from looping.
Grouped(s, t, u) == (s \o t) \o u = s \o (t \o u)

LEMMA Regroup ==
  ASSUME NEW S, NEW s \in Seq(S), NEW t \in Seq(S), NEW u \in Seq(S)
  PROVE  Grouped(s, t, u)
BY ConcatAssociative DEF Grouped

LEMMA ReadsGrouped ==
  ASSUME NEW q \in Seq(In!Get), NEW o \in Seq(In!Get), NEW rest \in Seq(In!Get),
         NEW x \in Seq(Chunk), NEW t \in Seq(Chunk), NEW ds \in Seq(Chunk),
         NEW y \in Seq(Word), NEW u \in Seq(Word), NEW ws \in Seq(Word), NEW r,
         Reads(q \o (o \o rest), x \o (t \o ds), y \o (u \o ws), r)
  PROVE  Reads((q \o o) \o rest, (x \o t) \o ds, (y \o u) \o ws, r)
<1>1. Grouped(q, o, rest) BY Regroup
<1>2. Grouped(x, t, ds) BY Regroup
<1>3. Grouped(y, u, ws) BY Regroup
<1> QED BY <1>1, <1>2, <1>3 DEF Grouped

LEMMA RepeatType ==
  ASSUME NEW get \in In!Get, NEW n \in Nat
  PROVE  /\ In!Repeat(get, n) \in Seq(In!Get) /\ Len(In!Repeat(get, n)) = n
         /\ \A i \in 1..n : In!Repeat(get, n)[i] = get
<1>1. /\ In!Repeat(get, n) \in [1..n -> In!Get]
      /\ \A i \in 1..n : In!Repeat(get, n)[i] = get
  BY DEF In!Repeat
<1> QED BY <1>1, FunctionIsSeq

\* The gets of an array of strings deliver each of them.
LEMMA ReadsTexts ==
  ASSUME NEW get \in In!Get, get.kind = "utf", NEW a \in Seq(StringOrNull), NEW r,
         \A i \in 1..Len(a) : /\ Len(CharsOf(a[i])) <= HeapMax
                               /\ Len(CharsOf(a[i])) \in StringLengths(r)
  PROVE  /\ Texts(a) \in Seq(Chunk) /\ TextsValues(a) \in Seq(Word)
         /\ Reads(In!Repeat(get, Len(a)), Texts(a), TextsValues(a), r)
<1> DEFINE l == Len(a)
           cc == [i \in 1..l |-> Text(a[i])]
           vv == [i \in 1..l |-> TextValues(a[i])]
<1>1. l \in Nat BY LenProperties
<1>2. \A i \in 1..l : a[i] \in StringOrNull BY ElementOfSeq
<1>3. \A i \in 1..l : Text(a[i]) \in Seq(Chunk) /\ TextValues(a[i]) \in Seq(Word)
  BY <1>2, TextType
<1>4. cc \in [1..l -> Seq(Chunk)] /\ vv \in [1..l -> Seq(Word)] BY <1>3
<1>5. \A i \in 1..l : cc[i] = Text(a[i]) /\ vv[i] = TextValues(a[i]) OBVIOUS
<1>6. Texts(a) = Concat(cc) /\ TextsValues(a) = Concat(vv) BY DEF Texts, TextsValues
<1> HIDE DEF cc, vv
<1>7. /\ cc \in Seq(Seq(Chunk)) /\ Len(cc) = l
      /\ vv \in Seq(Seq(Word)) /\ Len(vv) = l
  BY <1>1, <1>4, FunctionIsSeq
<1>8. PICK f : Joins(f, l, cc, Chunk) /\ Concat(cc) = f[l] BY <1>7, ConcatJoins
<1>9. PICK g : Joins(g, l, vv, Word) /\ Concat(vv) = g[l] BY <1>7, ConcatJoins
<1>10. /\ f \in [0..l -> Seq(Chunk)] /\ f[0] = << >>
       /\ \A i \in 1..l : f[i] = f[i - 1] \o Text(a[i])
  BY <1>5, <1>8 DEF Joins
<1>11. /\ g \in [0..l -> Seq(Word)] /\ g[0] = << >>
       /\ \A i \in 1..l : g[i] = g[i - 1] \o TextValues(a[i])
  BY <1>5, <1>9 DEF Joins
<1> HIDE DEF l
<1> DEFINE Q(k) == In!Repeat(get, k)
           S == {k \in Nat : k <= l =>
                  \A rest \in Seq(In!Get), ds \in Seq(Chunk), ws \in Seq(Word) :
                    Reads(rest, ds, ws, r) => Reads(Q(k) \o rest, f[k] \o ds, g[k] \o ws, r)}
<1>12. \A k \in Nat : Q(k) \in Seq(In!Get) /\ Len(Q(k)) = k /\ \A i \in 1..k : Q(k)[i] = get
  BY RepeatType
<1> HIDE DEF Q
<1>13. 0 \in S
  <2> SUFFICES ASSUME NEW rest \in Seq(In!Get), NEW ds \in Seq(Chunk), NEW ws \in Seq(Word),
                      Reads(rest, ds, ws, r)
               PROVE  Reads(Q(0) \o rest, f[0] \o ds, g[0] \o ws, r)
    OBVIOUS
  <2>1. Q(0) = << >>
    <3>1. Q(0) \in Seq(In!Get) /\ Len(Q(0)) = 0 BY <1>12
    <3> QED BY <3>1, EmptySeq
  <2>2. Q(0) \o rest = rest BY <2>1, ConcatEmptySeq
  <2>3. f[0] \o ds = ds BY <1>10, ConcatEmptySeq
  <2>4. g[0] \o ws = ws BY <1>11, ConcatEmptySeq
  <2> QED BY <2>2, <2>3, <2>4
<1>14. ASSUME NEW k \in Nat, k \in S PROVE k + 1 \in S
  <2> DEFINE m == k + 1
  <2> SUFFICES ASSUME m <= l,
                      NEW rest \in Seq(In!Get), NEW ds \in Seq(Chunk), NEW ws \in Seq(Word),
                      Reads(rest, ds, ws, r)
               PROVE  Reads(Q(m) \o rest, f[m] \o ds, g[m] \o ws, r)
    OBVIOUS
  <2> DEFINE t == Text(a[m])
             u == TextValues(a[m])
             o == << get >>
  <2>1. m \in 1..l /\ m \in Nat /\ m - 1 = k /\ k <= l /\ k \in 0..l BY <1>1
  <2>2. f[k] \in Seq(Chunk) /\ g[k] \in Seq(Word) BY <1>10, <1>11, <2>1
  <2>3. t \in Seq(Chunk) /\ u \in Seq(Word) /\ o \in Seq(In!Get) BY <1>3, <2>1 DEF l
  <2>4. f[m] = f[k] \o t /\ g[m] = g[k] \o u BY <1>10, <1>11, <2>1
  <2>5. Reads(o \o rest, t \o ds, u \o ws, r)
    <3> DEFINE s == a[m]
    <3>1. /\ s \in StringOrNull /\ Len(CharsOf(s)) <= HeapMax
          /\ Len(CharsOf(s)) \in StringLengths(r)
      BY <1>2, <2>1 DEF l
    <3> HIDE DEF m, s
    <3>2. Reads(<< get >> \o rest, Text(s) \o ds, TextValues(s) \o ws, r) BY <3>1, ReadsText
    <3> QED BY <3>2 DEF s
  <2>6. o \o rest \in Seq(In!Get) /\ t \o ds \in Seq(Chunk) /\ u \o ws \in Seq(Word)
    BY <2>3, ConcatProperties
  <2>7. Q(m) = Q(k) \o o
    <3>1. Q(m) \in Seq(In!Get) /\ Len(Q(m)) = k + 1 /\ \A i \in 1..k + 1 : Q(m)[i] = get
      BY <1>12, <2>1
    <3>2. Q(k) \in Seq(In!Get) /\ Len(Q(k)) = k /\ \A i \in 1..k : Q(k)[i] = get BY <1>12
    <3>3. Len(o) = 1 /\ o[1] = get OBVIOUS
    <3> DEFINE q == Q(k)
               w == Q(m)
    <3> HIDE DEF o, q, w
    <3>4. /\ q \o o \in Seq(In!Get) /\ Len(q \o o) = Len(q) + Len(o)
          /\ \A i \in 1..Len(q) + Len(o) :
               (q \o o)[i] = IF i <= Len(q) THEN q[i] ELSE o[i - Len(q)]
      <4>1. q \in Seq(In!Get) BY <3>2 DEF q
      <4> QED BY <2>3, <4>1, ConcatProperties
    <3>5. ASSUME NEW i \in 1..k + 1 PROVE w[i] = (q \o o)[i]
      <4>1. i \in 1..Len(q) + Len(o) /\ Len(q) = k BY <3>2, <3>3 DEF q
      <4>2. w[i] = get BY <3>1 DEF w
      <4>3. CASE i <= k
        <5>1. i \in 1..k BY <4>3
        <5>2. q[i] = get BY <3>2, <5>1 DEF q
        <5> QED BY <3>4, <4>1, <4>2, <4>3, <5>2
      <4>4. CASE ~(i <= k)
        <5>1. i - k = 1 BY <4>4
        <5> QED BY <3>3, <3>4, <4>1, <4>2, <4>4, <5>1
      <4> QED BY <4>3, <4>4
    <3>6. w \in Seq(In!Get) /\ Len(w) = k + 1 BY <3>1 DEF w
    <3>7. Len(q \o o) = k + 1 BY <3>2, <3>3, <3>4 DEF q
    <3>8. w = q \o o BY <3>4, <3>5, <3>6, <3>7, SeqEqual
    <3> QED BY <3>8 DEF q, w
  <2> DEFINE q == Q(k)
             x == f[k]
             y == g[k]
  <2> HIDE DEF t, u, o, m, q, x, y, S
  <2>8. Reads(Q(k) \o (o \o rest), f[k] \o (t \o ds), g[k] \o (u \o ws), r)
    BY <1>14, <2>1, <2>5, <2>6 DEF S
  <2>9. Q(k) \in Seq(In!Get) BY <1>12
  <2>10. q \in Seq(In!Get) /\ x \in Seq(Chunk) /\ y \in Seq(Word) BY <2>2, <2>9 DEF q, x, y
  <2>11. Reads((q \o o) \o rest, (x \o t) \o ds, (y \o u) \o ws, r)
    <3>1. Reads(q \o (o \o rest), x \o (t \o ds), y \o (u \o ws), r) BY <2>8 DEF q, x, y
    <3> QED BY <2>3, <2>10, <3>1, ReadsGrouped
  <2> QED BY <2>4, <2>7, <2>11 DEF q, x, y
<1> HIDE DEF S
<1>15. Nat \subseteq S BY <1>13, <1>14, Induction
<1>16. l \in S /\ l <= l /\ l \in 0..l BY <1>1, <1>15
<1>17. f[l] \in Seq(Chunk) /\ g[l] \in Seq(Word) /\ Q(l) \in Seq(In!Get)
  BY <1>1, <1>10, <1>11, <1>12, <1>16
<1>18. << >> \in Seq(In!Get) /\ << >> \in Seq(Chunk) /\ << >> \in Seq(Word) BY EmptySeq
<1>19. Reads(<< >>, << >>, << >>, r) BY NothingReads
<1>20. Reads(Q(l) \o << >>, f[l] \o << >>, g[l] \o << >>, r) BY <1>16, <1>18, <1>19 DEF S
<1>21. Q(l) \o << >> = Q(l) BY <1>17, ConcatEmptySeq
<1>22. f[l] \o << >> = f[l] BY <1>17, ConcatEmptySeq
<1>23. g[l] \o << >> = g[l] BY <1>17, ConcatEmptySeq
<1>24. Reads(Q(l), f[l], g[l], r) BY <1>20, <1>21, <1>22, <1>23
<1> QED BY <1>6, <1>8, <1>9, <1>17, <1>24 DEF Q, l

-----------------------------------------------------------------------------
(* The chunks of a record.                                                 *)
Ordered(a) == [i \in 1..Len(a) |-> InOrder(a[i], BigEndian)]

\* The chunks of a record.
ChunksOf(r) ==
  LET counted == << IntChunk(Len(r.value)) >>
  IN  CASE r.kind = "byte" -> << r.value >>
        [] r.kind = "fixed" -> << InOrder(r.value, BigEndian) >>
        [] r.kind = "bytes" -> IF r.value = << >> THEN counted ELSE Append(counted, r.value)
        [] r.kind = "booleans" -> counted \o Singles(r.value)
        [] r.kind = "fixeds" -> counted \o Ordered(r.value)
        [] r.kind = "utf" -> counted \o Utf8(r.value)
        [] r.kind = "utfs" -> counted \o Texts(r.value)
        [] r.kind = "null" -> << IntChunk(NULL_ARRAY_LENGTH) >>

\* What a record is made of; Read when its get brings all of it back.
Typed(r) == ChunksOf(r) \in Seq(Chunk) /\ Values(r) \in Seq(Word) /\ Values(r) # << >>
\* The get of a record delivers all of its values from its chunks.
Comes(r) == Reads(<< GetFor(r) >>, ChunksOf(r), Values(r), r)

LEMMA ReadsRow ==
  ASSUME NEW queue \in Seq(In!Get), NEW cs \in Seq(Chunk), NEW vs \in Seq(Word), NEW r,
         Len(cs) = Len(queue), Len(vs) = Len(queue),
         \A i \in 1..Len(queue) : Delivers(queue[i], cs[i], vs[i])
  PROVE  Reads(queue, cs, vs, r)
<1>1. << >> \in Seq(In!Get) /\ << >> \in Seq(Chunk) /\ << >> \in Seq(Word) BY EmptySeq
<1>2. Reads(<< >>, << >>, << >>, r) BY NothingReads
<1>3. Reads(queue \o << >>, cs \o << >>, vs \o << >>, r) BY <1>1, <1>2, ReadsEach
<1>4. queue \o << >> = queue BY ConcatEmptySeq
<1>5. cs \o << >> = cs BY ConcatEmptySeq
<1>6. vs \o << >> = vs BY ConcatEmptySeq
<1> QED BY <1>3, <1>4, <1>5, <1>6

LEMMA ReadsOne ==
  ASSUME NEW get, NEW c, NEW v, NEW r, Delivers(get, c, v)
  PROVE  Reads(<< get >>, << c >>, << v >>, r)
<1>1. get \in In!Get /\ c \in Chunk /\ v \in Word BY DEF Delivers
<1>2. << get >> \in Seq(In!Get) /\ << c >> \in Seq(Chunk) /\ << v >> \in Seq(Word) BY <1>1
<1>3. /\ Len(<< get >>) = 1 /\ Len(<< c >>) = 1 /\ Len(<< v >>) = 1
      /\ << get >>[1] = get /\ << c >>[1] = c /\ << v >>[1] = v
  OBVIOUS
<1>4. \A i \in 1..1 : i = 1 OBVIOUS
<1>5. \A i \in 1..Len(<< get >>) : Delivers(<< get >>[i], << c >>[i], << v >>[i])
  BY <1>3, <1>4
<1> QED BY <1>2, <1>3, <1>5, ReadsRow

LEMMA ReadsAlone ==
  ASSUME NEW get \in In!Get, NEW m \in Int, NEW r, Counts(get, m, r),
         NEW cs \in Seq(Chunk), NEW vs \in Seq(Word),
         Expansion(get, m) \in Seq(In!Get), Reads(Expansion(get, m), cs, vs, r)
  PROVE  Reads(<< get >>, << IntChunk(m) >> \o cs, << << m >> >> \o vs, r)
<1> DEFINE queue == Expansion(get, m)
           o == << get >>
<1>1. << >> \in Seq(In!Get) BY EmptySeq
<1>2. queue \o << >> = queue BY ConcatEmptySeq
<1>3. o \o << >> = o
  <2>1. o \in Seq(In!Get) OBVIOUS
  <2> HIDE DEF o
  <2> QED BY <2>1, ConcatEmptySeq
<1>4. Reads(queue \o << >>, cs, vs, r) /\ queue \o << >> \in Seq(In!Get) BY <1>2
<1>5. Reads(o \o << >>, << IntChunk(m) >> \o cs, << << m >> >> \o vs, r)
  BY <1>1, <1>4, ReadsCounted
<1> QED BY <1>3, <1>5

\* The chunks and values of a record that starts with a length.
LEMMA CountedType ==
  ASSUME NEW m \in Int, NEW cs \in Seq(Chunk), NEW vs \in Seq(Word)
  PROVE  /\ << IntChunk(m) >> \o cs \in Seq(Chunk)
         /\ << << m >> >> \o vs \in Seq(Word) /\ << << m >> >> \o vs # << >>
         /\ Len(<< << m >> >> \o vs) = Len(vs) + 1
<1>1. IntChunk(m) \in Chunk /\ << m >> \in Word BY IntChunkType DEF Word
<1>2. << IntChunk(m) >> \o cs \in Seq(Chunk) BY <1>1, FrontOfCons
<1>3. /\ << << m >> >> \o vs \in Seq(Word) /\ << << m >> >> \o vs # << >>
      /\ Len(<< << m >> >> \o vs) = Len(vs) + 1
  BY <1>1, FrontOfCons
<1> QED BY <1>2, <1>3

LEMMA ChunkIsWord == ASSUME NEW c \in Chunk PROVE c \in Word
<1>1. Byte \subseteq Int BY DEF Byte
<1>2. c \in Seq(Byte) BY DEF Chunk
<1>3. c \in Seq(Int) BY <1>1, <1>2, SeqMonotonic
<1> QED BY <1>3 DEF Word

\* The get of a record.
LEMMA GetForType ==
  ASSUME NEW r \in Records PROVE GetFor(r) \in In!Get
<1>1. /\ \A k \in {"fixed", "fixeds", "utf", "utfJNI", "byte", "bytes", "booleans", "utfs"} :
           k \in In!GetKind
      /\ StringReader \in In!GetKind
  BY RecordsAssumption DEF In!GetKind
<1>2. CASE r.kind = "fixed"
  <2>1. Len(r.value) \in Int BY <1>2, RecordsAssumption
  <2>2. GetFor(r) = In!GetOf("fixed", Len(r.value)) BY <1>2 DEF GetFor
  <2> QED BY <1>1, <2>1, <2>2, GetOfType
<1>3. CASE r.kind = "fixeds"
  <2> DEFINE w == IF r.value = << >> THEN 2 ELSE Len(r.value[1])
  <2>1. w \in Int
    <3>1. r.value \in Seq(Seq(Byte)) BY <1>3, RecordsAssumption
    <3>2. ASSUME r.value # << >> PROVE Len(r.value[1]) \in Int
      <4>1. 1 \in 1..Len(r.value) BY <3>1, <3>2, EmptySeq
      <4>2. r.value[1] \in Seq(Byte) BY <3>1, <4>1, ElementOfSeq
      <4> QED BY <4>2, LenProperties
    <3> QED BY <3>2
  <2>2. GetFor(r) = In!GetOf("fixeds", w) BY <1>3 DEF GetFor
  <2> HIDE DEF w
  <2> QED BY <1>1, <2>1, <2>2, GetOfType
<1>4. CASE r.kind = "utf"
  <2>1. GetFor(r) = In!GetOf(StringReader, 1) BY <1>4 DEF GetFor
  <2> QED BY <1>1, <2>1, GetOfType
<1>5. CASE r.kind = "null"
  <2>1. GetFor(r) = In!GetOf("utf", 1) BY <1>5 DEF GetFor
  <2> QED BY <1>1, <2>1, GetOfType
<1>6. CASE r.kind \in {"byte", "bytes", "booleans", "utfs"}
  <2>1. GetFor(r) = In!GetOf(r.kind, 1) BY <1>6 DEF GetFor
  <2> QED BY <1>1, <1>6, <2>1, GetOfType
<1> QED BY <1>2, <1>3, <1>4, <1>5, <1>6, RecordsAssumption

LEMMA ByteComes ==
  ASSUME NEW r \in Records, r.kind = "byte" PROVE Typed(r) /\ Comes(r)
<1> DEFINE get == GetFor(r)
<1>1. r.value \in Chunk /\ Len(r.value) = 1 BY RecordsAssumption DEF Chunk
<1>2. r.value \in Word BY <1>1, ChunkIsWord
<1>3. ChunksOf(r) = << r.value >> /\ Values(r) = << r.value >> BY DEF ChunksOf, Values
<1>4. get = In!GetOf("byte", 1) BY DEF GetFor
<1>5. get \in In!Get /\ get.kind = "byte" BY <1>4, GetOfType DEF In!GetKind
<1> HIDE DEF get
<1>6. Delivers(get, r.value, r.value) BY <1>1, <1>2, <1>5 DEF Delivers
<1>7. Reads(<< get >>, << r.value >>, << r.value >>, r) BY <1>6, ReadsOne
<1>8. Comes(r) BY <1>3, <1>7 DEF Comes, get
<1>9. Typed(r) BY <1>1, <1>2, <1>3 DEF Typed
<1> QED BY <1>8, <1>9

LEMMA FixedComes ==
  ASSUME NEW r \in Records, r.kind = "fixed" PROVE Typed(r) /\ Comes(r)
<1> DEFINE get == GetFor(r)
           c == InOrder(r.value, BigEndian)
           m == Len(r.value)
<1>1. r.value \in Chunk /\ m \in Int /\ 1 <= m
  <2>1. r.value \in Seq(Byte) /\ m \in 2..8 BY RecordsAssumption
  <2> HIDE DEF m
  <2>2. m \in Int /\ 1 <= m BY <2>1
  <2> QED BY <2>1, <2>2 DEF Chunk
<1>2. r.value \in Word BY <1>1, ChunkIsWord
<1>3. ChunksOf(r) = << c >> /\ Values(r) = << r.value >> BY DEF ChunksOf, Values
<1>4. get = In!GetOf("fixed", m) BY DEF GetFor
<1>5. get \in In!Get /\ get.kind = "fixed" /\ get.n = m /\ get.be = BigEndian
  BY <1>1, <1>4, GetOfType DEF In!GetKind
<1>6. c \in Chunk /\ Len(c) = m BY <1>1, InOrderType DEF Chunk
<1>7. InOrder(c, BigEndian) = r.value BY <1>1, InOrderTwice DEF Chunk
<1> HIDE DEF get, c, m
<1>8. Delivers(get, c, r.value) BY <1>1, <1>2, <1>5, <1>6, <1>7 DEF Delivers
<1>9. Reads(<< get >>, << c >>, << r.value >>, r) BY <1>8, ReadsOne
<1>10. Comes(r) BY <1>3, <1>9 DEF Comes, get
<1>11. Typed(r) BY <1>2, <1>3, <1>6 DEF Typed
<1> QED BY <1>10, <1>11

LEMMA NullComes ==
  ASSUME NEW r \in Records, r.kind = "null" PROVE Typed(r) /\ Comes(r)
<1> DEFINE get == GetFor(r)
           m == NULL_ARRAY_LENGTH
<1>1. m \in Int /\ m \in -1..HeapMax BY SizeAssumption DEF NULL_ARRAY_LENGTH
<1>2. ChunksOf(r) = << IntChunk(m) >> /\ Values(r) = << << m >> >>
  BY DEF ChunksOf, Values, NULL_ARRAY_LENGTH
<1>3. get = In!GetOf("utf", 1) BY DEF GetFor
<1>4. get \in In!Get /\ get.kind = "utf" BY <1>3, GetOfType DEF In!GetKind
<1>5. Counts(get, m, r) BY <1>1, <1>4 DEF Counts
<1>6. Expansion(get, m) = << >> BY DEF Expansion
<1>7. << >> \in Seq(In!Get) /\ << >> \in Seq(Chunk) /\ << >> \in Seq(Word) BY EmptySeq
<1> HIDE DEF get, m
<1>8. Reads(<< >>, << >>, << >>, r) BY NothingReads
<1>9. Reads(<< get >>, << IntChunk(m) >> \o << >>, << << m >> >> \o << >>, r)
  BY <1>1, <1>4, <1>5, <1>6, <1>7, <1>8, ReadsAlone
<1>10. IntChunk(m) \in Chunk /\ << m >> \in Word BY <1>1, IntChunkType DEF Word
<1>11. << IntChunk(m) >> \in Seq(Chunk) /\ << << m >> >> \in Seq(Word) BY <1>10
<1>12. << IntChunk(m) >> \o << >> = << IntChunk(m) >> BY <1>11, ConcatEmptySeq
<1>13. << << m >> >> \o << >> = << << m >> >> BY <1>11, ConcatEmptySeq
<1>14. Reads(<< get >>, ChunksOf(r), Values(r), r) BY <1>2, <1>9, <1>12, <1>13
<1>15. Typed(r) BY <1>2, <1>11 DEF Typed
<1> QED BY <1>14, <1>15 DEF Comes, get

\* A length and one chunk per element.
LEMMA RowComes ==
  ASSUME NEW r, NEW get \in In!Get, get = GetFor(r), NEW m \in Nat,
         NEW cs \in Seq(Chunk), NEW vs \in Seq(Word),
         ChunksOf(r) = << IntChunk(m) >> \o cs, Values(r) = << << m >> >> \o vs,
         Counts(get, m, r),
         Expansion(get, m) \in Seq(In!Get), Reads(Expansion(get, m), cs, vs, r)
  PROVE  Typed(r) /\ Comes(r)
<1>1. /\ << IntChunk(m) >> \o cs \in Seq(Chunk)
      /\ << << m >> >> \o vs \in Seq(Word) /\ << << m >> >> \o vs # << >>
  BY CountedType
<1>2. Reads(<< get >>, << IntChunk(m) >> \o cs, << << m >> >> \o vs, r) BY ReadsAlone
<1>3. Comes(r) BY <1>2 DEF Comes
<1>4. Typed(r) BY <1>1 DEF Typed
<1> QED BY <1>3, <1>4

LEMMA BytesComes ==
  ASSUME NEW r \in Records, r.kind = "bytes" PROVE Typed(r) /\ Comes(r)
<1> DEFINE get == GetFor(r)
           m == Len(r.value)
<1>1. r.value \in Chunk /\ m \in Nat /\ m <= HeapMax
  <2>1. r.value \in Seq(Byte) /\ m <= HeapMax BY RecordsAssumption
  <2> QED BY <2>1, LenProperties DEF Chunk
<1>2. r.value \in Word BY <1>1, ChunkIsWord
<1>3. get = In!GetOf("bytes", 1) BY DEF GetFor
<1>4. get \in In!Get /\ get.kind = "bytes" BY <1>3, GetOfType DEF In!GetKind
<1>5. Counts(get, m, r) BY <1>1, <1>4 DEF Counts
<1>6. IntChunk(m) \in Chunk /\ << m >> \in Word BY <1>1, IntChunkType DEF Word
<1>7. << IntChunk(m) >> \in Seq(Chunk) /\ << << m >> >> \in Seq(Word) BY <1>6
<1>8. m # NULL_ARRAY_LENGTH BY <1>1 DEF NULL_ARRAY_LENGTH
<1> DEFINE s == << IntChunk(m) >>
           t == << << m >> >>
<1>9. CASE r.value = << >>
  <2> DEFINE e == << >>
  <2>1. m = 0 BY <1>9
  <2>2. ChunksOf(r) = s /\ Values(r) = t BY <1>9 DEF ChunksOf, Values
  <2>3. Expansion(get, m) = e BY <1>4, <1>8, <2>1 DEF Expansion
  <2>4. e \in Seq(In!Get) /\ e \in Seq(Chunk) /\ e \in Seq(Word) /\ Len(e) = 0 BY EmptySeq
  <2>5. Reads(e, e, e, r) BY NothingReads
  <2> HIDE DEF e
  <2>6. s \in Seq(Chunk) /\ t \in Seq(Word) BY <1>7
  <2> HIDE DEF s, t
  <2>7. s \o e = s BY <2>6, ConcatEmptySeq DEF e
  <2>8. t \o e = t BY <2>6, ConcatEmptySeq DEF e
  <2>9. ChunksOf(r) = s \o e /\ Values(r) = t \o e BY <2>2, <2>7, <2>8
  <2>10. ChunksOf(r) = << IntChunk(m) >> \o e /\ Values(r) = << << m >> >> \o e
    BY <2>9 DEF s, t
  <2>11. get = GetFor(r) OBVIOUS
  <2> HIDE DEF get, m
  <2> QED BY <1>1, <1>4, <1>5, <2>3, <2>4, <2>5, <2>10, <2>11, RowComes
<1>10. CASE r.value # << >>
  <2> DEFINE f == In!GetOf("fill", m)
             v == << r.value >>
             q == << f >>
  <2>1. m >= 1 BY <1>1, <1>10, EmptySeq DEF Chunk
  <2>2. Expansion(get, m) = q BY <1>4, <1>8, <2>1 DEF Expansion
  <2>3. f \in In!Get /\ f.kind = "fill" /\ f.n = m BY <1>1, GetOfType DEF In!GetKind
  <2>4. ChunksOf(r) = Append(s, r.value) /\ Values(r) = Append(t, r.value)
    BY <1>10 DEF ChunksOf, Values
  <2> HIDE DEF f
  <2>5. Delivers(f, r.value, r.value) BY <1>1, <1>2, <2>1, <2>3 DEF Delivers
  <2>6. v \in Seq(Chunk) /\ v \in Seq(Word) /\ q \in Seq(In!Get) /\ Len(v) = 1
    BY <1>1, <1>2, <2>3
  <2>7. Reads(q, v, v, r) BY <2>5, ReadsOne
  <2>8. s \in Seq(Chunk) /\ t \in Seq(Word) BY <1>7
  <2> HIDE DEF s, t
  <2>9. Append(s, r.value) = s \o v BY <1>1, <2>8, AppendIsConcat
  <2>10. Append(t, r.value) = t \o v BY <1>2, <2>8, AppendIsConcat
  <2> HIDE DEF v, q
  <2>11. ChunksOf(r) = s \o v /\ Values(r) = t \o v BY <2>4, <2>9, <2>10
  <2>12. ChunksOf(r) = << IntChunk(m) >> \o v /\ Values(r) = << << m >> >> \o v
    BY <2>11 DEF s, t
  <2>13. get = GetFor(r) OBVIOUS
  <2> HIDE DEF get, m
  <2> QED BY <1>1, <1>4, <1>5, <2>2, <2>6, <2>7, <2>12, <2>13, RowComes
<1> QED BY <1>9, <1>10

LEMMA BooleansComes ==
  ASSUME NEW r \in Records, r.kind = "booleans" PROVE Typed(r) /\ Comes(r)
<1> DEFINE get == GetFor(r)
           a == r.value
           m == Len(a)
           o == In!GetOf("boolean", 1)
           q == In!Repeat(o, m)
           cs == Singles(a)
<1>1. a \in Seq({0, 1}) /\ m \in Nat /\ m <= HeapMax
  <2>1. a \in Seq({0, 1}) /\ m <= HeapMax BY RecordsAssumption
  <2> QED BY <2>1, LenProperties
<1>2. get = In!GetOf("booleans", 1) BY DEF GetFor
<1>3. get \in In!Get /\ get.kind = "booleans" BY <1>2, GetOfType DEF In!GetKind
<1>4. o \in In!Get /\ o.kind = "boolean" BY GetOfType DEF In!GetKind
<1>5. Counts(get, m, r) BY <1>1, <1>3 DEF Counts
<1>6. m # NULL_ARRAY_LENGTH BY <1>1 DEF NULL_ARRAY_LENGTH
<1>7. Expansion(get, m) = q BY <1>3, <1>6 DEF Expansion
<1>8. ChunksOf(r) = << IntChunk(m) >> \o cs /\ Values(r) = << << m >> >> \o cs
  BY DEF ChunksOf, Values
<1>9. \A i \in 1..m : a[i] \in {0, 1} BY <1>1, ElementOfSeq
<1>10. \A i \in 1..m : a[i] \in Int BY <1>9
<1> HIDE DEF get, a, m, o, q, cs
<1>11. cs \in Seq(Word) /\ Len(cs) = m /\ \A i \in 1..m : cs[i] = << a[i] >>
  BY <1>1, <1>10, SinglesType DEF cs, m
<1>12. \A i \in 1..m : << a[i] >> \in Chunk /\ << a[i] >> \in Word
  <2>1. \A i \in 1..m : a[i] \in Byte /\ a[i] \in Int BY <1>9 DEF Byte
  <2> QED BY <2>1 DEF Chunk, Word
<1>13. cs \in Seq(Chunk)
  <2>1. cs \in [1..m -> Chunk]
    <3>1. cs \in [1..m -> Word] BY <1>11, LenProperties
    <3> QED BY <1>11, <1>12, <3>1
  <2> QED BY <1>1, <2>1, FunctionIsSeq
<1>14. q \in Seq(In!Get) /\ Len(q) = m /\ \A i \in 1..m : q[i] = o
  BY <1>1, <1>4, RepeatType DEF q
<1>15. ASSUME NEW i \in 1..m PROVE Delivers(q[i], cs[i], cs[i])
  <2> DEFINE c == << a[i] >>
  <2>1. c \in Chunk /\ c \in Word /\ Len(c) = 1 /\ c[1] \in {0, 1} BY <1>9, <1>12
  <2>2. q[i] = o /\ cs[i] = c BY <1>11, <1>14
  <2> HIDE DEF c
  <2>3. Delivers(o, c, c) BY <1>4, <2>1 DEF Delivers
  <2> QED BY <2>2, <2>3
<1>16. Reads(q, cs, cs, r) BY <1>11, <1>13, <1>14, <1>15, ReadsRow
<1>17. get = GetFor(r) BY DEF get
<1> QED BY <1>1, <1>3, <1>5, <1>7, <1>8, <1>11, <1>13, <1>14, <1>16, <1>17, RowComes

LEMMA OrderedType ==
  ASSUME NEW a \in Seq(Chunk)
  PROVE  /\ Ordered(a) \in Seq(Chunk) /\ Len(Ordered(a)) = Len(a)
         /\ \A i \in 1..Len(a) : Ordered(a)[i] = InOrder(a[i], BigEndian)
<1>1. Len(a) \in Nat BY LenProperties
<1>2. \A i \in 1..Len(a) : InOrder(a[i], BigEndian) \in Chunk
  <2> SUFFICES ASSUME NEW i \in 1..Len(a) PROVE InOrder(a[i], BigEndian) \in Chunk OBVIOUS
  <2>1. a[i] \in Seq(Byte) BY ElementOfSeq DEF Chunk
  <2> QED BY <2>1, InOrderType DEF Chunk
<1>3. /\ Ordered(a) \in [1..Len(a) -> Chunk]
      /\ \A i \in 1..Len(a) : Ordered(a)[i] = InOrder(a[i], BigEndian)
  BY <1>2 DEF Ordered
<1> QED BY <1>1, <1>3, FunctionIsSeq

LEMMA FixedsComes ==
  ASSUME NEW r \in Records, r.kind = "fixeds" PROVE Typed(r) /\ Comes(r)
<1> DEFINE get == GetFor(r)
           a == r.value
           m == Len(a)
           w == IF a = << >> THEN 2 ELSE Len(a[1])
           o == In!GetOf("fixed", w)
           q == In!Repeat(o, m)
           cs == Ordered(a)
<1>1. /\ a \in Seq(Seq(Byte)) /\ m \in Nat /\ m <= HeapMax
      /\ \E k \in 2..8 : \A i \in DOMAIN a : Len(a[i]) = k
  <2>1. /\ a \in Seq(Seq(Byte)) /\ m <= HeapMax
        /\ \E k \in 2..8 : \A i \in DOMAIN a : Len(a[i]) = k
    BY RecordsAssumption
  <2> QED BY <2>1, LenProperties
<1>2. a \in Seq(Chunk) /\ DOMAIN a = 1..m BY <1>1, LenProperties DEF Chunk
<1>3. w \in 2..8 /\ \A i \in 1..m : Len(a[i]) = w
  <2>1. PICK k \in 2..8 : \A i \in 1..m : Len(a[i]) = k BY <1>1, <1>2
  <2>2. CASE a = << >>
    <3>1. m = 0 /\ w = 2 BY <2>2
    <3> HIDE DEF m, w
    <3> QED BY <3>1
  <2>3. CASE a # << >>
    <3>1. 1 \in 1..m BY <1>2, <2>3, EmptySeq
    <3>2. w = k BY <2>1, <2>3, <3>1
    <3> QED BY <2>1, <3>2
  <2> QED BY <2>2, <2>3
<1>4. get = In!GetOf("fixeds", w) BY DEF GetFor
<1> HIDE DEF w
<1>5. w \in Int BY <1>3
<1>6. get \in In!Get /\ get.kind = "fixeds" /\ get.n = w
  BY <1>4, <1>5, GetOfType DEF In!GetKind
<1>7. o \in In!Get /\ o.kind = "fixed" /\ o.n = w /\ o.be = BigEndian
  BY <1>5, GetOfType DEF In!GetKind
<1>8. Counts(get, m, r) BY <1>1, <1>6 DEF Counts
<1>9. m # NULL_ARRAY_LENGTH BY <1>1 DEF NULL_ARRAY_LENGTH
<1>10. Expansion(get, m) = q BY <1>6, <1>9 DEF Expansion
<1>11. ChunksOf(r) = << IntChunk(m) >> \o cs /\ Values(r) = << << m >> >> \o a
  BY DEF ChunksOf, Values
<1> HIDE DEF get, a, m, o, q, cs
<1>12. /\ cs \in Seq(Chunk) /\ Len(cs) = m
       /\ \A i \in 1..m : cs[i] = InOrder(a[i], BigEndian)
  BY <1>2, OrderedType DEF cs, m
<1>13. \A i \in 1..m : a[i] \in Chunk /\ a[i] \in Word
  <2>1. \A i \in 1..m : a[i] \in Chunk BY <1>2, ElementOfSeq DEF m
  <2> QED BY <2>1, ChunkIsWord
<1>14. a \in Seq(Word) /\ Len(a) = m
  <2>1. a \in [1..m -> Word]
    <3>1. a \in [1..m -> Chunk] BY <1>2, LenProperties DEF m
    <3> QED BY <1>13, <3>1
  <2> QED BY <1>1, <2>1, FunctionIsSeq
<1>15. q \in Seq(In!Get) /\ Len(q) = m /\ \A i \in 1..m : q[i] = o
  BY <1>1, <1>7, RepeatType DEF q
<1>16. ASSUME NEW i \in 1..m PROVE Delivers(q[i], cs[i], a[i])
  <2> DEFINE v == a[i]
             c == InOrder(v, BigEndian)
  <2>1. v \in Chunk /\ v \in Word /\ Len(v) = w BY <1>3, <1>13
  <2>2. c \in Chunk /\ Len(c) = w BY <2>1, InOrderType DEF Chunk
  <2>3. InOrder(c, BigEndian) = v BY <2>1, InOrderTwice DEF Chunk
  <2>4. q[i] = o /\ cs[i] = c BY <1>12, <1>15
  <2> HIDE DEF v, c
  <2>5. Delivers(o, c, v) BY <1>3, <1>7, <2>1, <2>2, <2>3 DEF Delivers
  <2> QED BY <2>4, <2>5 DEF v
<1>17. Reads(q, cs, a, r) BY <1>12, <1>14, <1>15, <1>16, ReadsRow
<1>18. get = GetFor(r) BY DEF get
<1> QED BY <1>1, <1>6, <1>8, <1>10, <1>11, <1>12, <1>14, <1>15, <1>17, <1>18, RowComes

LEMMA StringComes ==
  ASSUME NEW r \in Records, r.kind = "utf" PROVE Typed(r) /\ Comes(r)
<1> DEFINE get == GetFor(r)
           s == r.value
           m == Len(s)
           cs == Utf8(s)
           vs == Singles(s)
<1>1. s \in Seq(Char) /\ m \in Nat /\ m <= HeapMax
  <2>1. s \in Seq(Char) /\ m <= HeapMax BY RecordsAssumption
  <2> QED BY <2>1, LenProperties
<1>2. get = In!GetOf(StringReader, 1) BY DEF GetFor
<1>3. StringReader \in {"utf", "utfJNI"} BY RecordsAssumption
<1>4. get \in In!Get /\ get.kind = StringReader BY <1>2, <1>3, GetOfType DEF In!GetKind
<1>5. ChunksOf(r) = << IntChunk(m) >> \o cs /\ Values(r) = << << m >> >> \o vs
  BY DEF ChunksOf, Values
<1>6. cs \in Seq(Chunk) /\ Len(cs) = m /\ vs \in Seq(Word) /\ Len(vs) = m
  BY <1>1, Utf8Type, StringSingles
<1>7. get = GetFor(r) OBVIOUS
<1>8. m \in -1..HeapMax /\ m # NULL_ARRAY_LENGTH BY <1>1 DEF NULL_ARRAY_LENGTH
<1>9. m \in StringLengths(r) BY DEF StringLengths
<1> HIDE DEF get, s, m, cs, vs
<1>10. Behind(r) = m
  <2>1. Len(Values(r)) = Len(vs) + 1 BY <1>1, <1>5, <1>6, CountedType
  <2> QED BY <1>1, <1>6, <2>1 DEF Behind
<1>11. Counts(get, m, r) BY <1>3, <1>4, <1>8, <1>9, <1>10 DEF Counts
<1>12. Expansion(get, m) \in Seq(In!Get) /\ Reads(Expansion(get, m), cs, vs, r)
  <2>1. CASE StringReader = "utf"
    <3> DEFINE q == CharGets(m)
    <3>1. q \in Seq(In!Get) /\ Len(q) = m /\ \A i \in 1..m : q[i] = In!GetOf("char", i - 1)
      BY <1>1, CharGetsType
    <3>2. Expansion(get, m) = q BY <1>4, <1>8, <2>1 DEF Expansion, CharGets
    <3> HIDE DEF q
    <3>3. \A i \in 1..m : cs[i] = Utf8Bytes(s[i]) /\ vs[i] = << s[i] >> /\ s[i] \in Char
      BY <1>1, Utf8Type, StringSingles, ElementOfSeq DEF cs, vs, m
    <3>4. ASSUME NEW i \in 1..m PROVE Delivers(q[i], cs[i], vs[i])
      <4>1. q[i] \in In!Get /\ cs[i] \in Chunk /\ vs[i] \in Word
        BY <1>6, <3>1, ElementOfSeq
      <4>2. q[i].kind = "char"
        <5>1. "char" \in In!GetKind /\ i - 1 \in Int BY <1>1 DEF In!GetKind
        <5> QED BY <3>1, <5>1, GetOfType
      <4> QED BY <3>3, <4>1, <4>2 DEF Delivers
    <3>5. Reads(q, cs, vs, r) BY <1>6, <3>1, <3>4, ReadsRow
    <3> QED BY <3>1, <3>2, <3>5
  <2>2. CASE StringReader = "utfJNI"
    <3>1. Expansion(get, m) = Native(m, m) BY <1>4, <1>8, <2>2 DEF Expansion
    <3>2. Native(m, m) \in Seq(In!Get) /\ Reads(Native(m, m), cs, vs, r)
      BY <1>1, <1>10, ReadsNative DEF m, cs, vs
    <3> QED BY <3>1, <3>2
  <2> QED BY <1>3, <2>1, <2>2
<1> QED BY <1>1, <1>4, <1>5, <1>6, <1>7, <1>11, <1>12, RowComes

LEMMA TextsType ==
  ASSUME NEW a \in Seq(StringOrNull)
  PROVE  Texts(a) \in Seq(Chunk) /\ TextsValues(a) \in Seq(Word)
<1> DEFINE l == Len(a)
           cc == [i \in 1..l |-> Text(a[i])]
           vv == [i \in 1..l |-> TextValues(a[i])]
<1>1. l \in Nat BY LenProperties
<1>2. \A i \in 1..l : Text(a[i]) \in Seq(Chunk) /\ TextValues(a[i]) \in Seq(Word)
  BY ElementOfSeq, TextType
<1>3. cc \in [1..l -> Seq(Chunk)] /\ vv \in [1..l -> Seq(Word)] BY <1>2
<1>4. Texts(a) = Concat(cc) /\ TextsValues(a) = Concat(vv) BY DEF Texts, TextsValues
<1> HIDE DEF cc, vv
<1>5. /\ cc \in Seq(Seq(Chunk)) /\ Len(cc) = l
      /\ vv \in Seq(Seq(Word)) /\ Len(vv) = l
  BY <1>1, <1>3, FunctionIsSeq
<1>6. l \in 0..l BY <1>1
<1>7. PICK f : Joins(f, l, cc, Chunk) /\ Concat(cc) = f[l] BY <1>5, ConcatJoins
<1>8. PICK g : Joins(g, l, vv, Word) /\ Concat(vv) = g[l] BY <1>5, ConcatJoins
<1>9. f[l] \in Seq(Chunk) BY <1>6, <1>7 DEF Joins
<1>10. g[l] \in Seq(Word) BY <1>6, <1>8 DEF Joins
<1> QED BY <1>4, <1>7, <1>8, <1>9, <1>10

LEMMA StringsCome ==
  ASSUME NEW r \in Records, r.kind = "utfs" PROVE Typed(r) /\ Comes(r)
<1> DEFINE get == GetFor(r)
           a == r.value
           m == Len(a)
           o == In!GetOf("utf", 0)
           q == In!Repeat(o, m)
           cs == Texts(a)
           vs == TextsValues(a)
<1>1. /\ a \in Seq(StringOrNull) /\ m \in Nat /\ m <= HeapMax
      /\ \A i \in 1..m : Len(CharsOf(a[i])) <= HeapMax
  <2>1. /\ a \in Seq(StringOrNull) /\ m <= HeapMax
        /\ \A i \in DOMAIN a : Len(CharsOf(a[i])) <= HeapMax
    BY RecordsAssumption
  <2>2. m \in Nat /\ DOMAIN a = 1..m BY <2>1, LenProperties
  <2> QED BY <2>1, <2>2
<1>2. \A i \in 1..m : Len(CharsOf(a[i])) \in StringLengths(r)
  <2>1. DOMAIN a = 1..m BY <1>1, LenProperties
  <2> QED BY <2>1 DEF StringLengths
<1>3. get = In!GetOf("utfs", 1) BY DEF GetFor
<1>4. get \in In!Get /\ get.kind = "utfs" BY <1>3, GetOfType DEF In!GetKind
<1>5. o \in In!Get /\ o.kind = "utf" BY GetOfType DEF In!GetKind
<1>6. Counts(get, m, r) BY <1>1, <1>4 DEF Counts
<1>7. m # NULL_ARRAY_LENGTH BY <1>1 DEF NULL_ARRAY_LENGTH
<1>8. Expansion(get, m) = q BY <1>4, <1>7 DEF Expansion
<1>9. ChunksOf(r) = << IntChunk(m) >> \o cs /\ Values(r) = << << m >> >> \o vs
  BY DEF ChunksOf, Values, TextsValues, TextValues
<1>10. cs \in Seq(Chunk) /\ vs \in Seq(Word) BY <1>1, TextsType
<1>11. get = GetFor(r) OBVIOUS
<1>12. q \in Seq(In!Get) BY <1>1, <1>5, RepeatType
<1>13. Reads(q, cs, vs, r) BY <1>1, <1>2, <1>5, ReadsTexts
<1> HIDE DEF get, a, m, o, q, cs, vs
<1> QED BY <1>1, <1>4, <1>6, <1>8, <1>9, <1>10, <1>11, <1>12, <1>13, RowComes

\* Every record is a sequence of chunks, and its get brings all of it back.
LEMMA RecordComes ==
  ASSUME NEW r \in Records PROVE Typed(r) /\ Comes(r)
<1>1. CASE r.kind = "byte" BY <1>1, ByteComes
<1>2. CASE r.kind = "fixed" BY <1>2, FixedComes
<1>3. CASE r.kind = "bytes" BY <1>3, BytesComes
<1>4. CASE r.kind = "booleans" BY <1>4, BooleansComes
<1>5. CASE r.kind = "fixeds" BY <1>5, FixedsComes
<1>6. CASE r.kind = "utf" BY <1>6, StringComes
<1>7. CASE r.kind = "utfs" BY <1>7, StringsCome
<1>8. CASE r.kind = "null" BY <1>8, NullComes
<1> QED BY <1>1, <1>2, <1>3, <1>4, <1>5, <1>6, <1>7, <1>8, RecordsAssumption

-----------------------------------------------------------------------------
(* What a queue of puts stores.                                            *)
BytesOf(ss) == [i \in 1..Len(ss) |-> ss[i].bytes]

\* The room these stores are reserved with is computed with one overflow at most.
Room == {p \in Out!Put : p.width * Len(p.stores) <= 3 * IntMax}

\* These puts write the chunks cs: f[i] is what the first i puts have written.
Chunks(f, puts, cs) ==
  /\ f \in [0..Len(puts) -> Seq(Chunk)]
  /\ f[0] = cs /\ f[Len(puts)] = << >>
  /\ \A i \in 1..Len(puts) : f[i - 1] = BytesOf(puts[i].stores) \o f[i]

\* There is such a function.
Writes(puts, cs) == puts \in Seq(Room) /\ \E f : Chunks(f, puts, cs)

\* The chunks that the stores of a put write.
LEMMA BytesOfType ==
  ASSUME NEW ss \in Seq(Out!Store)
  PROVE  /\ BytesOf(ss) \in Seq(Chunk) /\ Len(BytesOf(ss)) = Len(ss)
         /\ \A i \in 1..Len(ss) : BytesOf(ss)[i] = ss[i].bytes
<1>1. Len(ss) \in Nat BY LenProperties
<1>2. \A i \in 1..Len(ss) : ss[i].bytes \in Chunk
  <2> SUFFICES ASSUME NEW i \in 1..Len(ss) PROVE ss[i].bytes \in Chunk OBVIOUS
  <2>1. ss[i] \in Out!Store BY ElementOfSeq
  <2> QED BY <2>1 DEF Out!Store, Out!Byte, Byte, Chunk
<1>3. /\ BytesOf(ss) \in [1..Len(ss) -> Chunk]
      /\ \A i \in 1..Len(ss) : BytesOf(ss)[i] = ss[i].bytes
  BY <1>2 DEF BytesOf
<1> QED BY <1>1, <1>3, FunctionIsSeq

LEMMA BytesOfNone == BytesOf(<< >>) = << >>
<1>1. << >> \in Seq(Out!Store) /\ Len(<< >>) = 0 BY EmptySeq
<1>2. BytesOf(<< >>) \in Seq(Chunk) /\ Len(BytesOf(<< >>)) = 0 BY <1>1, BytesOfType
<1> QED BY <1>2, EmptySeq

LEMMA BytesOfOne ==
  ASSUME NEW s \in Out!Store PROVE BytesOf(<< s >>) = << s.bytes >>
<1> DEFINE ss == << s >>
           b == BytesOf(ss)
           c == << s.bytes >>
<1>1. ss \in Seq(Out!Store) /\ Len(ss) = 1 /\ ss[1] = s OBVIOUS
<1>2. s.bytes \in Chunk BY DEF Out!Store, Out!Byte, Byte, Chunk
<1>3. c \in Seq(Chunk) /\ Len(c) = 1 /\ c[1] = s.bytes BY <1>2
<1> HIDE DEF ss
<1>4. b \in Seq(Chunk) /\ Len(b) = 1 /\ \A i \in 1..1 : b[i] = ss[i].bytes
  BY <1>1, BytesOfType
<1> HIDE DEF b, c
<1>5. \A i \in 1..1 : b[i] = c[i]
  <2>1. 1 \in 1..1 /\ \A i \in 1..1 : i = 1 OBVIOUS
  <2> QED BY <1>1, <1>3, <1>4, <2>1
<1>6. b = c BY <1>3, <1>4, <1>5, SeqEqual
<1> QED BY <1>6 DEF b, c, ss

\* Take the first store out.
LEMMA BytesOfFirst ==
  ASSUME NEW ss \in Seq(Out!Store), ss # << >>
  PROVE  /\ BytesOf(ss) # << >> /\ Head(BytesOf(ss)) = Head(ss).bytes
         /\ Tail(BytesOf(ss)) = BytesOf(Tail(ss))
<1> DEFINE b == BytesOf(ss)
           t == Tail(ss)
           c == BytesOf(t)
<1>1. b \in Seq(Chunk) /\ Len(b) = Len(ss) /\ \A i \in 1..Len(ss) : b[i] = ss[i].bytes
  BY BytesOfType
<1>2. Len(ss) \in Nat /\ Len(ss) >= 1 BY EmptySeq, LenProperties
<1>3. /\ t \in Seq(Out!Store) /\ Len(t) = Len(ss) - 1
      /\ \A i \in 1..Len(ss) - 1 : t[i] = ss[i + 1]
  BY HeadTailProperties
<1>4. c \in Seq(Chunk) /\ Len(c) = Len(ss) - 1 /\ \A i \in 1..Len(ss) - 1 : c[i] = t[i].bytes
  BY <1>3, BytesOfType
<1> HIDE DEF b, c, t
<1>5. b # << >> BY <1>1, <1>2
<1>6. Head(b) = Head(ss).bytes
  <2>1. Head(b) = b[1] /\ Head(ss) = ss[1] BY <1>5
  <2>2. 1 \in 1..Len(ss) BY <1>2
  <2> QED BY <1>1, <2>1, <2>2
<1>7. Tail(b) = c
  <2>1. /\ Tail(b) \in Seq(Chunk) /\ Len(Tail(b)) = Len(ss) - 1
        /\ \A i \in 1..Len(ss) - 1 : Tail(b)[i] = b[i + 1]
    BY <1>1, <1>5, HeadTailProperties
  <2>2. ASSUME NEW i \in 1..Len(ss) - 1 PROVE Tail(b)[i] = c[i]
    <3>1. i + 1 \in 1..Len(ss) BY <1>2
    <3> QED BY <1>1, <1>3, <1>4, <2>1, <3>1
  <2> QED BY <1>2, <1>4, <2>1, <2>2, SeqEqual
<1> QED BY <1>5, <1>6, <1>7 DEF b, c, t

LEMMA WritesNothing == Writes(<< >>, << >>)
<1> DEFINE f == [i \in 0..0 |-> << >>]
<1>1. << >> \in Seq(Room) /\ Len(<< >>) = 0 BY EmptySeq
<1>2. f \in [0..0 -> Seq(Chunk)] /\ f[0] = << >> BY EmptySeq
<1> HIDE DEF f
<1>3. Chunks(f, << >>, << >>) BY <1>1, <1>2 DEF Chunks
<1> QED BY <1>1, <1>3 DEF Writes

LEMMA WritesEmpty == ASSUME NEW cs, Writes(<< >>, cs) PROVE cs = << >>
<1>1. Len(<< >>) = 0 OBVIOUS
<1> QED BY <1>1 DEF Writes, Chunks

\* A put in front of others.
LEMMA WritesMore ==
  ASSUME NEW put \in Room, NEW puts \in Seq(Room), NEW cs, Writes(puts, cs)
  PROVE  /\ Writes(<< put >> \o puts, BytesOf(put.stores) \o cs)
         /\ cs \in Seq(Chunk) /\ BytesOf(put.stores) \in Seq(Chunk)
<1> DEFINE l == Len(puts)
           all == << put >> \o puts
           b == BytesOf(put.stores)
           ds == b \o cs
           g(f) == [i \in 0..l + 1 |-> IF i = 0 THEN ds ELSE f[i - 1]]
<1>1. PICK f : Chunks(f, puts, cs) BY DEF Writes
<1>2. l \in Nat BY LenProperties
<1>3. /\ all \in Seq(Room) /\ Len(all) = l + 1 /\ all[1] = put
      /\ \A i \in 1..l : all[i + 1] = puts[i]
  <2>1. /\ all \in Seq(Room) /\ all # << >> /\ Head(all) = put /\ Tail(all) = puts
        /\ Len(all) = l + 1
    BY FrontOfCons
  <2> HIDE DEF all
  <2>2. Head(all) = all[1] BY <2>1
  <2>3. \A i \in 1..Len(Tail(all)) : Tail(all)[i] = all[i + 1] BY <2>1, HeadTailProperties
  <2> QED BY <2>1, <2>2, <2>3
<1> HIDE DEF all
<1>4. /\ f \in [0..l -> Seq(Chunk)] /\ f[0] = cs /\ f[l] = << >>
      /\ \A i \in 1..l : f[i - 1] = BytesOf(puts[i].stores) \o f[i]
  BY <1>1 DEF Chunks
<1>5. cs \in Seq(Chunk)
  <2>1. 0 \in 0..l BY <1>2
  <2> QED BY <1>4, <2>1
<1>6. b \in Seq(Chunk)
  <2>1. put.stores \in Seq(Out!Store) BY DEF Room, Out!Put
  <2> QED BY <2>1, BytesOfType
<1>7. ds \in Seq(Chunk) BY <1>5, <1>6, ConcatProperties
<1> HIDE DEF ds
<1>8. g(f) \in [0..l + 1 -> Seq(Chunk)]
  <2>1. \A i \in 0..l + 1 : i # 0 => i - 1 \in 0..l BY <1>2
  <2> QED BY <1>4, <1>7, <2>1
<1>9. g(f)[0] = ds /\ \A i \in 1..l + 1 : g(f)[i] = f[i - 1] BY <1>2
<1> DEFINE h == g(f)
<1>10. h \in [0..l + 1 -> Seq(Chunk)] /\ h[0] = ds /\ \A i \in 1..l + 1 : h[i] = f[i - 1]
  BY <1>8, <1>9
<1> HIDE DEF h, l
<1>11. h[l + 1] = << >>
  <2>1. l + 1 \in 1..l + 1 /\ (l + 1) - 1 = l BY <1>2
  <2> QED BY <1>4, <1>10, <2>1
<1>12. ASSUME NEW i \in 1..l + 1 PROVE h[i - 1] = BytesOf(all[i].stores) \o h[i]
  <2>1. CASE i = 1
    <3>1. i - 1 = 0 /\ 1 \in 1..l + 1 /\ 1 - 1 = 0 BY <1>2, <2>1
    <3>2. h[1] = cs BY <1>4, <1>10, <3>1
    <3>3. h[0] = b \o cs BY <1>10 DEF ds
    <3> QED BY <1>3, <2>1, <3>1, <3>2, <3>3
  <2>2. CASE i # 1
    <3> DEFINE j == i - 1
    <3>1. j \in 1..l /\ j + 1 = i /\ j \in 1..l + 1 BY <1>2, <2>2
    <3>2. h[i] = f[j] /\ h[j] = f[j - 1] BY <1>10, <3>1
    <3> HIDE DEF j
    <3>3. all[i] = puts[j] BY <1>3, <3>1
    <3>4. f[j - 1] = BytesOf(puts[j].stores) \o f[j] BY <1>4, <3>1
    <3> QED BY <3>2, <3>3, <3>4 DEF j
  <2> QED BY <2>1, <2>2
<1>13. Chunks(h, all, ds) BY <1>3, <1>10, <1>11, <1>12 DEF Chunks
<1>14. Writes(all, ds) BY <1>3, <1>13 DEF Writes
<1> QED BY <1>5, <1>6, <1>14 DEF all, ds

\* The first put, and those behind it.
LEMMA WritesFirst ==
  ASSUME NEW puts, puts # << >>, NEW cs, Writes(puts, cs)
  PROVE  /\ Head(puts) \in Room /\ Tail(puts) \in Seq(Room)
         /\ \E rest \in Seq(Chunk) : /\ cs = BytesOf(Head(puts).stores) \o rest
                                     /\ Writes(Tail(puts), rest)
<1> DEFINE l == Len(puts)
           ps == Tail(puts)
<1>1. PICK f : Chunks(f, puts, cs) BY DEF Writes
<1>2. puts \in Seq(Room) BY DEF Writes
<1>3. l \in Nat /\ l >= 1 BY <1>2, EmptySeq, LenProperties
<1>4. /\ Head(puts) \in Room /\ ps \in Seq(Room) /\ Len(ps) = l - 1 /\ Head(puts) = puts[1]
      /\ \A i \in 1..l - 1 : ps[i] = puts[i + 1]
  BY <1>2, HeadTailProperties
<1> HIDE DEF ps
<1>5. /\ f \in [0..l -> Seq(Chunk)] /\ f[0] = cs /\ f[l] = << >>
      /\ \A i \in 1..l : f[i - 1] = BytesOf(puts[i].stores) \o f[i]
  BY <1>1 DEF Chunks
<1> HIDE DEF l
<1> DEFINE h == [i \in 0..l - 1 |-> f[i + 1]]
<1>6. h \in [0..l - 1 -> Seq(Chunk)]
  <2>1. \A i \in 0..l - 1 : i + 1 \in 0..l BY <1>3
  <2> QED BY <1>5, <2>1
<1>7. h[0] = f[1] /\ h[l - 1] = << >>
  <2>1. 0 \in 0..l - 1 /\ l - 1 \in 0..l - 1 /\ 0 + 1 = 1 /\ (l - 1) + 1 = l BY <1>3
  <2> QED BY <1>5, <2>1
<1>8. ASSUME NEW i \in 1..l - 1 PROVE h[i - 1] = BytesOf(ps[i].stores) \o h[i]
  <2> DEFINE k == i + 1
  <2>1. k \in 1..l /\ k - 1 = i /\ i \in 0..l - 1 /\ i - 1 \in 0..l - 1 /\ (i - 1) + 1 = i
    BY <1>3
  <2>2. h[i] = f[k] /\ h[i - 1] = f[i] /\ ps[i] = puts[k] BY <1>4, <2>1
  <2> HIDE DEF k, h
  <2> QED BY <1>5, <2>1, <2>2
<1> HIDE DEF h
<1>9. Chunks(h, ps, f[1]) BY <1>4, <1>6, <1>7, <1>8 DEF Chunks
<1>10. Writes(ps, f[1]) BY <1>4, <1>9 DEF Writes
<1>11. cs = BytesOf(Head(puts).stores) \o f[1] /\ f[1] \in Seq(Chunk)
  <2>1. 1 \in 1..l /\ 1 - 1 = 0 /\ 1 \in 0..l BY <1>3
  <2> QED BY <1>4, <1>5, <2>1
<1> QED BY <1>4, <1>10, <1>11 DEF ps

-----------------------------------------------------------------------------
(* The puts of a record.                                                   *)
\* A string of an array, or a null: the put of its length, then of its chars.
LengthPut(s) == Out!PutInt(StringLength(s))
CharsPut(s) == Out!PutUtf(CharsOf(s))

PutsOf(r) ==
  CASE r.kind = "byte" -> << Out!PutByte(r.value[1]) >>
    [] r.kind = "fixed" -> << Out!PutFixed(r.value, BigEndian) >>
    [] r.kind = "bytes" ->
         IF r.value = << >> THEN << Out!PutLength(r.value) >>
         ELSE << Out!PutLength(r.value), Out!PutRange(r.value, 0, Len(r.value)) >>
    [] r.kind = "booleans" ->
         << Out!PutLength(r.value) >> \o
           [i \in 1..Len(r.value) |-> Out!PutByte(IF r.value[i] = 0 THEN 0 ELSE 1)]
    [] r.kind = "fixeds" ->
         << Out!PutLength(r.value) >> \o
           [i \in 1..Len(r.value) |-> Out!PutFixed(r.value[i], BigEndian)]
    [] r.kind = "utf" ->
         IF r.value = << >> THEN << Out!PutLength(r.value) >>
         ELSE << Out!PutLength(r.value), Out!PutUtf(r.value) >>
    [] r.kind = "utfs" ->
         << Out!PutLength(r.value) >> \o
           [i \in 1..2 * Len(r.value) |->
              IF i % 2 = 1 THEN LengthPut(r.value[(i + 1) \div 2])
              ELSE CharsPut(r.value[i \div 2])]
    [] r.kind = "null" -> << Out!PutInt(NULL_ARRAY_LENGTH) >>

LEMMA OutValues ==
  /\ Out!Byte = Byte
  /\ \A v, be : Out!InOrder(v, be) = InOrder(v, be)
  /\ \A n : Out!IntBytes(n) = IntBytes(n)
  /\ \A c : Out!Utf8Bytes(c) = Utf8Bytes(c)
  /\ \A s : Out!StringLength(s) = StringLength(s) /\ Out!CharsOf(s) = CharsOf(s)
<1>1. Out!Byte = Byte BY DEF Out!Byte, Byte
<1>2. \A v, be : Out!InOrder(v, be) = InOrder(v, be) BY DEF Out!InOrder, InOrder
<1>3. \A n : Out!IntBytes(n) = IntBytes(n) BY DEF Out!IntBytes, IntBytes
<1>4. \A c : Out!Utf8Bytes(c) = Utf8Bytes(c) BY Zenon DEF Out!Utf8Bytes, Utf8Bytes
<1>5. \A s : Out!StringLength(s) = StringLength(s) /\ Out!CharsOf(s) = CharsOf(s)
  <2>1. Out!NULL_ARRAY_LENGTH = NULL_ARRAY_LENGTH
    BY DEF Out!NULL_ARRAY_LENGTH, NULL_ARRAY_LENGTH
  <2>2. Out!NoString = NoString BY <2>1 DEF Out!NoString, NoString
  <2> QED
    BY <2>1, <2>2, Zenon DEF Out!StringLength, StringLength, Out!CharsOf, CharsOf
<1> QED BY <1>1, <1>2, <1>3, <1>4, <1>5

\* A record is written by a call of these puts.
LEMMA WritesItsPuts ==
  ASSUME NEW r \in Records PROVE WriteRecord(r) => Out!Call(PutsOf(r))
<1>1. CASE r.kind = "byte" BY <1>1 DEF WriteRecord, PutsOf, Out!Write
<1>2. CASE r.kind = "fixed" BY <1>2 DEF WriteRecord, PutsOf, Out!WriteFixed
<1>3. CASE r.kind = "bytes" BY <1>3 DEF WriteRecord, PutsOf, Out!WriteByteArray
<1>4. CASE r.kind = "booleans" BY <1>4 DEF WriteRecord, PutsOf, Out!WriteBooleanArray
<1>5. CASE r.kind = "fixeds" BY <1>5 DEF WriteRecord, PutsOf, Out!WriteFixedArray
<1>6. CASE r.kind = "utf" BY <1>6 DEF WriteRecord, PutsOf, Out!WriteUTF
<1>7. CASE r.kind = "utfs"
  <2> DEFINE a == r.value
             out == [i \in 1..2 * Len(a) |->
                       IF i % 2 = 1 THEN Out!PutInt(Out!StringLength(a[(i + 1) \div 2]))
                       ELSE Out!PutUtf(Out!CharsOf(a[i \div 2]))]
             puts == [i \in 1..2 * Len(a) |->
                        IF i % 2 = 1 THEN LengthPut(a[(i + 1) \div 2])
                        ELSE CharsPut(a[i \div 2])]
  <2>1. \A v : /\ Out!PutInt(Out!StringLength(v)) = LengthPut(v)
               /\ Out!PutUtf(Out!CharsOf(v)) = CharsPut(v)
    BY OutValues DEF LengthPut, CharsPut
  <2>2. out = puts BY <2>1
  <2>3. WriteRecord(r) => Out!Call(<< Out!PutLength(a) >> \o out)
    BY <1>7 DEF WriteRecord, Out!WriteUTFArray
  <2>4. PutsOf(r) = << Out!PutLength(a) >> \o puts BY <1>7 DEF PutsOf
  <2> HIDE DEF a, out, puts
  <2> QED BY <2>2, <2>3, <2>4
<1>8. CASE r.kind = "null"
  BY <1>8 DEF WriteRecord, PutsOf, Out!WriteNull, NULL_ARRAY_LENGTH, Out!NULL_ARRAY_LENGTH
<1> QED BY <1>1, <1>2, <1>3, <1>4, <1>5, <1>6, <1>7, <1>8, RecordsAssumption

-----------------------------------------------------------------------------
\* The chunks a put stores.
Puts(put, cs) == put \in Room /\ BytesOf(put.stores) = cs

\* The puts of DataOutput, each with the chunks it writes.
LEMMA PutsOne ==
  ASSUME NEW s \in Out!Store, NEW w \in Nat, w <= IntMax
  PROVE  Puts(Out!PutOf(w, << s >>), << s.bytes >>)
<1> DEFINE ss == << s >>
           p == Out!PutOf(w, ss)
<1>1. ss \in Seq(Out!Store) /\ Len(ss) = 1 OBVIOUS
<1>2. BytesOf(ss) = << s.bytes >> BY BytesOfOne
<1> HIDE DEF ss
<1>3. p \in Out!Put /\ p.width = w /\ p.stores = ss BY <1>1 DEF Out!PutOf, Out!Put
<1>4. w * 1 <= 3 * IntMax BY IntMaxAssumption
<1> HIDE DEF p
<1>5. p \in Room BY <1>1, <1>3, <1>4 DEF Room
<1>6. Puts(p, << s.bytes >>) BY <1>2, <1>3, <1>5 DEF Puts
<1> QED BY <1>6 DEF p, ss

LEMMA StoreOfBytes ==
  ASSUME NEW kind \in Out!StoreKind, NEW c \in Chunk
  PROVE  Out!StoreOf(kind, c) \in Out!Store /\ Out!StoreOf(kind, c).bytes = c
<1>1. c \in Seq(Out!Byte) BY OutValues DEF Chunk
<1>2. Len(c) \in Nat BY <1>1, LenProperties
<1> QED BY <1>1, <1>2 DEF Out!StoreOf, Out!Store

LEMMA PutsByte == ASSUME NEW b \in Byte PROVE Puts(Out!PutByte(b), << << b >> >>)
<1> DEFINE c == << b >>
           s == Out!StoreOf("bump", c)
<1>1. c \in Chunk BY DEF Chunk
<1> HIDE DEF c
<1>2. s \in Out!Store /\ s.bytes = c BY <1>1, StoreOfBytes DEF Out!StoreKind
<1>3. Out!PutByte(b) = Out!PutOf(1, << s >>) BY DEF Out!PutByte, c
<1> HIDE DEF s
<1>4. Puts(Out!PutOf(1, << s >>), << s.bytes >>) BY <1>2, PutsOne, IntMaxAssumption
<1> QED BY <1>2, <1>3, <1>4 DEF c

LEMMA PutsFixed ==
  ASSUME NEW v \in Chunk, Len(v) <= 8 PROVE Puts(Out!PutFixed(v, BigEndian), << InOrder(v, BigEndian) >>)
<1> DEFINE c == InOrder(v, BigEndian)
           s == Out!StoreOf("put", c)
<1>1. c \in Chunk BY InOrderType DEF Chunk
<1> HIDE DEF c
<1>2. s \in Out!Store /\ s.bytes = c BY <1>1, StoreOfBytes DEF Out!StoreKind
<1>3. Out!PutFixed(v, BigEndian) = Out!PutOf(Len(v), << s >>)
  BY OutValues DEF Out!PutFixed, c
<1> HIDE DEF s
<1>4. Len(v) \in Nat BY LenProperties DEF Chunk
<1>5. Len(v) <= IntMax BY <1>4, IntMaxAssumption
<1>6. Puts(Out!PutOf(Len(v), << s >>), << s.bytes >>) BY <1>2, <1>4, <1>5, PutsOne
<1> QED BY <1>2, <1>3, <1>6 DEF c

LEMMA PutsInt == ASSUME NEW n \in Int PROVE Puts(Out!PutInt(n), << IntChunk(n) >>)
<1> DEFINE v == IntBytes(n)
<1>1. v \in Chunk /\ Len(v) = 4 BY IntBytesType DEF Chunk
<1>2. Out!PutInt(n) = Out!PutFixed(v, BigEndian) BY OutValues DEF Out!PutInt
<1> HIDE DEF v
<1>3. Len(v) <= 8 BY <1>1
<1>4. Puts(Out!PutFixed(v, BigEndian), << InOrder(v, BigEndian) >>) BY <1>1, <1>3, PutsFixed
<1> QED BY <1>2, <1>4 DEF IntChunk, v

LEMMA PutsRange ==
  ASSUME NEW b \in Chunk, Len(b) <= HeapMax
  PROVE  Puts(Out!PutRange(b, 0, Len(b)), << b >>)
<1> DEFINE n == Len(b)
           s == [kind |-> "copy", n |-> n, bytes |-> b]
<1>1. b \in Seq(Byte) /\ n \in Nat BY LenProperties DEF Chunk
<1>2. s \in Out!Store
  <2>1. b \in Seq(Out!Byte) BY <1>1, OutValues
  <2> HIDE DEF n
  <2> QED BY <1>1, <2>1 DEF Out!Store, Out!StoreKind
<1>3. Out!PutRange(b, 0, n) = Out!PutOf(n, << s >>)
  <2>1. SubSeq(b, 1, n) = b BY <1>1, SubSeqFull
  <2>2. Out!MinOf(0 + n, n) = n BY <1>1 DEF Out!MinOf
  <2>3. 0 + 1 = 1 OBVIOUS
  <2>4. SubSeq(b, 0 + 1, Out!MinOf(0 + n, n)) = b BY <2>1, <2>2, <2>3
  <2> QED BY <2>4, Zenon DEF Out!PutRange
<1>4. s.bytes = b OBVIOUS
<1> HIDE DEF n, s
<1>5. n <= IntMax BY <1>1, SizeAssumption, IntMaxAssumption DEF n
<1>6. Puts(Out!PutOf(n, << s >>), << s.bytes >>) BY <1>1, <1>2, <1>5, PutsOne
<1> QED BY <1>3, <1>4, <1>6 DEF n

LEMMA PutsUtf ==
  ASSUME NEW s \in Seq(Char), Len(s) <= HeapMax PROVE Puts(Out!PutUtf(s), Utf8(s))
<1> DEFINE n == Len(s)
           st(i) == Out!StoreOf("put", Utf8Bytes(s[i]))
           ss == [i \in 1..n |-> st(i)]
           p == Out!PutOf(3, ss)
<1>1. n \in Nat BY LenProperties
<1>2. \A i \in 1..n : Utf8Bytes(s[i]) \in Chunk
  <2> SUFFICES ASSUME NEW i \in 1..n PROVE Utf8Bytes(s[i]) \in Chunk OBVIOUS
  <2>1. s[i] \in Char BY ElementOfSeq
  <2> QED BY <2>1, Utf8BytesType DEF Chunk
<1>3. \A i \in 1..n : st(i) \in Out!Store /\ st(i).bytes = Utf8Bytes(s[i])
  BY <1>2, StoreOfBytes DEF Out!StoreKind
<1>4. Out!PutUtf(s) = p BY OutValues DEF Out!PutUtf
<1> HIDE DEF st
<1>5. ss \in [1..n -> Out!Store] /\ \A i \in 1..n : ss[i] = st(i) BY <1>3
<1> HIDE DEF ss
<1>6. ss \in Seq(Out!Store) /\ Len(ss) = n BY <1>1, <1>5, FunctionIsSeq
<1>7. p \in Out!Put /\ p.width = 3 /\ p.stores = ss BY <1>6 DEF Out!PutOf, Out!Put
<1> HIDE DEF p
<1>8. 3 * n <= 3 * IntMax BY <1>1, SizeAssumption, IntMaxAssumption
<1>9. p \in Room BY <1>6, <1>7, <1>8 DEF Room
<1> DEFINE b == BytesOf(ss)
           u == Utf8(s)
<1>10. b = u
  <2>1. b \in Seq(Chunk) /\ Len(b) = n /\ \A i \in 1..n : b[i] = ss[i].bytes
    BY <1>6, BytesOfType
  <2>2. u \in Seq(Chunk) /\ Len(u) = n /\ \A i \in 1..n : u[i] = Utf8Bytes(s[i])
    BY Utf8Type
  <2> HIDE DEF b, u
  <2>3. \A i \in 1..n : b[i] = u[i] BY <1>3, <1>5, <2>1, <2>2
  <2> QED BY <2>1, <2>2, <2>3, SeqEqual
<1>11. Puts(p, u) BY <1>7, <1>9, <1>10 DEF Puts
<1> QED BY <1>4, <1>11

LEMMA PairIsConcat ==
  ASSUME NEW S, NEW x \in S, NEW y \in S PROVE << x, y >> = << x >> \o << y >>
<1> DEFINE p == << x >>
           q == << y >>
           t == << x, y >>
           u == p \o q
<1>1. p \in Seq(S) /\ Len(p) = 1 /\ p[1] = x OBVIOUS
<1>2. q \in Seq(S) /\ Len(q) = 1 /\ q[1] = y OBVIOUS
<1>3. t \in Seq(S) /\ Len(t) = 2 /\ t[1] = x /\ t[2] = y OBVIOUS
<1> HIDE DEF p, q, t
<1>4. /\ u \in Seq(S) /\ Len(u) = Len(p) + Len(q)
      /\ \A i \in 1..Len(p) + Len(q) : u[i] = IF i <= Len(p) THEN p[i] ELSE q[i - Len(p)]
  BY <1>1, <1>2, ConcatProperties
<1> HIDE DEF u
<1>5. Len(u) = 2 /\ u[1] = x /\ u[2] = y BY <1>1, <1>2, <1>4
<1>6. ASSUME NEW i \in 1..Len(t) PROVE t[i] = u[i] BY <1>3, <1>5
<1>7. t = u BY <1>3, <1>4, <1>5, <1>6, SeqEqual
<1> QED BY <1>7 DEF p, q, t, u

\* Rows of puts.
LEMMA WritesFront ==
  ASSUME NEW put, NEW c, Puts(put, c), NEW puts \in Seq(Room), NEW cs, Writes(puts, cs)
  PROVE  Writes(<< put >> \o puts, c \o cs) /\ c \in Seq(Chunk) /\ cs \in Seq(Chunk)
<1>1. put \in Room /\ BytesOf(put.stores) = c BY DEF Puts
<1> QED BY <1>1, WritesMore

LEMMA WritesOne ==
  ASSUME NEW put, NEW c, Puts(put, c) PROVE Writes(<< put >>, c) /\ c \in Seq(Chunk)
<1> DEFINE p == << put >>
<1>1. p \in Seq(Room) BY DEF Puts
<1>2. << >> \in Seq(Room) BY EmptySeq
<1>3. Writes(p \o << >>, c \o << >>) /\ c \in Seq(Chunk) BY <1>2, WritesNothing, WritesFront
<1> HIDE DEF p
<1>4. p \o << >> = p BY <1>1, ConcatEmptySeq
<1>5. c \o << >> = c BY <1>3, ConcatEmptySeq
<1> QED BY <1>3, <1>4, <1>5 DEF p

LEMMA WritesTwo ==
  ASSUME NEW put, NEW c, Puts(put, c), NEW next, NEW d, Puts(next, d)
  PROVE  Writes(<< put, next >>, c \o d)
<1> DEFINE q == << next >>
<1>1. q \in Seq(Room) BY DEF Puts
<1>2. << put, next >> = << put >> \o q OBVIOUS
<1>3. Writes(q, d) BY WritesOne
<1> HIDE DEF q
<1> QED BY <1>1, <1>2, <1>3, WritesFront

\* Puts of one chunk each.
LEMMA WritesRow ==
  ASSUME NEW n \in Nat, NEW row, row = [i \in 1..n |-> row[i]],
         NEW cs \in Seq(Chunk), Len(cs) = n, \A i \in 1..n : Puts(row[i], << cs[i] >>)
  PROVE  row \in Seq(Room) /\ Writes(row, cs)
<1>1. row \in Seq(Room) /\ Len(row) = n
  <2>1. row \in [1..n -> Room] BY DEF Puts
  <2> QED BY <2>1, FunctionIsSeq
<1> DEFINE f == [i \in 0..n |-> SubSeq(cs, i + 1, n)]
<1>2. f \in [0..n -> Seq(Chunk)]
  <2>1. ASSUME NEW i \in 0..n PROVE SubSeq(cs, i + 1, n) \in Seq(Chunk)
    <3>1. i + 1 \in Int /\ n \in Int OBVIOUS
    <3>2. \A k \in i + 1..n : k \in 1..Len(cs) OBVIOUS
    <3>3. \A k \in i + 1..n : cs[k] \in Chunk BY <3>2, ElementOfSeq
    <3> QED BY <3>1, <3>3, SubSeqProperties
  <2> QED BY <2>1
<1>3. \A i \in 0..n : f[i] = SubSeq(cs, i + 1, n) OBVIOUS
<1> HIDE DEF f
<1>4. f[0] = cs
  <2>1. 0 \in 0..n /\ 0 + 1 = 1 OBVIOUS
  <2>2. SubSeq(cs, 1, n) = cs BY SubSeqFull
  <2> QED BY <1>3, <2>1, <2>2
<1>5. f[n] = << >>
  <2>1. n \in 0..n /\ n + 1 \in Int /\ n < n + 1 OBVIOUS
  <2>2. SubSeq(cs, n + 1, n) = << >> BY <2>1, SubSeqEmpty
  <2> QED BY <1>3, <2>1, <2>2
<1>6. ASSUME NEW i \in 1..n PROVE f[i - 1] = BytesOf(row[i].stores) \o f[i]
  <2>1. i - 1 \in 0..n /\ i \in 0..n /\ (i - 1) + 1 = i OBVIOUS
  <2>2. f[i - 1] = SubSeq(cs, i, n) /\ f[i] = SubSeq(cs, i + 1, n) BY <1>3, <2>1
  <2>3. i \in 1..Len(cs) /\ n \in i..Len(cs) OBVIOUS
  <2>4. SubSeq(cs, i, n) = << cs[i] >> \o SubSeq(cs, i + 1, n) BY <2>3, SubSeqRecursiveFirst
  <2>5. BytesOf(row[i].stores) = << cs[i] >> BY DEF Puts
  <2> QED BY <2>2, <2>4, <2>5
<1>7. Chunks(f, row, cs) BY <1>1, <1>2, <1>4, <1>5, <1>6 DEF Chunks
<1> QED BY <1>1, <1>7 DEF Writes

\* The puts of the strings of an array, up to each.
TextPuts(a, k) ==
  [i \in 1..2 * k |-> IF i % 2 = 1 THEN LengthPut(a[(i + 1) \div 2])
                      ELSE CharsPut(a[i \div 2])]

TextPut(s) == << LengthPut(s), CharsPut(s) >>

\* A string is a length and a put of its chars.
LEMMA WritesText ==
  ASSUME NEW s \in StringOrNull, Len(CharsOf(s)) <= HeapMax,
         NEW rest \in Seq(Room), NEW ds, Writes(rest, ds)
  PROVE  TextPut(s) \in Seq(Room) /\ Writes(TextPut(s) \o rest, Text(s) \o ds)
         /\ ds \in Seq(Chunk)
<1> DEFINE p == LengthPut(s)
           q == CharsPut(s)
           c == IntChunk(StringLength(s))
           u == Utf8(CharsOf(s))
<1>1. StringLength(s) \in Int /\ CharsOf(s) \in Seq(Char) BY StringParts
<1>2. Puts(p, << c >>) BY <1>1, PutsInt DEF LengthPut
<1>3. Puts(q, u) BY <1>1, PutsUtf DEF CharsPut
<1>4. TextPut(s) = << p, q >> /\ Text(s) = << c >> \o u BY DEF TextPut, Text
<1> HIDE DEF p, q, c, u
<1>5. p \in Room /\ q \in Room BY <1>2, <1>3 DEF Puts
<1>6. Writes(<< q >> \o rest, u \o ds) /\ u \in Seq(Chunk) /\ ds \in Seq(Chunk)
  BY <1>3, WritesFront
<1> DEFINE x == << p >>
           y == << q >>
           z == << c >>
<1>7. x \in Seq(Room) /\ y \in Seq(Room) /\ TextPut(s) = x \o y
  <2>1. x \in Seq(Room) /\ y \in Seq(Room) BY <1>5
  <2>2. << p, q >> = x \o y BY <1>5, PairIsConcat
  <2> QED BY <1>4, <2>1, <2>2
<1>8. Writes(y \o rest, u \o ds) BY <1>6
<1> HIDE DEF y
<1>9. y \o rest \in Seq(Room) BY <1>7, ConcatProperties
<1>10. Writes(x \o (y \o rest), z \o (u \o ds)) /\ z \in Seq(Chunk)
  BY <1>2, <1>8, <1>9, WritesFront
<1> HIDE DEF x, z
<1>11. Grouped(x, y, rest) BY <1>7, Regroup
<1>12. Grouped(z, u, ds) BY <1>6, <1>10, Regroup
<1>13. Text(s) = z \o u BY <1>4 DEF z
<1>14. Writes((x \o y) \o rest, (z \o u) \o ds) BY <1>10, <1>11, <1>12 DEF Grouped
<1>15. x \o y \in Seq(Room) BY <1>7, ConcatProperties
<1> QED BY <1>6, <1>7, <1>13, <1>14, <1>15

\* The puts of the first k strings of an array.
LEMMA TextPutsType ==
  ASSUME NEW a \in Seq(StringOrNull), \A i \in 1..Len(a) : Len(CharsOf(a[i])) <= HeapMax,
         NEW k \in Nat, k <= Len(a)
  PROVE  /\ TextPuts(a, k) \in Seq(Room) /\ Len(TextPuts(a, k)) = 2 * k
         /\ \A i \in 1..2 * k :
              TextPuts(a, k)[i] = IF i % 2 = 1 THEN LengthPut(a[(i + 1) \div 2])
                                  ELSE CharsPut(a[i \div 2])
<1> DEFINE l == 2 * k
           e(i) == IF i % 2 = 1 THEN LengthPut(a[(i + 1) \div 2]) ELSE CharsPut(a[i \div 2])
           f == [i \in 1..l |-> e(i)]
<1>1. l \in Nat /\ Len(a) \in Nat BY LenProperties
<1>2. \A j \in 1..Len(a) : LengthPut(a[j]) \in Room /\ CharsPut(a[j]) \in Room
  <2> SUFFICES ASSUME NEW j \in 1..Len(a)
               PROVE  LengthPut(a[j]) \in Room /\ CharsPut(a[j]) \in Room
    OBVIOUS
  <2>1. a[j] \in StringOrNull /\ Len(CharsOf(a[j])) <= HeapMax BY ElementOfSeq
  <2>2. StringLength(a[j]) \in Int /\ CharsOf(a[j]) \in Seq(Char) BY <2>1, StringParts
  <2>3. LengthPut(a[j]) \in Room BY <2>2, PutsInt DEF Puts, LengthPut
  <2>4. CharsPut(a[j]) \in Room BY <2>1, <2>2, PutsUtf DEF Puts, CharsPut
  <2> QED BY <2>3, <2>4
<1>3. ASSUME NEW i \in 1..l PROVE e(i) \in Room
  <2>1. CASE i % 2 = 1
    <3>1. (i + 1) \div 2 \in 1..Len(a) BY <1>1, <2>1, SMT
    <3>2. e(i) = LengthPut(a[(i + 1) \div 2]) BY <2>1
    <3> QED BY <1>2, <3>1, <3>2
  <2>2. CASE i % 2 # 1
    <3>1. i \div 2 \in 1..Len(a) BY <1>1, <2>2, SMT
    <3>2. e(i) = CharsPut(a[i \div 2]) BY <2>2
    <3> QED BY <1>2, <3>1, <3>2
  <2> QED BY <2>1, <2>2
<1>4. TextPuts(a, k) = f BY DEF TextPuts
<1> HIDE DEF e
<1>5. f \in [1..l -> Room] /\ \A i \in 1..l : f[i] = e(i) BY <1>3
<1> HIDE DEF f
<1>6. f \in Seq(Room) /\ Len(f) = l BY <1>1, <1>5, FunctionIsSeq
<1> QED BY <1>4, <1>5, <1>6 DEF e

LEMMA TextPutsMore ==
  ASSUME NEW a \in Seq(StringOrNull), \A i \in 1..Len(a) : Len(CharsOf(a[i])) <= HeapMax,
         NEW k \in Nat, k + 1 <= Len(a)
  PROVE  TextPuts(a, k + 1) = TextPuts(a, k) \o TextPut(a[k + 1])
<1> DEFINE m == k + 1
           l == 2 * k
           s == a[m]
           p == TextPuts(a, k)
           q == TextPuts(a, m)
           t == TextPut(s)
<1>1. m \in Nat /\ k <= Len(a) /\ m <= Len(a) /\ 2 * m = l + 2 /\ l \in Nat BY LenProperties
<1> HIDE DEF p, q
<1>2. /\ p \in Seq(Room) /\ Len(p) = l
      /\ \A i \in 1..l : p[i] = IF i % 2 = 1 THEN LengthPut(a[(i + 1) \div 2])
                                ELSE CharsPut(a[i \div 2])
  BY <1>1, TextPutsType DEF p
<1>3. /\ q \in Seq(Room) /\ Len(q) = l + 2
      /\ \A i \in 1..l + 2 : q[i] = IF i % 2 = 1 THEN LengthPut(a[(i + 1) \div 2])
                                    ELSE CharsPut(a[i \div 2])
  <2> HIDE DEF m
  <2>1. /\ q \in Seq(Room) /\ Len(q) = 2 * m
        /\ \A i \in 1..2 * m : q[i] = IF i % 2 = 1 THEN LengthPut(a[(i + 1) \div 2])
                                      ELSE CharsPut(a[i \div 2])
    BY <1>1, TextPutsType DEF q
  <2> QED BY <1>1, <2>1
<1>4. /\ t \in Seq(Room) /\ Len(t) = 2
      /\ t[1] = LengthPut(s) /\ t[2] = CharsPut(s)
  <2>1. s \in StringOrNull /\ Len(CharsOf(s)) <= HeapMax BY <1>1, ElementOfSeq
  <2>2. Writes(<< >>, << >>) /\ << >> \in Seq(Room) BY WritesNothing, EmptySeq
  <2> HIDE DEF s
  <2>3. t \in Seq(Room) BY <2>1, <2>2, WritesText
  <2> QED BY <2>3 DEF TextPut
<1> DEFINE x == p \o t
<1> HIDE DEF t, s
<1>5. /\ x \in Seq(Room) /\ Len(x) = l + 2
      /\ \A i \in 1..l + 2 : x[i] = IF i <= l THEN p[i] ELSE t[i - l]
  <2> HIDE DEF l
  <2>1. /\ x \in Seq(Room) /\ Len(x) = Len(p) + Len(t)
        /\ \A i \in 1..Len(p) + Len(t) : x[i] = IF i <= Len(p) THEN p[i] ELSE t[i - Len(p)]
    <3>1. p \in Seq(Room) /\ t \in Seq(Room) BY <1>2, <1>4
    <3> QED BY <3>1, ConcatProperties
  <2> QED BY <1>2, <1>4, <2>1
<1> HIDE DEF x
<1>6. ASSUME NEW i \in 1..l + 2 PROVE q[i] = x[i]
  <2>1. CASE i <= l
    <3>1. i \in 1..l BY <1>1, <2>1
    <3> QED BY <1>2, <1>3, <1>5, <2>1, <3>1
  <2>2. CASE i = l + 1
    <3>1. i % 2 = 1 /\ (i + 1) \div 2 = m /\ i - l = 1 /\ ~(i <= l) BY <1>1, <2>2, SMT
    <3>2. q[i] = LengthPut(s) BY <1>3, <3>1 DEF s
    <3>3. x[i] = t[1] BY <1>5, <3>1
    <3> QED BY <1>4, <3>2, <3>3
  <2>3. CASE i = l + 2
    <3>1. i % 2 # 1 /\ i \div 2 = m /\ i - l = 2 /\ ~(i <= l) BY <1>1, <2>3, SMT
    <3>2. q[i] = CharsPut(s) BY <1>3, <3>1 DEF s
    <3>3. x[i] = t[2] BY <1>5, <3>1
    <3> QED BY <1>4, <3>2, <3>3
  <2> QED BY <1>1, <2>1, <2>2, <2>3
<1>7. q = x BY <1>3, <1>5, <1>6, SeqEqual
<1> QED BY <1>7 DEF q, x, p, t, s

\* An array of strings writes each of them.
LEMMA WritesTexts ==
  ASSUME NEW a \in Seq(StringOrNull), \A i \in 1..Len(a) : Len(CharsOf(a[i])) <= HeapMax
  PROVE  TextPuts(a, Len(a)) \in Seq(Room) /\ Writes(TextPuts(a, Len(a)), Texts(a))
<1> DEFINE l == Len(a)
           cc == [i \in 1..l |-> Text(a[i])]
           P(k) == TextPuts(a, k)
<1>1. l \in Nat BY LenProperties
<1>2. \A i \in 1..l : Text(a[i]) \in Seq(Chunk) BY ElementOfSeq, TextType
<1>3. cc \in [1..l -> Seq(Chunk)] /\ \A i \in 1..l : cc[i] = Text(a[i]) BY <1>2
<1>4. Texts(a) = Concat(cc) BY DEF Texts
<1> HIDE DEF cc
<1>5. cc \in Seq(Seq(Chunk)) /\ Len(cc) = l BY <1>1, <1>3, FunctionIsSeq
<1>6. PICK f : Joins(f, l, cc, Chunk) /\ Concat(cc) = f[l] BY <1>5, ConcatJoins
<1>7. /\ f \in [0..l -> Seq(Chunk)] /\ f[0] = << >>
      /\ \A i \in 1..l : f[i] = f[i - 1] \o Text(a[i])
  BY <1>3, <1>6 DEF Joins
<1>8. \A k \in Nat : k <= l => P(k) \in Seq(Room) /\ Len(P(k)) = 2 * k BY TextPutsType
<1>9. \A k \in Nat : k + 1 <= l => P(k + 1) = P(k) \o TextPut(a[k + 1]) BY TextPutsMore
<1>10. \A i \in 1..l : a[i] \in StringOrNull /\ Len(CharsOf(a[i])) <= HeapMax BY ElementOfSeq
<1> HIDE DEF P, l
<1> DEFINE S == {k \in Nat : k <= l =>
                  \A rest \in Seq(Room), ds \in Seq(Chunk) :
                    Writes(rest, ds) => Writes(P(k) \o rest, f[k] \o ds)}
<1>11. 0 \in S
  <2> SUFFICES ASSUME NEW rest \in Seq(Room), NEW ds \in Seq(Chunk), Writes(rest, ds)
               PROVE  Writes(P(0) \o rest, f[0] \o ds)
    OBVIOUS
  <2>1. P(0) = << >>
    <3>1. P(0) \in Seq(Room) /\ Len(P(0)) = 0 BY <1>1, <1>8
    <3> QED BY <3>1, EmptySeq
  <2>2. P(0) \o rest = rest BY <2>1, ConcatEmptySeq
  <2>3. f[0] \o ds = ds BY <1>7, ConcatEmptySeq
  <2> QED BY <2>2, <2>3
<1>12. ASSUME NEW k \in Nat, k \in S PROVE k + 1 \in S
  <2> DEFINE m == k + 1
  <2> SUFFICES ASSUME m <= l, NEW rest \in Seq(Room), NEW ds \in Seq(Chunk), Writes(rest, ds)
               PROVE  Writes(P(m) \o rest, f[m] \o ds)
    OBVIOUS
  <2> DEFINE s == a[m]
             t == Text(s)
             o == TextPut(s)
             x == f[k]
             q == P(k)
  <2>1. m \in 1..l /\ m - 1 = k /\ k <= l /\ k \in 0..l BY <1>1
  <2>2. x \in Seq(Chunk) BY <1>7, <2>1
  <2>3. f[m] = x \o t BY <1>7, <2>1
  <2>4. P(m) = q \o o BY <1>9
  <2>5. s \in StringOrNull /\ Len(CharsOf(s)) <= HeapMax BY <1>10, <2>1
  <2>6. q \in Seq(Room) BY <1>8, <2>1
  <2> HIDE DEF s, m, x, q
  <2>7. o \in Seq(Room) /\ Writes(o \o rest, t \o ds) BY <2>5, WritesText
  <2>8. t \in Seq(Chunk) BY <2>5, TextType
  <2> HIDE DEF t, o
  <2>9. o \o rest \in Seq(Room) /\ t \o ds \in Seq(Chunk) BY <2>7, <2>8, ConcatProperties
  <2>10. Writes(q \o (o \o rest), x \o (t \o ds)) BY <1>12, <2>1, <2>7, <2>9 DEF S, q, x
  <2>11. Grouped(q, o, rest) BY <2>6, <2>7, Regroup
  <2>12. Grouped(x, t, ds) BY <2>2, <2>8, Regroup
  <2> QED BY <2>3, <2>4, <2>10, <2>11, <2>12 DEF Grouped
<1> HIDE DEF S
<1>13. Nat \subseteq S BY <1>11, <1>12, Induction
<1>14. l \in S /\ l <= l /\ l \in 0..l BY <1>1, <1>13
<1>15. f[l] \in Seq(Chunk) /\ P(l) \in Seq(Room) BY <1>1, <1>7, <1>8, <1>14
<1>16. << >> \in Seq(Room) /\ << >> \in Seq(Chunk) BY EmptySeq
<1>17. Writes(P(l) \o << >>, f[l] \o << >>) BY <1>14, <1>16, WritesNothing DEF S
<1>18. P(l) \o << >> = P(l) BY <1>15, ConcatEmptySeq
<1>19. f[l] \o << >> = f[l] BY <1>15, ConcatEmptySeq
<1>20. Writes(P(l), f[l]) BY <1>17, <1>18, <1>19
<1> QED BY <1>4, <1>6, <1>15, <1>20 DEF P, l

\* What a record is written as.
Goes(r) == Writes(PutsOf(r), ChunksOf(r))

\* The puts of each kind of record write its chunks.
LEMMA CountGoes ==
  ASSUME NEW a, Len(a) \in Int PROVE Puts(Out!PutLength(a), << IntChunk(Len(a)) >>)
BY PutsInt DEF Out!PutLength

LEMMA ByteGoes == ASSUME NEW r \in Records, r.kind = "byte" PROVE Goes(r)
<1> DEFINE v == r.value
           b == v[1]
<1>1. v \in Seq(Byte) /\ Len(v) = 1 BY RecordsAssumption
<1>2. b \in Byte /\ v = << b >> BY <1>1
<1>3. PutsOf(r) = << Out!PutByte(b) >> /\ ChunksOf(r) = << v >> BY DEF PutsOf, ChunksOf
<1> HIDE DEF v, b
<1>4. Puts(Out!PutByte(b), << v >>) BY <1>2, PutsByte
<1>5. Writes(<< Out!PutByte(b) >>, << v >>) BY <1>4, WritesOne
<1> QED BY <1>3, <1>5 DEF Goes

LEMMA FixedGoes == ASSUME NEW r \in Records, r.kind = "fixed" PROVE Goes(r)
<1> DEFINE v == r.value
           p == Out!PutFixed(v, BigEndian)
<1>1. v \in Chunk /\ Len(v) <= 8
  <2>1. v \in Seq(Byte) /\ Len(v) \in 2..8 BY RecordsAssumption
  <2>2. \A k \in 2..8 : k <= 8 OBVIOUS
  <2> HIDE DEF v, p
  <2>3. v \in Chunk BY <2>1 DEF Chunk
  <2> QED BY <2>1, <2>2, <2>3
<1>2. PutsOf(r) = << p >> /\ ChunksOf(r) = << InOrder(v, BigEndian) >> BY DEF PutsOf, ChunksOf
<1> HIDE DEF v
<1>3. Puts(p, << InOrder(v, BigEndian) >>) BY <1>1, PutsFixed
<1> HIDE DEF p
<1>4. Writes(<< p >>, << InOrder(v, BigEndian) >>) BY <1>3, WritesOne
<1> QED BY <1>2, <1>4 DEF Goes

LEMMA NullGoes == ASSUME NEW r \in Records, r.kind = "null" PROVE Goes(r)
<1> DEFINE p == Out!PutInt(NULL_ARRAY_LENGTH)
           c == IntChunk(NULL_ARRAY_LENGTH)
<1>1. NULL_ARRAY_LENGTH \in Int BY DEF NULL_ARRAY_LENGTH
<1>2. Puts(p, << c >>) BY <1>1, PutsInt
<1>3. PutsOf(r) = << p >> /\ ChunksOf(r) = << c >> BY DEF PutsOf, ChunksOf
<1> HIDE DEF p, c
<1>4. Writes(<< p >>, << c >>) BY <1>2, WritesOne
<1> QED BY <1>3, <1>4 DEF Goes

LEMMA BytesGoes == ASSUME NEW r \in Records, r.kind = "bytes" PROVE Goes(r)
<1> DEFINE v == r.value
           p == Out!PutLength(v)
           c == IntChunk(Len(v))
           q == Out!PutRange(v, 0, Len(v))
<1>1. v \in Chunk /\ Len(v) <= HeapMax BY RecordsAssumption DEF Chunk
<1>2. Len(v) \in Int BY <1>1, LenProperties DEF Chunk
<1>3. Puts(p, << c >>) BY <1>2, CountGoes
<1>4. CASE v = << >>
  <2>1. PutsOf(r) = << p >> /\ ChunksOf(r) = << c >> BY <1>4 DEF PutsOf, ChunksOf
  <2> HIDE DEF v, p, c
  <2>2. Writes(<< p >>, << c >>) BY <1>3, WritesOne
  <2> QED BY <2>1, <2>2 DEF Goes
<1>5. CASE v # << >>
  <2>1. PutsOf(r) = << p, q >> /\ ChunksOf(r) = Append(<< c >>, v)
    BY <1>5 DEF PutsOf, ChunksOf
  <2> HIDE DEF v
  <2>2. Puts(q, << v >>) BY <1>1, PutsRange
  <2>3. c \in Chunk BY <1>2, IntChunkType
  <2> HIDE DEF p, c, q
  <2> DEFINE cc == << c >>
  <2>4. cc \in Seq(Chunk) BY <2>3
  <2> HIDE DEF cc
  <2>5. Append(cc, v) = cc \o << v >> BY <1>1, <2>4, AppendIsConcat
  <2>6. Writes(<< p, q >>, << c >> \o << v >>) BY <1>3, <2>2, WritesTwo
  <2> QED BY <2>1, <2>5, <2>6 DEF Goes, cc
<1> QED BY <1>4, <1>5

LEMMA StringGoes == ASSUME NEW r \in Records, r.kind = "utf" PROVE Goes(r)
<1> DEFINE v == r.value
           p == Out!PutLength(v)
           c == IntChunk(Len(v))
           q == Out!PutUtf(v)
           u == Utf8(v)
<1>1. v \in Seq(Char) /\ Len(v) <= HeapMax BY RecordsAssumption
<1>2. Len(v) \in Int BY <1>1, LenProperties
<1>3. Puts(p, << c >>) BY <1>2, CountGoes
<1>4. ChunksOf(r) = << c >> \o u BY DEF ChunksOf
<1>5. CASE v = << >>
  <2>1. PutsOf(r) = << p >> BY <1>5 DEF PutsOf
  <2>2. u = << >>
    <3>1. u \in Seq(Chunk) /\ Len(u) = Len(v) BY <1>1, Utf8Type
    <3>2. Len(v) = 0 BY <1>5
    <3> QED BY <3>1, <3>2, EmptySeq
  <2>3. c \in Chunk BY <1>2, IntChunkType
  <2> HIDE DEF v, p, c, u
  <2> DEFINE cc == << c >>
  <2>4. cc \in Seq(Chunk) BY <2>3
  <2> HIDE DEF cc
  <2>5. cc \o << >> = cc BY <2>4, ConcatEmptySeq
  <2>6. Writes(<< p >>, cc) BY <1>3, WritesOne DEF cc
  <2> QED BY <1>4, <2>1, <2>2, <2>5, <2>6 DEF Goes, cc
<1>6. CASE v # << >>
  <2>1. PutsOf(r) = << p, q >> BY <1>6 DEF PutsOf
  <2> HIDE DEF v
  <2>2. Puts(q, u) BY <1>1, PutsUtf
  <2> HIDE DEF p, c, q, u
  <2>3. Writes(<< p, q >>, << c >> \o u) BY <1>3, <2>2, WritesTwo
  <2> QED BY <1>4, <2>1, <2>3 DEF Goes
<1> QED BY <1>5, <1>6

\* An array's puts behind its length.
LEMMA RowGoes ==
  ASSUME NEW r, NEW p, NEW c, Puts(p, << c >>), NEW puts \in Seq(Room), NEW cs, Writes(puts, cs),
         PutsOf(r) = << p >> \o puts, ChunksOf(r) = << c >> \o cs
  PROVE  Goes(r)
BY WritesFront DEF Goes

LEMMA BooleansGoes == ASSUME NEW r \in Records, r.kind = "booleans" PROVE Goes(r)
<1> DEFINE v == r.value
           n == Len(v)
           p == Out!PutLength(v)
           c == IntChunk(n)
           row == [i \in 1..n |-> Out!PutByte(IF v[i] = 0 THEN 0 ELSE 1)]
           cs == Singles(v)
<1>1. v \in Seq({0, 1}) BY RecordsAssumption
<1>2. n \in Nat BY <1>1, LenProperties
<1>3. Puts(p, << c >>) BY <1>2, CountGoes
<1>4. PutsOf(r) = << p >> \o row BY DEF PutsOf
<1>5. ChunksOf(r) = << c >> \o cs BY DEF ChunksOf
<1>6. \A i \in 1..n : v[i] \in {0, 1} BY <1>1, ElementOfSeq
<1>7. \A i \in 1..n : v[i] \in Byte /\ (IF v[i] = 0 THEN 0 ELSE 1) = v[i] BY <1>6 DEF Byte
<1>8. row = [i \in 1..n |-> row[i]] /\ \A i \in 1..n : row[i] = Out!PutByte(v[i])
  BY <1>7, Zenon
<1>9. cs = [i \in 1..n |-> << v[i] >>] BY DEF Singles
<1> HIDE DEF row, p, c, v
<1>10. \A i \in 1..n : << v[i] >> \in Chunk BY <1>7 DEF Chunk
<1>11. cs \in [1..n -> Chunk] /\ \A i \in 1..n : cs[i] = << v[i] >> BY <1>9, <1>10
<1> HIDE DEF cs, n
<1>12. cs \in Seq(Chunk) /\ Len(cs) = n BY <1>2, <1>11, FunctionIsSeq
<1>13. \A i \in 1..n : Puts(row[i], << cs[i] >>) BY <1>7, <1>8, <1>11, PutsByte
<1>14. row \in Seq(Room) /\ Writes(row, cs) BY <1>2, <1>8, <1>12, <1>13, WritesRow
<1> QED BY <1>3, <1>4, <1>5, <1>14, RowGoes

LEMMA FixedsGoes == ASSUME NEW r \in Records, r.kind = "fixeds" PROVE Goes(r)
<1> DEFINE v == r.value
           n == Len(v)
           p == Out!PutLength(v)
           c == IntChunk(n)
           row == [i \in 1..n |-> Out!PutFixed(v[i], BigEndian)]
           cs == Ordered(v)
<1>1. v \in Seq(Chunk) /\ \A i \in DOMAIN v : Len(v[i]) <= 8
  <2>1. v \in Seq(Seq(Byte)) /\ \E w \in 2..8 : \A i \in DOMAIN v : Len(v[i]) = w
    BY RecordsAssumption
  <2> QED BY <2>1 DEF Chunk
<1>2. n \in Nat /\ DOMAIN v = 1..n BY <1>1, LenProperties
<1>3. Puts(p, << c >>) BY <1>2, CountGoes
<1>4. PutsOf(r) = << p >> \o row BY DEF PutsOf
<1>5. ChunksOf(r) = << c >> \o cs BY DEF ChunksOf
<1>6. \A i \in 1..n : v[i] \in Chunk /\ Len(v[i]) <= 8 BY <1>1, <1>2, ElementOfSeq
<1>7. row = [i \in 1..n |-> row[i]] /\ \A i \in 1..n : row[i] = Out!PutFixed(v[i], BigEndian)
  BY Zenon
<1> HIDE DEF row, p, c, v
<1>8. /\ cs \in Seq(Chunk) /\ Len(cs) = n
      /\ \A i \in 1..n : cs[i] = InOrder(v[i], BigEndian)
  BY <1>1, OrderedType
<1> HIDE DEF cs, n
<1>9. \A i \in 1..n : Puts(row[i], << cs[i] >>) BY <1>6, <1>7, <1>8, PutsFixed
<1>10. row \in Seq(Room) /\ Writes(row, cs) BY <1>2, <1>7, <1>8, <1>9, WritesRow
<1> QED BY <1>3, <1>4, <1>5, <1>10, RowGoes

LEMMA StringsGo == ASSUME NEW r \in Records, r.kind = "utfs" PROVE Goes(r)
<1> DEFINE a == r.value
           n == Len(a)
           p == Out!PutLength(a)
           c == IntChunk(n)
           puts == TextPuts(a, n)
           cs == Texts(a)
<1>1. a \in Seq(StringOrNull) /\ \A i \in DOMAIN a : Len(CharsOf(a[i])) <= HeapMax
  BY RecordsAssumption
<1>2. n \in Nat /\ DOMAIN a = 1..n BY <1>1, LenProperties
<1>3. Puts(p, << c >>) BY <1>2, CountGoes
<1>4. PutsOf(r) = << p >> \o puts BY DEF PutsOf, TextPuts
<1>5. ChunksOf(r) = << c >> \o cs BY DEF ChunksOf
<1> HIDE DEF a, p, c
<1>6. puts \in Seq(Room) /\ Writes(puts, cs) BY <1>1, <1>2, WritesTexts
<1> HIDE DEF puts, cs
<1> QED BY <1>3, <1>4, <1>5, <1>6, RowGoes

\* Every record is written as its chunks, one behind the other.
LEMMA RecordGoes == ASSUME NEW r \in Records PROVE Goes(r)
<1>1. CASE r.kind = "byte" BY <1>1, ByteGoes
<1>2. CASE r.kind = "fixed" BY <1>2, FixedGoes
<1>3. CASE r.kind = "bytes" BY <1>3, BytesGoes
<1>4. CASE r.kind = "booleans" BY <1>4, BooleansGoes
<1>5. CASE r.kind = "fixeds" BY <1>5, FixedsGoes
<1>6. CASE r.kind = "utf" BY <1>6, StringGoes
<1>7. CASE r.kind = "utfs" BY <1>7, StringsGo
<1>8. CASE r.kind = "null" BY <1>8, NullGoes
<1> QED BY <1>1, <1>2, <1>3, <1>4, <1>5, <1>6, <1>7, <1>8, RecordsAssumption

-----------------------------------------------------------------------------
(* Records that lie in an array.                                           *)
\* The records rs are the first q bytes of array a, the i-th ending at mp[i].
Marks(a, rs, q, mp) ==
  /\ q <= Len(a)
  /\ mp \in [0..Len(rs) -> 0..q]
  /\ mp[0] = 0 /\ mp[Len(rs)] = q
  /\ \A i \in 1..Len(rs) : Holds(a, ChunksOf(rs[i]), mp[i - 1], mp[i])

\* There are such ends.
Laid(a, rs, q) == \E mp : Marks(a, rs, q, mp)

LEMMA HoldsForward ==
  ASSUME NEW a, NEW cs \in Seq(Chunk), NEW p \in Nat, NEW q \in Nat, Holds(a, cs, p, q)
  PROVE  p <= q /\ q <= Len(a)
<1>1. PICK at : Ends(a, cs, p, q, at) BY DEF Holds
<1>2. Len(cs) \in Nat BY LenProperties
<1>3. at[0] \in p..q /\ at[0] = p
  <2>1. 0 \in 0..Len(cs) BY <1>2
  <2> QED BY <1>1, <2>1 DEF Ends
<1> QED BY <1>3 DEF Holds

LEMMA LaidNothing == ASSUME NEW a, Len(a) \in Nat PROVE Laid(a, << >>, 0)
<1> DEFINE mp == [i \in 0..0 |-> 0]
<1>1. Len(<< >>) = 0 /\ mp \in [0..0 -> 0..0] /\ mp[0] = 0 OBVIOUS
<1> HIDE DEF mp
<1>2. Marks(a, << >>, 0, mp) BY <1>1 DEF Marks
<1> QED BY <1>2 DEF Laid

\* A record behind those that lie in the array.
LEMMA LaidMore ==
  ASSUME NEW a, Len(a) \in Nat, NEW rs \in Seq(Records), NEW r \in Records,
         NEW p \in Nat, NEW q \in Nat, Laid(a, rs, p), Holds(a, ChunksOf(r), p, q)
  PROVE  Laid(a, Append(rs, r), q)
<1> DEFINE n == Len(rs)
           ts == Append(rs, r)
           g(mp) == [i \in 0..n + 1 |-> IF i = n + 1 THEN q ELSE mp[i]]
<1>1. PICK mp : Marks(a, rs, p, mp) BY DEF Laid
<1>2. n \in Nat BY LenProperties
<1>3. Len(ts) = n + 1 /\ ts[n + 1] = r /\ \A i \in 1..n : ts[i] = rs[i] BY AppendProperties
<1>4. p <= q /\ q <= Len(a)
  <2>1. ChunksOf(r) \in Seq(Chunk) BY RecordComes DEF Typed
  <2> HIDE DEF n, ts
  <2> QED BY <2>1, HoldsForward
<1> HIDE DEF ts
<1>5. /\ mp \in [0..n -> 0..p] /\ mp[0] = 0 /\ mp[n] = p
      /\ \A i \in 1..n : Holds(a, ChunksOf(rs[i]), mp[i - 1], mp[i])
  BY <1>1 DEF Marks
<1>6. g(mp) \in [0..n + 1 -> 0..q]
  <2>1. \A i \in 0..n + 1 : i # n + 1 => i \in 0..n BY <1>2
  <2> QED BY <1>4, <1>5, <2>1
<1>7. g(mp)[n + 1] = q /\ \A i \in 0..n : g(mp)[i] = mp[i] BY <1>2
<1> DEFINE h == g(mp)
<1>8. h \in [0..n + 1 -> 0..q] /\ h[n + 1] = q /\ \A i \in 0..n : h[i] = mp[i] BY <1>6, <1>7
<1> HIDE DEF h, n
<1>9. ASSUME NEW i \in 1..n + 1 PROVE Holds(a, ChunksOf(ts[i]), h[i - 1], h[i])
  <2>1. CASE i = n + 1
    <3>1. i - 1 = n /\ n \in 0..n BY <1>2, <2>1
    <3> QED BY <1>3, <1>5, <1>8, <2>1, <3>1
  <2>2. CASE i # n + 1
    <3>1. i \in 1..n /\ i \in 0..n /\ i - 1 \in 0..n BY <1>2, <2>2
    <3>2. h[i] = mp[i] /\ h[i - 1] = mp[i - 1] /\ ts[i] = rs[i] BY <1>3, <1>8, <3>1
    <3> QED BY <1>5, <3>1, <3>2
  <2> QED BY <2>1, <2>2
<1>10. h[0] = 0
  <2>1. 0 \in 0..n BY <1>2
  <2> QED BY <1>5, <1>8, <2>1
<1>11. Marks(a, ts, q, h) BY <1>3, <1>4, <1>8, <1>9, <1>10 DEF Marks
<1> QED BY <1>11 DEF Laid, ts

\* Records below q lie in any array that agrees up there.
LEMMA MarksSame ==
  ASSUME NEW a, NEW b, NEW rs \in Seq(Records), NEW q \in Nat, NEW e \in Nat, q <= e, NEW mp,
         Marks(a, rs, q, mp), Agree(a, b, e), Len(b) \in Nat
  PROVE  Marks(b, rs, q, mp)
<1>1. q <= Len(b) BY DEF Agree
<1>2. Len(rs) \in Nat BY LenProperties
<1>3. ASSUME NEW i \in 1..Len(rs) PROVE Holds(b, ChunksOf(rs[i]), mp[i - 1], mp[i])
  <2>1. i - 1 \in 0..Len(rs) /\ i \in 0..Len(rs) BY <1>2
  <2> DEFINE u == mp[i - 1]
             v == mp[i]
             cs == ChunksOf(rs[i])
  <2>2. u \in Nat /\ v \in Nat /\ v <= e BY <2>1 DEF Marks
  <2>3. cs \in Seq(Chunk)
    <3>1. rs[i] \in Records BY ElementOfSeq
    <3> QED BY <3>1, RecordComes DEF Typed
  <2>4. Holds(a, cs, u, v) BY DEF Marks
  <2> HIDE DEF u, v, cs
  <2>5. Holds(b, cs, u, v) BY <2>2, <2>3, <2>4, HoldsSame
  <2> QED BY <2>5 DEF u, v, cs
<1> QED BY <1>1, <1>3 DEF Marks

LEMMA LaidSame ==
  ASSUME NEW a, NEW b, NEW rs \in Seq(Records), NEW q \in Nat, NEW e \in Nat, q <= e,
         Laid(a, rs, q), Agree(a, b, e), Len(b) \in Nat
  PROVE  Laid(b, rs, q)
<1>1. PICK mp : Marks(a, rs, q, mp) BY DEF Laid
<1>2. Marks(b, rs, q, mp) BY <1>1, MarksSame
<1> QED BY <1>2 DEF Laid

-----------------------------------------------------------------------------
(* The writer.                                                             *)
ArrayOf(n, b) == [i \in 1..n |-> b[i - 1]]
\* The bytes of the writer's buffer.
Array == ArrayOf(length, buffer)

\* The types, and a record that begins inside the buffer.
WriterTypes ==
  /\ length \in 0..HeapMax
  /\ buffer \in [0..length - 1 -> Byte]
  /\ outPos \in Nat
  /\ start \in Nat /\ start <= length /\ start <= outPos
  /\ calls \in Seq(Room) /\ stores \in Seq(Out!Store)
  /\ written \in Seq(Records)

\* Between two records; while one is written, whose chunks are those in the
\* array, those of the current put and those of the puts to come; and when one
\* has failed, or clear() before there was any.
Settled == Out!Idle /\ outThrown = "none" /\ outPos <= length /\ Laid(Array, written, outPos)

\* The record r is half written behind the records rs: done are its chunks in the
\* array, cs those of the puts that wait.
WritingAs(rs, r, done, cs) ==
  /\ written = Append(rs, r) /\ Laid(Array, rs, start)
  /\ ChunksOf(r) = done \o (BytesOf(stores) \o cs) /\ Writes(calls, cs)
  /\ Holds(Array, done, start, outPos)
Writing ==
  /\ outThrown = "none" /\ outPos <= length
  /\ \E rs \in Seq(Records), r \in Records, done, cs \in Seq(Chunk) : WritingAs(rs, r, done, cs)

Failed ==
  /\ Out!Idle /\ outThrown # "none"
  /\ \/ \E rs \in Seq(Records), r \in Records : written = Append(rs, r) /\ Laid(Array, rs, start)
     \/ written = << >> /\ start = 0

\* The invariant of the writer.
WriterOK == WriterTypes /\ (Settled \/ Writing \/ Failed)

LEMMA ArrayOfType ==
  ASSUME NEW n \in Nat, NEW b \in [0..n - 1 -> Byte]
  PROVE  /\ ArrayOf(n, b) \in Chunk /\ Len(ArrayOf(n, b)) = n
         /\ \A i \in 1..n : ArrayOf(n, b)[i] = b[i - 1]
<1> DEFINE a == ArrayOf(n, b)
<1>1. \A i \in 1..n : i - 1 \in 0..n - 1 OBVIOUS
<1>2. a \in [1..n -> Byte] /\ \A i \in 1..n : a[i] = b[i - 1] BY <1>1 DEF ArrayOf
<1> HIDE DEF a
<1>3. a \in Seq(Byte) /\ Len(a) = n BY <1>2, FunctionIsSeq
<1> QED BY <1>2, <1>3 DEF a, Chunk

LEMMA Kept ==
  ASSUME NEW n \in Nat, NEW b, NEW m \in Nat, NEW c \in [0..m - 1 -> Byte], NEW e \in Nat,
         e <= n, e <= m, \A i \in 0..e - 1 : c[i] = b[i]
  PROVE  Agree(ArrayOf(n, b), ArrayOf(m, c), e)
<1>1. Len(ArrayOf(m, c)) = m BY ArrayOfType
<1>2. ASSUME NEW i \in 1..e PROVE ArrayOf(n, b)[i] = ArrayOf(m, c)[i]
  <2>1. i \in 1..n /\ i \in 1..m /\ i - 1 \in 0..e - 1 OBVIOUS
  <2> QED BY <2>1 DEF ArrayOf
<1> QED BY <1>1, <1>2 DEF Agree

\* What every step of a call keeps.
Keeps ==
  /\ length' \in 0..HeapMax /\ buffer' \in [0..length' - 1 -> Byte]
  /\ outPos' \in Nat /\ outPos <= outPos'
  /\ calls' \in Seq(Room) /\ stores' \in Seq(Out!Store)
  /\ start <= length'
  /\ \A i \in 0..start - 1 : buffer'[i] = buffer[i]
  /\ outThrown = "none" /\ ~Out!Idle
  /\ outPos <= length => outPos <= length' /\ \A i \in 0..outPos - 1 : buffer'[i] = buffer[i]

\* A step that keeps the buffer below the position.
LEMMA KeptTypes ==
  ASSUME WriterTypes, Keeps, UNCHANGED writing PROVE WriterTypes'
<1>1. start' = start /\ written' = written BY DEF writing
<1>2. (length \in 0..HeapMax)' /\ (buffer \in [0..length - 1 -> Byte])' BY DEF Keeps
<1>3. outPos' \in Nat /\ start' \in Nat /\ start' <= length' /\ start' <= outPos'
  <2>1. start \in Nat /\ start <= outPos /\ outPos \in Nat BY DEF WriterTypes
  <2>2. outPos' \in Nat /\ outPos <= outPos' /\ start <= length' BY DEF Keeps
  <2> QED BY <1>1, <2>1, <2>2
<1>4. calls' \in Seq(Room) /\ (stores \in Seq(Out!Store))' /\ written' \in Seq(Records)
  BY <1>1 DEF WriterTypes, Keeps
<1> QED BY <1>2, <1>3, <1>4 DEF WriterTypes

LEMMA KeptArray ==
  ASSUME WriterTypes, Keeps
  PROVE  /\ Agree(Array, Array', start) /\ Array \in Chunk /\ Array' \in Chunk
         /\ Len(Array) = length /\ Len(Array') = length'
         /\ outPos <= length => Agree(Array, Array', outPos)
<1>1. /\ length \in Nat /\ length' \in Nat /\ start \in Nat /\ outPos \in Nat
      /\ buffer \in [0..length - 1 -> Byte] /\ buffer' \in [0..length' - 1 -> Byte]
      /\ start <= length /\ start <= length'
  <2>1. \A n \in 0..HeapMax : n \in Nat OBVIOUS
  <2>2. length \in 0..HeapMax /\ length' \in 0..HeapMax BY DEF WriterTypes, Keeps
  <2>3. length \in Nat /\ length' \in Nat BY <2>1, <2>2
  <2>4. buffer \in [0..length - 1 -> Byte] /\ buffer' \in [0..length' - 1 -> Byte]
    BY DEF WriterTypes, Keeps
  <2>5. start \in Nat /\ outPos \in Nat /\ start <= length /\ start <= length'
    BY DEF WriterTypes, Keeps
  <2> QED BY <2>3, <2>4, <2>5
<1>2. /\ Array \in Chunk /\ Len(Array) = length /\ Array' \in Chunk /\ Len(Array') = length'
  BY <1>1, ArrayOfType DEF Array
<1>3. Agree(Array, Array', start) BY <1>1, Kept DEF Array, Keeps
<1>4. outPos <= length => Agree(Array, Array', outPos) BY <1>1, Kept DEF Array, Keeps
<1> QED BY <1>2, <1>3, <1>4

LEMMA Progressing ==
  ASSUME WriterOK, ~Out!Idle, outThrown = "none" PROVE Writing
BY DEF WriterOK, Settled, Failed

\* The next put of the record.
LEMMA PutStarts ==
  ASSUME WriterOK, Keeps, Out!Reserving, Out!StartPut, UNCHANGED writing
  PROVE  WriterOK'
<1>1. Writing BY Progressing DEF Keeps, WriterOK
<1>2. PICK rs \in Seq(Records), r \in Records, done \in Seq(Chunk), cs \in Seq(Chunk) :
        WritingAs(rs, r, done, cs)
  BY <1>1 DEF Writing
<1>3. WriterTypes /\ start \in Nat /\ outPos \in Nat /\ start <= outPos
  BY DEF WriterOK, WriterTypes
<1>4. WriterTypes' BY <1>3, KeptTypes
<1>5. start' = start /\ written' = written BY DEF writing
<1>6. /\ calls # << >> /\ stores = << >> /\ stores' = Head(calls).stores /\ calls' = Tail(calls)
      /\ outPos' = outPos /\ outThrown' = outThrown
  BY DEF Out!Reserving, Out!StartPut
<1>7. outPos <= length /\ outThrown = "none" BY <1>1 DEF Writing
<1>8. /\ Agree(Array, Array', start) /\ Agree(Array, Array', outPos) /\ Len(Array') \in Nat
  BY <1>3, <1>7, KeptArray, LenProperties DEF Chunk
<1>9. Laid(Array', rs, start) BY <1>2, <1>3, <1>8, LaidSame DEF WritingAs
<1>10. Holds(Array', done, start, outPos) BY <1>2, <1>3, <1>8, HoldsSame DEF WritingAs
<1>11. Writes(calls, cs) /\ ChunksOf(r) = done \o (BytesOf(stores) \o cs) BY <1>2 DEF WritingAs
<1>12. BytesOf(stores) \o cs = cs BY <1>6, BytesOfNone, ConcatEmptySeq
<1>13. PICK rest \in Seq(Chunk) : cs = BytesOf(Head(calls).stores) \o rest
                                  /\ Writes(Tail(calls), rest)
  BY <1>6, <1>11, WritesFirst
<1>14. ChunksOf(r) = done \o (BytesOf(stores') \o rest) /\ Writes(calls', rest)
  BY <1>6, <1>11, <1>12, <1>13
<1>15. WritingAs(rs, r, done, rest)'
  BY <1>2, <1>5, <1>6, <1>9, <1>10, <1>14 DEF WritingAs, ChunksOf
<1>16. outPos' <= length' /\ outThrown' = "none" BY <1>6, <1>7 DEF Keeps
<1>17. Writing' BY <1>15, <1>16 DEF Writing
<1> QED BY <1>4, <1>17 DEF WriterOK

\* The call fails: the records before are as they were.
LEMMA CallFails ==
  ASSUME WriterOK, Keeps, NEW e, e # "none", Out!Throw(e), UNCHANGED writing
  PROVE  WriterOK'
<1>1. Writing BY Progressing DEF Keeps, WriterOK
<1>2. PICK rs \in Seq(Records), r \in Records, done \in Seq(Chunk), cs \in Seq(Chunk) :
        WritingAs(rs, r, done, cs)
  BY <1>1 DEF Writing
<1>3. WriterTypes /\ start \in Nat BY DEF WriterOK, WriterTypes
<1>4. WriterTypes' BY <1>3, KeptTypes
<1>5. start' = start /\ written' = written BY DEF writing
<1>6. calls' = << >> /\ stores' = << >> /\ outThrown' # "none" BY DEF Out!Throw
<1>7. Agree(Array, Array', start) /\ Len(Array') \in Nat
  BY <1>3, KeptArray, LenProperties DEF Chunk
<1>8. Laid(Array', rs, start) BY <1>2, <1>3, <1>7, LaidSame DEF WritingAs
<1>9. written = Append(rs, r) BY <1>2 DEF WritingAs
<1>10. Failed' BY <1>5, <1>6, <1>8, <1>9 DEF Failed, Out!Idle
<1> QED BY <1>4, <1>10 DEF WriterOK

\* A buffer that has grown has room for the put it grew for.
LEMMA GrowsEnough ==
  ASSUME NEW n \in Nat, n <= IntMax, NEW p \in Nat, p <= n,
         NEW reserved \in Int, reserved <= IntMax, n - p < reserved,
         NEW m \in Nat, m = MaxOf(Wrap(2 * n), Wrap(n + reserved))
  PROVE  n <= m
<1>1. IntMax \in Nat BY IntMaxAssumption
<1>2. Wrap(2 * n) < 0 \/ n <= Wrap(2 * n) BY <1>1 DEF Wrap
<1>3. Wrap(n + reserved) < 0 \/ n <= Wrap(n + reserved) BY <1>1 DEF Wrap
<1>4. Wrap(2 * n) \in Int /\ Wrap(n + reserved) \in Int BY <1>1 DEF Wrap
<1> QED BY <1>2, <1>3, <1>4 DEF MaxOf

LEMMA OutNumbers ==
  /\ Out!NoBuffer = -1
  /\ \A a, b : Out!MaxOf(a, b) = MaxOf(a, b)
  /\ \A x : Out!Wrap(x) = Wrap(x)
BY DEF Out!NoBuffer, Out!MaxOf, MaxOf, Out!Wrap, Wrap

LEMMA WriterNumbers ==
  ASSUME WriterTypes
  PROVE  /\ length \in Nat /\ length <= IntMax /\ length # Out!NoBuffer
         /\ outPos \in Nat /\ start \in Nat /\ start <= length /\ start <= outPos
         /\ buffer \in [0..length - 1 -> Byte]
<1>1. \A n \in 0..HeapMax : n \in Nat /\ n <= IntMax
  <2>1. HeapMax \in Nat /\ HeapMax <= IntMax /\ IntMax \in Nat
    BY SizeAssumption, IntMaxAssumption
  <2> QED BY <2>1
<1>2. length \in Nat /\ length <= IntMax BY <1>1 DEF WriterTypes
<1> QED BY <1>2, OutNumbers DEF WriterTypes

\* The first put of the queue.
LEMMA NextPut ==
  ASSUME WriterTypes, calls # << >>
  PROVE  /\ Head(calls) \in Room /\ Head(calls).stores \in Seq(Out!Store)
         /\ Tail(calls) \in Seq(Room)
         /\ Out!Reserved \in Int /\ Out!Reserved <= IntMax
<1>1. calls \in Seq(Room) BY DEF WriterTypes
<1>2. Head(calls) \in Room /\ Tail(calls) \in Seq(Room) BY <1>1, HeadTailProperties
<1> DEFINE p == Head(calls)
           w == p.width
           l == Len(p.stores)
<1>3. p.stores \in Seq(Out!Store) /\ w \in Nat /\ w * l <= 3 * IntMax
  BY <1>2 DEF Room, Out!Put
<1>4. l \in Nat BY <1>3, LenProperties
<1>5. Out!Wanted = w * l BY DEF Out!Wanted
<1> HIDE DEF w, l
<1> DEFINE x == w * l
<1>6. x \in Nat /\ x <= 3 * IntMax BY <1>3, <1>4
<1> HIDE DEF x
<1>7. Wrap(x) \in Int /\ Wrap(x) <= IntMax BY <1>6, WrapBelow, IntMaxAssumption
<1>8. Out!Reserved = Wrap(x) BY <1>5, OutNumbers DEF Out!Reserved, x
<1> QED BY <1>2, <1>3, <1>7, <1>8

\* Each step of a put.
LEMMA RoomLeftKeeps ==
  ASSUME WriterOK, Out!RoomLeft, UNCHANGED writing PROVE Keeps /\ WriterOK'
<1>1. WriterTypes BY DEF WriterOK
<1>2. /\ calls # << >> /\ stores = << >> /\ calls' = Tail(calls)
      /\ stores' = Head(calls).stores
      /\ length' = length /\ buffer' = buffer /\ outPos' = outPos
  BY DEF Out!RoomLeft, Out!Reserving, Out!StartPut, Out!arrayVars
<1>3. ~Out!Idle BY <1>2 DEF Out!Idle
<1>4. outThrown = "none" BY <1>3 DEF WriterOK, Settled, Writing, Failed
<1>5. length' \in 0..HeapMax /\ buffer' \in [0..length' - 1 -> Byte] BY <1>1, <1>2 DEF WriterTypes
<1>6. calls' \in Seq(Room) /\ stores' \in Seq(Out!Store) BY <1>1, <1>2, NextPut
<1>7. outPos' \in Nat /\ outPos <= outPos' /\ start <= length' BY <1>1, <1>2, WriterNumbers
<1>8. Keeps BY <1>2, <1>3, <1>4, <1>5, <1>6, <1>7 DEF Keeps
<1>9. Out!Reserving /\ Out!StartPut BY DEF Out!RoomLeft
<1> QED BY <1>8, <1>9, PutStarts

LEMMA GrowKeeps ==
  ASSUME WriterOK, Out!Grow, UNCHANGED writing PROVE Keeps /\ WriterOK'
<1>1. WriterTypes BY DEF WriterOK
<1> DEFINE m == Out!NewCapacity
<1>2. /\ calls # << >> /\ stores = << >> /\ calls' = Tail(calls)
      /\ stores' = Head(calls).stores
      /\ length' = m /\ m \in 0..HeapMax /\ buffer' = Out!Resized(m) /\ outPos' = outPos
  BY DEF Out!Grow, Out!Reserving, Out!StartPut
<1>3. /\ length \in Nat /\ length <= IntMax /\ length # Out!NoBuffer /\ outPos \in Nat
      /\ start \in Nat /\ start <= length /\ start <= outPos
      /\ buffer \in [0..length - 1 -> Byte]
  BY <1>1, WriterNumbers
<1>4. outPos <= length BY <1>3 DEF Out!Grow
<1>5. length - outPos < Out!Reserved BY <1>3 DEF Out!Grow, Out!available
<1>6. m = MaxOf(Wrap(2 * length), Wrap(length + Out!Reserved))
  BY <1>3, OutNumbers, Zenon DEF Out!NewCapacity
<1> HIDE DEF m
<1>7. m \in Nat BY <1>2
<1>8. length <= m
  <2> DEFINE reserved == Out!Reserved
  <2>1. reserved \in Int /\ reserved <= IntMax BY <1>1, <1>2, NextPut
  <2>2. length - outPos < reserved /\ m = MaxOf(Wrap(2 * length), Wrap(length + reserved))
    BY <1>5, <1>6
  <2> HIDE DEF reserved
  <2> QED BY <1>3, <1>4, <1>7, <2>1, <2>2, GrowsEnough
<1>9. /\ buffer' \in [0..m - 1 -> Byte]
      /\ \A i \in 0..m - 1 : i < outPos => buffer'[i] = buffer[i]
  <2>1. buffer' = [i \in 0..m - 1 |-> IF i < outPos THEN buffer[i] ELSE 0]
    BY <1>2, <1>3, Zenon DEF Out!Resized
  <2>2. \A i \in 0..m - 1 : i < outPos => buffer[i] \in Byte BY <1>3, <1>4, <1>7
  <2>3. 0 \in Byte BY DEF Byte
  <2> QED BY <2>1, <2>2, <2>3
<1>10. \A i \in 0..outPos - 1 : buffer'[i] = buffer[i]
  BY <1>3, <1>4, <1>7, <1>8, <1>9
<1>11. \A i \in 0..start - 1 : buffer'[i] = buffer[i]
  BY <1>3, <1>10
<1>12. ~Out!Idle BY <1>2 DEF Out!Idle
<1>13. outThrown = "none" BY <1>12 DEF WriterOK, Settled, Writing, Failed
<1>14. calls' \in Seq(Room) /\ stores' \in Seq(Out!Store) BY <1>1, <1>2, NextPut
<1>15. start <= m /\ outPos <= m BY <1>3, <1>4, <1>7, <1>8
<1>16. Keeps
  BY <1>2, <1>3, <1>9, <1>10, <1>11, <1>12, <1>13, <1>14, <1>15 DEF Keeps
<1>17. Out!Reserving /\ Out!StartPut BY DEF Out!Grow
<1> QED BY <1>16, <1>17, PutStarts

LEMMA GrowFailsKeeps ==
  ASSUME WriterOK, Out!GrowFails, UNCHANGED writing PROVE Keeps /\ WriterOK'
<1>1. WriterTypes BY DEF WriterOK
<1>2. calls # << >> /\ length' = length /\ buffer' = buffer /\ outPos' = outPos
  BY DEF Out!GrowFails, Out!Reserving, Out!arrayVars
<1>3. PICK e \in {"NegativeArraySize", "OutOfMemory", "IndexOutOfBounds"} : Out!Throw(e)
  BY DEF Out!GrowFails, Out!AllocFails
<1>4. e # "none" OBVIOUS
<1>5. calls' = << >> /\ stores' = << >> BY <1>3 DEF Out!Throw
<1>6. calls' \in Seq(Room) /\ stores' \in Seq(Out!Store) BY <1>5, EmptySeq
<1>7. ~Out!Idle BY <1>2 DEF Out!Idle
<1>8. outThrown = "none" BY <1>7 DEF WriterOK, Settled, Writing, Failed
<1>9. length' \in 0..HeapMax /\ buffer' \in [0..length' - 1 -> Byte] BY <1>1, <1>2 DEF WriterTypes
<1>10. outPos' \in Nat /\ outPos <= outPos' /\ start <= length' BY <1>1, <1>2, WriterNumbers
<1>11. Keeps BY <1>2, <1>6, <1>7, <1>8, <1>9, <1>10 DEF Keeps
<1> QED BY <1>3, <1>4, <1>11, CallFails

\* The chunk c stored at p.
Overlaid(n, b, p, c) ==
  [i \in 0..n - 1 |-> IF p <= i /\ i < p + Len(c) THEN c[i - p + 1] ELSE b[i]]

LEMMA OverlayType ==
  ASSUME NEW n \in Nat, NEW b \in [0..n - 1 -> Byte], NEW p \in Nat, NEW c \in Chunk, NEW d,
         d = Overlaid(n, b, p, c)
  PROVE  /\ d \in [0..n - 1 -> Byte]
         /\ \A i \in 0..n - 1 : i < p => d[i] = b[i]
         /\ \A j \in 1..Len(c) : p + j <= n => d[(p + j) - 1] = c[j]
<1> DEFINE l == Len(c)
<1>1. l \in Nat /\ \A j \in 1..l : c[j] \in Byte
  <2>1. c \in Seq(Byte) BY DEF Chunk
  <2> QED BY <2>1, LenProperties, ElementOfSeq
<1> HIDE DEF l
<1>2. d = [i \in 0..n - 1 |-> IF p <= i /\ i < p + l THEN c[i - p + 1] ELSE b[i]]
  BY DEF l, Overlaid
<1>3. ASSUME NEW i \in 0..n - 1
      PROVE  (IF p <= i /\ i < p + l THEN c[i - p + 1] ELSE b[i]) \in Byte
  <2>1. CASE p <= i /\ i < p + l
    <3>1. i - p + 1 \in 1..l BY <1>1, <2>1
    <3> QED BY <1>1, <2>1, <3>1
  <2>2. CASE ~(p <= i /\ i < p + l) BY <2>2
  <2> QED BY <2>1, <2>2
<1>4. d \in [0..n - 1 -> Byte] BY <1>2, <1>3
<1>5. ASSUME NEW i \in 0..n - 1, i < p PROVE d[i] = b[i] BY <1>2, <1>5
<1>6. ASSUME NEW j \in 1..l, p + j <= n PROVE d[(p + j) - 1] = c[j]
  <2> DEFINE i == (p + j) - 1
  <2>1. i \in 0..n - 1 /\ p <= i /\ i < p + l /\ i - p + 1 = j BY <1>1, <1>6
  <2> HIDE DEF i
  <2>2. d[i] = c[j] BY <1>2, <2>1
  <2> QED BY <2>2 DEF i
<1> QED BY <1>4, <1>5, <1>6 DEF l

\* The store in hand.
LEMMA NextStore ==
  ASSUME WriterTypes, stores # << >>
  PROVE  /\ Head(stores) \in Out!Store /\ Tail(stores) \in Seq(Out!Store)
         /\ Head(stores).bytes \in Chunk /\ Head(stores).n \in Nat
<1>1. stores \in Seq(Out!Store) BY DEF WriterTypes
<1>2. Head(stores) \in Out!Store /\ Tail(stores) \in Seq(Out!Store)
  BY <1>1, HeadTailProperties
<1>3. Head(stores).bytes \in Chunk /\ Head(stores).n \in Nat
  BY <1>2, OutValues DEF Out!Store, Chunk
<1> QED BY <1>2, <1>3

LEMMA StoreFailsKeeps ==
  ASSUME WriterOK, Out!StoreFails, UNCHANGED writing PROVE Keeps /\ WriterOK'
<1> DEFINE c == Head(stores).bytes
           n == length
           p == outPos
<1>1. WriterTypes BY DEF WriterOK
<1>2. stores # << >> BY DEF Out!StoreFails, Out!Storing
<1>3. /\ n \in Nat /\ p \in Nat /\ n # Out!NoBuffer
      /\ start \in Nat /\ start <= n /\ start <= p /\ buffer \in [0..n - 1 -> Byte]
  BY <1>1, WriterNumbers
<1>4. c \in Chunk BY <1>1, <1>2, NextStore
<1>5. length' = n BY DEF Out!StoreFails
<1>6. PICK e \in {"NullPointer", "IndexOutOfBounds"} : Out!Throw(e) BY DEF Out!StoreFails
<1>7. calls' = << >> /\ stores' = << >> BY <1>6 DEF Out!Throw
<1>8. calls' \in Seq(Room) /\ stores' \in Seq(Out!Store) BY <1>7, EmptySeq
<1>9. outPos' = p \/ outPos' = p + 1 BY DEF Out!StoreFails
<1>10. outPos' \in Nat /\ p <= outPos' BY <1>3, <1>9
<1>11. buffer' = buffer \/ buffer' = Out!Overlay(p, c) BY DEF Out!StoreFails
<1>12. Out!Overlay(p, c) = Overlaid(n, buffer, p, c) BY DEF Out!Overlay, Overlaid
<1> HIDE DEF c, n, p
<1>13. buffer' \in [0..n - 1 -> Byte] /\ \A i \in 0..n - 1 : i < p => buffer'[i] = buffer[i]
  <2>1. CASE buffer' = buffer BY <1>3, <2>1
  <2>2. CASE buffer' = Out!Overlay(p, c) BY <1>3, <1>4, <1>12, <2>2, OverlayType
  <2> QED BY <1>11, <2>1, <2>2
<1>14. \A i \in 0..start - 1 : buffer'[i] = buffer[i] BY <1>3, <1>13
<1>15. p <= n => \A i \in 0..p - 1 : buffer'[i] = buffer[i] BY <1>3, <1>13
<1>16. ~Out!Idle BY <1>2 DEF Out!Idle
<1>17. outThrown = "none" BY <1>16 DEF WriterOK, Settled, Writing, Failed
<1>18. length' \in 0..HeapMax BY <1>1, <1>5 DEF WriterTypes, n
<1>19. Keeps
  BY <1>3, <1>5, <1>8, <1>10, <1>13, <1>14, <1>15, <1>16, <1>17, <1>18 DEF Keeps, n, p
<1>20. e # "none" OBVIOUS
<1> QED BY <1>6, <1>19, <1>20, CallFails

\* A store moves the next chunk from the put into the array.
LEMMA StoreNextKeeps ==
  ASSUME WriterOK, Out!StoreNext, UNCHANGED writing PROVE Keeps /\ WriterOK'
<1> DEFINE s == Head(stores)
           c == s.bytes
           t == Tail(stores)
           n == length
           p == outPos
<1>1. WriterTypes BY DEF WriterOK
<1>2. stores # << >> /\ stores' = t /\ calls' = calls /\ length' = n /\ outThrown' = outThrown
  BY DEF Out!StoreNext, Out!Storing
<1>3. /\ n \in Nat /\ p \in Nat /\ n # Out!NoBuffer
      /\ start \in Nat /\ start <= n /\ start <= p /\ buffer \in [0..n - 1 -> Byte]
  BY <1>1, WriterNumbers
<1>4. c \in Chunk /\ t \in Seq(Out!Store) BY <1>1, <1>2, NextStore
<1>5. p + Len(c) <= n /\ outPos' = p + Len(c)
  BY DEF Out!StoreNext, Out!Fits
<1>6. buffer' = Overlaid(n, buffer, p, c) BY DEF Out!StoreNext, Out!Overlay, Overlaid
<1>7. stores \in Seq(Out!Store) /\ calls \in Seq(Room) BY <1>1 DEF WriterTypes
<1>8. Len(c) \in Nat BY <1>4, LenProperties DEF Chunk
<1>9. BytesOf(stores) = << c >> \o BytesOf(t)
  <2> DEFINE b == BytesOf(stores)
  <2>1. b # << >> /\ Head(b) = c /\ Tail(b) = BytesOf(t) BY <1>2, <1>7, BytesOfFirst
  <2>2. b \in Seq(Chunk) BY <1>7, BytesOfType
  <2> HIDE DEF b, c, t
  <2>3. b = << Head(b) >> \o Tail(b) BY <2>1, <2>2, Cons
  <2> QED BY <2>1, <2>3 DEF b
<1> HIDE DEF c, t, n, p, s
<1>10. /\ buffer' \in [0..n - 1 -> Byte]
       /\ \A i \in 0..n - 1 : i < p => buffer'[i] = buffer[i]
       /\ \A j \in 1..Len(c) : p + j <= n => buffer'[(p + j) - 1] = c[j]
  <2> DEFINE d == buffer'
             b == buffer
  <2>1. d = Overlaid(n, b, p, c) BY <1>6
  <2>2. b \in [0..n - 1 -> Byte] /\ n \in Nat /\ p \in Nat /\ c \in Chunk BY <1>3, <1>4
  <2> HIDE DEF d, b
  <2>3. /\ d \in [0..n - 1 -> Byte]
        /\ \A i \in 0..n - 1 : i < p => d[i] = b[i]
        /\ \A j \in 1..Len(c) : p + j <= n => d[(p + j) - 1] = c[j]
    BY <2>1, <2>2, OverlayType
  <2> QED BY <2>3 DEF d, b
<1>11. \A i \in 0..start - 1 : buffer'[i] = buffer[i] BY <1>3, <1>10
<1>12. p <= n => \A i \in 0..p - 1 : buffer'[i] = buffer[i] BY <1>3, <1>10
<1>13. ~Out!Idle BY <1>2 DEF Out!Idle
<1>14. outThrown = "none" BY <1>13 DEF WriterOK, Settled, Writing, Failed
<1>15. length' \in 0..HeapMax BY <1>1, <1>2 DEF WriterTypes, n
<1>16. outPos' \in Nat /\ p <= outPos' /\ outPos' <= n BY <1>3, <1>5, <1>8
<1>17. Keeps
  BY <1>2, <1>3, <1>4, <1>7, <1>10, <1>11, <1>12, <1>13, <1>14, <1>15, <1>16 DEF Keeps, n, p
<1>18. Writing BY <1>13, <1>14, Progressing
<1>19. PICK rs \in Seq(Records), r \in Records, done \in Seq(Chunk), cs \in Seq(Chunk) :
        WritingAs(rs, r, done, cs)
  BY <1>18 DEF Writing
<1>20. start' = start /\ written' = written BY DEF writing
<1>21. /\ Agree(Array, Array', start) /\ Agree(Array, Array', p) /\ Len(Array') = n
       /\ Array' \in Chunk
  <2>1. p <= n BY <1>18 DEF Writing, n, p
  <2> QED BY <1>1, <1>2, <1>17, <2>1, KeptArray DEF n, p
<1>22. Laid(Array', rs, start) BY <1>3, <1>19, <1>21, LaidSame DEF WritingAs
<1>23. Holds(Array', done, start, p)
  <2>1. Holds(Array, done, start, p) BY <1>19 DEF WritingAs, p
  <2> QED BY <1>3, <1>21, <2>1, HoldsSame
<1>24. Holds(Array', Append(done, c), start, outPos')
  <2> DEFINE a == Array'
  <2>1. \A j \in 1..Len(c) : a[p + j] = c[j]
    <3> SUFFICES ASSUME NEW j \in 1..Len(c) PROVE a[p + j] = c[j] OBVIOUS
    <3>1. p + j \in 1..n /\ p + j <= n BY <1>3, <1>5, <1>8
    <3>2. length' = n BY <1>2
    <3>3. a[p + j] = buffer'[(p + j) - 1] BY <3>1, <3>2 DEF Array, ArrayOf
    <3> QED BY <1>10, <3>1, <3>3
  <2>2. a \in Chunk /\ p + Len(c) <= Len(a) BY <1>5, <1>21
  <2>3. Holds(a, done, start, p) BY <1>23
  <2> HIDE DEF a
  <2>4. Holds(a, Append(done, c), start, p + Len(c)) BY <1>3, <1>4, <2>1, <2>2, <2>3, HoldsMore
  <2> QED BY <1>5, <2>4 DEF a
<1>25. Append(done, c) \in Seq(Chunk) BY <1>4, AppendProperties
<1>26. ChunksOf(r) = Append(done, c) \o (BytesOf(t) \o cs)
  <2> DEFINE o == << c >>
             b == BytesOf(t)
             x == b \o cs
  <2>1. o \in Seq(Chunk) BY <1>4
  <2>2. b \in Seq(Chunk) BY <1>4, BytesOfType
  <2>3. ChunksOf(r) = done \o ((o \o b) \o cs) BY <1>9, <1>19 DEF WritingAs
  <2>4. Append(done, c) = done \o o BY <1>4, AppendIsConcat
  <2> HIDE DEF o, b
  <2>5. Grouped(o, b, cs) BY <2>1, <2>2, Regroup
  <2>6. x \in Seq(Chunk) BY <2>2, ConcatProperties
  <2>7. ChunksOf(r) = done \o (o \o x) BY <2>3, <2>5 DEF Grouped
  <2> HIDE DEF x
  <2>8. Grouped(done, o, x) BY <2>1, <2>6, Regroup
  <2>9. ChunksOf(r) = (done \o o) \o x BY <2>7, <2>8 DEF Grouped
  <2> QED BY <2>4, <2>9 DEF x, b
<1>27. written = Append(rs, r) /\ Writes(calls, cs) BY <1>19 DEF WritingAs
<1>28. PICK more \in Seq(Chunk) : more = Append(done, c) BY <1>25
<1>29. WritingAs(rs, r, more, cs)'
  <2>1. Holds(Array, more, start, outPos)' BY <1>20, <1>24, <1>28
  <2>2. ChunksOf(r) = more \o (BytesOf(stores') \o cs) BY <1>2, <1>26, <1>28
  <2>3. written' = Append(rs, r) /\ Writes(calls', cs) BY <1>2, <1>20, <1>27
  <2>4. Laid(Array, rs, start)' BY <1>20, <1>22
  <2> QED BY <2>1, <2>2, <2>3, <2>4 DEF WritingAs, ChunksOf
<1>30. outPos' <= length' /\ outThrown' = "none" BY <1>2, <1>14, <1>16
<1>31. Writing' BY <1>29, <1>30 DEF Writing
<1>32. WriterTypes' BY <1>1, <1>17, KeptTypes
<1> QED BY <1>17, <1>31, <1>32 DEF WriterOK

\* With no put and no failure, every record is in the buffer.
LEMMA SettledWhenIdle ==
  ASSUME WriterOK, Out!Idle, outThrown = "none" PROVE Settled
<1>1. CASE Settled BY <1>1
<1>2. CASE Writing
  <2>1. PICK rs \in Seq(Records), r \in Records, done \in Seq(Chunk), cs \in Seq(Chunk) :
          WritingAs(rs, r, done, cs)
    BY <1>2 DEF Writing
  <2>2. calls = << >> /\ stores = << >> BY DEF Out!Idle
  <2>3. cs = << >> BY <2>1, <2>2, WritesEmpty DEF WritingAs
  <2>4. BytesOf(stores) \o cs = << >>
    <3>1. << >> \o << >> = << >> OBVIOUS
    <3> QED BY <2>2, <2>3, <3>1, BytesOfNone
  <2>5. ChunksOf(r) = done BY <2>1, <2>4, ConcatEmptySeq DEF WritingAs
  <2>6. /\ length \in Nat /\ start \in Nat /\ outPos \in Nat
        /\ buffer \in [0..length - 1 -> Byte]
    BY WriterNumbers DEF WriterOK
  <2>7. Len(Array) \in Nat BY <2>6, ArrayOfType DEF Array
  <2>8. Laid(Array, Append(rs, r), outPos) BY <2>1, <2>5, <2>6, <2>7, LaidMore DEF WritingAs
  <2>9. outPos <= length BY <1>2 DEF Writing
  <2> QED BY <2>1, <2>8, <2>9 DEF Settled, WritingAs
<1> QED BY <1>1, <1>2 DEF WriterOK, Failed

\* The invariant of the writer is inductive.
LEMMA WriterInit == Init => WriterOK
<1> SUFFICES ASSUME Init PROVE WriterOK OBVIOUS
<1>1. /\ length = InitialSize /\ buffer = [i \in 0..InitialSize - 1 |-> 0] /\ outPos = 0
      /\ calls = << >> /\ stores = << >> /\ outThrown = "none" /\ start = 0 /\ written = << >>
  BY DEF Init, Out!Init
<1>2. InitialSize \in 0..HeapMax /\ InitialSize \in Nat BY SizeAssumption
<1>3. 0 \in Byte BY DEF Byte
<1>4. buffer \in [0..length - 1 -> Byte] BY <1>1, <1>3
<1>5. calls \in Seq(Room) /\ stores \in Seq(Out!Store) /\ written \in Seq(Records)
  BY <1>1, EmptySeq
<1>6. WriterTypes BY <1>1, <1>2, <1>4, <1>5 DEF WriterTypes
<1>7. Len(Array) \in Nat BY <1>1, <1>2, <1>4, ArrayOfType DEF Array
<1>8. Laid(Array, written, outPos) BY <1>1, <1>7, LaidNothing
<1>9. Settled BY <1>1, <1>2, <1>8 DEF Settled, Out!Idle
<1> QED BY <1>6, <1>9 DEF WriterOK

LEMMA CallStepKeeps ==
  ASSUME WriterOK, Out!CallStep, UNCHANGED writing PROVE Keeps /\ WriterOK'
BY RoomLeftKeeps, GrowKeeps, GrowFailsKeeps, StoreNextKeeps, StoreFailsKeeps DEF Out!CallStep

LEMMA StartKeeps ==
  ASSUME WriterOK, NEW r \in Records, StartRecord(r) PROVE WriterOK'
<1>1. outThrown = "none" /\ Out!Call(PutsOf(r)) /\ start' = outPos /\ written' = Append(written, r)
  BY WritesItsPuts DEF StartRecord
<1>2. /\ Out!Idle /\ calls' = PutsOf(r) /\ outThrown' = "none" /\ length' = length
      /\ buffer' = buffer /\ outPos' = outPos /\ stores' = stores
  BY <1>1 DEF Out!Call, Out!arrayVars
<1>3. WriterTypes /\ Settled BY <1>1, <1>2, SettledWhenIdle DEF WriterOK
<1>4. /\ length \in Nat /\ outPos \in Nat /\ buffer \in [0..length - 1 -> Byte]
      /\ outPos <= length
  BY <1>3, WriterNumbers DEF Settled
<1>5. written \in Seq(Records) BY <1>3 DEF WriterTypes
<1>6. Writes(PutsOf(r), ChunksOf(r)) BY RecordGoes DEF Goes
<1>7. PutsOf(r) \in Seq(Room) BY <1>6 DEF Writes
<1>8. ChunksOf(r) \in Seq(Chunk) BY RecordComes DEF Typed
<1>9. WriterTypes'
  <2>1. written' \in Seq(Records) BY <1>1, <1>5, AppendProperties
  <2> QED BY <1>1, <1>2, <1>3, <1>4, <1>7, <2>1 DEF WriterTypes
<1>10. Array' = Array BY <1>2 DEF Array, ArrayOf
<1>11. Array \in Chunk /\ Len(Array) = length BY <1>4, ArrayOfType DEF Array
<1>12. PICK done \in Seq(Chunk), cs \in Seq(Chunk) : done = << >> /\ cs = ChunksOf(r)
  BY <1>8, EmptySeq
<1>13. Holds(Array, done, outPos, outPos) BY <1>4, <1>11, <1>12, HoldsNothing
<1>14. ChunksOf(r) = done \o (BytesOf(stores) \o cs)
  <2>1. BytesOf(stores) = << >> BY <1>2, BytesOfNone DEF Out!Idle
  <2> QED BY <1>12, <2>1, ConcatEmptySeq
<1>15. PICK rs \in Seq(Records) : rs = written BY <1>5
<1>16. WritingAs(rs, r, done, cs)'
  <2>1. Laid(Array, rs, outPos) BY <1>3, <1>15 DEF Settled
  <2>2. (written = Append(rs, r) /\ Laid(Array, rs, start))' BY <1>1, <1>10, <1>15, <2>1
  <2>3. ChunksOf(r) = done \o (BytesOf(stores') \o cs) BY <1>2, <1>14
  <2>4. Writes(calls', cs) BY <1>2, <1>6, <1>12
  <2>5. Holds(Array, done, start, outPos)' BY <1>1, <1>2, <1>10, <1>13
  <2> QED BY <2>2, <2>3, <2>4, <2>5 DEF WritingAs, ChunksOf
<1>17. Writing' BY <1>2, <1>4, <1>16 DEF Writing
<1> QED BY <1>9, <1>17 DEF WriterOK

\* The records but the last.
LEMMA WithoutLast ==
  ASSUME NEW rs \in Seq(Records), NEW r \in Records
  PROVE  SubSeq(Append(rs, r), 1, Len(Append(rs, r)) - 1) = rs
<1> DEFINE n == Len(rs)
           t == Append(rs, r)
           u == SubSeq(t, 1, n)
<1>1. n \in Nat /\ Len(t) = n + 1 /\ \A i \in 1..n : t[i] = rs[i]
  BY LenProperties, AppendProperties
<1>2. \A i \in 1..n : t[i] \in Records BY <1>1, ElementOfSeq
<1>3. SubSeq(t, 1, Len(t) - 1) = u
  <2>1. Len(t) - 1 = n BY <1>1
  <2> QED BY <2>1
<1> HIDE DEF n, t
<1>4. /\ u \in Seq(Records) /\ Len(u) = IF 1 <= n THEN n - 1 + 1 ELSE 0
      /\ \A i \in 1..n - 1 + 1 : u[i] = t[1 + i - 1]
  BY <1>1, <1>2, SubSeqProperties
<1> HIDE DEF u
<1>5. Len(u) = n BY <1>1, <1>4
<1>6. ASSUME NEW i \in 1..n PROVE u[i] = rs[i]
  <2>1. i \in 1..n - 1 + 1 /\ 1 + i - 1 = i BY <1>1
  <2> QED BY <1>1, <1>4, <2>1
<1>7. u = rs
  <2>1. Len(u) = Len(rs) /\ \A i \in 1..Len(u) : u[i] = rs[i] BY <1>5, <1>6 DEF n
  <2> QED BY <1>4, <2>1, SeqEqual
<1> QED BY <1>3, <1>7 DEF t

LEMMA NothingLess == SubSeq(<< >>, 1, Len(<< >>) - 1) = << >>
<1>1. Len(<< >>) - 1 = -1 BY EmptySeq
<1> DEFINE n == Len(<< >>) - 1
<1>2. n = -1 BY <1>1
<1> HIDE DEF n
<1>3. \A i \in 1..n : << >>[i] \in Records BY <1>2
<1>4. << >> \in Seq(Records) BY EmptySeq
<1>5. SubSeq(<< >>, 1, n) \in Seq(Records) /\ Len(SubSeq(<< >>, 1, n)) = 0
  BY <1>2, <1>3, <1>4, SubSeqProperties
<1> QED BY <1>5, EmptySeq DEF n

LEMMA TakeBackKeeps == ASSUME WriterOK, TakeBack PROVE WriterOK'
<1>1. Out!Idle /\ outThrown # "none" /\ start' = start
      /\ written' = SubSeq(written, 1, Len(written) - 1)
  BY DEF TakeBack
<1>2. WriterTypes BY DEF WriterOK
<1>3. /\ length \in Nat /\ length # Out!NoBuffer /\ start \in Nat /\ start <= length
      /\ buffer \in [0..length - 1 -> Byte]
  BY <1>2, WriterNumbers
<1>4. /\ outPos' = start /\ calls' = << >> /\ stores' = << >> /\ outThrown' = "none"
      /\ length' = length /\ buffer' = buffer
  BY <1>3 DEF TakeBack, Out!Position, Out!Throw, Out!arrayVars
<1>5. Failed BY <1>1, SettledWhenIdle DEF WriterOK, Settled, Writing
<1>6. \E rs \in Seq(Records) : written' = rs /\ Laid(Array, rs, start)
  <2>1. CASE \E rs \in Seq(Records), r \in Records :
               written = Append(rs, r) /\ Laid(Array, rs, start)
    <3>1. PICK rs \in Seq(Records), r \in Records :
            written = Append(rs, r) /\ Laid(Array, rs, start)
      BY <2>1
    <3> QED BY <1>1, <3>1, WithoutLast
  <2>2. CASE written = << >> /\ start = 0
    <3>1. written' = << >> BY <1>1, <2>2, NothingLess
    <3>2. Len(Array) \in Nat BY <1>3, ArrayOfType DEF Array
    <3> QED BY <2>2, <3>1, <3>2, EmptySeq, LaidNothing
  <2> QED BY <1>5, <2>1, <2>2 DEF Failed
<1>7. PICK rs \in Seq(Records) : written' = rs /\ Laid(Array, rs, start) BY <1>6
<1>8. WriterTypes'
  <2>1. calls' \in Seq(Room) /\ stores' \in Seq(Out!Store) BY <1>4, EmptySeq
  <2> QED BY <1>1, <1>2, <1>3, <1>4, <1>7, <2>1 DEF WriterTypes
<1>9. Array' = Array BY <1>4 DEF Array, ArrayOf
<1>10. Settled' BY <1>3, <1>4, <1>7, <1>9 DEF Settled, Out!Idle
<1> QED BY <1>8, <1>10 DEF WriterOK

\* clear() leaves an empty buffer, or the old one with its position reset.
LEMMA NextMessageKeeps == ASSUME WriterOK, NextMessage PROVE WriterOK'
<1>1. written' = << >> /\ start' = 0 /\ Out!Shrink /\ outPos' = 0
  BY DEF NextMessage, Out!Clear
<1>2. WriterTypes BY DEF WriterOK
<1>3. calls' = << >> /\ stores' = << >>
      /\ (length' \in 0..HeapMax /\ buffer' \in [0..length' - 1 -> Byte])
  <2>1. length \in 0..HeapMax /\ buffer \in [0..length - 1 -> Byte] BY <1>2 DEF WriterTypes
  <2>2. CASE Out!Throw("none") /\ UNCHANGED Out!arrayVars
    BY <2>1, <2>2 DEF Out!Throw, Out!arrayVars
  <2>3. CASE /\ Out!Times8(InitialSize) \in 0..HeapMax
             /\ length' = Out!Times8(InitialSize)
             /\ buffer' = [i \in 0..Out!Times8(InitialSize) - 1 |-> 0]
             /\ Out!Throw("none")
    <3> DEFINE m == Out!Times8(InitialSize)
    <3>1. m \in 0..HeapMax /\ length' = m /\ buffer' = [i \in 0..m - 1 |-> 0]
          /\ calls' = << >> /\ stores' = << >>
      BY <2>3 DEF Out!Throw
    <3>2. 0 \in Byte BY DEF Byte
    <3> HIDE DEF m
    <3> QED BY <3>1, <3>2
  <2>4. CASE Out!AllocFails(Out!Times8(InitialSize)) /\ UNCHANGED Out!arrayVars
    BY <2>1, <2>4 DEF Out!AllocFails, Out!Throw, Out!arrayVars
  <2> QED BY <1>1, <2>2, <2>3, <2>4 DEF Out!Shrink
<1>4. WriterTypes'
  <2>1. calls' \in Seq(Room) /\ stores' \in Seq(Out!Store) /\ written' \in Seq(Records)
    BY <1>1, <1>3, EmptySeq
  <2>2. (length \in 0..HeapMax)' /\ (buffer \in [0..length - 1 -> Byte])' BY <1>3
  <2>3. (outPos \in Nat /\ start \in Nat /\ start <= length /\ start <= outPos)' BY <1>1, <1>3
  <2> QED BY <2>1, <2>2, <2>3 DEF WriterTypes
<1>5. Len(Array') \in Nat
  <2>1. length' \in Nat BY <1>3
  <2> QED BY <1>3, <2>1, ArrayOfType DEF Array
<1>6. Laid(Array', << >>, 0) BY <1>5, LaidNothing
<1>7. 0 <= length' BY <1>3
<1>8. outThrown' = "none" => Settled' BY <1>1, <1>3, <1>6, <1>7 DEF Settled, Out!Idle
<1>9. outThrown' # "none" => Failed' BY <1>1, <1>3 DEF Failed, Out!Idle
<1> QED BY <1>4, <1>8, <1>9 DEF WriterOK

\* The writer rests.
LEMMA ElsewhereKeeps ==
  ASSUME WriterOK, UNCHANGED << outVars, writing >> PROVE WriterOK'
<1>1. /\ length' = length /\ buffer' = buffer /\ outPos' = outPos /\ calls' = calls
      /\ stores' = stores /\ outThrown' = outThrown /\ start' = start /\ written' = written
  BY DEF outVars, writing
<1>2. Array' = Array BY <1>1 DEF Array, ArrayOf
<1>3. WriterTypes' BY <1>1 DEF WriterOK, WriterTypes
<1>4. Settled => Settled' BY <1>1, <1>2 DEF Settled, Out!Idle
<1>5. Failed => Failed' BY <1>1, <1>2 DEF Failed, Out!Idle
<1>6. Writing => Writing'
  <2> SUFFICES ASSUME Writing PROVE Writing' OBVIOUS
  <2>1. PICK rs \in Seq(Records), r \in Records, done \in Seq(Chunk), cs \in Seq(Chunk) :
          WritingAs(rs, r, done, cs)
    BY DEF Writing
  <2>2. WritingAs(rs, r, done, cs)' BY <1>1, <1>2, <2>1 DEF WritingAs, ChunksOf
  <2> QED BY <1>1, <2>2 DEF Writing
<1> QED BY <1>3, <1>4, <1>5, <1>6 DEF WriterOK

\* Every step of the writer and of the reader keeps it.
LEMMA WriterNext == WriterOK /\ [Next]_vars => WriterOK'
<1> SUFFICES ASSUME WriterOK, [Next]_vars PROVE WriterOK' OBVIOUS
<1>1. CASE \E r \in Records : StartRecord(r) BY <1>1, StartKeeps
<1>2. CASE WriterStep BY <1>2, CallStepKeeps DEF WriterStep
<1>3. CASE TakeBack BY <1>3, TakeBackKeeps
<1>4. CASE NextMessage BY <1>4, NextMessageKeeps
<1>5. CASE \E onBuffer \in BOOLEAN : Open(onBuffer) BY <1>5, ElsewhereKeeps DEF Open
<1>6. CASE ReadRecord BY <1>6, ElsewhereKeeps DEF ReadRecord
<1>7. CASE ReaderStep BY <1>7, ElsewhereKeeps DEF ReaderStep
<1>8. CASE Close \/ Recycle BY <1>8, ElsewhereKeeps DEF Close, Recycle, MessageRead
<1>9. CASE UNCHANGED vars BY <1>9, ElsewhereKeeps DEF vars
<1> QED BY <1>1, <1>2, <1>3, <1>4, <1>5, <1>6, <1>7, <1>8, <1>9 DEF Next

-----------------------------------------------------------------------------
(* The array between the two.                                              *)
Resting == Out!Idle /\ outThrown = "none"

\* The reader's array, which is there as long as a message is, though close()
\* leaves its size behind; a live one is the writer's buffer.
ArrayOK ==
  /\ data \in Chunk /\ Len(data) <= HeapMax
  /\ size \in Int /\ (open => size = Len(data))
  /\ message \in Seq(Records) /\ (message # << >> => open)
  /\ end \in Nat /\ end <= Len(data)
  /\ live => message # << >> /\ data = Array

\* Unless the buffer was cleared, the message stays below everything the writer
\* still does.
LinkOK ==
  /\ ArrayOK
  /\ live /\ ~reused => end <= outPos /\ (end <= start \/ Resting)

\* What the writer leaves of the message.
Spares ==
  /\ data' \in Chunk /\ Len(data') = Len(data)
  /\ ~reused' => ~reused /\ Agree(data, data', end)
  /\ UNCHANGED << open, size, inPos, charLen, todo, got, src, inThrown, message, end, read, kept >>

LEMMA AgreeWithItself ==
  ASSUME NEW a, NEW e, e <= Len(a) PROVE Agree(a, a, e)
BY DEF Agree

\* A step of the writer that keeps the array below end, seen from the reader.
LEMMA SharedKeeps ==
  ASSUME LinkOK, Shared, ReaderWaits, UNCHANGED reading,
         length \in Nat, length' \in Nat, buffer \in [0..length - 1 -> Byte],
         buffer' \in [0..length' - 1 -> Byte],
         reused => reused', ~reused' /\ live' => Agree(Array, Array', end)
  PROVE  Spares /\ (live' => live) /\ ArrayOK'
<1>1. /\ UNCHANGED << open, size, inPos, charLen, todo, got, src, inThrown >>
      /\ message' = message /\ end' = end /\ read' = read /\ kept' = kept
  BY DEF ReaderWaits, reading
<1>2. Array' \in Chunk /\ Len(Array') = length' /\ Len(Array) = length
  BY ArrayOfType DEF Array
<1>3. CASE live /\ length' = length
  <2>1. data' = Array'
    <3>1. data' = [i \in 1..length |-> buffer'[i - 1]] BY <1>3 DEF Shared
    <3> QED BY <1>3, <3>1 DEF Array, ArrayOf
  <2>2. live' = live BY <1>3 DEF Shared
  <2>3. data = Array BY <1>3 DEF LinkOK, ArrayOK
  <2>4. Len(data') = Len(data) /\ data' \in Chunk BY <1>2, <1>3, <2>1, <2>3
  <2>5. ~reused' => ~reused /\ Agree(data, data', end) BY <1>3, <2>1, <2>2, <2>3
  <2>6. live' => message' # << >> /\ data' = Array' BY <1>1, <1>3, <2>1 DEF LinkOK, ArrayOK
  <2>7. ArrayOK' BY <1>1, <2>4, <2>6 DEF LinkOK, ArrayOK
  <2> QED BY <1>1, <2>2, <2>4, <2>5, <2>7 DEF Spares
<1>4. CASE ~(live /\ length' = length)
  <2>1. live' = FALSE /\ data' = data BY <1>4 DEF Shared
  <2>2. Agree(data, data', end) BY <2>1, AgreeWithItself DEF LinkOK, ArrayOK
  <2>3. ArrayOK' BY <1>1, <2>1 DEF LinkOK, ArrayOK
  <2>4. data' \in Chunk BY <2>3 DEF ArrayOK
  <2> QED BY <1>1, <2>1, <2>2, <2>3, <2>4 DEF Spares
<1> QED BY <1>3, <1>4

LEMMA AgreeShorter ==
  ASSUME NEW a, NEW b, NEW e \in Nat, NEW f \in Nat, f <= e, Len(b) \in Nat, Agree(a, b, e)
  PROVE  Agree(a, b, f)
BY DEF Agree

\* The array of the writer before and after a step of the writer.
LEMMA BothArrays ==
  ASSUME WriterOK, WriterOK'
  PROVE  /\ length \in Nat /\ length' \in Nat /\ outPos \in Nat /\ outPos' \in Nat
         /\ start \in Nat /\ start' \in Nat
         /\ buffer \in [0..length - 1 -> Byte] /\ buffer' \in [0..length' - 1 -> Byte]
         /\ Len(Array) = length /\ Len(Array') = length'
<1>1. /\ length \in Nat /\ outPos \in Nat /\ start \in Nat
      /\ buffer \in [0..length - 1 -> Byte]
  BY WriterNumbers DEF WriterOK
<1>2. (length \in 0..HeapMax)' /\ (buffer \in [0..length - 1 -> Byte])'
      /\ (outPos \in Nat)' /\ (start \in Nat)'
  BY DEF WriterOK, WriterTypes
<1>3. length' \in Nat BY <1>2
<1>4. Len(Array) = length /\ Len(Array') = length' BY <1>1, <1>2, <1>3, ArrayOfType DEF Array
<1> QED BY <1>1, <1>2, <1>3, <1>4

\* Every step of the writer spares the message that a reader is on.
LEMMA StartSpares ==
  ASSUME WriterOK, LinkOK, NEW r \in Records, StartRecord(r) PROVE Spares /\ LinkOK'
<1>1. outThrown = "none" /\ Out!Call(PutsOf(r)) /\ start' = outPos
  BY WritesItsPuts DEF StartRecord
<1>2. Out!Idle /\ length' = length /\ buffer' = buffer /\ outPos' = outPos
  BY <1>1 DEF Out!Call, Out!arrayVars
<1>3. Shared /\ ReaderWaits /\ UNCHANGED reading /\ reused' = reused BY DEF StartRecord
<1>4. WriterOK' BY StartKeeps
<1>5. Array' = Array BY <1>2 DEF Array, ArrayOf
<1>6. live => Agree(Array, Array', end) BY <1>5, AgreeWithItself DEF LinkOK, ArrayOK
<1>7. live' => live BY <1>3 DEF Shared
<1>8. Spares /\ ArrayOK'
  BY <1>3, <1>4, <1>6, <1>7, BothArrays, SharedKeeps
<1>9. (live /\ ~reused => end <= outPos /\ (end <= start \/ Resting))'
  BY <1>1, <1>2, <1>3, <1>7 DEF LinkOK, reading
<1> QED BY <1>8, <1>9 DEF LinkOK

LEMMA StepSpares == ASSUME WriterOK, LinkOK, WriterStep PROVE Spares /\ LinkOK'
<1>1. Out!CallStep /\ start' = start /\ UNCHANGED writing BY DEF WriterStep, writing
<1>2. Keeps /\ WriterOK' BY <1>1, CallStepKeeps
<1>3. Shared /\ ReaderWaits /\ UNCHANGED reading /\ reused' = reused BY DEF WriterStep
<1>4. live' => live BY <1>3 DEF Shared
<1>5. ~Resting BY <1>2 DEF Keeps, Resting
<1>6. live /\ ~reused => end <= start BY <1>5 DEF LinkOK
<1>7. Agree(Array, Array', start) /\ Len(Array') \in Nat
  BY <1>2, KeptArray, BothArrays DEF WriterOK
<1>8. live /\ ~reused => Agree(Array, Array', end)
  BY <1>2, <1>6, <1>7, BothArrays, AgreeShorter DEF LinkOK, ArrayOK
<1>9. Spares /\ ArrayOK'
  BY <1>2, <1>3, <1>4, <1>8, BothArrays, SharedKeeps
<1>10. (live /\ ~reused => end <= outPos /\ (end <= start \/ Resting))'
  <2>1. start <= outPos /\ start \in Nat /\ outPos \in Nat /\ end \in Nat
        /\ outPos' \in Nat /\ outPos <= outPos'
    BY <1>2, WriterNumbers DEF WriterOK, Keeps, LinkOK, ArrayOK
  <2>2. end' = end BY <1>3 DEF reading
  <2> QED BY <1>1, <1>3, <1>4, <1>6, <2>1, <2>2
<1> QED BY <1>9, <1>10 DEF LinkOK

LEMMA TakeBackSpares == ASSUME WriterOK, LinkOK, TakeBack PROVE Spares /\ LinkOK'
<1>1. Out!Idle /\ outThrown # "none" /\ start' = start BY DEF TakeBack
<1>2. length # Out!NoBuffer /\ start <= length /\ start \in Nat
  BY WriterNumbers DEF WriterOK
<1>3. outPos' = start /\ length' = length /\ buffer' = buffer
  BY <1>2 DEF TakeBack, Out!Position, Out!Throw, Out!arrayVars
<1>4. Shared /\ ReaderWaits /\ UNCHANGED reading /\ reused' = reused BY DEF TakeBack
<1>5. WriterOK' BY TakeBackKeeps
<1>6. Array' = Array BY <1>3 DEF Array, ArrayOf
<1>7. live => Agree(Array, Array', end) BY <1>6, AgreeWithItself DEF LinkOK, ArrayOK
<1>8. live' => live BY <1>4 DEF Shared
<1>9. Spares /\ ArrayOK'
  BY <1>4, <1>5, <1>7, <1>8, BothArrays, SharedKeeps
<1>10. (live /\ ~reused => end <= outPos /\ (end <= start \/ Resting))'
  BY <1>1, <1>3, <1>4, <1>8 DEF LinkOK, Resting, reading
<1> QED BY <1>9, <1>10 DEF LinkOK

LEMMA NextMessageSpares == ASSUME WriterOK, LinkOK, NextMessage PROVE Spares /\ LinkOK'
<1>1. Shared /\ ReaderWaits /\ UNCHANGED reading /\ reused' = (reused \/ live')
  BY DEF NextMessage
<1>2. WriterOK' BY NextMessageKeeps
<1>3. Spares /\ ArrayOK'
  BY <1>1, <1>2, BothArrays, SharedKeeps
<1>4. reused' \/ ~live' BY <1>1
<1> QED BY <1>3, <1>4 DEF LinkOK

-----------------------------------------------------------------------------
\* A reader opened on the buffer or on a copy of it has the writer's records.
LEMMA OpenLinks ==
  ASSUME WriterOK, LinkOK, NEW onBuffer \in BOOLEAN, Open(onBuffer)
  PROVE  /\ LinkOK' /\ Laid(data', message', end')
         /\ message = << >> /\ message' # << >> /\ read' = 0 /\ open' /\ todo' = << >> /\ got' = << >>
         /\ src' = 0 /\ inThrown' = "none" /\ inPos' = 0 /\ reused' = FALSE
         /\ charLen' = charLen /\ kept' = charLen'
<1> DEFINE m == IF onBuffer THEN length ELSE Out!LogSize
           d == [i \in 1..m |-> buffer[i - 1]]
<1>1. /\ Out!Idle /\ outThrown = "none" /\ written # << >> /\ message = << >>
      /\ In!InitWith(d, TRUE, 0)
      /\ message' = written /\ end' = outPos /\ read' = 0 /\ kept' = charLen
      /\ live' = onBuffer /\ reused' = FALSE
      /\ UNCHANGED << outVars, writing >>
  BY DEF Open
<1>2. Settled BY <1>1, SettledWhenIdle
<1>3. /\ length \in Nat /\ outPos \in Nat /\ buffer \in [0..length - 1 -> Byte]
      /\ outPos <= length /\ length <= HeapMax /\ written \in Seq(Records)
  <2>1. length \in 0..HeapMax /\ written \in Seq(Records) BY DEF WriterOK, WriterTypes
  <2> QED BY <1>2, <2>1, WriterNumbers DEF WriterOK, Settled
<1>4. m \in Nat /\ outPos <= m /\ m <= length
  <2>1. Out!LogSize = outPos BY <1>3 DEF Out!LogSize, Out!MinOf, Out!MaxOf
  <2> QED BY <1>3, <2>1
<1>5. /\ data' = d /\ open' /\ size' = Len(data') /\ inPos' = 0 /\ charLen' = charLen
      /\ todo' = << >> /\ got' = << >> /\ src' = 0 /\ inThrown' = "none"
  BY <1>1 DEF In!InitWith, In!Return
<1>6. onBuffer => m = length OBVIOUS
<1>7. d = ArrayOf(m, buffer) BY DEF ArrayOf
<1> HIDE DEF m, d
<1>8. d \in Chunk /\ Len(d) = m /\ \A i \in 1..m : d[i] = buffer[i - 1]
  <2>1. \A i \in 1..m : i - 1 \in 0..length - 1 BY <1>3, <1>4
  <2>2. d \in [1..m -> Byte] /\ \A i \in 1..m : d[i] = buffer[i - 1]
    BY <1>3, <1>7, <2>1 DEF ArrayOf
  <2>3. d \in Seq(Byte) /\ Len(d) = m BY <1>4, <2>2, FunctionIsSeq
  <2> QED BY <2>2, <2>3 DEF Chunk
<1>9. Agree(Array, d, outPos)
  <2>1. \A i \in 1..outPos : i \in 1..length /\ i \in 1..m BY <1>3, <1>4
  <2>2. \A i \in 1..length : Array[i] = buffer[i - 1] BY DEF Array, ArrayOf
  <2> QED BY <1>4, <1>8, <2>1, <2>2 DEF Agree
<1>10. Laid(d, written, outPos)
  <2>1. Len(d) \in Nat /\ outPos <= outPos BY <1>3, <1>4, <1>8
  <2> QED BY <1>2, <1>3, <1>9, <2>1, LaidSame DEF Settled
<1>11. /\ length' = length /\ buffer' = buffer /\ outPos' = outPos /\ calls' = calls
       /\ stores' = stores /\ outThrown' = outThrown
  BY <1>1 DEF outVars
<1>12. Array' = Array BY <1>11 DEF Array, ArrayOf
<1>13. Resting' BY <1>1, <1>11 DEF Resting, Out!Idle
<1>14. live' => data' = Array' BY <1>1, <1>5, <1>6, <1>7, <1>12 DEF Array
<1>15. (data \in Chunk /\ Len(data) <= HeapMax /\ size \in Int /\ size = Len(data) /\ open)'
  <2>1. m <= HeapMax BY <1>3, <1>4, SizeAssumption
  <2>2. m \in Int BY <1>4
  <2> QED BY <1>5, <1>8, <2>1, <2>2
<1>16. (message \in Seq(Records) /\ message # << >> /\ end \in Nat /\ end <= Len(data))'
  BY <1>1, <1>3, <1>4, <1>5, <1>8
<1>17. (end <= outPos)' BY <1>1, <1>3, <1>11
<1>18. LinkOK' BY <1>13, <1>14, <1>15, <1>16, <1>17 DEF LinkOK, ArrayOK
<1> QED BY <1>1, <1>5, <1>10, <1>18

-----------------------------------------------------------------------------
(* The reader: what holds whatever it was opened on.                       *)
ReaderTypes ==
  /\ inPos \in Int /\ charLen \in Int /\ src \in Int
  /\ todo \in Seq(In!Get)
  /\ read \in 0..Len(message)
  /\ message = << >> => todo = << >>

\* The operators that DataInput has from JavaBits are those of the writer.
LEMMA InValues ==
  /\ In!Byte = Byte /\ In!NoBuffer = -1 /\ In!NULL_ARRAY_LENGTH = NULL_ARRAY_LENGTH
  /\ \A v, be : In!InOrder(v, be) = InOrder(v, be)
  /\ \A b : In!IntValue(b) = IntValue(b)
  /\ \A a, b : In!MaxOf(a, b) = MaxOf(a, b) /\ In!MinOf(a, b) = MinOf(a, b)
  /\ \A x : In!Wrap(x) = Wrap(x)
<1>1. In!Byte = Byte BY DEF In!Byte, Byte
<1>2. In!NoBuffer = -1 BY DEF In!NoBuffer
<1>3. In!NULL_ARRAY_LENGTH = NULL_ARRAY_LENGTH BY DEF In!NULL_ARRAY_LENGTH, NULL_ARRAY_LENGTH
<1>4. \A v, be : In!InOrder(v, be) = InOrder(v, be) BY DEF In!InOrder, InOrder
<1>5. \A b : In!IntValue(b) = IntValue(b) BY SMT DEF In!IntValue, IntValue
<1>6. \A a, b : In!MaxOf(a, b) = MaxOf(a, b) /\ In!MinOf(a, b) = MinOf(a, b)
  BY DEF In!MaxOf, MaxOf, In!MinOf, MinOf
<1>7. \A x : In!Wrap(x) = Wrap(x) BY DEF In!Wrap, Wrap
<1> QED BY <1>1, <1>2, <1>3, <1>4, <1>5, <1>6, <1>7

\* The get in hand.
LEMMA NextGet ==
  ASSUME ReaderTypes, todo # << >>
  PROVE  /\ Head(todo) \in In!Get /\ Head(todo).n \in Int /\ Tail(todo) \in Seq(In!Get)
         /\ << >> \o Tail(todo) = Tail(todo)
<1>1. todo \in Seq(In!Get) BY DEF ReaderTypes
<1>2. Head(todo) \in In!Get /\ Tail(todo) \in Seq(In!Get) BY <1>1, HeadTailProperties
<1>3. Head(todo).n \in Int BY <1>2 DEF In!Get
<1>4. << >> \o Tail(todo) = Tail(todo) BY <1>2, ConcatEmptySeq
<1> QED BY <1>2, <1>3, <1>4

\* Bytes of the array.
LEMMA BytesAre ==
  ASSUME data \in Chunk, NEW p \in Nat, NEW k \in Nat, p + k <= Len(data)
  PROVE  /\ In!Bytes(p, k) \in Chunk /\ Len(In!Bytes(p, k)) = k
         /\ \A i \in 1..k : In!Bytes(p, k)[i] = data[p + i]
<1> DEFINE m == p + 1
           n == p + k
           b == In!Bytes(p, k)
<1>1. data \in Seq(Byte) /\ Len(data) \in Nat BY LenProperties DEF Chunk
<1>2. m \in Int /\ n \in Int /\ \A i \in m..n : i \in 1..Len(data) BY <1>1
<1>3. \A i \in m..n : data[i] \in Byte BY <1>1, <1>2, ElementOfSeq
<1>4. b = SubSeq(data, m, n) BY DEF In!Bytes
<1>5. (m <= n => (n - m) + 1 = k) /\ (~(m <= n) => k = 0) /\ 1..k = 1..n - m + 1 OBVIOUS
<1>6. \A i \in 1..k : m + i - 1 = p + i OBVIOUS
<1> HIDE DEF m, n, b
<1>7. /\ b \in Seq(Byte) /\ Len(b) = IF m <= n THEN n - m + 1 ELSE 0
      /\ \A i \in 1..n - m + 1 : b[i] = data[m + i - 1]
  BY <1>2, <1>3, <1>4, SubSeqProperties
<1>8. Len(b) = k BY <1>2, <1>5, <1>7
<1> QED BY <1>5, <1>6, <1>7, <1>8 DEF b, Chunk

\* The int at the position.
LEMMA CountIsInt ==
  ASSUME LinkOK, ReaderTypes, In!FixedError(inPos, 4) = "none"
  PROVE  /\ In!Count \in Int /\ inPos \in Nat /\ inPos + 4 <= Len(data)
         /\ In!Count = IntValue(InOrder(In!Bytes(inPos, 4), BigEndian))
<1>1. inPos \in Int /\ data \in Chunk /\ size \in Int /\ (open => size = Len(data))
  BY DEF LinkOK, ArrayOK, ReaderTypes
<1>2. Len(data) \in Nat BY <1>1, LenProperties DEF Chunk
<1>3. open /\ 0 <= inPos /\ 4 <= size - inPos BY <1>1, <1>2 DEF In!FixedError
<1>4. inPos \in Nat /\ inPos + 4 <= Len(data) BY <1>1, <1>2, <1>3
<1> DEFINE b == In!Bytes(inPos, 4)
           v == InOrder(b, BigEndian)
<1>5. b \in Chunk /\ Len(b) = 4 BY <1>1, <1>4, BytesAre
<1>6. In!Count = IntValue(v) BY InValues DEF In!Count
<1> HIDE DEF b
<1>7. v \in Seq(Byte) /\ Len(v) = 4 BY <1>5, InOrderType DEF Chunk
<1> HIDE DEF v
<1>8. v[1] \in Int /\ v[2] \in Int /\ v[3] \in Int /\ v[4] \in Int
  <2>1. \A i \in 1..4 : v[i] \in Byte BY <1>7, ElementOfSeq
  <2>2. \A x \in Byte : x \in Int BY DEF Byte
  <2> QED BY <2>1, <2>2
<1>9. IntValue(v) \in Int
  <2> DEFINE w == v[1]
             x == v[2]
             y == v[3]
             z == v[4]
  <2>1. w \in Int /\ x \in Int /\ y \in Int /\ z \in Int BY <1>8
  <2>2. v[1] = w /\ v[2] = x /\ v[3] = y /\ v[4] = z OBVIOUS
  <2> HIDE DEF w, x, y, z
  <2>3. IntValue(v) = (IF w > 127 THEN w - 256 ELSE w) * 16777216 + x * 65536 + y * 256 + z
    BY <2>1, <2>2, IntValueIs, SMT
  <2> QED BY <2>1, <2>3, SMT
<1> QED BY <1>4, <1>6, <1>9 DEF b, v

\* The gets that a length is replaced by.
LEMMA ElementsType ==
  ASSUME NEW get \in In!Get, NEW n \in Int, charLen \in Int
  PROVE  In!Elements(get, n) \in Seq(In!Get)
<1>1. \A kind \in In!GetKind, k \in Int : In!GetOf(kind, k) \in In!Get BY GetOfType
<1>2. ASSUME NEW g \in In!Get PROVE In!Repeat(g, n) \in Seq(In!Get)
  <2> DEFINE f == [i \in 1..n |-> g]
  <2>1. f = [i \in 1..n |-> f[i]] /\ \A i \in 1..n : f[i] \in In!Get OBVIOUS
  <2> HIDE DEF f
  <2>2. f \in Seq(In!Get) BY <2>1, LoopIsSeq
  <2> QED BY <2>2 DEF f, In!Repeat
<1>3. get.n \in Int BY DEF In!Get
<1>4. CASE get.kind = "bytes"
  <2>1. In!GetOf("fill", n) \in In!Get BY <1>1 DEF In!GetKind
  <2>2. In!Elements(get, n) = IF n > 0 THEN << In!GetOf("fill", n) >> ELSE << >>
    BY <1>4 DEF In!Elements
  <2> QED BY <2>1, <2>2
<1>5. CASE get.kind = "booleans"
  <2>1. In!GetOf("boolean", 1) \in In!Get BY <1>1 DEF In!GetKind
  <2> QED BY <1>2, <1>5, <2>1 DEF In!Elements
<1>6. CASE get.kind = "fixeds"
  <2>1. In!GetOf("fixed", get.n) \in In!Get BY <1>1, <1>3 DEF In!GetKind
  <2> QED BY <1>2, <1>6, <2>1 DEF In!Elements
<1>7. CASE get.kind = "utfs"
  <2>1. In!GetOf("utf", 0) \in In!Get BY <1>1 DEF In!GetKind
  <2> QED BY <1>2, <1>7, <2>1 DEF In!Elements
<1>8. CASE get.kind = "utf"
  <2> DEFINE e(i) == In!GetOf("char", i - 1)
             f == [i \in 1..n |-> e(i)]
  <2>1. \A i \in 1..n : e(i) \in In!Get BY <1>1 DEF In!GetKind
  <2>2. In!Elements(get, n) = f BY <1>8 DEF In!Elements
  <2> HIDE DEF e
  <2>3. f = [i \in 1..n |-> f[i]] /\ \A i \in 1..n : f[i] \in In!Get BY <2>1
  <2> HIDE DEF f
  <2>4. f \in Seq(In!Get) BY <2>3, LoopIsSeq
  <2> QED BY <2>2, <2>4
<1>9. CASE get.kind = "inflate"
  <2>1. In!GetOf("dstChar", 1) \in In!Get BY <1>1 DEF In!GetKind
  <2> QED BY <1>2, <1>9, <2>1 DEF In!Elements
<1>10. CASE get.kind = "utfJNI"
  <2> DEFINE k == MaxOf(n, charLen)
  <2>1. k \in Int BY DEF MaxOf
  <2>2. In!GetOf("native", k) \in In!Get /\ In!GetOf("string", n) \in In!Get
    BY <1>1, <2>1 DEF In!GetKind
  <2>3. In!Elements(get, n) = << In!GetOf("native", k), In!GetOf("string", n) >>
    BY <1>10, InValues DEF In!Elements
  <2> QED BY <2>2, <2>3
<1>11. CASE get.kind \notin {"bytes", "booleans", "fixeds", "utfs", "utf", "inflate", "utfJNI"}
  <2>1. In!GetOf("native", charLen) \in In!Get /\ In!GetOf("untouched", n) \in In!Get
    BY <1>1 DEF In!GetKind
  <2>2. In!Elements(get, n) = << In!GetOf("native", charLen), In!GetOf("untouched", n) >>
    BY <1>11 DEF In!Elements
  <2> QED BY <2>1, <2>2
<1> QED BY <1>4, <1>5, <1>6, <1>7, <1>8, <1>9, <1>10, <1>11

\* What any step of a reader's call does to the types.
StepTypes ==
  /\ inPos' \in Int /\ charLen' \in Int /\ src' \in Int
  /\ todo' \in Seq(In!Get)
  /\ todo # << >>
  /\ UNCHANGED << data, open, size >>

LEMMA StepParts ==
  ASSUME inPos' \in Int, charLen' \in Int, src' \in Int, todo' \in Seq(In!Get),
         todo # << >>, UNCHANGED << data, open, size >>
  PROVE  StepTypes
BY DEF StepTypes

\* A step of a call is a step of one get.
LEMMA CallStepTypes == ASSUME LinkOK, ReaderTypes, In!CallStep PROVE StepTypes
<1>1. /\ inPos \in Int /\ charLen \in Int /\ src \in Int /\ todo \in Seq(In!Get)
      /\ size \in Int
  BY DEF LinkOK, ArrayOK, ReaderTypes
<1>2. size \in Int BY <1>1
<1>3. << >> \in Seq(In!Get) BY EmptySeq
<1>4. ASSUME NEW k \in Int, In!Advance(k)
      PROVE  inPos' \in Int /\ UNCHANGED << data, open, size >>
  BY <1>1, <1>4 DEF In!Advance, In!arrayVars
<1>5. ASSUME UNCHANGED << In!arrayVars, In!cursorVars >>
      PROVE  inPos' \in Int /\ UNCHANGED << data, open, size >>
  BY <1>1, <1>5 DEF In!arrayVars, In!cursorVars
<1>6. ASSUME NEW e, In!Throw(e) PROVE src' \in Int /\ todo' \in Seq(In!Get)
  BY <1>3, <1>6 DEF In!Throw
<1>7. ASSUME NEW v, todo # << >>, In!Deliver(v, << >>)
      PROVE  src' \in Int /\ todo' \in Seq(In!Get)
  BY <1>7, NextGet DEF In!Deliver
<1>8. ASSUME NEW kinds, In!Reading(kinds)
      PROVE  todo # << >> /\ Head(todo).n \in Int
  BY <1>8, NextGet DEF In!Reading
<1>9. CASE In!TakeFixed
  <2>1. todo # << >> /\ Head(todo).n \in Int BY <1>8, <1>9 DEF In!TakeFixed
  <2>2. In!Advance(Head(todo).n) BY <1>9 DEF In!TakeFixed
  <2>3. inPos' \in Int /\ UNCHANGED << data, open, size >> BY <1>4, <2>1, <2>2
  <2>4. src' \in Int /\ todo' \in Seq(In!Get) BY <1>7, <1>9, <2>1 DEF In!TakeFixed
  <2>5. charLen' \in Int BY <1>1, <1>9 DEF In!TakeFixed
  <2> QED BY <2>1, <2>3, <2>4, <2>5, StepParts
<1>10. CASE In!FixedFails
  <2>1. todo # << >> BY <1>8, <1>10 DEF In!FixedFails
  <2>2. inPos' \in Int /\ UNCHANGED << data, open, size >> /\ charLen' \in Int
    BY <1>1, <1>5, <1>10 DEF In!FixedFails
  <2>3. src' \in Int /\ todo' \in Seq(In!Get) BY <1>6, <1>10 DEF In!FixedFails
  <2> QED BY <2>1, <2>2, <2>3, StepParts
<1>11. CASE In!TakeByte
  <2>1. todo # << >> BY <1>8, <1>11 DEF In!TakeByte
  <2>2. inPos' \in Int /\ UNCHANGED << data, open, size >> /\ charLen' \in Int
    <3>1. In!Advance(1) /\ charLen' = charLen /\ 1 \in Int BY <1>11 DEF In!TakeByte
    <3> QED BY <1>1, <1>4, <3>1
  <2>3. src' \in Int /\ todo' \in Seq(In!Get) BY <1>7, <1>11, <2>1 DEF In!TakeByte
  <2> QED BY <2>1, <2>2, <2>3, StepParts
<1>12. CASE In!AtEnd
  <2>1. todo # << >> BY <1>8, <1>12 DEF In!AtEnd
  <2>2. inPos' \in Int /\ UNCHANGED << data, open, size >> /\ charLen' \in Int
    BY <1>1, <1>5, <1>12 DEF In!AtEnd
  <2>3. src' \in Int /\ todo' \in Seq(In!Get) BY <1>7, <1>12, <2>1 DEF In!AtEnd
  <2> QED BY <2>1, <2>2, <2>3, StepParts
<1>13. CASE In!ByteFails
  <2>1. todo # << >> /\ charLen' \in Int BY <1>1, <1>8, <1>13 DEF In!ByteFails
  <2>2. inPos' \in Int /\ UNCHANGED << data, open, size >>
    BY <1>4, <1>5, <1>13 DEF In!ByteFails
  <2>3. src' \in Int /\ todo' \in Seq(In!Get) BY <1>6, <1>13 DEF In!ByteFails
  <2> QED BY <2>1, <2>2, <2>3, StepParts
<1>14. CASE In!TakeChar
  <2> DEFINE w == In!CharWidth(data[inPos + 1])
  <2>1. todo # << >> BY <1>8, <1>14 DEF In!TakeChar, In!ReadingChar
  <2>2. w \in Int BY DEF In!CharWidth
  <2>3. In!Advance(w) /\ charLen' \in Int BY <1>1, <1>14 DEF In!TakeChar
  <2>4. In!Deliver(<< In!CharOf(In!Bytes(inPos, w)) >>, << >>) BY <1>14 DEF In!TakeChar
  <2> HIDE DEF w
  <2>5. inPos' \in Int /\ UNCHANGED << data, open, size >> BY <1>4, <2>2, <2>3
  <2>6. src' \in Int /\ todo' \in Seq(In!Get) BY <1>7, <2>1, <2>4
  <2> QED BY <2>1, <2>3, <2>5, <2>6, StepParts
<1>15. CASE In!CharFails
  <2> DEFINE w == In!CharWidth(data[inPos + 1])
  <2>1. todo # << >> BY <1>8, <1>15 DEF In!CharFails, In!ReadingChar
  <2>2. w \in Int BY DEF In!CharWidth
  <2>3. charLen' \in Int /\ (\E e : In!Throw(e))
        /\ (In!Advance(1) \/ In!Advance(size - inPos) \/ In!Advance(w))
    BY <1>1, <1>15 DEF In!CharFails
  <2> HIDE DEF w
  <2>4. inPos' \in Int /\ UNCHANGED << data, open, size >>
    <3>1. size - inPos \in Int BY <1>1, <1>2
    <3> QED BY <1>4, <2>2, <2>3, <3>1
  <2>5. src' \in Int /\ todo' \in Seq(In!Get) BY <1>6, <2>3
  <2> QED BY <2>1, <2>3, <2>4, <2>5, StepParts
<1>16. CASE In!Fill
  <2> DEFINE k == In!CopyLength(Head(todo).n)
  <2>1. todo # << >> /\ Head(todo).n \in Int BY <1>8, <1>16 DEF In!Fill
  <2>2. k \in Int BY <1>1, <1>2, <2>1 DEF In!CopyLength
  <2>3. In!Advance(k) /\ charLen' \in Int BY <1>1, <1>16 DEF In!Fill
  <2> HIDE DEF k
  <2>4. inPos' \in Int /\ UNCHANGED << data, open, size >> BY <1>4, <2>2, <2>3
  <2>5. src' \in Int /\ todo' \in Seq(In!Get) BY <1>7, <1>16, <2>1 DEF In!Fill
  <2> QED BY <2>1, <2>3, <2>4, <2>5, StepParts
<1>17. CASE In!FillFails
  <2>1. todo # << >> BY <1>8, <1>17 DEF In!FillFails
  <2>2. inPos' \in Int /\ UNCHANGED << data, open, size >> /\ charLen' \in Int
    BY <1>1, <1>5, <1>17 DEF In!FillFails
  <2>3. src' \in Int /\ todo' \in Seq(In!Get) BY <1>6, <1>17 DEF In!FillFails
  <2> QED BY <2>1, <2>2, <2>3, StepParts
<1>18. CASE In!TakeCount
  <2> DEFINE m == In!Count
             get == Head(todo)
             gets == IF m = In!NULL_ARRAY_LENGTH THEN << >> ELSE In!Elements(get, m)
  <2>1. todo # << >> /\ In!FixedError(inPos, 4) = "none"
    BY <1>8, <1>18 DEF In!TakeCount, In!Counting
  <2>2. m \in Int BY <2>1, CountIsInt
  <2>3. charLen' = m \/ charLen' = charLen BY <1>18 DEF In!TakeCount
  <2>4. inPos' \in Int /\ UNCHANGED << data, open, size >> BY <1>4, <1>18 DEF In!TakeCount
  <2>5. src' = 0 /\ todo' = gets \o Tail(todo) BY <1>18, Zenon DEF In!TakeCount, In!Deliver
  <2>6. get \in In!Get /\ Tail(todo) \in Seq(In!Get) BY <2>1, NextGet
  <2> HIDE DEF m, get
  <2>7. gets \in Seq(In!Get) BY <1>1, <1>3, <2>2, <2>6, ElementsType
  <2> HIDE DEF gets
  <2>8. todo' \in Seq(In!Get) BY <2>5, <2>6, <2>7, ConcatProperties
  <2>9. charLen' \in Int /\ src' \in Int BY <1>1, <2>2, <2>3, <2>5
  <2> QED BY <2>1, <2>4, <2>8, <2>9, StepParts
<1>19. CASE In!CountFails
  <2>1. todo # << >> /\ charLen' \in Int BY <1>1, <1>8, <1>19 DEF In!CountFails, In!Counting
  <2>2. inPos' \in Int /\ UNCHANGED << data, open, size >> BY <1>4, <1>19 DEF In!CountFails
  <2>3. src' \in Int /\ todo' \in Seq(In!Get) BY <1>6, <1>19 DEF In!CountFails
  <2> QED BY <2>1, <2>2, <2>3, StepParts
<1>20. CASE In!NativeChar
  <2> DEFINE w == In!NativeWidth(data[(inPos + src) + 1])
             k == Head(todo).n - 1
             o == << In!GetOf("native", k) >>
  <2>1. todo # << >> /\ Head(todo).n \in Int
    BY <1>8, <1>20 DEF In!NativeChar, In!NativeMore
  <2>2. w \in Int BY DEF In!NativeWidth
  <2>3. src' = src + w /\ todo' = o \o Tail(todo) /\ charLen' \in Int
    BY <1>1, <1>20 DEF In!NativeChar
  <2>4. inPos' \in Int /\ UNCHANGED << data, open, size >>
    BY <1>5, <1>20 DEF In!NativeChar
  <2>5. k \in Int /\ "native" \in In!GetKind BY <2>1 DEF In!GetKind
  <2> HIDE DEF w, k
  <2>6. o \in Seq(In!Get)
    <3>1. In!GetOf("native", k) \in In!Get BY <2>5, GetOfType
    <3> QED BY <3>1
  <2>7. Tail(todo) \in Seq(In!Get) BY <2>1, NextGet
  <2> HIDE DEF o
  <2>8. todo' \in Seq(In!Get) BY <2>3, <2>6, <2>7, ConcatProperties
  <2>9. src' \in Int BY <1>1, <2>2, <2>3
  <2> QED BY <2>1, <2>3, <2>4, <2>8, <2>9, StepParts
<1>21. CASE In!NativeMalformed
  <2>1. todo # << >> BY <1>8, <1>21 DEF In!NativeMalformed, In!NativeMore
  <2>2. In!Advance(-1) /\ todo' = Tail(todo) /\ src' = 0 /\ charLen' \in Int
    BY <1>1, <1>21 DEF In!NativeMalformed, In!NativeReturns
  <2>3. inPos' \in Int /\ UNCHANGED << data, open, size >> BY <1>4, <2>2
  <2> QED BY <2>1, <2>2, <2>3, NextGet, StepParts
<1>22. CASE In!NativeDone
  <2>1. todo # << >> BY <1>8, <1>22 DEF In!NativeDone
  <2>2. In!Advance(src) /\ todo' = Tail(todo) /\ src' = 0 /\ charLen' \in Int
    BY <1>1, <1>22 DEF In!NativeDone, In!NativeReturns
  <2>3. inPos' \in Int /\ UNCHANGED << data, open, size >> BY <1>1, <1>4, <2>2
  <2> QED BY <2>1, <2>2, <2>3, NextGet, StepParts
<1>23. CASE In!NativeString
  <2>1. todo # << >> BY <1>8, <1>23 DEF In!NativeString
  <2>2. inPos' \in Int /\ UNCHANGED << data, open, size >> /\ charLen' \in Int
    BY <1>1, <1>5, <1>23 DEF In!NativeString
  <2>3. In!Throw("StringIndex") \/ (todo' = Tail(todo) /\ src' = src)
    BY <1>23 DEF In!NativeString
  <2>4. src' \in Int /\ todo' \in Seq(In!Get)
    <3>1. CASE In!Throw("StringIndex") BY <1>6, <3>1
    <3>2. CASE todo' = Tail(todo) /\ src' = src BY <1>1, <2>1, <3>2, NextGet
    <3> QED BY <2>3, <3>1, <3>2
  <2> QED BY <2>1, <2>2, <2>4, StepParts
<1> QED BY <1>9, <1>10, <1>11, <1>12, <1>13, <1>14, <1>15, <1>16, <1>17, <1>18, <1>19, <1>20,
           <1>21, <1>22, <1>23 DEF In!CallStep

-----------------------------------------------------------------------------
(* The link and the types of the reader, through every step.               *)
Linked == WriterOK /\ LinkOK /\ ReaderTypes

\* A step of the reader that leaves the array alone.
LEMMA ReaderLeavesLink ==
  ASSUME LinkOK, UNCHANGED << outVars, writing, message, end, live, reused, data, open, size >>
  PROVE  LinkOK'
<1>1. /\ length' = length /\ buffer' = buffer /\ outPos' = outPos /\ calls' = calls
      /\ stores' = stores /\ outThrown' = outThrown /\ start' = start
      /\ message' = message /\ end' = end /\ live' = live /\ reused' = reused
      /\ data' = data /\ open' = open /\ size' = size
  BY DEF outVars, writing
<1>2. Array' = Array BY <1>1 DEF Array, ArrayOf
<1>3. Resting' = Resting BY <1>1 DEF Resting, Out!Idle
<1> QED BY <1>1, <1>2, <1>3 DEF LinkOK, ArrayOK

\* The next record starts between two records.
LEMMA ReadRecordLinks ==
  ASSUME LinkOK, ReaderTypes, ReadRecord
  PROVE  /\ LinkOK' /\ ReaderTypes'
         /\ todo = << >> /\ inThrown = "none" /\ read < Len(message)
         /\ todo' = << GetFor(message[read + 1]) >> /\ got' = << >> /\ src' = 0
         /\ inThrown' = "none" /\ read' = read + 1 /\ read' \in 1..Len(message)
         /\ UNCHANGED << data, open, inPos, charLen, message, end, kept, reused >>
<1>1. /\ inThrown = "none" /\ read < Len(message) /\ In!Call(GetFor(message[read + 1]))
      /\ read' = read + 1 /\ UNCHANGED << outVars, writing, message, end, kept, live, reused >>
  BY DEF ReadRecord
<1>2. /\ todo = << >> /\ todo' = << GetFor(message[read + 1]) >> /\ got' = << >> /\ src' = 0
      /\ inThrown' = "none" /\ UNCHANGED << data, open, size, inPos, charLen >>
  BY <1>1 DEF In!Call, In!Idle, In!arrayVars, In!cursorVars
<1>3. message \in Seq(Records) /\ Len(message) \in Nat BY LenProperties DEF LinkOK, ArrayOK
<1>4. read \in 0..Len(message) BY DEF ReaderTypes
<1>5. read + 1 \in 1..Len(message) BY <1>1, <1>3, <1>4
<1>6. message[read + 1] \in Records BY <1>3, <1>5, ElementOfSeq
<1>7. GetFor(message[read + 1]) \in In!Get BY <1>6, GetForType
<1>8. todo' \in Seq(In!Get) BY <1>2, <1>7
<1>9. LinkOK' BY <1>1, <1>2, ReaderLeavesLink
<1>10. message # << >> BY <1>1, <1>4
<1>11. ReaderTypes'
  <2>1. (inPos \in Int /\ charLen \in Int /\ src \in Int)' BY <1>2 DEF ReaderTypes
  <2>2. (read \in 0..Len(message))' BY <1>1, <1>5
  <2>3. (message # << >>)' BY <1>1, <1>10
  <2> QED BY <1>8, <2>1, <2>2, <2>3 DEF ReaderTypes
<1> QED BY <1>1, <1>2, <1>5, <1>9, <1>11

\* A get only moves the reader.
LEMMA ReaderStepLinks ==
  ASSUME LinkOK, ReaderTypes, ReaderStep
  PROVE  /\ LinkOK' /\ ReaderTypes' /\ In!CallStep /\ todo # << >>
         /\ UNCHANGED << data, open, size, message, end, reused, read, kept >>
<1>1. /\ In!CallStep /\ UNCHANGED << outVars, writing, message, end, read, kept, live, reused >>
  BY DEF ReaderStep, reading
<1>2. StepTypes BY <1>1, CallStepTypes
<1>3. /\ inPos' \in Int /\ charLen' \in Int /\ src' \in Int /\ todo' \in Seq(In!Get)
      /\ todo # << >> /\ UNCHANGED << data, open, size >>
  BY <1>2 DEF StepTypes
<1>4. LinkOK' BY <1>1, <1>3, ReaderLeavesLink
<1>5. message # << >> BY <1>3 DEF ReaderTypes
<1>6. (read \in 0..Len(message))' BY <1>1 DEF ReaderTypes
<1>7. (message # << >>)' BY <1>1, <1>5
<1>8. ReaderTypes' BY <1>3, <1>6, <1>7 DEF ReaderTypes
<1> QED BY <1>1, <1>3, <1>4, <1>8

\* The reader forgets its array, whether it is closed or cleared.
LEMMA CloseLinks ==
  ASSUME LinkOK, ReaderTypes, Close \/ Recycle
  PROVE  LinkOK' /\ ReaderTypes' /\ message' = << >>
<1>1. message' = << >> /\ end' = 0 /\ read' = 0 /\ live' = FALSE
  BY DEF Close, Recycle, MessageRead
<1>2. size \in Int /\ inPos \in Int /\ charLen \in Int BY DEF LinkOK, ArrayOK, ReaderTypes
<1>3. /\ data' = << >> /\ open' = FALSE /\ todo' = << >> /\ src' = 0
      /\ size' \in Int /\ inPos' \in Int /\ charLen' \in Int
  <2>1. CASE Close
    <3>1. In!Close BY <2>1 DEF Close
    <3>2. /\ data' = << >> /\ open' = FALSE /\ todo' = << >> /\ src' = 0
          /\ size' = size /\ inPos' = inPos /\ charLen' = -1
      BY <3>1, InValues DEF In!Close, In!Return, In!cursorVars
    <3> QED BY <1>2, <3>2
  <2>2. CASE Recycle
    <3>1. In!Clear BY <2>2 DEF Recycle
    <3>2. /\ data' = << >> /\ open' = FALSE /\ todo' = << >> /\ src' = 0
          /\ size' = 0 /\ inPos' = 0 /\ charLen' = MinOf(charLen, CharBufferMax)
      BY <3>1, InValues DEF In!Clear, In!Return
    <3>3. MinOf(charLen, CharBufferMax) \in Int BY <1>2, SizeAssumption DEF MinOf
    <3> QED BY <3>2, <3>3
  <2> QED BY <2>1, <2>2
<1>4. LinkOK'
  <2>1. << >> \in Chunk /\ << >> \in Seq(Records) /\ Len(<< >>) = 0 BY DEF Chunk
  <2>2. 0 <= HeapMax BY SizeAssumption
  <2>3. (data \in Chunk /\ Len(data) <= HeapMax /\ size \in Int /\ ~open)'
    BY <1>3, <2>1, <2>2
  <2>4. (message \in Seq(Records) /\ message = << >> /\ end \in Nat /\ end <= Len(data) /\ ~live)'
    BY <1>1, <1>3, <2>1
  <2> QED BY <2>3, <2>4 DEF LinkOK, ArrayOK
<1>5. ReaderTypes'
  <2>1. (todo \in Seq(In!Get))' BY <1>3
  <2>2. (read \in 0..Len(message))' BY <1>1
  <2>3. (inPos \in Int /\ charLen \in Int /\ src \in Int /\ todo = << >>)' BY <1>3
  <2> QED BY <2>1, <2>2, <2>3 DEF ReaderTypes
<1> QED BY <1>1, <1>4, <1>5

LEMMA OpenLinksBoth ==
  ASSUME WriterOK, LinkOK, ReaderTypes, NEW onBuffer \in BOOLEAN, Open(onBuffer)
  PROVE  LinkOK' /\ ReaderTypes'
<1>1. /\ LinkOK' /\ message' # << >> /\ read' = 0 /\ todo' = << >>
      /\ src' = 0 /\ inPos' = 0 /\ charLen' = charLen
  BY OpenLinks
<1>2. (message \in Seq(Records))' BY <1>1 DEF LinkOK, ArrayOK
<1>3. Len(message') \in Nat BY <1>2, LenProperties
<1>4. (read \in 0..Len(message))' BY <1>1, <1>3
<1>5. (todo \in Seq(In!Get))' BY <1>1
<1>6. (inPos \in Int /\ src \in Int /\ charLen \in Int /\ message # << >>)'
  BY <1>1 DEF ReaderTypes
<1> QED BY <1>1, <1>4, <1>5, <1>6 DEF ReaderTypes

LEMMA SparedTypes == ASSUME ReaderTypes, Spares PROVE ReaderTypes'
<1>1. UNCHANGED << inPos, charLen, todo, src, message, read >> BY DEF Spares
<1> QED BY <1>1 DEF ReaderTypes

LEMMA WriterSpares ==
  ASSUME Linked, \/ \E r \in Records : StartRecord(r)
                 \/ WriterStep \/ TakeBack \/ NextMessage
  PROVE  Spares /\ LinkOK' /\ ReaderTypes'
<1>1. WriterOK /\ LinkOK /\ ReaderTypes BY DEF Linked
<1>2. Spares /\ LinkOK'
  BY <1>1, StartSpares, StepSpares, TakeBackSpares, NextMessageSpares
<1> QED BY <1>1, <1>2, SparedTypes

\* The writer's invariant, the link and the types are inductive.
LEMMA LinkedInit == Init => Linked
<1> SUFFICES ASSUME Init PROVE Linked OBVIOUS
<1>1. WriterOK BY WriterInit
<1>2. LinkOK
  <2>1. /\ data = << >> /\ open = FALSE /\ size = 0 /\ message = << >> /\ end = 0 /\ live = FALSE
    BY DEF Init
  <2>2. << >> \in Chunk /\ << >> \in Seq(Records) /\ Len(<< >>) = 0 BY DEF Chunk
  <2> QED BY <2>1, <2>2, SizeAssumption DEF LinkOK, ArrayOK
<1>3. ReaderTypes
  <2>1. /\ inPos = 0 /\ charLen = -1 /\ src = 0 /\ todo = << >> /\ read = 0 /\ message = << >>
    BY DEF Init
  <2>2. << >> \in Seq(In!Get) /\ Len(<< >>) = 0 OBVIOUS
  <2> QED BY <2>1, <2>2, SizeAssumption DEF ReaderTypes
<1> QED BY <1>1, <1>2, <1>3 DEF Linked

LEMMA LinkedNext == Linked /\ [Next]_vars => Linked'
<1> SUFFICES ASSUME Linked, [Next]_vars PROVE Linked' OBVIOUS
<1>1. WriterOK /\ LinkOK /\ ReaderTypes BY DEF Linked
<1>2. WriterOK' BY <1>1, WriterNext
<1>3. CASE (\E r \in Records : StartRecord(r)) \/ WriterStep \/ TakeBack \/ NextMessage
  BY <1>2, <1>3, WriterSpares DEF Linked
<1>4. CASE \E onBuffer \in BOOLEAN : Open(onBuffer) BY <1>1, <1>2, <1>4, OpenLinksBoth DEF Linked
<1>5. CASE ReadRecord BY <1>1, <1>2, <1>5, ReadRecordLinks DEF Linked
<1>6. CASE ReaderStep BY <1>1, <1>2, <1>6, ReaderStepLinks DEF Linked
<1>7. CASE Close \/ Recycle BY <1>1, <1>2, <1>7, CloseLinks DEF Linked
<1>8. CASE UNCHANGED vars
  <2>1. UNCHANGED << outVars, writing, message, end, live, reused, data, open, size >>
        /\ UNCHANGED << inPos, charLen, todo, src, read >>
    BY <1>8 DEF vars, inVars, reading
  <2>2. LinkOK' BY <1>1, <2>1, ReaderLeavesLink
  <2>3. ReaderTypes' BY <1>1, <2>1 DEF ReaderTypes
  <2> QED BY <1>2, <2>2, <2>3 DEF Linked
<1> QED BY <1>3, <1>4, <1>5, <1>6, <1>7, <1>8 DEF Next

-----------------------------------------------------------------------------
(* What a step of the reader does when its chunk is in front of it.        *)
LEMMA StepByKind ==
  ASSUME In!CallStep
  PROVE  /\ todo # << >>
         /\ \/ Head(todo).kind = "fixed" /\ (In!TakeFixed \/ In!FixedFails)
            \/ Head(todo).kind \in In!Counted /\ (In!TakeCount \/ In!CountFails \/ In!FixedFails)
            \/ Head(todo).kind \in In!ByteKinds /\ (In!TakeByte \/ In!AtEnd \/ In!ByteFails)
            \/ Head(todo).kind \in In!CharKinds /\ (In!TakeChar \/ In!CharFails \/ In!ByteFails)
            \/ Head(todo).kind = "fill" /\ (In!Fill \/ In!FillFails)
            \/ /\ Head(todo).kind = "native"
               /\ In!NativeChar \/ In!NativeMalformed \/ In!NativeDone
            \/ Head(todo).kind \in {"string", "untouched"} /\ In!NativeString
<1>1. \A kinds : In!Reading(kinds) <=> todo # << >> /\ Head(todo).kind \in kinds BY DEF In!Reading
<1>2. CASE In!TakeFixed \/ In!FixedFails BY <1>1, <1>2 DEF In!TakeFixed, In!FixedFails
<1>3. CASE In!TakeByte \/ In!AtEnd
  BY <1>1, <1>3 DEF In!TakeByte, In!AtEnd, In!ByteKinds
<1>4. CASE In!ByteFails BY <1>1, <1>4 DEF In!ByteFails
<1>5. CASE In!TakeChar \/ In!CharFails
  BY <1>1, <1>5 DEF In!TakeChar, In!CharFails, In!ReadingChar
<1>6. CASE In!Fill \/ In!FillFails BY <1>1, <1>6 DEF In!Fill, In!FillFails
<1>7. CASE In!TakeCount \/ In!CountFails
  BY <1>1, <1>7 DEF In!TakeCount, In!CountFails, In!Counting
<1>8. CASE In!NativeChar \/ In!NativeMalformed \/ In!NativeDone
  BY <1>1, <1>8 DEF In!NativeChar, In!NativeMalformed, In!NativeDone, In!NativeMore
<1>9. CASE In!NativeString BY <1>1, <1>9 DEF In!NativeString
<1> QED BY <1>2, <1>3, <1>4, <1>5, <1>6, <1>7, <1>8, <1>9 DEF In!CallStep

\* The chunk c is at p in the array.
Ahead(c, p) ==
  /\ p \in Nat /\ p + Len(c) <= Len(data)
  /\ \A j \in 1..Len(c) : data[p + j] = c[j]

\* The bytes at the position are the chunk.
LEMMA BytesAhead ==
  ASSUME data \in Chunk, NEW c \in Chunk, NEW p, Ahead(c, p)
  PROVE  In!Bytes(p, Len(c)) = c
<1> DEFINE b == In!Bytes(p, Len(c))
<1>1. p \in Nat /\ p + Len(c) <= Len(data) /\ Len(c) \in Nat BY LenProperties DEF Ahead, Chunk
<1>2. b \in Chunk /\ Len(b) = Len(c) /\ \A i \in 1..Len(c) : b[i] = data[p + i]
  BY <1>1, BytesAre
<1> HIDE DEF b
<1>3. \A i \in 1..Len(c) : b[i] = c[i] BY <1>2 DEF Ahead
<1>4. b \in Seq(Byte) /\ c \in Seq(Byte) BY <1>2 DEF Chunk
<1>5. b = c BY <1>2, <1>3, <1>4, SeqEqual
<1> QED BY <1>5 DEF b

\* The get in hand has delivered v, and these gets are to come.
Stepped(k, v, gets) ==
  /\ inPos' = inPos + k /\ src' = 0 /\ inThrown' = inThrown
  /\ got' = Append(got, v) /\ todo' = gets

\* The reader takes a step on an array.
Ready == LinkOK /\ ReaderTypes /\ open /\ In!CallStep

LEMMA ReadyParts ==
  ASSUME Ready
  PROVE  /\ open /\ In!CallStep /\ todo # << >> /\ data \in Chunk
         /\ size = Len(data) /\ size \in Nat /\ size <= HeapMax
         /\ << >> \o Tail(todo) = Tail(todo) /\ Head(todo).n \in Int
<1>1. todo # << >> BY StepByKind DEF Ready
<1>2. data \in Chunk /\ size = Len(data) /\ size <= HeapMax BY DEF Ready, LinkOK, ArrayOK
<1>3. size \in Nat BY <1>2, LenProperties DEF Chunk
<1> QED BY <1>1, <1>2, <1>3, NextGet DEF Ready

\* readInt and its like, readByte and readBoolean, readFully, a char of readUTF.
LEMMA FixedDelivered ==
  ASSUME Ready, NEW c \in Chunk, Ahead(c, inPos), Head(todo).kind = "fixed",
         Head(todo).n = Len(c), Head(todo).be = BigEndian
  PROVE  Stepped(Len(c), InOrder(c, BigEndian), Tail(todo)) /\ charLen' = charLen
<1>1. /\ open /\ In!CallStep /\ size = Len(data) /\ size \in Nat /\ data \in Chunk
      /\ << >> \o Tail(todo) = Tail(todo)
  BY ReadyParts
<1>2. inPos \in Nat /\ inPos + Len(c) <= size /\ Len(c) \in Nat
  BY <1>1, LenProperties DEF Ahead, Chunk
<1>3. In!FixedError(inPos, Len(c)) = "none" BY <1>1, <1>2 DEF In!FixedError
<1>4. ~In!FixedFails BY <1>3 DEF In!FixedFails, In!Wanted
<1>5. In!TakeFixed
  BY <1>1, <1>4, StepByKind DEF In!Counted, In!ByteKinds, In!CharKinds
<1>6. In!Bytes(inPos, Len(c)) = c BY <1>1, BytesAhead
<1>7. In!Deliver(InOrder(c, BigEndian), << >>) /\ In!Advance(Len(c)) /\ charLen' = charLen
  BY <1>5, <1>6, InValues DEF In!TakeFixed
<1> QED BY <1>1, <1>7 DEF In!Deliver, In!Advance, Stepped

LEMMA ByteDelivered ==
  ASSUME Ready, NEW c \in Chunk, Ahead(c, inPos), Head(todo).kind \in {"byte", "boolean"},
         Len(c) = 1, Head(todo).kind = "boolean" => c[1] \in {0, 1}
  PROVE  Stepped(Len(c), c, Tail(todo)) /\ charLen' = charLen
<1>1. /\ open /\ In!CallStep /\ size = Len(data) /\ size \in Nat
      /\ << >> \o Tail(todo) = Tail(todo)
  BY ReadyParts
<1>2. inPos \in Nat /\ inPos + 1 <= size /\ data[inPos + 1] = c[1] BY <1>1 DEF Ahead
<1>3. inPos < size /\ 0 <= inPos /\ ~(inPos >= size) BY <1>1, <1>2
<1>4. ~In!ByteFails BY <1>1, <1>3 DEF In!ByteFails
<1>5. In!TakeByte
  BY <1>1, <1>4, StepByKind DEF In!Counted, In!ByteKinds, In!CharKinds, In!AtEnd, In!Reading
<1>6. c = << c[1] >>
  <2> DEFINE b == c[1]
             d == << b >>
  <2>1. b \in Byte BY ElementOfSeq DEF Chunk
  <2> HIDE DEF b
  <2>2. d \in Seq(Byte) /\ Len(d) = 1 /\ d[1] = b BY <2>1
  <2>3. \A i \in 1..1 : i = 1 OBVIOUS
  <2> HIDE DEF d
  <2>4. c = d BY <2>2, <2>3, SeqEqual DEF Chunk, b
  <2> QED BY <2>4 DEF d, b
<1>7. In!Deliver(c, << >>) /\ In!Advance(1) /\ charLen' = charLen
  <2>1. (IF Head(todo).kind = "boolean" /\ c[1] # 0 THEN 1 ELSE c[1]) = c[1] OBVIOUS
  <2> QED BY <1>2, <1>5, <1>6, <2>1 DEF In!TakeByte
<1> QED BY <1>1, <1>7 DEF In!Deliver, In!Advance, Stepped

LEMMA FillDelivered ==
  ASSUME Ready, NEW c \in Chunk, Ahead(c, inPos), Head(todo).kind = "fill",
         Head(todo).n = Len(c), Len(c) >= 1
  PROVE  Stepped(Len(c), c, Tail(todo)) /\ charLen' = charLen
<1> DEFINE n == Len(c)
<1>1. /\ open /\ In!CallStep /\ size = Len(data) /\ size \in Nat /\ size <= HeapMax
      /\ << >> \o Tail(todo) = Tail(todo)
  BY ReadyParts
<1>2. /\ inPos \in Nat /\ inPos + n <= size /\ n \in Nat
      /\ \A j \in 1..n : data[inPos + j] = c[j]
  BY <1>1, LenProperties DEF Ahead, Chunk
<1>3. c = [i \in 1..n |-> c[i]] /\ Head(todo).n = n BY DEF Chunk
<1> HIDE DEF n
<1>4. In!CopyLength(n) = n
  <2>1. inPos + n \in Nat /\ inPos + n <= IntMax /\ IntMax \in Nat
    BY <1>1, <1>2, SizeAssumption, IntMaxAssumption
  <2>2. Wrap(inPos + n) = inPos + n BY <2>1 DEF Wrap
  <2>3. In!Wrap(inPos + n) = inPos + n /\ ~(inPos + n > size) BY <1>1, <1>2, <2>2, InValues
  <2> QED BY <2>3 DEF In!CopyLength
<1>5. In!CopyError(n) = "none" BY <1>1, <1>2 DEF In!CopyError
<1>6. ~(inPos >= size)
  <2>1. n >= 1 BY DEF n
  <2> QED BY <1>1, <1>2, <2>1
<1>7. ~In!FillFails BY <1>3, <1>4, <1>5, <1>6 DEF In!FillFails
<1>8. In!Fill BY <1>1, <1>7, StepByKind DEF In!Counted, In!ByteKinds, In!CharKinds
<1>9. In!Filled(n) = c
  <2>1. In!Filled(n) = [i \in 1..n |-> IF i <= n THEN data[inPos + i] ELSE 0]
    BY <1>4 DEF In!Filled
  <2>2. \A i \in 1..n : (IF i <= n THEN data[inPos + i] ELSE 0) = c[i] BY <1>2
  <2>3. In!Filled(n) = [i \in 1..n |-> c[i]] BY <2>1, <2>2
  <2> QED BY <1>3, <2>3
<1>10. In!Deliver(c, << >>) /\ In!Advance(n) /\ charLen' = charLen
  BY <1>3, <1>4, <1>8, <1>9 DEF In!Fill
<1>11. Stepped(n, c, Tail(todo)) /\ charLen' = charLen
  BY <1>1, <1>10 DEF In!Deliver, In!Advance, Stepped
<1> QED BY <1>11 DEF n

LEMMA CharDelivered ==
  ASSUME Ready, NEW ch \in Char, Ahead(Utf8Bytes(ch), inPos), Head(todo).kind = "char",
         Head(todo).n < charLen
  PROVE  /\ Stepped(Len(Utf8Bytes(ch)), << ch >>, Tail(todo))
         /\ charLen' = charLen
<1> DEFINE c == Utf8Bytes(ch)
           n == Len(c)
           w == In!CharWidth(data[inPos + 1])
<1>1. /\ open /\ In!CallStep /\ size = Len(data) /\ size \in Nat /\ data \in Chunk
      /\ << >> \o Tail(todo) = Tail(todo)
  BY ReadyParts
<1>2. c \in Chunk BY Utf8BytesType DEF Chunk
<1>3. /\ In!CharOf(c) = ch /\ n \in 1..3 /\ In!CharWidth(c[1]) = n
  BY CharOfBytes
<1>4. /\ inPos \in Nat /\ inPos + n <= size /\ 1 \in 1..n /\ data[inPos + 1] = c[1]
  BY <1>1, <1>3 DEF Ahead
<1>5. w = n BY <1>3, <1>4
<1>6. In!Bytes(inPos, n) = c BY <1>1, <1>2, BytesAhead
<1> HIDE DEF n, c
<1>7. n # 0 /\ ~(n > size - inPos) /\ inPos < size /\ ~(inPos >= size) /\ 0 <= inPos
  BY <1>1, <1>3, <1>4
<1>8. In!CharFits BY DEF In!CharFits
<1>9. ~In!CharFails
  <2>1. w # 0 /\ ~(w > size - inPos) BY <1>5, <1>7
  <2> HIDE DEF w
  <2> QED BY <1>8, <2>1 DEF In!CharFails, w
<1>10. ~In!ByteFails BY <1>1, <1>7 DEF In!ByteFails
<1>11. In!TakeChar
  BY <1>1, <1>9, <1>10, StepByKind DEF In!Counted, In!ByteKinds, In!CharKinds
<1>12. /\ In!Deliver(<< In!CharOf(In!Bytes(inPos, w)) >>, << >>) /\ In!Advance(w)
       /\ charLen' = charLen
  BY <1>11 DEF In!TakeChar
<1>13. In!Deliver(<< ch >>, << >>) /\ In!Advance(n) /\ charLen' = charLen
  BY <1>3, <1>5, <1>6, <1>12
<1>14. Stepped(n, << ch >>, Tail(todo)) /\ charLen' = charLen
  BY <1>1, <1>13 DEF In!Deliver, In!Advance, Stepped
<1> QED BY <1>14 DEF n, c

\* A get that delivers a value takes exactly its chunk.
LEMMA ValueDelivered ==
  ASSUME Ready, NEW c, NEW v, Delivers(Head(todo), c, v), Ahead(c, inPos),
         Head(todo).kind = "char" => Head(todo).n < charLen
  PROVE  Stepped(Len(c), v, Tail(todo)) /\ charLen' = charLen
<1>1. c \in Chunk BY DEF Delivers
<1>2. CASE Head(todo).kind = "fixed"
  <2>1. /\ Head(todo).be = BigEndian /\ Head(todo).n = Len(c) /\ v = InOrder(c, BigEndian)
    BY <1>2 DEF Delivers
  <2> QED BY <1>1, <1>2, <2>1, FixedDelivered
<1>3. CASE Head(todo).kind \in {"byte", "boolean"}
  <2>1. Len(c) = 1 /\ v = c /\ (Head(todo).kind = "boolean" => c[1] \in {0, 1})
    BY <1>3 DEF Delivers
  <2> QED BY <1>1, <1>3, <2>1, ByteDelivered
<1>4. CASE Head(todo).kind = "fill"
  <2>1. Head(todo).n = Len(c) /\ Len(c) >= 1 /\ v = c BY <1>4 DEF Delivers
  <2> QED BY <1>1, <1>4, <2>1, FillDelivered
<1>5. CASE Head(todo).kind = "char"
  <2>1. PICK ch \in Char : c = Utf8Bytes(ch) /\ v = << ch >> BY <1>5 DEF Delivers
  <2>2. Ahead(Utf8Bytes(ch), inPos) BY <2>1
  <2>3. Head(todo).n < charLen BY <1>5
  <2>4. Stepped(Len(Utf8Bytes(ch)), << ch >>, Tail(todo)) /\ charLen' = charLen
    BY <1>5, <2>2, <2>3, CharDelivered
  <2> QED BY <2>1, <2>4
<1>6. Head(todo).kind \in {"fixed", "byte", "boolean", "fill", "char"} BY DEF Delivers
<1> QED BY <1>2, <1>3, <1>4, <1>5, <1>6

\* The length that a reader finds is the one that was written.
LEMMA CountIs ==
  ASSUME Ready, NEW m \in Int, -1 <= m, m <= HeapMax, Ahead(IntChunk(m), inPos)
  PROVE  In!FixedError(inPos, 4) = "none" /\ In!Count = m
<1>1. open /\ size = Len(data) /\ size \in Nat /\ data \in Chunk BY ReadyParts
<1>2. IntChunk(m) \in Chunk /\ Len(IntChunk(m)) = 4 BY IntChunkType
<1>3. inPos \in Nat /\ inPos + 4 <= size BY <1>1, <1>2 DEF Ahead
<1>4. In!FixedError(inPos, 4) = "none" BY <1>1, <1>3 DEF In!FixedError
<1>5. In!Bytes(inPos, 4) = IntChunk(m)
  <2> DEFINE c == IntChunk(m)
  <2>1. c \in Chunk /\ Len(c) = 4 /\ Ahead(c, inPos) BY <1>2
  <2> HIDE DEF c
  <2>2. In!Bytes(inPos, Len(c)) = c BY <1>1, <2>1, BytesAhead
  <2> QED BY <2>1, <2>2 DEF c
<1>6. InOrder(IntChunk(m), BigEndian) = IntBytes(m)
  <2>1. IntBytes(m) \in Seq(Byte) BY IntBytesType
  <2> QED BY <2>1, InOrderTwice DEF IntChunk
<1>7. In!Count = IntValue(IntBytes(m)) BY <1>5, <1>6, InValues DEF In!Count
<1>8. m <= MAX_VALUE
  <2>1. HeapMax \in Int /\ IntMax \in Int /\ MAX_VALUE \in Int /\ HeapMax <= IntMax /\ IntMax <= MAX_VALUE
    BY SizeAssumption, IntMaxAssumption, SMT DEF MAX_VALUE
  <2> QED BY <2>1
<1> QED BY <1>4, <1>7, <1>8, IntValueOfBytes

\* A length that was written is accepted.
LEMMA NoCountError ==
  ASSUME NEW get, NEW m \in Int, -1 <= m, m <= HeapMax, HeapMax \in Int,
         get.kind \in {"bytes", "booleans", "fixeds", "utfs", "utf", "utfJNI"}
  PROVE  In!CountError(get, m) = "none"
<1>1. m >= 0 => In!AllocError(m) = "none" BY DEF In!AllocError
<1>2. CASE m = NULL_ARRAY_LENGTH BY <1>2, InValues DEF In!CountError
<1>3. CASE m # NULL_ARRAY_LENGTH
  <2>1. m >= 0 BY <1>3 DEF NULL_ARRAY_LENGTH
  <2>2. ~(m < 0) BY <2>1
  <2> QED BY <1>1, <1>3, <2>1, <2>2 DEF In!CountError
<1> QED BY <1>2, <1>3

\* The gets it is replaced by, when native code has no more room than the string.
LEMMA ElementsExpand ==
  ASSUME NEW get, NEW m \in Int, m # NULL_ARRAY_LENGTH, charLen \in Int,
         get.kind \in {"bytes", "booleans", "fixeds", "utfs", "utf", "utfJNI"},
         get.kind = "utfJNI" => charLen <= m
  PROVE  In!Elements(get, m) = Expansion(get, m)
<1>1. CASE get.kind = "bytes" BY <1>1 DEF In!Elements, Expansion
<1>2. CASE get.kind = "booleans" BY <1>2 DEF In!Elements, Expansion
<1>3. CASE get.kind = "fixeds" BY <1>3 DEF In!Elements, Expansion
<1>4. CASE get.kind = "utfs" BY <1>4 DEF In!Elements, Expansion
<1>5. CASE get.kind = "utf" BY <1>5 DEF In!Elements, Expansion
<1>6. CASE get.kind = "utfJNI"
  <2>1. In!MaxOf(m, charLen) = m BY <1>6 DEF In!MaxOf
  <2> QED BY <1>6, <2>1 DEF In!Elements, Expansion, Native
<1> QED BY <1>1, <1>2, <1>3, <1>4, <1>5, <1>6

\* What a length leaves of the char buffer.
Buffers(kind, m) ==
  /\ charLen <= charLen'
  /\ charLen' = charLen \/ (kind \in {"utf", "utfJNI"} /\ m >= 0 /\ charLen' = m)
  /\ kind \in {"utf", "utfJNI"} /\ m # NULL_ARRAY_LENGTH => m <= charLen'

\* A get that takes a length takes exactly its four bytes and goes on with the
\* gets of the elements.
LEMMA CountTaken ==
  ASSUME Ready, NEW m \in Int, NEW n, Counts(Head(todo), m, n), Ahead(IntChunk(m), inPos),
         Head(todo).kind = "utfJNI" => charLen <= m
  PROVE  /\ Stepped(4, << m >>, Expansion(Head(todo), m) \o Tail(todo))
         /\ Buffers(Head(todo).kind, m)
<1> DEFINE get == Head(todo)
           kind == get.kind
<1>1. /\ m >= -1 /\ -1 <= m /\ m <= HeapMax
      /\ kind \in {"bytes", "booleans", "fixeds", "utfs", "utf", "utfJNI"}
  BY SizeAssumption DEF Counts
<1>2. In!FixedError(inPos, 4) = "none" /\ In!Count = m BY <1>1, CountIs
<1>3. In!CountError(get, m) = "none" BY <1>1, NoCountError, SizeAssumption
<1>4. In!CallStep /\ charLen \in Int BY ReadyParts DEF Ready, ReaderTypes
<1>5. ~In!CountFails BY <1>2, <1>3 DEF In!CountFails
<1>6. ~In!FixedFails BY <1>1, <1>2 DEF In!FixedFails, In!Wanted
<1>7. In!TakeCount
  BY <1>1, <1>4, <1>5, <1>6, StepByKind DEF In!Counted, In!ByteKinds, In!CharKinds
<1> DEFINE gets == IF m = NULL_ARRAY_LENGTH THEN << >> ELSE In!Elements(get, m)
           v == IF m = NULL_ARRAY_LENGTH THEN -1 ELSE 0
           k == MaxOf(m, v)
<1>8. /\ In!Deliver(<< k >>, gets) /\ In!Advance(4)
      /\ charLen' = IF In!Buffered /\ In!NeedsBuffer(m) THEN m ELSE charLen
  BY <1>2, <1>7, InValues DEF In!TakeCount
<1>9. k = m BY <1>1 DEF NULL_ARRAY_LENGTH, MaxOf
<1>10. gets = Expansion(get, m)
  <2>1. CASE m = NULL_ARRAY_LENGTH BY <2>1 DEF Expansion
  <2>2. CASE m # NULL_ARRAY_LENGTH BY <1>1, <1>4, <2>2, ElementsExpand
  <2> QED BY <2>1, <2>2
<1> HIDE DEF gets, k, v
<1>11. Stepped(4, << m >>, Expansion(get, m) \o Tail(todo))
  BY <1>8, <1>9, <1>10 DEF In!Deliver, In!Advance, Stepped
<1>12. In!Buffered <=> kind \in {"utf", "utfJNI"} /\ m # NULL_ARRAY_LENGTH
  BY <1>2, InValues DEF In!Buffered
<1>13. In!NeedsBuffer(m) <=> charLen = -1 \/ m > charLen BY InValues DEF In!NeedsBuffer
<1>14. m # NULL_ARRAY_LENGTH => m >= 0 BY <1>1 DEF NULL_ARRAY_LENGTH
<1> HIDE DEF get, kind
<1>15. Buffers(kind, m) BY <1>4, <1>8, <1>12, <1>13, <1>14 DEF Buffers
<1> QED BY <1>11, <1>15 DEF get, kind

\* The gets of a native string: its chars, and the string.
LEMMA NativeParts ==
  ASSUME NEW k, NEW n
  PROVE  /\ Native(k, n) # << >>
         /\ Head(Native(k, n)) = In!GetOf("native", k) /\ Head(Native(k, n)).kind = "native"
         /\ Head(Native(k, n)).n = k
         /\ Tail(Native(k, n)) = << In!GetOf("string", n) >>
         /\ << In!GetOf("native", k) >> \o Tail(Native(k, n)) = Native(k, n)
<1> DEFINE a == In!GetOf("native", k)
           b == In!GetOf("string", n)
<1>1. a.kind = "native" /\ a.n = k BY DEF In!GetOf
<1> HIDE DEF a, b
<1> DEFINE q == << a, b >>
<1>2. q = Native(k, n) BY DEF Native, a, b
<1>3. q # << >> /\ Head(q) = a /\ Tail(q) = << b >> OBVIOUS
<1>4. << a >> \o << b >> = q
  <2>1. q \in Seq({a, b}) OBVIOUS
  <2> HIDE DEF q
  <2>2. q = << Head(q) >> \o Tail(q) BY <1>3, <2>1, Cons
  <2> QED BY <1>3, <2>2
<1> HIDE DEF q
<1> QED BY <1>1, <1>2, <1>3, <1>4 DEF a, b

\* Native code takes the bytes of one char.
LEMMA NativeTaken ==
  ASSUME Ready, NEW k \in Nat, NEW n, NEW ch \in Char, todo = Native(k + 1, n),
         inPos \in Nat, src \in Nat, Ahead(Utf8Bytes(ch), inPos + src)
  PROVE  /\ inPos' = inPos /\ src' = src + Len(Utf8Bytes(ch)) /\ inThrown' = inThrown
         /\ got' = Append(got, << ch >>) /\ todo' = Native(k, n) /\ charLen' = charLen
<1> DEFINE c == Utf8Bytes(ch)
           l == Len(c)
           w == In!NativeWidth(data[(inPos + src) + 1])
<1>1. In!CallStep /\ size = Len(data) /\ data \in Chunk /\ size \in Nat BY ReadyParts
<1>2. /\ Head(todo).kind = "native" /\ Head(todo).n = k + 1
      /\ Tail(todo) = << In!GetOf("string", n) >>
  BY NativeParts
<1>3. c \in Chunk BY Utf8BytesType DEF Chunk
<1>4. In!CharOf(c) = ch /\ l \in 1..3 /\ In!NativeWidth(c[1]) = l BY CharOfBytes
<1>5. (inPos + src) + l <= Len(data) /\ 1 \in 1..l /\ data[(inPos + src) + 1] = c[1]
  BY <1>4 DEF Ahead
<1>6. w = l BY <1>4, <1>5
<1>7. In!Bytes(inPos + src, l) = c BY <1>1, <1>3, BytesAhead
<1> HIDE DEF c, l
<1>8. In!Unread > 0 /\ l <= In!Unread /\ In!Unread \in Int
  BY <1>1, <1>4, <1>5 DEF In!Unread
<1>9. In!NativeMore
  <2>1. k + 1 > 0 OBVIOUS
  <2>2. In!Reading({"native"}) BY <1>1, <1>2, StepByKind DEF In!Reading
  <2> QED BY <1>2, <1>8, <2>1, <2>2 DEF In!NativeMore
<1>10. ~In!NativeDone BY <1>9 DEF In!NativeDone
<1>11. ~In!NativeMalformed
  <2>1. ~(w > In!Unread) BY <1>4, <1>6, <1>8
  <2> QED BY <2>1 DEF In!NativeMalformed
<1>12. In!NativeChar
  BY <1>1, <1>2, <1>10, <1>11, StepByKind DEF In!Counted, In!ByteKinds, In!CharKinds
<1>13. /\ got' = Append(got, << In!CharOf(In!Bytes(inPos + src, w)) >>) /\ src' = src + w
       /\ UNCHANGED << inPos, charLen, inThrown >>
  BY <1>12 DEF In!NativeChar, In!cursorVars
<1>14. todo' = << In!GetOf("native", Head(todo).n - 1) >> \o Tail(todo)
  BY <1>12 DEF In!NativeChar
<1>15. todo' = Native(k, n)
  <2>1. Head(todo).n - 1 = k BY <1>2
  <2>2. Tail(todo) = Tail(Native(k, n)) BY <1>2, NativeParts
  <2>3. todo' = << In!GetOf("native", k) >> \o Tail(Native(k, n)) BY <1>14, <2>1, <2>2
  <2> QED BY <2>3, NativeParts
<1>16. got' = Append(got, << ch >>) /\ src' = src + l BY <1>4, <1>6, <1>7, <1>13
<1> QED BY <1>13, <1>15, <1>16 DEF c, l

\* Native code returns when it has no room for another char.
LEMMA NativeReturned ==
  ASSUME Ready, NEW n, todo = Native(0, n)
  PROVE  /\ inPos' = inPos + src /\ src' = 0 /\ inThrown' = inThrown /\ got' = got
         /\ todo' = << In!GetOf("string", n) >> /\ charLen' = charLen
<1>1. In!CallStep BY ReadyParts
<1>2. /\ Head(todo).kind = "native" /\ Head(todo).n = 0
      /\ Tail(todo) = << In!GetOf("string", n) >>
  BY NativeParts
<1>3. ~(Head(todo).n > 0) BY <1>2
<1>4. ~In!NativeMore BY <1>3 DEF In!NativeMore
<1>5. In!NativeDone
  BY <1>1, <1>2, <1>4, StepByKind
  DEF In!Counted, In!ByteKinds, In!CharKinds, In!NativeChar, In!NativeMalformed
<1> QED BY <1>2, <1>5 DEF In!NativeDone, In!NativeReturns, In!Advance

\* The string is made of the length and the chars that native code has written.
LEMMA StringMade ==
  ASSUME Ready, NEW n \in Nat, todo = << In!GetOf("string", n) >>,
         got \in Seq(Word), Len(got) = n + 1
  PROVE  /\ inPos' = inPos /\ src' = src /\ inThrown' = inThrown /\ got' = got
         /\ todo' = << >> /\ charLen' = charLen
<1> DEFINE g == In!GetOf("string", n)
<1>1. In!CallStep BY ReadyParts
<1>2. g.kind = "string" /\ g.n = n BY DEF In!GetOf
<1> HIDE DEF g
<1>3. todo = << g >> BY DEF g
<1>4. Head(todo) = g /\ Tail(todo) = << >> BY <1>3
<1>5. ~(Head(todo).n < 0) /\ In!MaxOf(Head(todo).n, 0) = n BY <1>2, <1>4 DEF In!MaxOf
<1>6. In!NativeString
  BY <1>1, <1>2, <1>4, StepByKind DEF In!Counted, In!ByteKinds, In!CharKinds
<1>7. /\ got' = In!Chars(n) /\ todo' = << >>
      /\ UNCHANGED << src, inThrown, inPos, charLen >>
  BY <1>2, <1>4, <1>5, <1>6 DEF In!NativeString, In!cursorVars
<1>8. In!Chars(n) = got
  <2>1. In!Chars(n) = [i \in 1..n + 1 |-> IF i = 1 \/ i <= Len(got) THEN got[i]
                                           ELSE << In!Unspecified >>]
    BY <1>2, <1>4 DEF In!Chars
  <2>2. \A i \in 1..n + 1 : i <= Len(got) OBVIOUS
  <2>3. got = [i \in 1..n + 1 |-> got[i]] OBVIOUS
  <2> QED BY <2>1, <2>2, <2>3
<1> QED BY <1>7, <1>8

-----------------------------------------------------------------------------
(* A reader on its way through a message.                                  *)
\* What the message must be: anything for readUTF, for readUTFJNI what it can
\* bring back.
Straight == StringReader = "utf" \/ NeverShorter

\* A char has its place in the buffer of k chars, and a native string is a whole
\* record.
Fit(get, k, r) ==
  /\ get.kind = "char" => get.n < k
  /\ get.kind = "utfJNI" => StringReader = "utfJNI" /\ r.kind = "utf"
\* Every get of a queue fits.
Fits(queue, k, r) == \A i \in 1..Len(queue) : Fit(queue[i], k, r)

\* readUTFJNI never has more chars of buffer than the strings to come.
Short == StringReader = "utfJNI" =>
           \A i \in 1..Len(message) : read <= i /\ message[i].kind = "utf" =>
                                      charLen <= Len(message[i].value)

\* No failure, and a position that moves only with the gets.
Sound ==
  /\ open /\ inThrown = "none" /\ inPos \in Nat /\ src \in Nat /\ got \in Seq(Word)
  /\ src = 0 \/ (todo # << >> /\ Head(todo).kind = "native")
  /\ Fits(todo, charLen, message[read]) /\ Short

\* The record ends at e: its values are those read and vs, and vs is what the
\* gets to come take from the chunks cs, which lie before e.
InRecord(cs, vs, e) ==
  /\ Reads(todo, cs, vs, message[read])
  /\ Values(message[read]) = got \o vs
  /\ Holds(data, cs, inPos + src, e)

\* Between two records or inside one, mp being where the records end.
OnTheWay(mp) ==
  IF read = 0 THEN todo = << >> /\ inPos = 0
  ELSE \E cs \in Seq(Chunk), vs \in Seq(Word) : InRecord(cs, vs, mp[read])

\* The invariant of the reader: as long as the message is spared, it is on its way
\* through records that lie in its array.
ReaderOK ==
  message # << >> /\ ~reused /\ Straight =>
    Sound /\ \E mp : Marks(data, message, end, mp) /\ OnTheWay(mp)

\* Gets that fit still fit when one is taken or the char buffer grows.
LEMMA FitsTail ==
  ASSUME NEW queue \in Seq(In!Get), queue # << >>, NEW k \in Int, NEW l \in Int, k <= l, NEW r,
         Fits(queue, k, r)
  PROVE  Fits(Tail(queue), l, r)
<1> DEFINE rest == Tail(queue)
<1>1. Len(rest) = Len(queue) - 1 /\ \A i \in 1..Len(rest) : rest[i] = queue[i + 1]
  BY HeadTailProperties
<1>2. Len(queue) \in Nat BY LenProperties
<1> HIDE DEF rest
<1>3. ASSUME NEW i \in 1..Len(rest) PROVE Fit(rest[i], l, r)
  <2> DEFINE j == i + 1
  <2>1. j \in 1..Len(queue) BY <1>1, <1>2
  <2>2. rest[i] = queue[j] BY <1>1
  <2> HIDE DEF j
  <2>3. queue[j] \in In!Get BY <2>1, ElementOfSeq
  <2>4. Fit(queue[j], k, r) BY <2>1 DEF Fits
  <2>5. queue[j].n \in Int BY <2>3 DEF In!Get
  <2>6. Fit(queue[j], l, r) BY <2>4, <2>5 DEF Fit
  <2> QED BY <2>2, <2>6
<1>4. Fits(rest, l, r) BY <1>3 DEF Fits
<1> QED BY <1>4 DEF rest

LEMMA FitsBoth ==
  ASSUME NEW s \in Seq(In!Get), NEW t \in Seq(In!Get), NEW k, NEW r, Fits(s, k, r), Fits(t, k, r)
  PROVE  Fits(s \o t, k, r)
<1>1. Len(s) \in Nat /\ Len(t) \in Nat BY LenProperties
<1> DEFINE u == s \o t
<1>2. /\ Len(u) = Len(s) + Len(t)
      /\ \A i \in 1..Len(s) + Len(t) : u[i] = IF i <= Len(s) THEN s[i] ELSE t[i - Len(s)]
  BY ConcatProperties
<1> HIDE DEF u
<1>3. ASSUME NEW i \in 1..Len(u) PROVE Fit(u[i], k, r)
  <2> DEFINE j == i - Len(s)
  <2>1. u[i] = IF i <= Len(s) THEN s[i] ELSE t[j] BY <1>2
  <2>2. (i <= Len(s) => i \in 1..Len(s)) /\ (~(i <= Len(s)) => j \in 1..Len(t)) BY <1>1, <1>2
  <2> HIDE DEF j
  <2> QED BY <2>1, <2>2 DEF Fits
<1>4. Fits(u, k, r) BY <1>3 DEF Fits
<1> QED BY <1>4 DEF u

\* Gets that are neither chars nor native strings always fit.
LEMMA FitsAny ==
  ASSUME NEW queue, NEW k, NEW r, \A i \in 1..Len(queue) : queue[i].kind \notin {"char", "utfJNI"}
  PROVE  Fits(queue, k, r)
BY DEF Fits, Fit

\* The chars of a string fit in the buffer its length has left.
LEMMA FitsExpansion ==
  ASSUME NEW get, NEW m \in Int, -1 <= m, NEW k \in Int, NEW r,
         get.kind \in {"bytes", "booleans", "fixeds", "utfs", "utf", "utfJNI"},
         get.kind = "utf" /\ m # NULL_ARRAY_LENGTH => m <= k
  PROVE  Fits(Expansion(get, m), k, r)
<1>1. \A kind, n : In!GetOf(kind, n).kind = kind /\ In!GetOf(kind, n).n = n BY DEF In!GetOf
<1>2. CASE m = NULL_ARRAY_LENGTH
  <2>1. Expansion(get, m) = << >> BY <1>2 DEF Expansion
  <2>2. Fits(<< >>, k, r) BY DEF Fits
  <2> QED BY <2>1, <2>2
<1>3. CASE m # NULL_ARRAY_LENGTH
  <2>1. m \in Nat BY <1>3 DEF NULL_ARRAY_LENGTH
  <2>2. ASSUME NEW g, g.kind \notin {"char", "utfJNI"} PROVE Fits(In!Repeat(g, m), k, r)
    <3>1. In!Repeat(g, m) = [i \in 1..m |-> g] BY DEF In!Repeat
    <3>2. Len([i \in 1..m |-> g]) = m BY <2>1
    <3> QED BY <2>2, <3>1, <3>2, FitsAny
  <2>3. CASE get.kind \in {"booleans", "fixeds", "utfs"}
    <3>1. Expansion(get, m) \in {In!Repeat(In!GetOf("boolean", 1), m),
                                 In!Repeat(In!GetOf("fixed", get.n), m),
                                 In!Repeat(In!GetOf("utf", 0), m)}
      BY <1>3, <2>3 DEF Expansion
    <3> QED BY <1>1, <2>2, <3>1
  <2>4. CASE get.kind = "bytes"
    <3> DEFINE g == In!GetOf("fill", m)
    <3>1. Expansion(get, m) = IF m > 0 THEN << g >> ELSE << >> BY <1>3, <2>4 DEF Expansion
    <3>2. g.kind = "fill" BY <1>1
    <3> HIDE DEF g
    <3>3. Fits(<< g >>, k, r)
      <4>1. \A i \in 1..Len(<< g >>) : << g >>[i] = g OBVIOUS
      <4> QED BY <3>2, <4>1, FitsAny
    <3>4. Fits(<< >>, k, r) BY DEF Fits
    <3> QED BY <3>1, <3>3, <3>4
  <2>5. CASE get.kind = "utf"
    <3> DEFINE q == [i \in 1..m |-> In!GetOf("char", i - 1)]
    <3>1. Expansion(get, m) = q BY <1>3, <2>5 DEF Expansion
    <3>2. Len(q) = m /\ \A i \in 1..m : q[i] = In!GetOf("char", i - 1) BY <2>1
    <3> HIDE DEF q
    <3>3. m <= k BY <1>3, <2>5
    <3>4. ASSUME NEW i \in 1..Len(q) PROVE Fit(q[i], k, r)
      <4>1. q[i].kind = "char" /\ q[i].n = i - 1 BY <1>1, <3>2
      <4>2. i - 1 < k BY <2>1, <3>2, <3>3
      <4> QED BY <4>1, <4>2 DEF Fit
    <3> QED BY <3>1, <3>4 DEF Fits
  <2>6. CASE get.kind = "utfJNI"
    <3> DEFINE a == In!GetOf("native", m)
               b == In!GetOf("string", m)
               q == << a, b >>
    <3>1. Expansion(get, m) = q BY <1>3, <2>6 DEF Expansion, Native
    <3>2. a.kind = "native" /\ b.kind = "string" BY <1>1
    <3> HIDE DEF a, b
    <3>3. Len(q) = 2 /\ q[1] = a /\ q[2] = b /\ \A i \in 1..2 : i = 1 \/ i = 2 OBVIOUS
    <3> HIDE DEF q
    <3>4. \A i \in 1..Len(q) : q[i].kind \notin {"char", "utfJNI"} BY <3>2, <3>3
    <3> QED BY <3>1, <3>4, FitsAny
  <2> QED BY <2>3, <2>4, <2>5, <2>6
<1> QED BY <1>2, <1>3

\* A string has a value for each char.
LEMMA BehindString ==
  ASSUME NEW r \in Records, r.kind = "utf" PROVE Behind(r) = Len(r.value)
<1> DEFINE s == Singles(r.value)
           m == Len(r.value)
<1>1. r.value \in Seq(Char) BY RecordsAssumption
<1>2. s \in Seq(Word) /\ Len(s) = m /\ m \in Nat BY <1>1, StringSingles, LenProperties
<1>3. Values(r) = << << m >> >> \o s BY DEF Values
<1>4. << >> \in Seq(Chunk) BY EmptySeq
<1> HIDE DEF s, m
<1>5. Len(<< << m >> >> \o s) = Len(s) + 1 BY <1>2, <1>4, CountedType
<1> QED BY <1>2, <1>3, <1>5 DEF Behind, m

\* A sequence goes on where another ends.
LEMMA TakeOne ==
  ASSUME NEW S, NEW s \in Seq(S), NEW t \in Seq(S), t # << >>
  PROVE  Append(s, Head(t)) \in Seq(S) /\ Append(s, Head(t)) \o Tail(t) = s \o t
<1> DEFINE e == Head(t)
           u == << e >>
           v == Tail(t)
<1>1. e \in S /\ v \in Seq(S) BY HeadTailProperties
<1>2. u \in Seq(S) BY <1>1
<1>3. t = u \o v BY Cons
<1> HIDE DEF e, u, v
<1>4. Append(s, e) = s \o u BY <1>1, AppendIsConcat DEF u
<1>5. Append(s, e) \in Seq(S) BY <1>1, AppendProperties
<1>6. (s \o u) \o v = s \o (u \o v) BY <1>1, <1>2, ConcatAssociative
<1> QED BY <1>3, <1>4, <1>5, <1>6 DEF e, v

\* A record being read.
Midway(cs, vs, e) ==
  /\ LinkOK /\ ReaderTypes /\ Straight /\ Sound /\ In!CallStep
  /\ read \in 1..Len(message)
  /\ cs \in Seq(Chunk) /\ vs \in Seq(Word) /\ e \in Nat
  /\ InRecord(cs, vs, e)

\* What that gives.
LEMMA MidwayParts ==
  ASSUME NEW cs, NEW vs, NEW e, Midway(cs, vs, e)
  PROVE  /\ Ready /\ open /\ inThrown = "none"
         /\ inPos \in Nat /\ src \in Nat /\ charLen \in Int /\ got \in Seq(Word)
         /\ todo \in Seq(In!Get) /\ todo # << >> /\ data \in Chunk
         /\ message \in Seq(Records) /\ message[read] \in Records
         /\ Values(message[read]) \in Seq(Word) /\ Behind(message[read]) \in Nat
         /\ Len(Values(message[read])) = Behind(message[read]) + 1
<1>1. LinkOK /\ ReaderTypes /\ Sound /\ In!CallStep BY DEF Midway
<1>2. Ready BY <1>1 DEF Ready, Sound
<1>3. message \in Seq(Records) /\ data \in Chunk BY <1>1 DEF LinkOK, ArrayOK
<1>4. message[read] \in Records BY <1>3, ElementOfSeq DEF Midway
<1>5. Values(message[read]) \in Seq(Word) /\ Values(message[read]) # << >>
  BY <1>4, RecordComes DEF Typed
<1>6. Len(Values(message[read])) \in Nat /\ Len(Values(message[read])) # 0
  BY <1>5, LenProperties, EmptySeq
<1>7. /\ Behind(message[read]) \in Nat
      /\ Len(Values(message[read])) = Behind(message[read]) + 1
  BY <1>6 DEF Behind
<1>8. todo # << >> BY <1>2, ReadyParts
<1> QED BY <1>1, <1>2, <1>3, <1>4, <1>5, <1>7, <1>8 DEF Sound, ReaderTypes

\* The next chunk is in front of the reader.
LEMMA NextChunk ==
  ASSUME NEW cs, NEW vs, NEW e, Midway(cs, vs, e), cs # << >>
  PROVE  /\ Head(cs) \in Chunk /\ Ahead(Head(cs), inPos + src)
         /\ Tail(cs) \in Seq(Chunk) /\ vs # << >> /\ Head(vs) \in Word /\ Tail(vs) \in Seq(Word)
         /\ Holds(data, Tail(cs), (inPos + src) + Len(Head(cs)), e)
         /\ \E rest \in Seq(In!Get) : /\ Takes(todo, Head(cs), Head(vs), rest, message[read])
                                      /\ Reads(rest, Tail(cs), Tail(vs), message[read])
<1> DEFINE p == inPos + src
           r == message[read]
<1>1. cs \in Seq(Chunk) /\ vs \in Seq(Word) /\ e \in Nat BY DEF Midway
<1>2. p \in Nat /\ data \in Chunk BY MidwayParts
<1>3. Reads(todo, cs, vs, r) /\ Holds(data, cs, p, e) BY DEF Midway, InRecord
<1> HIDE DEF p, r
<1>4. /\ vs # << >>
      /\ \E rest \in Seq(In!Get) : /\ Takes(todo, Head(cs), Head(vs), rest, r)
                                   /\ Reads(rest, Tail(cs), Tail(vs), r)
  BY <1>1, <1>3, ReadsFirst
<1>5. /\ p + Len(Head(cs)) <= e /\ e <= Len(data)
      /\ \A j \in 1..Len(Head(cs)) : data[p + j] = Head(cs)[j]
      /\ Holds(data, Tail(cs), p + Len(Head(cs)), e)
  BY <1>1, <1>2, <1>3, HoldsFirst
<1>6. /\ Head(cs) \in Chunk /\ Tail(cs) \in Seq(Chunk)
      /\ Head(vs) \in Word /\ Tail(vs) \in Seq(Word)
  BY <1>1, <1>4, HeadTailProperties
<1>7. p + Len(Head(cs)) <= Len(data)
  <2>1. Len(Head(cs)) \in Nat /\ Len(data) \in Nat BY <1>2, <1>6, LenProperties DEF Chunk
  <2> QED BY <1>1, <1>2, <1>5, <2>1
<1>8. Ahead(Head(cs), p) BY <1>2, <1>5, <1>7 DEF Ahead
<1> QED BY <1>4, <1>5, <1>6, <1>8 DEF p, r

\* What a step of a get leaves alone.
Untouched == UNCHANGED << data, open, message, read >>

\* One value further.
LEMMA OneTaken ==
  ASSUME NEW cs, NEW vs, NEW e, Midway(cs, vs, e), cs # << >>, Untouched,
         NEW rest, Reads(rest, Tail(cs), Tail(vs), message[read]), todo' = rest,
         inPos' \in Nat, src' \in Nat,
         inPos' + src' = (inPos + src) + Len(Head(cs)), got' = Append(got, Head(vs))
  PROVE  InRecord(Tail(cs), Tail(vs), e)' /\ got' \in Seq(Word)
<1>1. got \in Seq(Word) /\ vs \in Seq(Word) /\ vs # << >> BY MidwayParts, NextChunk DEF Midway
<1>2. got' \in Seq(Word) /\ got' \o Tail(vs) = got \o vs
  <2> DEFINE w == Tail(vs)
             g == Append(got, Head(vs))
  <2>1. g \in Seq(Word) /\ g \o w = got \o vs BY <1>1, TakeOne
  <2> QED BY <2>1
<1>3. Values(message[read]) = got \o vs BY DEF Midway, InRecord
<1>4. data' = data /\ message' = message /\ read' = read BY DEF Untouched
<1>5. message'[read'] = message[read] BY <1>4
<1>6. Holds(data, Tail(cs), inPos' + src', e) BY NextChunk
<1> DEFINE ds == Tail(cs)
           ws == Tail(vs)
<1>7. /\ Reads(todo', ds, ws, message'[read']) /\ Values(message'[read']) = got' \o ws
      /\ Holds(data', ds, inPos' + src', e)
  BY <1>2, <1>3, <1>4, <1>5, <1>6
<1> HIDE DEF ds, ws
<1>8. PICK as, bs : as = ds /\ bs = ws OBVIOUS
<1>9. InRecord(as, bs, e)' BY <1>7, <1>8 DEF InRecord
<1> QED BY <1>2, <1>8, <1>9 DEF ds, ws

\* The record still ends at e.
Onward(e) ==
  Sound /\ \E cs \in Seq(Chunk), vs \in Seq(Word) : InRecord(cs, vs, e)

\* A step that does not fail.
LEMMA SoundAfter ==
  ASSUME Sound, Untouched, inThrown' = inThrown, inPos' \in Nat, src' \in Nat,
         got' \in Seq(Word), src' = 0 \/ (todo' # << >> /\ Head(todo').kind = "native"),
         Fits(todo', charLen', message[read]), Short'
  PROVE  Sound'
<1>1. /\ open' = open /\ message' = message /\ read' = read /\ open /\ inThrown = "none"
  BY DEF Untouched, Sound
<1>2. message'[read'] = message[read] BY <1>1
<1>3. Fits(todo', charLen', message'[read']) BY <1>2
<1>4. Fits(todo, charLen, message[read])' BY <1>3 DEF Fits, Fit
<1> QED BY <1>1, <1>4 DEF Sound

LEMMA ShortSame == ASSUME Short, Untouched, charLen' = charLen PROVE Short'
<1>1. message' = message /\ read' = read BY DEF Untouched
<1> QED BY <1>1 DEF Short

\* Only native code reads ahead of the position.
LEMMA NotNative ==
  ASSUME Sound, Head(todo).kind # "native" PROVE src = 0
BY DEF Sound

\* A get that delivers a value.
LEMMA ValueOnward ==
  ASSUME NEW cs, NEW vs, NEW e, Midway(cs, vs, e), cs # << >>, Untouched,
         Delivers(Head(todo), Head(cs), Head(vs)),
         Reads(Tail(todo), Tail(cs), Tail(vs), message[read])
  PROVE  Onward(e)'
<1> DEFINE c == Head(cs)
           v == Head(vs)
<1>1. /\ Ready /\ inPos \in Nat /\ charLen \in Int /\ todo \in Seq(In!Get) /\ todo # << >>
  BY MidwayParts
<1>2. Sound BY DEF Midway
<1>3. src = 0
  <2>1. Head(todo).kind # "native" BY DEF Delivers
  <2> QED BY <1>2, <2>1, NotNative
<1>4. Ahead(c, inPos) /\ c \in Chunk /\ Len(c) \in Nat
  <2>1. Ahead(c, inPos + src) /\ c \in Chunk BY NextChunk
  <2>2. inPos + src = inPos BY <1>1, <1>3
  <2> QED BY <2>1, <2>2, LenProperties DEF Chunk
<1>5. Head(todo).kind = "char" => Head(todo).n < charLen
  <2>1. 1 \in 1..Len(todo) /\ Head(todo) = todo[1]
    <3>1. Len(todo) \in Nat /\ Len(todo) # 0 BY <1>1, LenProperties, EmptySeq
    <3> QED BY <1>1, <3>1
  <2> QED BY <1>2, <2>1 DEF Sound, Fits, Fit
<1>6. Delivers(Head(todo), c, v) OBVIOUS
<1> HIDE DEF c, v
<1>7. Stepped(Len(c), v, Tail(todo)) /\ charLen' = charLen
  BY <1>1, <1>4, <1>5, <1>6, ValueDelivered
<1>8. /\ inPos' = inPos + Len(c) /\ src' = 0 /\ inThrown' = inThrown
      /\ got' = Append(got, v) /\ todo' = Tail(todo)
  BY <1>7 DEF Stepped
<1>9. inPos' \in Nat /\ src' \in Nat /\ inPos' + src' = (inPos + src) + Len(c)
  BY <1>1, <1>3, <1>4, <1>8
<1>10. InRecord(Tail(cs), Tail(vs), e)' /\ got' \in Seq(Word)
  BY <1>8, <1>9, OneTaken DEF c, v
<1>11. Fits(todo', charLen', message[read])
  <2>1. Fits(todo, charLen, message[read]) BY <1>2 DEF Sound
  <2>2. charLen <= charLen BY <1>1
  <2>3. Fits(Tail(todo), charLen, message[read]) BY <1>1, <2>1, <2>2, FitsTail
  <2> QED BY <1>7, <1>8, <2>3
<1>12. Short' BY <1>2, <1>7, ShortSame DEF Sound
<1>13. Sound' BY <1>2, <1>8, <1>9, <1>10, <1>11, <1>12, SoundAfter
<1>14. Tail(cs) \in Seq(Chunk) /\ Tail(vs) \in Seq(Word) BY NextChunk
<1> QED BY <1>10, <1>13, <1>14 DEF Onward

\* A length.
LEMMA CountOnward ==
  ASSUME NEW cs, NEW vs, NEW e, Midway(cs, vs, e), cs # << >>, Untouched,
         NEW m \in Int, Counts(Head(todo), m, message[read]), Head(cs) = IntChunk(m),
         Head(vs) = << m >>,
         Reads(Expansion(Head(todo), m) \o Tail(todo), Tail(cs), Tail(vs), message[read])
  PROVE  Onward(e)'
<1> DEFINE get == Head(todo)
           rest == Expansion(get, m) \o Tail(todo)
           r == message[read]
<1>1. /\ Ready /\ inPos \in Nat /\ charLen \in Int /\ todo \in Seq(In!Get) /\ todo # << >>
      /\ r \in Records
  BY MidwayParts
<1>2. Sound /\ Straight /\ read \in 1..Len(message) BY DEF Midway
<1>3. get.kind \in {"bytes", "booleans", "fixeds", "utfs", "utf", "utfJNI"} /\ -1 <= m
  BY SizeAssumption DEF Counts
<1>4. src = 0 BY <1>2, <1>3, NotNative
<1>5. Ahead(IntChunk(m), inPos) /\ Len(Head(cs)) = 4
  <2>1. Ahead(IntChunk(m), inPos + src) BY NextChunk
  <2>2. inPos + src = inPos BY <1>1, <1>4
  <2> QED BY <2>1, <2>2, IntChunkType
<1>6. Fit(get, charLen, r)
  <2>1. 1 \in 1..Len(todo) /\ Head(todo) = todo[1]
    <3>1. Len(todo) \in Nat /\ Len(todo) # 0 BY <1>1, LenProperties, EmptySeq
    <3> QED BY <1>1, <3>1
  <2> QED BY <1>2, <2>1 DEF Sound, Fits
\* a native string is the whole record
<1>7. get.kind = "utfJNI" => StringReader = "utfJNI" /\ r.kind = "utf" /\ m = Len(r.value)
  <2> SUFFICES ASSUME get.kind = "utfJNI"
               PROVE  StringReader = "utfJNI" /\ r.kind = "utf" /\ m = Len(r.value)
    OBVIOUS
  <2>1. StringReader = "utfJNI" /\ r.kind = "utf" BY <1>6 DEF Fit
  <2>2. m = Behind(r) BY DEF Counts
  <2>3. Behind(r) = Len(r.value) BY <1>1, <2>1, BehindString
  <2> QED BY <2>1, <2>2, <2>3
<1>8. get.kind = "utfJNI" => charLen <= m
  <2> SUFFICES ASSUME get.kind = "utfJNI" PROVE charLen <= m OBVIOUS
  <2>1. StringReader = "utfJNI" /\ r.kind = "utf" /\ m = Len(r.value) BY <1>7
  <2>2. read <= read /\ read \in 1..Len(message) BY <1>2
  <2> QED BY <1>2, <2>1, <2>2 DEF Sound, Short
\* the strings of the record, whatever reads them
<1>9. /\ get.kind = "utf" /\ m # NULL_ARRAY_LENGTH /\ StringReader = "utfJNI" =>
           m \in StringLengths(r)
      /\ get.kind = "utfJNI" => m \in StringLengths(r)
  <2>1. StringReader = "utfJNI" => StringReader # "utf" OBVIOUS
  <2>2. get.kind = "utf" /\ m # NULL_ARRAY_LENGTH /\ StringReader = "utfJNI" =>
          m \in StringLengths(r)
    BY <2>1 DEF Counts
  <2>3. r.kind = "utf" => StringLengths(r) = {Len(r.value)} BY DEF StringLengths
  <2> QED BY <1>7, <2>2, <2>3
<1>10. Stepped(4, << m >>, rest) /\ Buffers(get.kind, m)
  BY <1>1, <1>5, <1>8, CountTaken
<1> HIDE DEF get
<1>11. /\ inPos' = inPos + 4 /\ src' = 0 /\ inThrown' = inThrown
       /\ got' = Append(got, << m >>) /\ todo' = rest
  BY <1>10 DEF Stepped
<1>12. inPos' \in Nat /\ src' \in Nat /\ inPos' + src' = (inPos + src) + Len(Head(cs))
  <2>1. inPos \in Nat /\ src = 0 /\ Len(Head(cs)) = 4 BY <1>1, <1>4, <1>5
  <2>2. inPos' = inPos + 4 /\ src' = 0 BY <1>11
  <2> DEFINE l == Len(Head(cs))
             p == inPos
             q == inPos'
  <2>3. p \in Nat /\ q = p + 4 /\ l = 4 BY <2>1, <2>2
  <2> HIDE DEF p, q, l
  <2>4. q \in Nat /\ q + 0 = (p + 0) + l BY <2>3
  <2> QED BY <2>1, <2>2, <2>4 DEF p, q, l
<1>13. InRecord(Tail(cs), Tail(vs), e)' /\ got' \in Seq(Word)
  <2>1. Reads(rest, Tail(cs), Tail(vs), message[read]) BY DEF get
  <2>2. got' = Append(got, Head(vs)) BY <1>11
  <2> HIDE DEF rest
  <2> QED BY <1>11, <1>12, <2>1, <2>2, OneTaken
<1>14. /\ charLen' \in Int /\ charLen <= charLen'
       /\ charLen' = charLen \/ (get.kind \in {"utf", "utfJNI"} /\ m >= 0 /\ charLen' = m)
       /\ get.kind \in {"utf", "utfJNI"} /\ m # NULL_ARRAY_LENGTH => m <= charLen'
  BY <1>1, <1>10 DEF Buffers
<1>15. Fits(todo', charLen', r)
  <2>1. Fits(todo, charLen, r) BY <1>2 DEF Sound
  <2> HIDE DEF r
  <2>2. Fits(Tail(todo), charLen', r) BY <1>1, <1>14, <2>1, FitsTail
  <2>3. Fits(Expansion(get, m), charLen', r) BY <1>3, <1>14, FitsExpansion
  <2> DEFINE q == Expansion(get, m)
  <2>4. q \in Seq(In!Get) /\ Tail(todo) \in Seq(In!Get)
    <3>1. get \in In!Get /\ Tail(todo) \in Seq(In!Get) BY <1>1, HeadTailProperties DEF get
    <3>2. CASE m = NULL_ARRAY_LENGTH BY <3>1, <3>2, EmptySeq DEF Expansion
    <3>3. CASE m # NULL_ARRAY_LENGTH
      <4>1. In!Elements(get, m) = Expansion(get, m)
        BY <1>1, <1>3, <1>8, <3>3, ElementsExpand DEF get
      <4>2. In!Elements(get, m) \in Seq(In!Get) BY <1>1, <3>1, ElementsType
      <4> QED BY <3>1, <4>1, <4>2
    <3> QED BY <3>2, <3>3
  <2> HIDE DEF q
  <2>5. Fits(q \o Tail(todo), charLen', r) BY <2>2, <2>3, <2>4, FitsBoth DEF q
  <2> QED BY <1>11, <2>5 DEF q
<1>16. Short'
  <2>1. Untouched /\ Short BY <1>2 DEF Sound
  <2>2. CASE charLen' = charLen BY <2>1, <2>2, ShortSame
  <2>3. CASE charLen' # charLen
    <3> SUFFICES ASSUME StringReader' = "utfJNI" PROVE Short' BY DEF Short
    <3>1. StringReader = "utfJNI" OBVIOUS
    <3>2. m >= 0 /\ charLen' = m /\ get.kind \in {"utf", "utfJNI"} BY <1>14, <2>3
    <3>3. m \in StringLengths(r)
      <4>1. m # NULL_ARRAY_LENGTH BY <3>2 DEF NULL_ARRAY_LENGTH
      <4> QED BY <1>9, <3>1, <3>2, <4>1
    <3>4. NeverShorter BY <1>2, <3>1 DEF Straight
    <3>5. DOMAIN message = 1..Len(message) BY MidwayParts
    <3>6. ASSUME NEW i \in 1..Len(message), read <= i, message[i].kind = "utf"
          PROVE  m <= Len(message[i].value)
      <4>1. read \in 1..i /\ i \in DOMAIN message BY <1>2, <3>5, <3>6
      <4> QED BY <3>3, <3>4, <3>6, <4>1 DEF NeverShorter
    <3>7. message' = message /\ read' = read BY DEF Untouched
    <3> QED BY <3>2, <3>6, <3>7 DEF Short
  <2> QED BY <2>2, <2>3
<1>17. Sound' BY <1>2, <1>11, <1>12, <1>13, <1>15, <1>16, SoundAfter
<1>18. Tail(cs) \in Seq(Chunk) /\ Tail(vs) \in Seq(Word) BY NextChunk
<1> QED BY <1>13, <1>17, <1>18 DEF Onward

LEMMA StringGet ==
  ASSUME NEW n \in Nat, NEW k, NEW r
  PROVE  /\ << In!GetOf("string", n) >> \in Seq(In!Get)
         /\ Head(<< In!GetOf("string", n) >>).kind = "string"
         /\ Fits(<< In!GetOf("string", n) >>, k, r)
<1> DEFINE g == In!GetOf("string", n)
           q == << g >>
<1>1. g \in In!Get /\ g.kind = "string" BY GetOfType DEF In!GetKind, In!GetOf
<1> HIDE DEF g
<1>2. q \in Seq(In!Get) /\ Head(q) = g /\ Len(q) = 1 /\ q[1] = g BY <1>1
<1> HIDE DEF q
<1>3. \A i \in 1..Len(q) : q[i].kind \notin {"char", "utfJNI"}
  <2>1. \A i \in 1..1 : i = 1 OBVIOUS
  <2> QED BY <1>1, <1>2, <2>1
<1>4. Fits(q, k, r) BY <1>3, FitsAny
<1> QED BY <1>1, <1>2, <1>4 DEF q, g

LEMMA NativeFits ==
  ASSUME NEW k, NEW n, NEW l, NEW r PROVE Fits(Native(k, n), l, r)
<1> DEFINE a == In!GetOf("native", k)
           b == In!GetOf("string", n)
           q == << a, b >>
<1>1. a.kind = "native" /\ b.kind = "string" BY DEF In!GetOf
<1> HIDE DEF a, b
<1>2. Len(q) = 2 /\ q[1] = a /\ q[2] = b /\ \A i \in 1..2 : i = 1 \/ i = 2 OBVIOUS
<1>3. q = Native(k, n) BY DEF Native, a, b
<1> HIDE DEF q
<1>4. \A i \in 1..Len(q) : q[i].kind \notin {"char", "utfJNI"} BY <1>1, <1>2
<1> QED BY <1>3, <1>4, FitsAny

\* A char of a native string.
LEMMA NativeOnward ==
  ASSUME NEW cs, NEW vs, NEW e, Midway(cs, vs, e), cs # << >>, Untouched,
         NEW k \in Nat, NEW ch \in Char, todo = Native(k + 1, Behind(message[read])),
         Head(cs) = Utf8Bytes(ch), Head(vs) = << ch >>,
         Reads(Native(k, Behind(message[read])), Tail(cs), Tail(vs), message[read])
  PROVE  Onward(e)'
<1> DEFINE l == Len(Head(cs))
           n == Behind(message[read])
<1>1. Ready /\ inPos \in Nat /\ src \in Nat BY MidwayParts
<1>2. Sound BY DEF Midway
<1>3. Ahead(Head(cs), inPos + src) /\ l \in Nat BY NextChunk, LenProperties DEF Chunk
<1>4. todo = Native(k + 1, n) OBVIOUS
<1> HIDE DEF l, n
<1>5. /\ inPos' = inPos /\ src' = src + l /\ inThrown' = inThrown
      /\ got' = Append(got, << ch >>) /\ todo' = Native(k, n) /\ charLen' = charLen
  <2>1. Ahead(Utf8Bytes(ch), inPos + src) BY <1>3
  <2> QED BY <1>1, <1>4, <2>1, NativeTaken DEF l
<1>6. inPos' \in Nat /\ src' \in Nat /\ inPos' + src' = (inPos + src) + l
  BY <1>1, <1>3, <1>5
<1>7. InRecord(Tail(cs), Tail(vs), e)' /\ got' \in Seq(Word)
  <2>1. got' = Append(got, Head(vs)) BY <1>5
  <2>2. Reads(todo', Tail(cs), Tail(vs), message[read]) BY <1>5 DEF n
  <2>3. PICK rest : rest = todo' OBVIOUS
  <2> QED BY <1>6, <2>1, <2>2, <2>3, OneTaken DEF l
<1>8. todo' # << >> /\ Head(todo').kind = "native" BY <1>5, NativeParts
<1>9. Fits(todo', charLen', message[read]) BY <1>5, NativeFits
<1>10. Short' BY <1>2, <1>5, ShortSame DEF Sound
<1>11. Sound' BY <1>2, <1>5, <1>6, <1>7, <1>8, <1>9, <1>10, SoundAfter
<1>12. Tail(cs) \in Seq(Chunk) /\ Tail(vs) \in Seq(Word) BY NextChunk
<1> QED BY <1>7, <1>11, <1>12 DEF Onward

\* Every value is there: native code returns, and the string is made.
LEMMA LastOnward ==
  ASSUME NEW cs, NEW vs, NEW e, Midway(cs, vs, e), cs = << >>, Untouched PROVE Onward(e)'
<1> DEFINE r == message[read]
           n == Behind(r)
           p == inPos + src
<1>1. /\ Ready /\ inPos \in Nat /\ src \in Nat /\ got \in Seq(Word) /\ todo # << >> /\ n \in Nat
      /\ Len(Values(r)) = n + 1
  BY MidwayParts
<1>2. Sound /\ vs \in Seq(Word) /\ InRecord(cs, vs, e) BY DEF Midway
<1>3. Reads(todo, << >>, vs, r) /\ Values(r) = got \o vs /\ Holds(data, << >>, p, e)
  BY <1>2 DEF InRecord
<1> HIDE DEF n, p, r
<1>4. vs = << >> /\ Final(todo, r) BY <1>2, <1>3, ReadsEmpty
<1>5. Values(r) = got BY <1>1, <1>3, <1>4, ConcatEmptySeq
<1> DEFINE o == << In!GetOf("string", n) >>
<1>6. o \in Seq(In!Get) /\ Head(o).kind = "string" BY <1>1, StringGet
<1>7. ASSUME NEW k, NEW f PROVE Fits(o, k, f) BY <1>1, StringGet
<1>8. ASSUME NEW q \in Seq(In!Get), Final(q, r), todo' = q, inPos' + src' = p, got' = got
      PROVE  \E ds \in Seq(Chunk), ws \in Seq(Word) : InRecord(ds, ws, e)'
  <2>1. data' = data /\ message' = message /\ read' = read BY DEF Untouched
  <2>2. message'[read'] = r BY <2>1 DEF r
  <2>3. Reads(q, << >>, << >>, r) BY <1>8, ReadsNothing
  <2>4. got \o << >> = got BY <1>1, ConcatEmptySeq
  <2>5. << >> \in Seq(Chunk) /\ << >> \in Seq(Word) BY EmptySeq
  <2>6. /\ Reads(todo', << >>, << >>, message'[read']) /\ Values(message'[read']) = got' \o << >>
        /\ Holds(data', << >>, inPos' + src', e)
    BY <1>3, <1>5, <1>8, <2>1, <2>2, <2>3, <2>4
  <2>7. InRecord(<< >>, << >>, e)' BY <2>6 DEF InRecord
  <2> QED BY <2>5, <2>7
<1>9. CASE todo = Native(0, n)
  <2>1. /\ inPos' = p /\ src' = 0 /\ inThrown' = inThrown /\ got' = got
        /\ todo' = o /\ charLen' = charLen
    BY <1>1, <1>9, NativeReturned DEF p
  <2> HIDE DEF o
  <2>2. p \in Nat BY <1>1 DEF p
  <2>3. inPos' \in Nat /\ src' \in Nat /\ inPos' + src' = p BY <2>1, <2>2
  <2>4. Final(o, r) BY DEF Final, o, n
  <2>5. \E ds \in Seq(Chunk), ws \in Seq(Word) : InRecord(ds, ws, e)'
    BY <1>6, <1>8, <2>1, <2>3, <2>4
  <2>6. Short' BY <1>2, <2>1, ShortSame DEF Sound
  <2>7. Fits(todo', charLen', message[read]) BY <1>7, <2>1
  <2>8. got' \in Seq(Word) BY <1>1, <2>1
  <2>9. Sound' BY <1>2, <2>1, <2>3, <2>6, <2>7, <2>8, SoundAfter
  <2> QED BY <2>5, <2>9 DEF Onward
<1>10. CASE todo = o
  <2>1. src = 0 BY <1>2, <1>6, <1>10, NotNative
  <2>2. Len(got) = n + 1 BY <1>1, <1>5
  <2>3. /\ inPos' = inPos /\ src' = src /\ inThrown' = inThrown /\ got' = got
        /\ todo' = << >> /\ charLen' = charLen
    BY <1>1, <1>10, <2>2, StringMade
  <2>4. inPos' \in Nat /\ src' \in Nat /\ src' = 0 /\ inPos' + src' = p
    BY <1>1, <2>1, <2>3 DEF p
  <2>5. << >> \in Seq(In!Get) /\ Final(<< >>, r) BY EmptySeq DEF Final
  <2>6. \E ds \in Seq(Chunk), ws \in Seq(Word) : InRecord(ds, ws, e)'
    BY <1>8, <2>3, <2>4, <2>5
  <2>7. Short' BY <1>2, <2>3, ShortSame DEF Sound
  <2>8. Fits(todo', charLen', message[read]) BY <2>3 DEF Fits
  <2>9. got' \in Seq(Word) BY <1>1, <2>3
  <2>10. Sound' BY <1>2, <2>3, <2>4, <2>7, <2>8, <2>9, SoundAfter
  <2> QED BY <2>6, <2>10 DEF Onward
<1> QED BY <1>1, <1>4, <1>9, <1>10 DEF Final, n

\* Whatever the next get is, the reader goes on through the record.
LEMMA MidwayOnward ==
  ASSUME NEW cs, NEW vs, NEW e, Midway(cs, vs, e), Untouched PROVE Onward(e)'
<1>1. CASE cs = << >> BY <1>1, LastOnward
<1>2. CASE cs # << >>
  <2> DEFINE c == Head(cs)
             v == Head(vs)
             ds == Tail(cs)
             ws == Tail(vs)
  <2>1. PICK rest \in Seq(In!Get) : /\ Takes(todo, c, v, rest, message[read])
                                    /\ Reads(rest, ds, ws, message[read])
    BY <1>2, NextChunk
  <2>2. CASE Delivers(Head(todo), c, v) /\ rest = Tail(todo)
    BY <1>2, <2>1, <2>2, ValueOnward
  <2>3. CASE \E m \in Int : /\ Counts(Head(todo), m, message[read])
                            /\ c = IntChunk(m) /\ v = << m >>
                            /\ rest = Expansion(Head(todo), m) \o Tail(todo)
    <3>1. PICK m \in Int : /\ Counts(Head(todo), m, message[read])
                           /\ c = IntChunk(m) /\ v = << m >>
                           /\ rest = Expansion(Head(todo), m) \o Tail(todo)
      BY <2>3
    <3>2. Reads(Expansion(Head(todo), m) \o Tail(todo), ds, ws, message[read]) BY <2>1, <3>1
    <3> QED BY <1>2, <3>1, <3>2, CountOnward
  <2>4. CASE \E k \in Nat, ch \in Char : /\ todo = Native(k + 1, Behind(message[read]))
                                         /\ rest = Native(k, Behind(message[read]))
                                         /\ c = Utf8Bytes(ch) /\ v = << ch >>
    BY <1>2, <2>1, <2>4, NativeOnward
  <2> QED BY <2>1, <2>2, <2>3, <2>4 DEF Takes
<1> QED BY <1>1, <1>2

\* A record ends inside the message.
LEMMA MarkBelow ==
  ASSUME NEW mp, NEW e \in Nat, NEW rs \in Seq(Records), NEW a, Marks(a, rs, e, mp),
         NEW i \in 0..Len(rs)
  PROVE  mp[i] \in Nat /\ mp[i] <= e
BY DEF Marks

\* When the gets are done, so is the record.
LEMMA AtMark ==
  ASSUME LinkOK, ReaderTypes, Sound, NEW mp, Marks(data, message, end, mp), OnTheWay(mp),
         todo = << >>
  PROVE  inPos = mp[read] /\ (read > 0 => got = Values(message[read]))
<1>1. inPos \in Nat /\ src = 0 /\ got \in Seq(Word) BY DEF Sound
<1>2. CASE read = 0 BY <1>2 DEF OnTheWay, Marks
<1>3. CASE read # 0
  <2>1. PICK cs \in Seq(Chunk), vs \in Seq(Word) : InRecord(cs, vs, mp[read])
    BY <1>3 DEF OnTheWay
  <2>2. /\ Reads(<< >>, cs, vs, message[read]) /\ Values(message[read]) = got \o vs
        /\ Holds(data, cs, inPos + src, mp[read])
    BY <2>1 DEF InRecord
  <2>3. cs = << >>
    <3> SUFFICES ASSUME cs # << >> PROVE FALSE OBVIOUS
    <3> DEFINE r == message[read]
    <3>1. Reads(<< >>, cs, vs, r) BY <2>2
    <3> HIDE DEF r
    <3>2. \E rest \in Seq(In!Get) : Takes(<< >>, Head(cs), Head(vs), rest, r)
      BY <3>1, ReadsFirst
    <3> QED BY <3>2 DEF Takes
  <2>4. vs = << >> BY <2>2, <2>3, ReadsEmpty
  <2>5. inPos + src = mp[read] BY <2>2, <2>3, HoldsEmpty
  <2>6. got \o << >> = got BY <1>1, ConcatEmptySeq
  <2> QED BY <1>1, <2>2, <2>4, <2>5, <2>6
<1> QED BY <1>2, <1>3

\* The conditions on the message do not change while it is read.
LEMMA StraightSame == ASSUME message' = message, kept' = kept PROVE Straight' <=> Straight
<1>1. NeverShorter' <=> NeverShorter BY DEF NeverShorter, StringLengths
<1> QED BY <1>1 DEF Straight

\* A step of the writer.
LEMMA SparedOK == ASSUME LinkOK, ReaderTypes, ReaderOK, Spares PROVE ReaderOK'
<1> SUFFICES ASSUME message' # << >>, ~reused', Straight'
             PROVE  Sound' /\ \E mp : (Marks(data, message, end, mp) /\ OnTheWay(mp))'
  BY DEF ReaderOK
<1>1. /\ UNCHANGED << open, inPos, charLen, todo, got, src, inThrown, message, end, read, kept >>
      /\ ~reused /\ Agree(data, data', end) /\ Len(data') = Len(data)
  BY DEF Spares
<1>2. Straight BY <1>1, StraightSame
<1>3. Sound BY <1>1, <1>2 DEF ReaderOK
<1>4. PICK mp : Marks(data, message, end, mp) /\ OnTheWay(mp) BY <1>1, <1>2 DEF ReaderOK
<1>5. Sound' BY <1>1, <1>3 DEF Sound, Short, Fits, Fit
<1>6. /\ message \in Seq(Records) /\ end \in Nat /\ Len(data') \in Nat /\ read \in 0..Len(message)
      /\ inPos \in Nat /\ src \in Nat
  BY <1>1, <1>3, LenProperties DEF LinkOK, ArrayOK, ReaderTypes, Chunk, Sound
<1>7. Marks(data', message, end, mp) BY <1>1, <1>4, <1>6, MarksSame
<1>8. OnTheWay(mp)'
  <2>1. CASE read = 0 BY <1>1, <1>4, <2>1 DEF OnTheWay
  <2>2. CASE read # 0
    <3> DEFINE p == inPos + src
    <3>1. PICK q : q = mp[read] OBVIOUS
    <3>2. PICK cs \in Seq(Chunk), vs \in Seq(Word) : InRecord(cs, vs, q)
      BY <1>4, <2>2, <3>1 DEF OnTheWay
    <3>3. Holds(data, cs, p, q) BY <3>2 DEF InRecord
    <3>4. p \in Nat /\ q \in Nat /\ q <= end BY <1>4, <1>6, <3>1, MarkBelow
    <3>5. PICK d : d = data' OBVIOUS
    <3>6. Agree(data, d, end) /\ Len(d) \in Nat BY <1>1, <1>6, <3>5
    <3> HIDE DEF p
    <3>7. Holds(d, cs, p, q) BY <1>6, <3>3, <3>4, <3>6, HoldsSame
    <3>8. message'[read'] = message[read] BY <1>1
    <3>9. (inPos + src)' = p BY <1>1 DEF p
    <3>10. InRecord(cs, vs, q)'
      <4>1. Reads(todo, cs, vs, message[read]) /\ Values(message[read]) = got \o vs
        BY <3>2 DEF InRecord
      <4>2. Reads(todo', cs, vs, message'[read']) BY <1>1, <3>8, <4>1
      <4>3. Values(message'[read']) = got' \o vs BY <1>1, <4>1
      <4>4. Holds(data', cs, inPos' + src', q) BY <3>5, <3>7, <3>9
      <4> QED BY <4>2, <4>3, <4>4 DEF InRecord
    <3>11. read' = read /\ mp[read'] = q BY <1>1, <3>1
    <3> QED BY <2>2, <3>10, <3>11 DEF OnTheWay
  <2> QED BY <2>1, <2>2
<1>9. Marks(data, message, end, mp)' BY <1>1, <1>7
<1> QED BY <1>5, <1>8, <1>9

\* A reader opened on the buffer or on a copy starts before the first record.
LEMMA OpenOK ==
  ASSUME WriterOK, LinkOK, ReaderTypes, NEW onBuffer \in BOOLEAN, Open(onBuffer)
  PROVE  ReaderOK'
<1> SUFFICES ASSUME Straight'
             PROVE  Sound' /\ \E mp : (Marks(data, message, end, mp) /\ OnTheWay(mp))'
  BY DEF ReaderOK
<1>1. /\ Laid(data', message', end') /\ message = << >>
      /\ read' = 0 /\ open' /\ todo' = << >> /\ got' = << >>
      /\ src' = 0 /\ inThrown' = "none" /\ inPos' = 0 /\ kept' = charLen'
  BY OpenLinks
<1>2. PICK mp : Marks(data', message', end', mp) BY <1>1 DEF Laid
<1>3. LinkOK' BY OpenLinks
<1>4. DOMAIN message' = 1..Len(message') BY <1>3, LenProperties DEF LinkOK, ArrayOK
\* the char buffer of the readers before is no longer than the strings to come
<1>5. Short'
  <2> SUFFICES ASSUME StringReader = "utfJNI" PROVE Short' BY DEF Short
  <2>1. NeverShorter' BY DEF Straight
  <2>2. ASSUME NEW i \in 1..Len(message'), message'[i].kind = "utf"
        PROVE  kept' <= Len(message'[i].value)
    BY <1>4, <2>1, <2>2 DEF NeverShorter
  <2> QED BY <1>1, <2>2 DEF Short
<1>6. Sound'
  <2>1. << >> \in Seq(Word) BY EmptySeq
  <2>2. Fits(todo, charLen, message[read])' BY <1>1 DEF Fits
  <2>3. (open /\ inThrown = "none" /\ inPos \in Nat /\ src \in Nat /\ got \in Seq(Word) /\ src = 0)'
    BY <1>1, <2>1
  <2> QED BY <1>5, <2>2, <2>3 DEF Sound
<1>7. OnTheWay(mp)' BY <1>1 DEF OnTheWay
<1>8. Marks(data, message, end, mp)' BY <1>2
<1> QED BY <1>6, <1>7, <1>8

\* The get of a record fits.
LEMMA FirstFits ==
  ASSUME NEW r \in Records, NEW k PROVE Fits(<< GetFor(r) >>, k, r)
<1> DEFINE g == GetFor(r)
           q == << g >>
<1>1. \A kind, n : In!GetOf(kind, n).kind = kind BY DEF In!GetOf
<1>2. g.kind # "char" /\ (g.kind = "utfJNI" => StringReader = "utfJNI" /\ r.kind = "utf")
  <2>1. CASE r.kind = "utf"
    <3>1. g.kind = StringReader BY <1>1, <2>1 DEF GetFor
    <3>2. StringReader # "char" BY RecordsAssumption
    <3> QED BY <2>1, <3>1, <3>2
  <2>2. CASE r.kind \in {"fixed", "fixeds", "null"}
    <3>1. g.kind \in {"fixed", "fixeds", "utf"} BY <1>1, <2>2 DEF GetFor
    <3> QED BY <3>1
  <2>3. CASE r.kind \in {"byte", "bytes", "booleans", "utfs"}
    <3>1. g.kind = r.kind BY <1>1, <2>3 DEF GetFor
    <3> QED BY <2>3, <3>1
  <2> QED BY <2>1, <2>2, <2>3, RecordsAssumption
<1> HIDE DEF g
<1>3. Len(q) = 1 /\ q[1] = g /\ \A i \in 1..1 : i = 1 OBVIOUS
<1> HIDE DEF q
<1>4. \A i \in 1..Len(q) : Fit(q[i], k, r) BY <1>2, <1>3 DEF Fit
<1>5. Fits(q, k, r) BY <1>4 DEF Fits
<1> QED BY <1>5 DEF q, g

\* The next record begins where the last one ended.
LEMMA ReadRecordOK ==
  ASSUME LinkOK, ReaderTypes, ReaderOK, ReadRecord PROVE ReaderOK'
<1> SUFFICES ASSUME message' # << >>, ~reused', Straight'
             PROVE  Sound' /\ \E mp : (Marks(data, message, end, mp) /\ OnTheWay(mp))'
  BY DEF ReaderOK
<1> DEFINE r == message[read + 1]
           get == GetFor(r)
<1>1. /\ todo = << >> /\ read < Len(message)
      /\ todo' = << get >> /\ got' = << >> /\ src' = 0
      /\ inThrown' = "none" /\ read' = read + 1 /\ read' \in 1..Len(message)
      /\ UNCHANGED << data, open, inPos, charLen, message, end, kept, reused >>
  BY ReadRecordLinks
<1>2. Straight /\ Sound BY <1>1, StraightSame DEF ReaderOK
<1>3. PICK mp : Marks(data, message, end, mp) /\ OnTheWay(mp) BY <1>1, <1>2 DEF ReaderOK
<1>4. inPos = mp[read] BY <1>1, <1>2, <1>3, AtMark
<1>5. read \in 0..Len(message) /\ message \in Seq(Records) BY DEF ReaderTypes, LinkOK, ArrayOK
<1>6. read + 1 \in 1..Len(message) BY <1>1
<1>7. r \in Records BY <1>5, <1>6, ElementOfSeq
<1>8. PICK e : e = mp[read + 1] OBVIOUS
<1>9. Holds(data, ChunksOf(r), inPos, e)
  <2>1. (read + 1) - 1 = read BY <1>5
  <2>2. Holds(data, ChunksOf(message[read + 1]), mp[(read + 1) - 1], mp[read + 1])
    BY <1>3, <1>6 DEF Marks
  <2> QED BY <1>4, <1>8, <2>1, <2>2
<1>10. ChunksOf(r) \in Seq(Chunk) /\ Values(r) \in Seq(Word) /\ Comes(r)
  BY <1>7, RecordComes DEF Typed
<1>11. PICK s \in Records : s = r BY <1>7
<1>12. /\ Reads(<< GetFor(s) >>, ChunksOf(s), Values(s), s)
       /\ ChunksOf(s) \in Seq(Chunk) /\ Values(s) \in Seq(Word)
       /\ Holds(data, ChunksOf(s), inPos, e)
  BY <1>9, <1>10, <1>11 DEF Comes
<1>13. message'[read'] = s BY <1>1, <1>11
<1>14. InRecord(ChunksOf(s), Values(s), e)'
  <2>1. todo' = << GetFor(s) >> BY <1>1, <1>11
  <2>2. Reads(<< GetFor(s) >>, ChunksOf(s), Values(s), s) BY <1>12
  <2>3. Reads(todo', ChunksOf(s), Values(s), message'[read']) BY <1>13, <2>1, <2>2
  <2>4. Values(message'[read']) = got' \o Values(s)
    <3>1. << >> \o Values(s) = Values(s) BY <1>12, ConcatEmptySeq
    <3> QED BY <1>1, <1>13, <3>1
  <2>5. inPos' + src' = inPos BY <1>1, <1>2 DEF Sound
  <2>6. Holds(data', ChunksOf(s), inPos' + src', e) BY <1>1, <1>12, <2>5
  <2> DEFINE cs == ChunksOf(s)
             vs == Values(s)
  <2>7. /\ Reads(todo', cs, vs, message'[read']) /\ Values(message'[read']) = got' \o vs
        /\ Holds(data', cs, inPos' + src', e)
    BY <2>3, <2>4, <2>6
  <2> HIDE DEF cs, vs
  <2>8. InRecord(cs, vs, e)' BY <2>7 DEF InRecord
  <2> QED BY <2>8 DEF cs, vs
<1>15. OnTheWay(mp)'
  <2>1. read' # 0 /\ mp[read'] = e BY <1>1, <1>8
  <2> QED BY <1>12, <1>14, <2>1 DEF OnTheWay
<1>16. Short'
  <2>1. Short BY <1>2 DEF Sound
  <2>2. \A i \in 1..Len(message) : read' <= i => read <= i BY <1>1, <1>5
  <2> QED BY <1>1, <2>1, <2>2 DEF Short
<1>17. Sound'
  <2>1. Fits(todo', charLen', message'[read'])
    <3>1. todo' = << GetFor(s) >> BY <1>1, <1>11
    <3> QED BY <1>13, <3>1, FirstFits
  <2>2. Fits(todo, charLen, message[read])' BY <2>1 DEF Fits, Fit
  <2>3. << >> \in Seq(Word) BY EmptySeq
  <2>4. (open /\ inThrown = "none" /\ inPos \in Nat /\ src \in Nat /\ got \in Seq(Word) /\ src = 0)'
    BY <1>1, <1>2, <2>3 DEF Sound
  <2> QED BY <1>16, <2>2, <2>4 DEF Sound
<1>18. Marks(data, message, end, mp)' BY <1>1, <1>3
<1> QED BY <1>15, <1>17, <1>18

\* A step of a get.
LEMMA ReaderStepOK ==
  ASSUME LinkOK, ReaderTypes, ReaderOK, ReaderStep PROVE ReaderOK'
<1> SUFFICES ASSUME message' # << >>, ~reused', Straight'
             PROVE  Sound' /\ \E mp : (Marks(data, message, end, mp) /\ OnTheWay(mp))'
  BY DEF ReaderOK
<1>1. /\ In!CallStep /\ todo # << >>
      /\ UNCHANGED << data, open, size, message, end, kept, reused, read >>
  BY ReaderStepLinks
<1>2. Straight /\ Sound BY <1>1, StraightSame DEF ReaderOK
<1>3. PICK mp : Marks(data, message, end, mp) /\ OnTheWay(mp) BY <1>1, <1>2 DEF ReaderOK
<1>4. read # 0 BY <1>1, <1>3 DEF OnTheWay
<1>5. read \in 0..Len(message) /\ message \in Seq(Records) /\ end \in Nat
  BY DEF ReaderTypes, LinkOK, ArrayOK
<1>6. read \in 1..Len(message) BY <1>4, <1>5
<1>7. PICK e : e = mp[read] OBVIOUS
<1>8. e \in Nat BY <1>3, <1>5, <1>7, MarkBelow
<1>9. PICK cs \in Seq(Chunk), vs \in Seq(Word) : InRecord(cs, vs, e)
  BY <1>3, <1>4, <1>7 DEF OnTheWay
<1>10. Midway(cs, vs, e) BY <1>1, <1>2, <1>6, <1>8, <1>9 DEF Midway
<1>11. Untouched BY <1>1 DEF Untouched
<1>12. Onward(e)' BY <1>10, <1>11, MidwayOnward
<1>13. OnTheWay(mp)'
  <2>1. mp[read'] = e /\ read' # 0 BY <1>1, <1>4, <1>7
  <2> QED BY <1>12, <2>1 DEF Onward, OnTheWay
<1>14. Marks(data, message, end, mp)' BY <1>1, <1>3
<1> QED BY <1>12, <1>13, <1>14 DEF Onward

-----------------------------------------------------------------------------
\* The inductive invariant.
RoundTripInv == Linked /\ ReaderOK

\* It holds initially, and every step keeps it.
LEMMA RoundTripInit == Init => RoundTripInv
<1> SUFFICES ASSUME Init PROVE RoundTripInv OBVIOUS
<1>1. Linked BY LinkedInit
<1>2. message = << >> BY DEF Init
<1> QED BY <1>1, <1>2 DEF RoundTripInv, ReaderOK

LEMMA RoundTripNext == RoundTripInv /\ [Next]_vars => RoundTripInv'
<1> SUFFICES ASSUME RoundTripInv, [Next]_vars PROVE RoundTripInv' OBVIOUS
<1>1. Linked /\ ReaderOK /\ WriterOK /\ LinkOK /\ ReaderTypes BY DEF RoundTripInv, Linked
<1>2. Linked' BY <1>1, LinkedNext
<1>3. ReaderOK'
  <2>1. CASE (\E r \in Records : StartRecord(r)) \/ WriterStep \/ TakeBack \/ NextMessage
    BY <1>1, <2>1, WriterSpares, SparedOK
  <2>2. CASE \E onBuffer \in BOOLEAN : Open(onBuffer) BY <1>1, <2>2, OpenOK
  <2>3. CASE ReadRecord BY <1>1, <2>3, ReadRecordOK
  <2>4. CASE ReaderStep BY <1>1, <2>4, ReaderStepOK
  <2>5. CASE Close \/ Recycle
    <3>1. message' = << >> BY <2>5 DEF Close, Recycle, MessageRead
    <3> QED BY <3>1 DEF ReaderOK
  <2>6. CASE UNCHANGED vars
    <3>1. Spares
      <4>1. /\ UNCHANGED << open, size, inPos, charLen, todo, got, src, inThrown >>
            /\ UNCHANGED << message, end, read, kept >>
            /\ data' = data /\ reused' = reused
        BY <2>6 DEF vars, inVars, reading
      <4>2. Agree(data, data', end) /\ data' \in Chunk
        BY <1>1, <4>1, AgreeWithItself DEF LinkOK, ArrayOK
      <4> QED BY <4>1, <4>2 DEF Spares
    <3> QED BY <1>1, <3>1, SparedOK
  <2> QED BY <2>1, <2>2, <2>3, <2>4, <2>5, <2>6 DEF Next
<1> QED BY <1>2, <1>3 DEF RoundTripInv

\* In every state the writer has its records in its buffer, the reader's message
\* is spared unless the writer was cleared under it, and the reader is where the
\* chunks of its record say.
THEOREM RoundTripInvariant == Spec => []RoundTripInv
BY RoundTripInit, RoundTripNext, PTL DEF Spec

\* When a record has been taken, it is the one that was written.
LEMMA RecordsTaken ==
  ASSUME RoundTripInv, Straight, Taken, ~reused
  PROVE  Same(message[read]) /\ (read = Len(message) => inPos = end)
<1>1. LinkOK /\ ReaderTypes /\ ReaderOK BY DEF RoundTripInv, Linked
<1>2. read \in 0..Len(message) /\ read > 0 /\ todo = << >> BY <1>1 DEF Taken, ReaderTypes
<1>3. message # << >>
  <2>1. message = << >> => Len(message) = 0 OBVIOUS
  <2> QED BY <1>2, <2>1
<1>4. Sound BY <1>1, <1>3 DEF ReaderOK
<1>5. PICK mp : Marks(data, message, end, mp) /\ OnTheWay(mp) BY <1>1, <1>3 DEF ReaderOK
<1>6. inPos = mp[read] /\ got = Values(message[read]) BY <1>1, <1>2, <1>4, <1>5, AtMark
<1>7. inThrown = "none" BY <1>4 DEF Sound
<1>8. read = Len(message) => inPos = end BY <1>5, <1>6 DEF Marks
<1> QED BY <1>6, <1>7, <1>8 DEF Same

\* With readUTF every record comes out of ByteArrayObjectDataInput as it went into
\* ByteArrayObjectDataOutput, whatever growth, failed records that were taken back
\* and exposed arrays came between, unless clear() reused the exposed array.
THEOREM RecordsReadBack == ASSUME StringReader = "utf" PROVE Spec => []ReadsBack
<1>1. RoundTripInv => ReadsBack
  <2>1. Straight BY DEF Straight
  <2> QED BY <2>1, RecordsTaken DEF ReadsBack
<1> QED BY <1>1, RoundTripInvariant, PTL

\* With readUTF the reader ends a message exactly where the writer ended it.
THEOREM MessagesEndTogether == ASSUME StringReader = "utf" PROVE Spec => []SameEnd
<1>1. RoundTripInv => SameEnd
  <2>1. Straight BY DEF Straight
  <2> QED BY <2>1, RecordsTaken DEF SameEnd
<1> QED BY <1>1, RoundTripInvariant, PTL

\* readUTFJNI brings back every record of a message, and its end, whatever kinds of
\* records it mixes, as long as no string it reads is shorter than a string before
\* it in the message, the elements of arrays included, or than the char buffer the
\* reader had when it was opened.  Of the records that are not strings nothing is
\* asked.
THEOREM NativeStringsReadBack == Spec => []NativeReadsBack
<1>1. RoundTripInv => NativeReadsBack
  <2>1. NeverShorter => Straight BY DEF Straight
  <2> QED BY <2>1, RecordsTaken DEF NativeReadsBack
<1> QED BY <1>1, RoundTripInvariant, PTL

\* Between two records the bytes up to the position are the records written.
BufferHoldsRecords ==
  Out!Idle /\ outThrown = "none" => outPos <= length /\ Laid(Array, written, outPos)

\* Between two calls that did not fail the buffer holds, up to the position, the
\* records written since clear() and nothing else: a record that failed half way
\* and was taken back leaves no trace.
THEOREM WriterKeepsRecords == Spec => []BufferHoldsRecords
<1>1. RoundTripInv => BufferHoldsRecords
  <2> SUFFICES ASSUME RoundTripInv, Out!Idle, outThrown = "none"
               PROVE  outPos <= length /\ Laid(Array, written, outPos)
    BY DEF BufferHoldsRecords
  <2>1. WriterOK BY DEF RoundTripInv, Linked
  <2>2. Settled BY <2>1, SettledWhenIdle
  <2> QED BY <2>2 DEF Settled
<1> QED BY <1>1, RoundTripInvariant, PTL
=============================================================================
