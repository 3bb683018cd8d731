-------------------------- MODULE Utf8NativeProofs --------------------------
(***************************************************************************)
(* Proofs about Utf8Native, for every chunk size, source, offset and room. *)
(***************************************************************************)
EXTENDS Utf8Native, FiniteSetTheorems, SequenceTheorems, WellFoundedInduction, TLAPS

\* The cursors are ints; with their agreement this is inductive.
CursorTypes ==
  /\ source \in Seq(0..255)
  /\ off \in Nat /\ src \in Int /\ dst \in Int /\ len \in Int /\ rem \in Int
  /\ Cardinality(DOMAIN target) \in Int

\* The target is an array, the cells of which are counted by dst and len.
Filled == \E n \in Nat : DOMAIN target = 0..n - 1

IInv == CursorTypes /\ CursorsAgree /\ Filled

-----------------------------------------------------------------------------
(* What a chunk moves the cursors by.                                      *)
LEMMA SrcAdvRange ==
  ASSUME NEW v PROVE SrcAdv(v) \in Int /\ 1 <= SrcAdv(v) /\ SrcAdv(v) <= Chunk
BY ChunkAssumption DEF SrcAdv

\* No more bytes fail to end a char than there are bytes.
LEMMA ShiftRange ==
  ASSUME NEW v, NEW k \in Nat PROVE Shift(v, k) \in Int /\ 0 <= Shift(v, k) /\ Shift(v, k) <= k
<1> DEFINE S == {j \in 1..k : ~Ends(v, j)}
<1>1. 1 \in Int /\ k \in Int OBVIOUS
<1>2. IsFiniteSet(1..k) /\ Cardinality(1..k) = (IF 1 > k THEN 0 ELSE k - 1 + 1)
  BY <1>1, FS_Interval
<1>3. Cardinality(1..k) = k BY <1>2
<1>4. S \subseteq 1..k OBVIOUS
<1> HIDE DEF S
<1>5. IsFiniteSet(S) /\ Cardinality(S) <= Cardinality(1..k) BY <1>2, <1>4, FS_Subset
<1>6. Cardinality(S) \in Nat BY <1>5, FS_CardinalityType
<1> QED BY <1>3, <1>5, <1>6 DEF Shift, S

\* However clean the chunk, no more chars are kept than bytes are used.
LEMMA KeptRange ==
  ASSUME NEW v, NEW kept \in DstAdv(v)
  PROVE  kept \in Int /\ 0 <= kept /\ kept <= Chunk
<1>1. SrcAdv(v) \in Nat /\ SrcAdv(v) <= Chunk /\ Chunk \in Int
  BY SrcAdvRange, ChunkAssumption
<1>2. CASE Clean(v, Chunk)
  <2>1. kept = SrcAdv(v) - Shift(v, SrcAdv(v)) BY <1>2 DEF DstAdv
  <2>2. /\ Shift(v, SrcAdv(v)) \in Int /\ 0 <= Shift(v, SrcAdv(v))
        /\ Shift(v, SrcAdv(v)) <= SrcAdv(v)
    BY <1>1, ShiftRange
  <2> QED BY <1>1, <2>1, <2>2
<1>3. CASE ~Clean(v, Chunk)
  <2>1. kept \in 1..SrcAdv(v) BY <1>3 DEF DstAdv
  <2> QED BY <1>1, <2>1
<1> QED BY <1>2, <1>3

-----------------------------------------------------------------------------
(* What the loops store are chars.                                         *)
LEMMA BytesType ==
  ASSUME IInv, NEW k \in Nat, k <= rem
  PROVE  /\ Bytes(k) \in Seq(Byte) /\ Len(Bytes(k)) = k
         /\ \A i \in 1..k : Bytes(k)[i] = source[src + i] /\ Bytes(k)[i] \in Byte
<1>1. /\ source \in Seq(Byte) /\ src \in Nat /\ Len(source) \in Nat
      /\ src + k <= Len(source)
  <2>1. source \in Seq(Byte) BY DEF IInv, CursorTypes, Byte
  <2>2. Len(source) \in Nat BY <2>1, LenProperties
  <2> QED BY <2>1, <2>2 DEF IInv, CursorTypes, CursorsAgree
<1>2. \A i \in 1..Len(source) : source[i] \in Byte BY <1>1, ElementOfSeq
<1> DEFINE m == src + 1
           n == src + k
<1>3. m \in Int /\ n \in Int /\ n - m + 1 = k /\ (m <= n <=> k > 0) BY <1>1
<1>4. \A i \in m..n : source[i] \in Byte BY <1>1, <1>2
<1>5. Bytes(k) = SubSeq(source, m, n) BY DEF Bytes
<1> HIDE DEF m, n
<1>6. /\ SubSeq(source, m, n) \in Seq(Byte)
      /\ Len(SubSeq(source, m, n)) = IF m <= n THEN n - m + 1 ELSE 0
      /\ \A i \in 1..n - m + 1 : SubSeq(source, m, n)[i] = source[m + i - 1]
  BY <1>3, <1>4, SubSeqProperties
<1>7. Len(Bytes(k)) = k BY <1>3, <1>5, <1>6
<1>8. ASSUME NEW i \in 1..k
      PROVE  Bytes(k)[i] = source[src + i] /\ Bytes(k)[i] \in Byte
  <2>1. i \in 1..n - m + 1 /\ m + i - 1 = src + i /\ src + i \in 1..Len(source)
    BY <1>1, <1>3 DEF m, n
  <2>2. Bytes(k)[i] = source[m + i - 1] BY <1>5, <1>6, <2>1
  <2> QED BY <1>2, <2>1, <2>2
<1> QED BY <1>5, <1>6, <1>7, <1>8

\* A char put together from the bits of one, two or three bytes has 16 bits.
LEMMA OneByte == ASSUME NEW a \in Byte PROVE a \in Char
<1>1. a \in Int /\ 0 <= a /\ a <= 255 BY DEF Byte
<1>2. a <= MaxChar BY <1>1 DEF MaxChar
<1>3. MaxChar \in Int BY DEF MaxChar
<1> QED BY <1>1, <1>2, <1>3 DEF Char

LEMMA TwoBytes ==
  ASSUME NEW a \in Byte, NEW b \in Byte PROVE (a % 32) * 64 + (b % 64) \in Char
<1> DEFINE x == a % 32
           y == b % 64
           n == x * 64 + y
<1>1. a \in Int /\ b \in Int BY DEF Byte
<1>2. x \in Int /\ 0 <= x /\ x <= 31 BY <1>1
<1>3. y \in Int /\ 0 <= y /\ y <= 63 BY <1>1
<1> HIDE DEF x, y
<1>4. n \in Int /\ 0 <= n /\ n <= 65535 BY <1>2, <1>3
<1> HIDE DEF n
<1>5. n <= MaxChar /\ MaxChar \in Int BY <1>4 DEF MaxChar
<1>6. n \in Char BY <1>4, <1>5 DEF Char
<1> QED BY <1>6 DEF n, x, y

LEMMA ThreeBytes ==
  ASSUME NEW a \in Byte, NEW b \in Byte, NEW c \in Byte
  PROVE  (a % 16) * 4096 + (b % 64) * 64 + (c % 64) \in Char
<1> DEFINE x == a % 16
           y == b % 64
           z == c % 64
           n == x * 4096 + y * 64 + z
<1>1. a \in Int /\ b \in Int /\ c \in Int BY DEF Byte
<1>2. x \in Int /\ 0 <= x /\ x <= 15 BY <1>1
<1>3. y \in Int /\ 0 <= y /\ y <= 63 BY <1>1
<1>4. z \in Int /\ 0 <= z /\ z <= 63 BY <1>1
<1> HIDE DEF x, y, z
<1>5. n \in Int /\ 0 <= n /\ n <= 65535 BY <1>2, <1>3, <1>4
<1> HIDE DEF n
<1>6. n <= MaxChar /\ MaxChar \in Int BY <1>5 DEF MaxChar
<1>7. n \in Char BY <1>5, <1>6 DEF Char
<1> QED BY <1>7 DEF n, x, y, z

LEMMA DecodedType ==
  ASSUME NEW v, \A j \in Lanes : v[j] \in Byte, NEW i \in Lanes, Ends(v, i)
  PROVE  Decoded(v, i) \in Char
<1>1. i \in Int /\ 1 <= i /\ i <= Chunk /\ Chunk \in Nat BY ChunkAssumption DEF Lanes
<1>2. v[i] \in Byte OBVIOUS
<1>3. CASE Ascii(v[i])
  <2>1. Decoded(v, i) = v[i] BY <1>3 DEF Decoded
  <2>2. v[i] \in Char BY <1>2, OneByte
  <2> QED BY <2>1, <2>2
<1>4. CASE ~Ascii(v[i]) /\ Lead(v[i - 1]) /\ i > 1
  <2>1. v[i - 1] \in Byte BY <1>1, <1>4 DEF Lanes
  <2>2. Decoded(v, i) = (v[i - 1] % 32) * 64 + (v[i] % 64) BY <1>4 DEF Decoded
  <2>3. (v[i - 1] % 32) * 64 + (v[i] % 64) \in Char BY <1>2, <2>1, TwoBytes
  <2> QED BY <2>2, <2>3
<1>5. CASE ~Ascii(v[i]) /\ ~Lead(v[i - 1]) /\ i > 2
  <2>1. v[i - 1] \in Byte /\ v[i - 2] \in Byte BY <1>1, <1>5 DEF Lanes
  <2>2. Decoded(v, i) = (v[i - 2] % 16) * 4096 + (v[i - 1] % 64) * 64 + (v[i] % 64)
    BY <1>5 DEF Decoded
  <2>3. (v[i - 2] % 16) * 4096 + (v[i - 1] % 64) * 64 + (v[i] % 64) \in Char
    BY <1>2, <2>1, ThreeBytes
  <2> QED BY <2>2, <2>3
<1>6. Ascii(v[i]) \/ (i > 1 /\ Lead(v[i - 1])) \/ (i > 2 /\ Lead3(v[i - 2]))
  BY DEF Ends, Follows
<1>7. i > 2 => i > 1 BY <1>1
<1> QED BY <1>3, <1>4, <1>5, <1>6, <1>7

\* The chars of a chunk, and how many cells they take.
LEMMA CompactedType ==
  ASSUME NEW v, \A j \in Lanes : v[j] \in Byte
  PROVE  /\ Compacted(v) \in Seq(Char \cup {Any}) /\ Len(Compacted(v)) = Chunk
<1>1. ASSUME NEW k \in Lanes PROVE Compacted(v)[k] \in Char \cup {Any}
  <2> DEFINE last == {i \in Lanes : Clean(v, i) /\ Ends(v, i) /\ i - Shift(v, i) = k}
  <2>1. Compacted(v)[k] = IF last = {} THEN Any ELSE Decoded(v, CHOOSE i \in last : TRUE)
    BY DEF Compacted
  <2>2. CASE last = {} BY <2>1, <2>2
  <2>3. CASE last # {}
    <3> DEFINE i == CHOOSE i \in last : TRUE
    <3>1. i \in last BY <2>3
    <3>2. i \in Lanes /\ Ends(v, i) BY <3>1
    <3> HIDE DEF i
    <3>3. Decoded(v, i) \in Char BY <3>2, DecodedType
    <3> QED BY <2>1, <2>3, <3>3 DEF i
  <2> QED BY <2>2, <2>3
<1>2. Compacted(v) \in [1..Chunk -> Char \cup {Any}] BY <1>1 DEF Compacted, Lanes
<1> HIDE DEF Compacted
<1>3. Compacted(v) \in Seq(Char \cup {Any}) BY <1>2, ChunkAssumption, SeqDef
<1>4. DOMAIN Compacted(v) = 1..Len(Compacted(v)) /\ Len(Compacted(v)) \in Nat
  BY <1>3, LenProperties
<1>5. DOMAIN Compacted(v) = 1..Chunk BY <1>2
<1> DEFINE m == Len(Compacted(v))
<1> HIDE DEF m
<1>6. m \in Nat /\ 1..m = 1..Chunk BY <1>4, <1>5 DEF m
<1>7. m = Chunk
  <2>1. Chunk \in 1..m BY <1>6, ChunkAssumption
  <2>2. m \in 1..Chunk BY <1>6, <2>1
  <2> QED BY <1>6, <2>1, <2>2, ChunkAssumption
<1> QED BY <1>3, <1>7 DEF m

-----------------------------------------------------------------------------
(* Where a step stores.                                                    *)
\* The cells up to the end of the room.
LEMMA CellInTarget ==
  ASSUME IInv, NEW k \in 0..dst + len - 1 PROVE k \in DOMAIN target
<1>1. PICK n \in Nat : DOMAIN target = 0..n - 1 BY DEF IInv, Filled
<1>2. Cardinality(0..n - 1) = n
  <2>1. 0 \in Int /\ n - 1 \in Int BY <1>1
  <2>2. Cardinality(0..n - 1) = (IF 0 > n - 1 THEN 0 ELSE (n - 1) - 0 + 1)
    BY <2>1, FS_Interval
  <2> QED BY <1>1, <2>2
<1>3. Cardinality(DOMAIN target) = n BY <1>1, <1>2
<1>4. dst \in Int /\ len \in Int /\ dst + len = n
  BY <1>3 DEF IInv, CursorTypes, CursorsAgree
<1>5. k \in 0..n - 1 BY <1>4
<1> QED BY <1>1, <1>5

LEMMA KeptInTarget == ASSUME IInv, NEW k \in 0..dst - 1 PROVE k \in DOMAIN target
<1>1. dst \in Int /\ len \in Int /\ 0 <= len BY DEF IInv, CursorTypes, CursorsAgree
<1>2. k \in 0..dst + len - 1 BY <1>1
<1> QED BY <1>2, CellInTarget

\* A store that takes no more than the room that is counted stays in the array.
Fits(cells) == Len(cells) \in Nat /\ Len(cells) <= len

LEMMA StoredInside ==
  ASSUME IInv, NEW cells, Fits(cells)
  PROVE  Stored(cells) =
           [i \in DOMAIN target |->
              IF dst <= i /\ i < dst + Len(cells) THEN cells[i - dst + 1] ELSE target[i]]
<1> DEFINE n == Len(cells)
           stored == dst..dst + n - 1
<1>1. n \in Nat /\ n <= len /\ dst \in Int /\ len \in Int /\ 0 <= dst
  BY DEF Fits, IInv, CursorTypes, CursorsAgree
<1>2. DOMAIN target \subseteq Int BY DEF IInv, Filled
<1> HIDE DEF n
<1>3. \A i \in stored : i \in 0..dst + len - 1 BY <1>1
<1>4. \A i \in stored : i \in DOMAIN target BY <1>3, CellInTarget
<1>5. DOMAIN target \cup stored = DOMAIN target BY <1>4
<1>6. \A i \in DOMAIN target : i \in stored <=> dst <= i /\ i < dst + n BY <1>1, <1>2
<1>7. Stored(cells) =
        [i \in DOMAIN target |-> IF i \in stored THEN cells[i - dst + 1] ELSE target[i]]
  BY <1>5 DEF Stored, n
<1> HIDE DEF stored
<1>8. \A i \in DOMAIN target :
        (IF i \in stored THEN cells[i - dst + 1] ELSE target[i])
        = (IF dst <= i /\ i < dst + n THEN cells[i - dst + 1] ELSE target[i])
  BY <1>6
<1> QED BY <1>7, <1>8 DEF n

LEMMA StoredDomain ==
  ASSUME IInv, NEW cells, Fits(cells) PROVE DOMAIN Stored(cells) = DOMAIN target
BY StoredInside

LEMMA BytesFit ==
  ASSUME IInv, NEW k \in Nat, k <= rem, k <= len PROVE Fits(Bytes(k))
BY BytesType DEF Fits

LEMMA CompactedFits ==
  ASSUME IInv, Vector PROVE Fits(Compacted(Bytes(Chunk)))
<1>1. Chunk \in Nat /\ Chunk <= rem /\ Chunk <= len
  BY ChunkAssumption DEF Vector, IInv, CursorTypes
<1>2. \A j \in Lanes : Bytes(Chunk)[j] \in Byte BY <1>1, BytesType DEF Lanes
<1>3. Len(Compacted(Bytes(Chunk))) = Chunk BY <1>2, CompactedType
<1> QED BY <1>1, <1>3 DEF Fits

LEMMA CharFits == ASSUME IInv, More, NEW c PROVE Fits(<< c >>)
BY DEF Fits, More, IInv, CursorTypes

\* Every step that stores has looked at the room for all that it stores.
LEMMA StepFits ==
  ASSUME IInv, [Next]_vars
  PROVE  target' = target \/ \E cells : Fits(cells) /\ target' = Stored(cells)
<1> USE DEF IInv, CursorTypes
<1>1. CASE VectorAscii
  <2>1. Chunk \in Nat /\ Chunk <= rem /\ Chunk <= len
    BY <1>1, ChunkAssumption DEF VectorAscii, Vector
  <2>2. Fits(Bytes(Chunk)) BY <2>1, BytesFit
  <2> QED BY <1>1, <2>2 DEF VectorAscii
<1>2. CASE VectorMixed
  <2>1. Fits(Compacted(Bytes(Chunk))) BY <1>2, CompactedFits DEF VectorMixed
  <2> QED BY <1>2, <2>1 DEF VectorMixed
<1>3. CASE AsciiChar
  <2>1. 1 \in Nat /\ 1 <= rem /\ 1 <= len BY <1>3 DEF AsciiChar, More
  <2>2. Fits(Bytes(1)) BY <2>1, BytesFit
  <2> QED BY <1>3, <2>2 DEF AsciiChar
<1>4. CASE GeneralChar
  <2> DEFINE c == Value(Bytes(Width(source[src + 1])))
  <2>1. More /\ target' = Stored(<< c >>) BY <1>4 DEF GeneralChar
  <2> HIDE DEF c
  <2>2. Fits(<< c >>) BY <2>1, CharFits
  <2> QED BY <2>1, <2>2
<1>5. CASE VectorRefuses \/ VectorEnds \/ AsciiEnds \/ CutShort \/ Returns
  BY <1>5 DEF VectorRefuses, VectorEnds, AsciiEnds, CutShort, Returns
<1>6. CASE UNCHANGED vars BY <1>6 DEF vars
<1> QED BY <1>1, <1>2, <1>3, <1>4, <1>5, <1>6 DEF Next, VectorStep, ScalarStep

LEMMA StepDomain == ASSUME IInv, [Next]_vars PROVE DOMAIN target' = DOMAIN target
BY StepFits, StoredDomain

-----------------------------------------------------------------------------
(* The ways a step moves the cursors.                                      *)
LEMMA StayInvariant ==
  ASSUME IInv, UNCHANGED << args, cursors >>, DOMAIN target' = DOMAIN target
  PROVE  IInv'
BY DEF IInv, CursorTypes, CursorsAgree, Filled, args, cursors

LEMMA AdvanceInvariant ==
  ASSUME IInv, UNCHANGED args, DOMAIN target' = DOMAIN target,
         NEW bytes \in Int, NEW chars \in Int, 0 <= bytes, 0 <= chars,
         bytes <= rem, chars <= len, Advance(bytes, chars)
  PROVE  IInv'
<1>1. /\ src' = src + bytes /\ rem' = rem - bytes
      /\ dst' = dst + chars /\ len' = len - chars
  BY DEF Advance
<1>2. source' = source /\ off' = off BY DEF args
<1>3. CursorTypes' BY <1>1, <1>2 DEF IInv, CursorTypes
<1>4. Len(source) \in Int BY LenProperties DEF IInv, CursorTypes
<1>5. /\ off \in Int /\ src \in Int /\ dst \in Int /\ len \in Int /\ rem \in Int
      /\ off <= src /\ src + rem = Len(source) /\ 0 <= dst
      /\ dst + len = Cardinality(DOMAIN target)
  BY DEF IInv, CursorTypes, CursorsAgree
<1>6. CursorsAgree'
  <2>1. off <= src' /\ src' + rem' = Len(source) /\ rem' >= 0 BY <1>1, <1>4, <1>5
  <2>2. 0 <= dst' /\ dst' + len' = Cardinality(DOMAIN target) /\ len' >= 0 BY <1>1, <1>5
  <2> QED BY <1>2, <2>1, <2>2 DEF CursorsAgree
<1>7. Filled' BY DEF IInv, Filled
<1> QED BY <1>3, <1>6, <1>7 DEF IInv

LEMMA VectorAsciiInvariant == ASSUME IInv, VectorAscii PROVE IInv'
<1>1. /\ len >= Chunk /\ rem >= Chunk /\ Advance(Chunk, Chunk) /\ UNCHANGED args
      /\ target' = Stored(Bytes(Chunk))
  BY DEF VectorAscii, Vector
<1>2. DOMAIN target' = DOMAIN target BY StepDomain DEF Next, VectorStep, ScalarStep
<1>3. Chunk \in Int /\ 0 <= Chunk /\ Chunk <= rem /\ Chunk <= len
  BY <1>1, ChunkAssumption DEF IInv, CursorTypes
<1> QED BY <1>1, <1>2, <1>3, AdvanceInvariant

LEMMA VectorMixedInvariant == ASSUME IInv, VectorMixed PROVE IInv'
<1> DEFINE v == Bytes(Chunk)
<1>1. len >= Chunk /\ rem >= Chunk /\ UNCHANGED args /\ target' = Stored(Compacted(v))
  BY DEF VectorMixed, Vector
<1>2. DOMAIN target' = DOMAIN target BY StepDomain DEF Next, VectorStep, ScalarStep
<1>3. UNCHANGED cursors \/ \E kept \in DstAdv(v) : Advance(SrcAdv(v), kept)
  BY DEF VectorMixed
<1> HIDE DEF v
<1>4. CASE UNCHANGED cursors BY <1>1, <1>2, <1>4, StayInvariant
<1>5. ASSUME NEW kept \in DstAdv(v), Advance(SrcAdv(v), kept) PROVE IInv'
  <2>1. Chunk \in Int /\ rem \in Int /\ len \in Int
    BY ChunkAssumption DEF IInv, CursorTypes
  <2>2. SrcAdv(v) \in Int /\ 0 <= SrcAdv(v) /\ SrcAdv(v) <= rem
    BY <1>1, <2>1, SrcAdvRange
  <2>3. kept \in Int /\ 0 <= kept /\ kept <= len BY <1>1, <2>1, KeptRange
  <2> QED BY <1>1, <1>2, <1>5, <2>2, <2>3, AdvanceInvariant
<1> QED BY <1>3, <1>4, <1>5

LEMMA AsciiCharInvariant == ASSUME IInv, AsciiChar PROVE IInv'
<1>1. /\ len > 0 /\ rem > 0 /\ Advance(1, 1) /\ UNCHANGED args
      /\ target' = Stored(Bytes(1))
  BY DEF AsciiChar, More
<1>2. DOMAIN target' = DOMAIN target BY StepDomain DEF Next, VectorStep, ScalarStep
<1>3. 1 \in Int /\ 0 <= 1 /\ 1 <= rem /\ 1 <= len BY <1>1 DEF IInv, CursorTypes
<1> QED BY <1>1, <1>2, <1>3, AdvanceInvariant

LEMMA GeneralCharInvariant == ASSUME IInv, GeneralChar PROVE IInv'
<1> DEFINE w == Width(source[src + 1])
<1>1. /\ len > 0 /\ w <= rem /\ Advance(w, 1) /\ UNCHANGED args
      /\ target' = Stored(<< Value(Bytes(w)) >>)
  BY DEF GeneralChar, More
<1>2. w \in Int /\ 0 <= w BY DEF Width
<1> HIDE DEF w
<1>3. DOMAIN target' = DOMAIN target BY StepDomain DEF Next, VectorStep, ScalarStep
<1>4. 1 \in Int /\ 0 <= 1 /\ 1 <= len BY <1>1 DEF IInv, CursorTypes
<1> QED BY <1>1, <1>2, <1>3, <1>4, AdvanceInvariant

-----------------------------------------------------------------------------
LEMMA InitInvariant == ASSUME Init PROVE IInv
<1>1. /\ source \in Sources /\ off \in Offsets /\ off <= Len(source)
      /\ src = off /\ rem = Len(source) - off /\ dst = 0
  BY DEF Init
<1>2. source \in Seq(0..255) /\ off \in Nat BY <1>1, ArgsAssumption
<1>3. Len(source) \in Nat BY <1>2, LenProperties
<1>4. PICK room \in Rooms : len = room /\ target = [i \in 0..room - 1 |-> Any] BY DEF Init
<1>5. room \in Nat BY ArgsAssumption
<1>6. DOMAIN target = 0..room - 1 BY <1>4
<1>7. Cardinality(0..room - 1) = room
  <2>1. 0 \in Int /\ room - 1 \in Int BY <1>5
  <2>2. Cardinality(0..room - 1) = (IF 0 > room - 1 THEN 0 ELSE (room - 1) - 0 + 1)
    BY <2>1, FS_Interval
  <2> QED BY <1>5, <2>2
<1>8. CursorTypes BY <1>1, <1>2, <1>3, <1>4, <1>5, <1>6, <1>7 DEF CursorTypes
<1>9. CursorsAgree BY <1>1, <1>2, <1>3, <1>4, <1>5, <1>6, <1>7 DEF CursorsAgree
<1>10. Filled BY <1>5, <1>6 DEF Filled
<1> QED BY <1>8, <1>9, <1>10 DEF IInv

LEMMA StepInvariant == ASSUME IInv, [Next]_vars PROVE IInv'
<1>1. CASE VectorAscii BY <1>1, VectorAsciiInvariant
<1>2. CASE VectorMixed BY <1>2, VectorMixedInvariant
<1>3. CASE VectorRefuses BY <1>3, StayInvariant DEF VectorRefuses
<1>4. CASE VectorEnds BY <1>4, StayInvariant DEF VectorEnds
<1>5. CASE AsciiChar BY <1>5, AsciiCharInvariant
<1>6. CASE AsciiEnds BY <1>6, StayInvariant DEF AsciiEnds
<1>7. CASE GeneralChar BY <1>7, GeneralCharInvariant
<1>8. CASE CutShort BY <1>8, StayInvariant DEF CutShort
<1>9. CASE Returns BY <1>9, StayInvariant DEF Returns
<1>10. CASE UNCHANGED vars BY <1>10, StayInvariant DEF vars
<1> QED
  BY <1>1, <1>2, <1>3, <1>4, <1>5, <1>6, <1>7, <1>8, <1>9, <1>10
  DEF Next, VectorStep, ScalarStep

\* The counts of bytes and chars that are left always belong to the cursors the
\* loops load and store at, whatever the bytes (malformed ones included) and
\* whichever of the loops has moved them; a loop that looks at the counts before
\* it loads and stores, as all three do, stays inside the arrays of the caller.
THEOREM CursorsAlwaysAgree == Spec => []CursorsAgree
<1>1. Init => IInv BY InitInvariant
<1>2. IInv /\ [Next]_vars => IInv' BY StepInvariant
<1>3. IInv => CursorsAgree BY DEF IInv
<1> QED BY <1>1, <1>2, <1>3, PTL DEF Spec

\* No step, whatever the bytes and whichever loop, stores outside the target
\* array: a chunk is stored only where the counts leave room for all its cells,
\* and the counts belong to the cursor it is stored at.
THEOREM StoresAlwaysInside == Spec => StoresStayInside
<1>1. Init => IInv BY InitInvariant
<1>2. IInv /\ [Next]_vars => IInv' BY StepInvariant
<1>3. IInv /\ [Next]_vars => [DOMAIN target' = DOMAIN target]_vars BY StepDomain
<1> QED BY <1>1, <1>2, <1>3, PTL DEF Spec, StoresStayInside

-----------------------------------------------------------------------------
(* Types.                                                                  *)
CellsOK == DOMAIN target \subseteq Int /\ target \in [DOMAIN target -> Char \cup {Any}]

LEMMA StoredType ==
  ASSUME IInv, CellsOK, NEW cells \in Seq(Char \cup {Any}), Fits(cells), target' = Stored(cells)
  PROVE  CellsOK'
<1>1. dst \in Int /\ Len(cells) \in Nat BY LenProperties DEF IInv, CursorTypes
<1>2. \A k \in 1..Len(cells) : cells[k] \in Char \cup {Any} BY ElementOfSeq
<1>3. target' =
        [i \in DOMAIN target |->
           IF dst <= i /\ i < dst + Len(cells) THEN cells[i - dst + 1] ELSE target[i]]
  BY StoredInside
<1>4. ASSUME NEW i \in DOMAIN target PROVE target'[i] \in Char \cup {Any}
  <2>1. i \in Int /\ target[i] \in Char \cup {Any} BY DEF CellsOK
  <2>2. target'[i] =
          IF dst <= i /\ i < dst + Len(cells) THEN cells[i - dst + 1] ELSE target[i]
    BY <1>3
  <2>3. dst <= i /\ i < dst + Len(cells) => i - dst + 1 \in 1..Len(cells) BY <1>1, <2>1
  <2> QED BY <1>2, <2>1, <2>2, <2>3
<1>5. target' \in [DOMAIN target -> Char \cup {Any}] BY <1>3, <1>4
<1>6. DOMAIN target' = DOMAIN target BY <1>3
<1> QED BY <1>5, <1>6 DEF CellsOK

LEMMA ValueType ==
  ASSUME NEW b \in Seq(Byte), Len(b) = Width(b[1]), b[1] \in Byte
  PROVE  Value(b) \in Char
<1>1. \A i \in 1..Len(b) : b[i] \in Byte BY ElementOfSeq
<1>2. CASE Len(b) = 1
  <2>1. Value(b) = b[1] BY <1>2, SMT DEF Value
  <2>2. b[1] \in Char BY OneByte
  <2> QED BY <2>1, <2>2
<1>3. CASE Len(b) = 2
  <2>1. b[1] \in Byte /\ b[2] \in Byte BY <1>1, <1>3
  <2>2. Value(b) = (b[1] % 32) * 64 + (b[2] % 64) BY <1>3, SMT DEF Value
  <2>3. (b[1] % 32) * 64 + (b[2] % 64) \in Char BY <2>1, TwoBytes
  <2> QED BY <2>2, <2>3
<1>4. CASE Len(b) = 3
  <2>1. b[1] \in Byte /\ b[2] \in Byte /\ b[3] \in Byte BY <1>1, <1>4
  <2>2. Value(b) = (b[1] % 16) * 4096 + (b[2] % 64) * 64 + (b[3] % 64)
    BY <1>4, SMT DEF Value
  <2>3. (b[1] % 16) * 4096 + (b[2] % 64) * 64 + (b[3] % 64) \in Char
    BY <2>1, ThreeBytes
  <2> QED BY <2>2, <2>3
<1> QED BY <1>2, <1>3, <1>4 DEF Width

LEMMA CellsStep == ASSUME IInv, CellsOK, [Next]_vars PROVE CellsOK'
<1>1. ASSUME target' = target PROVE CellsOK' BY <1>1 DEF CellsOK
<1>2. Chunk \in Nat /\ len \in Int /\ rem \in Int BY ChunkAssumption DEF IInv, CursorTypes
<1>3. Seq(Byte) \subseteq Seq(Char \cup {Any})
  <2>1. Byte \subseteq Char BY OneByte
  <2>2. Byte \subseteq Char \cup {Any} BY <2>1
  <2> QED BY <2>2, SeqDef
<1>4. CASE VectorAscii
  <2>1. target' = Stored(Bytes(Chunk)) /\ Chunk <= rem BY <1>2, <1>4 DEF VectorAscii, Vector
  <2>2. Bytes(Chunk) \in Seq(Byte) BY <1>2, <2>1, BytesType
  <2>3. Fits(Bytes(Chunk)) BY <1>2, <1>4, <2>1, BytesFit DEF VectorAscii, Vector
  <2> QED BY <1>3, <2>1, <2>2, <2>3, StoredType
<1>5. CASE VectorMixed
  <2> DEFINE v == Bytes(Chunk)
  <2>1. target' = Stored(Compacted(v)) /\ Chunk <= rem BY <1>2, <1>5 DEF VectorMixed, Vector
  <2>2. \A j \in Lanes : v[j] \in Byte BY <1>2, <2>1, BytesType DEF Lanes
  <2> HIDE DEF v
  <2>3. Compacted(v) \in Seq(Char \cup {Any}) BY <2>2, CompactedType
  <2>4. Fits(Compacted(v)) BY <1>5, CompactedFits DEF VectorMixed, v
  <2> QED BY <2>1, <2>3, <2>4, StoredType
<1>6. CASE AsciiChar
  <2>1. target' = Stored(Bytes(1)) /\ 1 <= rem /\ 1 \in Nat BY <1>2, <1>6 DEF AsciiChar, More
  <2>2. Bytes(1) \in Seq(Byte) BY <2>1, BytesType
  <2>3. Fits(Bytes(1)) BY <1>2, <1>6, <2>1, BytesFit DEF AsciiChar, More
  <2> QED BY <1>3, <2>1, <2>2, <2>3, StoredType
<1>7. CASE GeneralChar
  <2> DEFINE w == Width(source[src + 1])
  <2>1. target' = Stored(<< Value(Bytes(w)) >>) /\ w <= rem BY <1>7 DEF GeneralChar
  <2>2. w \in Nat /\ 1 \in 1..w BY DEF Width
  <2> HIDE DEF w
  <2>3. /\ Bytes(w) \in Seq(Byte) /\ Len(Bytes(w)) = w
        /\ Bytes(w)[1] = source[src + 1] /\ Bytes(w)[1] \in Byte
    BY <2>1, <2>2, BytesType
  <2>4. Len(Bytes(w)) = Width(Bytes(w)[1]) BY <2>3 DEF w
  <2>5. Value(Bytes(w)) \in Char BY <2>3, <2>4, ValueType
  <2>6. << Value(Bytes(w)) >> \in Seq(Char \cup {Any}) BY <2>5
  <2>7. Fits(<< Value(Bytes(w)) >>) BY <1>7, CharFits DEF GeneralChar
  <2> QED BY <2>1, <2>6, <2>7, StoredType
<1>8. CASE VectorRefuses \/ VectorEnds \/ AsciiEnds \/ CutShort \/ Returns
  BY <1>1, <1>8 DEF VectorRefuses, VectorEnds, AsciiEnds, CutShort, Returns
<1>9. CASE UNCHANGED vars BY <1>1, <1>9 DEF vars
<1> QED BY <1>4, <1>5, <1>6, <1>7, <1>8, <1>9 DEF Next, VectorStep, ScalarStep

ControlOK == pc \in Loop /\ result \in Int

LEMMA ControlStep == ASSUME IInv, ControlOK, [Next]_vars PROVE ControlOK'
<1>1. src - off \in Int BY DEF IInv, CursorTypes
<1> USE DEF ControlOK, Loop, GoTo
<1>2. CASE VectorAscii \/ VectorMixed BY <1>2 DEF VectorAscii, VectorMixed
<1>3. CASE VectorRefuses \/ VectorEnds BY <1>3 DEF VectorRefuses, VectorEnds
<1>4. CASE AsciiChar \/ AsciiEnds \/ GeneralChar BY <1>4 DEF AsciiChar, AsciiEnds, GeneralChar
<1>5. CASE CutShort \/ Returns BY <1>1, <1>5 DEF CutShort, Returns
<1>6. CASE UNCHANGED vars BY <1>6 DEF vars
<1> QED BY <1>2, <1>3, <1>4, <1>5, <1>6 DEF Next, VectorStep, ScalarStep

LEMMA InitCells == ASSUME Init PROVE CellsOK /\ ControlOK
<1>1. PICK room \in Rooms : target = [i \in 0..room - 1 |-> Any] BY DEF Init
<1>2. room \in Nat BY ArgsAssumption
<1>3. CellsOK BY <1>1, <1>2 DEF CellsOK
<1>4. ControlOK BY DEF Init, ControlOK, Loop
<1> QED BY <1>3, <1>4

\* Every variable keeps its type: what the vector loop and the scalar loops
\* store are chars, or what the shuffle leaves of malformed bytes.
THEOREM TypeCorrect == Spec => []TypeOK
<1>1. Init => IInv /\ CellsOK /\ ControlOK BY InitInvariant, InitCells
<1>2. IInv /\ CellsOK /\ ControlOK /\ [Next]_vars => (IInv /\ CellsOK /\ ControlOK)'
  BY StepInvariant, CellsStep, ControlStep
<1>3. ASSUME IInv, CellsOK, ControlOK PROVE TypeOK
  <2>1. source \in Seq(Byte) BY <1>3 DEF IInv, CursorTypes, Byte
  <2>2. Len(source) \in Nat BY <2>1, LenProperties
  <2>3. off \in 0..Len(source) /\ src \in Nat /\ dst \in Nat /\ len \in Nat /\ rem \in Nat
    BY <1>3, <2>2 DEF IInv, CursorTypes, CursorsAgree
  <2> QED BY <1>3, <2>1, <2>3 DEF TypeOK, CellsOK, ControlOK
<1> QED BY <1>1, <1>2, <1>3, PTL DEF Spec

-----------------------------------------------------------------------------
(* Chars and chunks.  c0 to c3 are the counts of four bytes, the last first. *)
LEMMA WindowBit ==
  ASSUME NEW c0 \in {0, 2, 3}, NEW c1 \in {0, 2, 3}, NEW c2 \in {0, 2, 3}, NEW c3 \in {0, 2, 3},
         c1 # 0 => c0 = 0, c2 # 0 => c1 = 0, c3 # 0 => c2 = 0,
         c2 = 3 => c0 = 0, c3 = 3 => c1 = 0
  PROVE  Bit1(c0 + Less(c1, 1) + Less(c2 + Less(c3, 1), 2)) <=> (c0 # 0 \/ c1 = 3)
<1>1. Less(c2 + Less(c3, 1), 2) = IF c2 = 3 THEN 1 ELSE 0 BY DEF Less
<1>2. Less(c1, 1) = IF c1 = 3 THEN 2 ELSE IF c1 = 2 THEN 1 ELSE 0 BY DEF Less
<1> DEFINE n == c0 + Less(c1, 1) + Less(c2 + Less(c3, 1), 2)
<1>3. CASE c0 # 0 \/ c1 = 3
  <2>1. n \in {2, 3} BY <1>1, <1>2, <1>3
  <2> HIDE DEF n
  <2>2. Bit1(n) BY <2>1 DEF Bit1
  <2> QED BY <1>3, <2>2 DEF n
<1>4. CASE c0 = 0 /\ c1 # 3
  <2>1. n \in {0, 1} BY <1>1, <1>2, <1>4
  <2> HIDE DEF n
  <2>2. ~Bit1(n) BY <2>1 DEF Bit1
  <2> QED BY <1>4, <2>2 DEF n
<1> QED BY <1>3, <1>4

\* No byte that starts a char is inside another one.
Spaced(v) ==
  /\ \A j \in Lanes : v[j] \in Byte
  /\ \A j \in 2..Chunk : Lead(v[j - 1]) => ~Lead(v[j])
  /\ \A j \in 3..Chunk : Lead3(v[j - 2]) => ~Lead(v[j])

\* src_adv looks at the right bit: it says that a char goes on after lane i.
LEMMA BitOfCounts ==
  ASSUME NEW v, Spaced(v), NEW i \in Lanes
  PROVE  Bit1(Counts(v, i)) <=> Lead(v[i]) \/ (i > 1 /\ Lead3(v[i - 1]))
<1> DEFINE c(d) == CountBefore(v, i, d)
<1>1. i \in Int /\ 1 <= i /\ i <= Chunk /\ Chunk \in Nat BY ChunkAssumption DEF Lanes
<1>2. \A j \in Lanes : v[j] \in Int BY DEF Spaced, Byte
<1>3. \A b \in Int : /\ Count(b) \in {0, 2, 3}
                     /\ Count(b) # 0 <=> Lead(b)
                     /\ Count(b) = 3 <=> Lead3(b)
  BY DEF Count, Lead, Lead3
<1>4. ASSUME NEW d \in 0..3
      PROVE  /\ c(d) \in {0, 2, 3}
             /\ c(d) # 0 <=> i - d >= 1 /\ Lead(v[i - d])
             /\ c(d) = 3 <=> i - d >= 1 /\ Lead3(v[i - d])
  <2>1. CASE i - d < 1
    <3>1. c(d) = 0 BY <2>1 DEF CountBefore
    <3> QED BY <1>1, <2>1, <3>1
  <2>2. CASE i - d >= 1
    <3>1. c(d) = Count(v[i - d]) BY <1>1, <2>2 DEF CountBefore
    <3>2. v[i - d] \in Int BY <1>1, <1>2, <2>2 DEF Lanes
    <3> QED BY <1>3, <2>2, <3>1, <3>2
  <2> QED BY <1>1, <2>1, <2>2
<1>5. Counts(v, i) = c(0) + Less(c(1), 1) + Less(c(2) + Less(c(3), 1), 2)
  <2>1. CountsNear(v, i) = c(0) + Less(c(1), 1) BY <1>1 DEF CountsNear
  <2>2. CountsNear(v, i - 2) = c(2) + Less(c(3), 1)
    <3>1. CASE i - 2 < 1
      <4>1. c(2) = 0 /\ c(3) = 0 BY <1>1, <3>1 DEF CountBefore
      <4> QED BY <3>1, <4>1 DEF CountsNear, Less
    <3>2. CASE i - 2 >= 1
      <4>1. CountBefore(v, i - 2, 0) = c(2) BY <1>1 DEF CountBefore
      <4>2. CountBefore(v, i - 2, 1) = c(3)
        <5>1. (i - 2) - 1 = i - 3 BY <1>1
        <5> QED BY <5>1 DEF CountBefore
      <4> QED BY <1>1, <3>2, <4>1, <4>2 DEF CountsNear
    <3> QED BY <1>1, <3>1, <3>2
  <2> QED BY <1>1, <2>1, <2>2 DEF Counts
<1>6. ASSUME NEW d \in 0..2, c(d + 1) # 0 PROVE c(d) = 0
  <2>1. d + 1 \in 0..3 /\ d \in 0..3 OBVIOUS
  <2>2. i - (d + 1) >= 1 /\ Lead(v[i - (d + 1)]) BY <1>4, <1>6, <2>1
  <2>3. i - d \in 2..Chunk /\ i - (d + 1) = (i - d) - 1 BY <1>1, <2>2
  <2>4. ~Lead(v[i - d]) BY <2>2, <2>3 DEF Spaced
  <2> QED BY <1>4, <2>1, <2>4
<1>7. ASSUME NEW d \in 0..1, c(d + 2) = 3 PROVE c(d) = 0
  <2>1. d + 2 \in 0..3 /\ d \in 0..3 OBVIOUS
  <2>2. i - (d + 2) >= 1 /\ Lead3(v[i - (d + 2)]) BY <1>4, <1>7, <2>1
  <2>3. i - d \in 3..Chunk /\ i - (d + 2) = (i - d) - 2 BY <1>1, <2>2
  <2>4. ~Lead(v[i - d]) BY <2>2, <2>3 DEF Spaced
  <2> QED BY <1>4, <2>1, <2>4
<1>8. /\ c(0) \in {0, 2, 3} /\ c(1) \in {0, 2, 3} /\ c(2) \in {0, 2, 3} /\ c(3) \in {0, 2, 3}
      /\ c(0) # 0 <=> Lead(v[i])
      /\ c(1) = 3 <=> i > 1 /\ Lead3(v[i - 1])
  <2>1. c(0) # 0 <=> i - 0 >= 1 /\ Lead(v[i - 0]) BY <1>4
  <2>2. c(1) = 3 <=> i - 1 >= 1 /\ Lead3(v[i - 1]) BY <1>4
  <2>3. i - 0 = i /\ (i - 1 >= 1 <=> i > 1) BY <1>1
  <2>4. c(0) # 0 <=> Lead(v[i]) BY <1>1, <2>1, <2>3
  <2>5. c(1) = 3 <=> i > 1 /\ Lead3(v[i - 1]) BY <2>2, <2>3
  <2> QED BY <1>4, <2>4, <2>5
<1>9. (c(1) # 0 => c(0) = 0) /\ (c(2) # 0 => c(1) = 0) /\ (c(3) # 0 => c(2) = 0)
  <2>1. 0 + 1 = 1 /\ 1 + 1 = 2 /\ 2 + 1 = 3 OBVIOUS
  <2>2. 0 \in 0..2 /\ 1 \in 0..2 /\ 2 \in 0..2 OBVIOUS
  <2> HIDE DEF c
  <2> QED BY <1>6, <2>1, <2>2
<1>10. (c(2) = 3 => c(0) = 0) /\ (c(3) = 3 => c(1) = 0)
  <2>1. 0 + 2 = 2 /\ 1 + 2 = 3 OBVIOUS
  <2>2. 0 \in 0..1 /\ 1 \in 0..1 OBVIOUS
  <2> HIDE DEF c
  <2> QED BY <1>7, <2>1, <2>2
<1> HIDE DEF c
<1>11. Bit1(c(0) + Less(c(1), 1) + Less(c(2) + Less(c(3), 1), 2)) <=> (c(0) # 0 \/ c(1) = 3)
  BY <1>8, <1>9, <1>10, WindowBit
<1> QED BY <1>5, <1>8, <1>11

-----------------------------------------------------------------------------
(* What a well-formed source says of a byte and of those before it.        *)
LEMMA ByteKinds ==
  ASSUME NEW b \in Byte
  PROVE  /\ Ascii(b) => ~Lead(b)
         /\ Continues(b) => ~Lead(b)
         /\ Lead3(b) => Lead(b)
BY DEF Byte, Ascii, Continues, Lead, Lead3

\* Of the bytes that can start a char, which start how many.
LEMMA WidthKinds ==
  ASSUME NEW b \in Byte, ~Continues(b), b <= 239, b # 192, b # 193
  PROVE  /\ Width(b) = 1 => Ascii(b)
         /\ Width(b) = 2 => Lead(b) /\ ~Lead3(b)
         /\ Width(b) = 3 => Lead3(b) /\ Lead(b)
<1>1. b \in Int /\ 0 <= b BY DEF Byte
<1>2. b <= 127 \/ 194 <= b BY <1>1 DEF Continues
<1>3. b \div 16 < 14 <=> b < 224 BY <1>1
<1> QED BY <1>1, <1>2, <1>3 DEF Width, Ascii, Lead, Lead3

LEMMA StartIsFree ==
  ASSUME WellFormed, NEW p \in off + 1..Len(source), ~Called(p)
  PROVE  ~Continues(source[p])
BY DEF WellFormed

LEMMA LeadCalls ==
  ASSUME IInv, WellFormed, NEW p \in off + 1..Len(source)
  PROVE  /\ source[p] \in Byte
         /\ p - 1 > off /\ Lead(source[p - 1]) => Continues(source[p]) /\ ~Lead(source[p])
         /\ p - 2 > off /\ Lead3(source[p - 2]) => Continues(source[p]) /\ ~Lead(source[p])
<1>1. source \in Seq(Byte) /\ off \in Nat BY DEF IInv, CursorTypes, Byte
<1>2. Len(source) \in Nat BY <1>1, LenProperties
<1>3. p \in 1..Len(source) BY <1>1, <1>2
<1>4. source[p] \in Byte BY <1>1, <1>3, ElementOfSeq
<1>5. Continues(source[p]) => ~Lead(source[p]) BY <1>4, ByteKinds
<1>6. Called(p) => Continues(source[p]) BY DEF WellFormed
<1> QED BY <1>4, <1>5, <1>6 DEF Called

\* A chunk of a well-formed source, wherever it starts.
LEMMA ChunkSpaced == ASSUME IInv, WellFormed, Chunk <= rem PROVE Spaced(Bytes(Chunk))
<1> DEFINE v == Bytes(Chunk)
<1>1. \A j \in 1..Chunk : v[j] = source[src + j] /\ v[j] \in Byte
  BY ChunkAssumption, BytesType
<1>2. /\ off \in Nat /\ src \in Int /\ rem \in Int /\ off <= src /\ Chunk \in Nat
      /\ Len(source) \in Nat /\ src + rem = Len(source)
  BY ChunkAssumption, LenProperties DEF IInv, CursorTypes, CursorsAgree
<1>3. ASSUME NEW j \in 1..Chunk PROVE src + j \in off + 1..Len(source) BY <1>2
<1> HIDE DEF v
<1>4. ASSUME NEW j \in 2..Chunk, Lead(v[j - 1]) PROVE ~Lead(v[j])
  <2>1. j \in 1..Chunk /\ j - 1 \in 1..Chunk /\ (src + j) - 1 = src + (j - 1)
        /\ src + (j - 1) > off
    BY <1>2
  <2>2. Lead(source[(src + j) - 1]) BY <1>1, <1>4, <2>1
  <2>3. ~Lead(source[src + j]) BY <1>3, <2>1, <2>2, LeadCalls
  <2> QED BY <1>1, <2>1, <2>3
<1>5. ASSUME NEW j \in 3..Chunk, Lead3(v[j - 2]) PROVE ~Lead(v[j])
  <2>1. j \in 1..Chunk /\ j - 2 \in 1..Chunk /\ (src + j) - 2 = src + (j - 2)
        /\ src + (j - 2) > off
    BY <1>2
  <2>2. Lead3(source[(src + j) - 2]) BY <1>1, <1>5, <2>1
  <2>3. ~Lead(source[src + j]) BY <1>3, <2>1, <2>2, LeadCalls
  <2> QED BY <1>1, <2>1, <2>3
<1>6. Spaced(v) BY <1>1, <1>4, <1>5 DEF Spaced, Lanes
<1> QED BY <1>6 DEF v

-----------------------------------------------------------------------------
(* No char is split.  Where the cursor may stand after a step:             *)
LEMMA FreeAfter ==
  ASSUME IInv, WellFormed, NEW n \in Int, 1 <= n, n < rem,
         ~Lead(source[src + n]),
         src + n - 1 > off => ~Lead3(source[src + n - 1])
  PROVE  ~Continues(source[src + n + 1])
<1>1. /\ off \in Nat /\ src \in Int /\ rem \in Int /\ off <= src
      /\ Len(source) \in Nat /\ src + rem = Len(source)
  BY LenProperties DEF IInv, CursorTypes, CursorsAgree
<1> DEFINE p == src + n + 1
<1>2. p \in off + 1..Len(source) /\ p - 1 = src + n /\ p - 2 = src + n - 1 BY <1>1
<1> HIDE DEF p
<1>3. ~Called(p) BY <1>2 DEF Called
<1>4. ~Continues(source[p]) BY <1>2, <1>3, StartIsFree
<1> QED BY <1>4 DEF p

LEMMA SplitsStay ==
  ASSUME SplitsNoChar, UNCHANGED << args, cursors >> PROVE SplitsNoChar'
BY DEF SplitsNoChar, WellFormed, Called, args, cursors

LEMMA SplitsAdvance ==
  ASSUME IInv, UNCHANGED args, NEW n \in Int, NEW chars, Advance(n, chars),
         WellFormed /\ n < rem => ~Continues(source[src + n + 1])
  PROVE  SplitsNoChar'
<1>1. source' = source /\ off' = off /\ src' = src + n /\ rem' = rem - n
  BY DEF args, Advance
<1>2. WellFormed' => WellFormed BY <1>1 DEF WellFormed, Called
<1>3. rem \in Int BY DEF IInv, CursorTypes
<1>4. rem' > 0 => n < rem BY <1>1, <1>3
<1> QED BY <1>1, <1>2, <1>4 DEF SplitsNoChar

LEMMA VectorAsciiSplits ==
  ASSUME IInv, VectorAscii PROVE SplitsNoChar'
<1>1. Chunk <= rem /\ Advance(Chunk, Chunk) /\ UNCHANGED args /\ AllAscii(Bytes(Chunk))
  <2>1. rem \in Int BY DEF IInv, CursorTypes
  <2> QED BY <2>1, ChunkAssumption DEF VectorAscii, Vector
<1>2. Chunk \in Int /\ Chunk >= 3 BY ChunkAssumption
<1>3. \A j \in 1..Chunk : Bytes(Chunk)[j] = source[src + j] /\ Bytes(Chunk)[j] \in Byte
  BY <1>1, <1>2, BytesType
<1>4. ASSUME NEW j \in 1..Chunk PROVE ~Lead(source[src + j]) /\ ~Lead3(source[src + j])
  <2>1. source[src + j] \in Byte /\ Ascii(source[src + j])
    BY <1>1, <1>3 DEF AllAscii, Lanes
  <2> QED BY <2>1, ByteKinds
<1>5. ASSUME WellFormed, Chunk < rem PROVE ~Continues(source[src + Chunk + 1])
  <2>1. ~Lead(source[src + Chunk]) BY <1>2, <1>4
  <2>2. ~Lead3(source[src + Chunk - 1])
    <3>1. Chunk - 1 \in 1..Chunk BY <1>2
    <3>2. src + Chunk - 1 = src + (Chunk - 1) BY <1>2 DEF IInv, CursorTypes
    <3> QED BY <1>4, <3>1, <3>2
  <2> QED BY <1>2, <1>5, <2>1, <2>2, FreeAfter
<1> QED BY <1>1, <1>2, <1>5, SplitsAdvance

\* The byte at the cursor starts a char: no char before it reaches it.
LEMMA NothingReaches ==
  ASSUME IInv, WellFormed, 0 < rem, ~Continues(source[src + 1])
  PROVE  /\ src > off => ~Lead(source[src]) /\ ~Lead3(source[src])
         /\ src - 1 > off => ~Lead3(source[src - 1])
         /\ source[src + 1] \in Byte
<1>1. /\ off \in Nat /\ src \in Int /\ rem \in Int /\ off <= src
      /\ Len(source) \in Nat /\ src + rem = Len(source) /\ source \in Seq(Byte)
  BY LenProperties DEF IInv, CursorTypes, CursorsAgree, Byte
<1> DEFINE p == src + 1
<1>2. p \in off + 1..Len(source) /\ p - 1 = src /\ p - 2 = src - 1 BY <1>1
<1> HIDE DEF p
<1>3. /\ source[p] \in Byte
      /\ p - 1 > off /\ Lead(source[p - 1]) => Continues(source[p])
      /\ p - 2 > off /\ Lead3(source[p - 2]) => Continues(source[p])
  BY <1>2, LeadCalls
<1>4. ~Continues(source[p]) BY DEF p
<1>5. src > off => ~Lead(source[src]) BY <1>2, <1>3, <1>4
<1>6. src > off => ~Lead3(source[src])
  <2> SUFFICES ASSUME src > off PROVE ~Lead3(source[src]) OBVIOUS
  <2>1. src \in 1..Len(source) BY <1>1
  <2>2. source[src] \in Byte BY <1>1, <2>1, ElementOfSeq
  <2> QED BY <1>5, <2>2, ByteKinds
<1>7. src - 1 > off => ~Lead3(source[src - 1]) BY <1>2, <1>3, <1>4
<1>8. source[src + 1] \in Byte BY <1>3 DEF p
<1> QED BY <1>5, <1>6, <1>7, <1>8

LEMMA AsciiFree ==
  ASSUME IInv, WellFormed, SplitsNoChar, 1 < rem, Ascii(source[src + 1])
  PROVE  ~Continues(source[src + 1 + 1])
<1>1. rem \in Int /\ src \in Int BY DEF IInv, CursorTypes
<1>2. ~Continues(source[src + 1]) BY <1>1 DEF SplitsNoChar
<1>3. src > off => ~Lead3(source[src]) BY <1>1, <1>2, NothingReaches
<1>4. ~Lead(source[src + 1])
  <2>1. source[src + 1] \in Byte BY <1>1, <1>2, NothingReaches
  <2> QED BY <2>1, ByteKinds
<1>5. src + 1 - 1 = src /\ 1 \in Int /\ 1 <= 1 BY <1>1
<1> QED BY <1>3, <1>4, <1>5, FreeAfter

LEMMA AsciiCharSplits == ASSUME IInv, SplitsNoChar, AsciiChar PROVE SplitsNoChar'
<1>1. Advance(1, 1) /\ UNCHANGED args /\ Ascii(source[src + 1]) BY DEF AsciiChar
<1>2. WellFormed /\ 1 < rem => ~Continues(source[src + 1 + 1]) BY <1>1, AsciiFree
<1>3. 1 \in Int OBVIOUS
<1> QED BY <1>1, <1>2, <1>3, SplitsAdvance

LEMMA GeneralCharSplits == ASSUME IInv, SplitsNoChar, GeneralChar PROVE SplitsNoChar'
<1> DEFINE w == Width(source[src + 1])
<1>1. Advance(w, 1) /\ UNCHANGED args /\ rem > 0 BY DEF GeneralChar, More
<1>2. w \in {1, 2, 3} BY DEF Width
<1>3. ASSUME WellFormed, w < rem PROVE ~Continues(source[src + w + 1])
  <2> DEFINE b == source[src + 1]
  <2>1. /\ off \in Nat /\ src \in Int /\ rem \in Int /\ off <= src
        /\ Len(source) \in Nat /\ src + rem = Len(source)
    BY LenProperties DEF IInv, CursorTypes, CursorsAgree
  <2>2. ~Continues(b) BY <1>1, <1>3 DEF SplitsNoChar
  <2>3. b \in Byte BY <1>1, <1>3, <2>2, NothingReaches
  <2>4. src + 1 \in off + 1..Len(source) BY <1>1, <2>1
  <2>5. b <= 239 /\ b # 192 /\ b # 193 BY <1>3, <2>4 DEF WellFormed
  <2>6. /\ w = 1 => Ascii(b)
        /\ w = 2 => Lead(b) /\ ~Lead3(b)
        /\ w = 3 => Lead3(b) /\ Lead(b)
    <3> HIDE DEF b
    <3>1. w = Width(b) BY DEF b
    <3> HIDE DEF w
    <3> QED BY <2>2, <2>3, <2>5, <3>1, WidthKinds
  <2>7. CASE w = 1
    <3>1. Ascii(source[src + 1]) /\ 1 < rem BY <1>3, <2>6, <2>7
    <3>2. ~Continues(source[src + 1 + 1]) BY <1>3, <3>1, AsciiFree
    <3> QED BY <2>7, <3>2
  <2>8. CASE w = 2
    <3>1. 2 < rem BY <1>3, <2>8
    <3> DEFINE p == src + 2
    <3>2. p \in off + 1..Len(source) /\ p - 1 > off /\ p - 1 = src + 1 BY <2>1, <3>1
    <3> HIDE DEF p
    <3>3. ~Lead(source[p]) BY <1>3, <2>6, <2>8, <3>2, LeadCalls
    <3>4. ~Lead(source[src + 2]) BY <3>3 DEF p
    <3>5. src + 2 - 1 = src + 1 /\ 2 \in Int /\ 1 <= 2 BY <2>1
    <3>6. ~Lead3(source[src + 2 - 1]) BY <2>6, <2>8, <3>5
    <3>7. ~Continues(source[src + 2 + 1]) BY <1>3, <3>1, <3>4, <3>5, <3>6, FreeAfter
    <3> QED BY <2>8, <3>7
  <2>9. CASE w = 3
    <3>1. 3 < rem BY <1>3, <2>9
    <3> DEFINE p == src + 2
               q == src + 3
    <3>2. /\ p \in off + 1..Len(source) /\ p - 1 > off /\ p - 1 = src + 1
          /\ q \in off + 1..Len(source) /\ q - 2 > off /\ q - 2 = src + 1
      BY <2>1, <3>1
    <3> HIDE DEF p, q
    <3>3. ~Lead(source[p]) /\ source[p] \in Byte BY <1>3, <2>6, <2>9, <3>2, LeadCalls
    <3>4. ~Lead(source[q]) BY <1>3, <2>6, <2>9, <3>2, LeadCalls
    <3>5. ~Lead3(source[p]) BY <3>3, ByteKinds
    <3>6. src + 3 - 1 = p /\ 3 \in Int /\ 1 <= 3 BY <2>1 DEF p
    <3>7. ~Lead3(source[src + 3 - 1]) BY <3>5, <3>6
    <3>8. ~Lead(source[src + 3]) BY <3>4 DEF q
    <3>9. ~Continues(source[src + 3 + 1]) BY <1>3, <3>1, <3>6, <3>7, <3>8, FreeAfter
    <3> QED BY <2>9, <3>9
  <2> QED BY <1>2, <2>7, <2>8, <2>9
<1>4. w \in Int BY <1>2
<1> HIDE DEF w
<1> QED BY <1>1, <1>3, <1>4, SplitsAdvance

\* However the chunk cuts its last char, src_adv stops before that char.
LEMMA ChunkFree ==
  ASSUME IInv, WellFormed, Chunk <= rem, SrcAdv(Bytes(Chunk)) < rem
  PROVE  ~Continues(source[src + SrcAdv(Bytes(Chunk)) + 1])
<1> DEFINE v == Bytes(Chunk)
           n == SrcAdv(v)
<1>1. /\ off \in Nat /\ src \in Int /\ rem \in Int /\ off <= src
      /\ Len(source) \in Nat /\ src + rem = Len(source)
      /\ Chunk \in Nat /\ Chunk >= 3
  BY ChunkAssumption, LenProperties DEF IInv, CursorTypes, CursorsAgree
<1>2. \A j \in 1..Chunk : v[j] = source[src + j] /\ v[j] \in Byte BY <1>1, BytesType
<1>3. Spaced(v) BY ChunkSpaced
<1>4. n < rem OBVIOUS
<1> HIDE DEF v
<1>5. ASSUME NEW j \in 2..Chunk
      PROVE  Bit1(Counts(v, j)) <=> Lead(source[src + j]) \/ Lead3(source[src + j - 1])
  <2>1. j \in Lanes /\ j > 1 /\ j - 1 \in 1..Chunk /\ src + (j - 1) = src + j - 1
    BY <1>1 DEF Lanes
  <2>2. Bit1(Counts(v, j)) <=> Lead(v[j]) \/ (j > 1 /\ Lead3(v[j - 1]))
    BY <1>3, <2>1, BitOfCounts
  <2>3. v[j] = source[src + j] /\ v[j - 1] = source[src + j - 1] BY <1>2, <2>1 DEF Lanes
  <2> QED BY <2>1, <2>2, <2>3
<1>6. Chunk \in 2..Chunk /\ Chunk - 1 \in 2..Chunk BY <1>1
<1>7. /\ Bit1(Counts(v, Chunk)) <=>
           Lead(source[src + Chunk]) \/ Lead3(source[src + Chunk - 1])
      /\ Bit1(Counts(v, Chunk - 1)) <=>
           Lead(source[src + (Chunk - 1)]) \/ Lead3(source[src + (Chunk - 1) - 1])
  BY <1>5, <1>6
<1>8. ASSUME NEW m \in 1..Chunk, m < rem,
             ~Lead(source[src + m]), src + m - 1 > off => ~Lead3(source[src + m - 1])
      PROVE  ~Continues(source[src + m + 1])
  <2>1. m \in Int /\ 1 <= m OBVIOUS
  <2> QED BY <1>8, <2>1, FreeAfter
<1>9. CASE ~Bit1(Counts(v, Chunk))
  <2>1. n = Chunk BY <1>9 DEF SrcAdv
  <2>2. Chunk \in 1..Chunk /\ Chunk < rem BY <1>1, <1>4, <2>1
  <2>3. ~Continues(source[src + Chunk + 1]) BY <1>7, <1>8, <1>9, <2>2
  <2> QED BY <2>1, <2>3 DEF v
<1>10. CASE Bit1(Counts(v, Chunk)) /\ ~Bit1(Counts(v, Chunk - 1))
  <2>1. n = Chunk - 1 BY <1>10 DEF SrcAdv
  <2>2. Chunk - 1 \in 1..Chunk /\ Chunk - 1 < rem BY <1>1, <1>4, <2>1
  <2>3. ~Continues(source[src + (Chunk - 1) + 1]) BY <1>7, <1>8, <1>10, <2>2
  <2> QED BY <2>1, <2>3 DEF v
<1>11. CASE Bit1(Counts(v, Chunk)) /\ Bit1(Counts(v, Chunk - 1))
  <2> DEFINE p == src + Chunk
             q == src + (Chunk - 1)
             r == src + (Chunk - 2)
  <2>1. n = Chunk - 2 BY <1>11 DEF SrcAdv
  <2>2. Chunk - 2 \in 1..Chunk /\ Chunk - 2 < rem BY <1>1, <1>4, <2>1
  <2>3. /\ p \in off + 1..Len(source) /\ p - 1 = q /\ q > off /\ p - 2 = r
        /\ q \in off + 1..Len(source) /\ q - 1 = r /\ r > off
    BY <1>1, <1>4
  <2>4. /\ Lead(source[p]) \/ Lead3(source[q])
        /\ Lead(source[q]) \/ Lead3(source[r])
    <3>1. src + Chunk - 1 = q /\ src + (Chunk - 1) - 1 = r BY <1>1
    <3> QED BY <1>7, <1>11, <3>1
  <2>5. q - 2 = src + (Chunk - 2) - 1 BY <1>1
  <2>6. source[p] \in Byte /\ source[q] \in Byte BY <2>3, LeadCalls
  <2> HIDE DEF p, q
  <2>7. /\ Lead(source[q]) => ~Lead(source[p])
        /\ Lead3(source[r]) => ~Lead(source[p])
        /\ Lead(source[r]) => ~Lead(source[q])
        /\ Lead3(source[r]) => ~Lead(source[q])
        /\ q - 2 > off /\ Lead3(source[q - 2]) => ~Lead(source[q])
    <3>1. source[r] \in Byte
      <4>1. r \in 1..Len(source) BY <1>1, <1>4, <2>3
      <4>2. source \in Seq(Byte) BY DEF IInv, CursorTypes, Byte
      <4> HIDE DEF r
      <4> QED BY <4>1, <4>2, ElementOfSeq
    <3>2. Lead3(source[r]) => Lead(source[r]) BY <3>1, ByteKinds
    <3>3. Lead(source[q]) => ~Lead(source[p]) BY <2>3, LeadCalls
    <3>4. Lead3(source[r]) => ~Lead(source[p])
      <4>1. p - 2 > off BY <2>3
      <4> QED BY <2>3, <4>1, LeadCalls
    <3>5. Lead(source[r]) => ~Lead(source[q]) BY <2>3, LeadCalls
    <3>6. q - 2 > off /\ Lead3(source[q - 2]) => ~Lead(source[q]) BY <2>3, LeadCalls
    <3> QED BY <3>2, <3>3, <3>4, <3>5, <3>6
  <2>8. Lead3(source[q]) => Lead(source[q]) BY <2>6, ByteKinds
  <2>9. Lead(source[q]) BY <2>4, <2>7, <2>8
  <2>10. ~Lead(source[r]) /\ ~(q - 2 > off /\ Lead3(source[q - 2])) BY <2>7, <2>9
  <2>11. ~Lead(source[src + (Chunk - 2)]) BY <2>10
  <2>12. src + (Chunk - 2) - 1 > off => ~Lead3(source[src + (Chunk - 2) - 1])
    BY <2>5, <2>10
  <2>13. ~Continues(source[src + (Chunk - 2) + 1]) BY <1>8, <2>2, <2>11, <2>12
  <2> QED BY <2>1, <2>13 DEF v
<1> QED BY <1>9, <1>10, <1>11

LEMMA VectorMixedSplits == ASSUME IInv, SplitsNoChar, VectorMixed PROVE SplitsNoChar'
<1> DEFINE v == Bytes(Chunk)
<1>1. rem >= Chunk /\ UNCHANGED args BY DEF VectorMixed, Vector
<1>2. UNCHANGED cursors \/ \E kept \in DstAdv(v) : Advance(SrcAdv(v), kept)
  BY DEF VectorMixed
<1>3. Chunk <= rem BY <1>1, ChunkAssumption DEF IInv, CursorTypes
<1>4. WellFormed /\ SrcAdv(v) < rem => ~Continues(source[src + SrcAdv(v) + 1])
  BY <1>3, ChunkFree
<1> HIDE DEF v
<1>5. CASE UNCHANGED cursors BY <1>1, <1>5, SplitsStay
<1>6. ASSUME NEW kept \in DstAdv(v), Advance(SrcAdv(v), kept) PROVE SplitsNoChar'
  <2>1. SrcAdv(v) \in Int BY SrcAdvRange
  <2> QED BY <1>1, <1>4, <1>6, <2>1, SplitsAdvance
<1> QED BY <1>2, <1>5, <1>6

LEMMA InitSplits == ASSUME Init PROVE SplitsNoChar
<1>1. IInv /\ src = off BY InitInvariant DEF Init
<1>2. /\ off \in Nat /\ rem \in Int /\ Len(source) \in Nat /\ src + rem = Len(source)
  BY <1>1, LenProperties DEF IInv, CursorTypes, CursorsAgree
<1> SUFFICES ASSUME WellFormed, rem > 0 PROVE ~Continues(source[src + 1])
  BY DEF SplitsNoChar
<1> DEFINE p == src + 1
<1>3. p \in off + 1..Len(source) /\ ~(p - 1 > off) /\ ~(p - 2 > off) BY <1>1, <1>2
<1> HIDE DEF p
<1>4. ~Continues(source[p]) BY <1>3, StartIsFree DEF Called
<1> QED BY <1>4 DEF p

LEMMA SplitsStep == ASSUME IInv, SplitsNoChar, [Next]_vars PROVE SplitsNoChar'
<1>1. CASE VectorAscii BY <1>1, VectorAsciiSplits
<1>2. CASE VectorMixed BY <1>2, VectorMixedSplits
<1>3. CASE VectorRefuses BY <1>3, SplitsStay DEF VectorRefuses
<1>4. CASE VectorEnds BY <1>4, SplitsStay DEF VectorEnds
<1>5. CASE AsciiChar BY <1>5, AsciiCharSplits
<1>6. CASE AsciiEnds BY <1>6, SplitsStay DEF AsciiEnds
<1>7. CASE GeneralChar BY <1>7, GeneralCharSplits
<1>8. CASE CutShort BY <1>8, SplitsStay DEF CutShort
<1>9. CASE Returns BY <1>9, SplitsStay DEF Returns
<1>10. CASE UNCHANGED vars BY <1>10, SplitsStay DEF vars
<1> QED
  BY <1>1, <1>2, <1>3, <1>4, <1>5, <1>6, <1>7, <1>8, <1>9, <1>10
  DEF Next, VectorStep, ScalarStep

\* On a well-formed source, wherever the chunks cut its chars and whichever loop
\* takes which of them, the cursor always stands where a char starts.
THEOREM NoCharIsSplit == Spec => []SplitsNoChar
<1>1. Init => IInv /\ SplitsNoChar BY InitInvariant, InitSplits
<1>2. IInv /\ SplitsNoChar /\ [Next]_vars => (IInv /\ SplitsNoChar)'
  BY StepInvariant, SplitsStep
<1> QED BY <1>1, <1>2, PTL DEF Spec


-----------------------------------------------------------------------------
(* Induction, by the least number that a set does not hold.                *)
\* A set of numbers has a least one.
LEMMA Least ==
  ASSUME NEW T \in SUBSET Nat, T # {}
  PROVE  \E m \in T : \A n \in T : m <= n
<1> DEFINE R == OpToRel(<, Nat)
<1>1. IsWellFoundedOn(R, Nat) BY NatLessThanWellFounded
<1>2. \A x, y \in Nat : <<x, y>> \in R <=> x < y BY DEF OpToRel
<1> HIDE DEF R
<1>3. PICK x \in T : \A y \in T : ~ (<<y, x>> \in R) BY <1>1, WFMin
<1>4. ASSUME NEW n \in T PROVE x <= n
  <2>1. x \in Int /\ n \in Int OBVIOUS
  <2>2. ~(n < x) BY <1>2, <1>3, Zenon
  <2> QED BY <2>1, <2>2
<1> QED BY <1>4

LEMMA Induction ==
  ASSUME NEW S, 0 \in S, \A n \in Nat : n \in S => n + 1 \in S
  PROVE  Nat \subseteq S
<1> SUFFICES ASSUME ~(Nat \subseteq S) PROVE FALSE OBVIOUS
<1> DEFINE T == Nat \ S
<1>1. PICK m \in T : \A n \in T : m <= n BY Least
<1>2. m # 0 /\ m \in Nat OBVIOUS
<1>3. m - 1 \in Nat /\ m - 1 \notin T BY <1>1, <1>2
<1>4. m - 1 \in S BY <1>3
<1> QED BY <1>2, <1>3, <1>4

\* f[k] is what k steps make of s.
Iterates(f, n, S, s, step) ==
  /\ f \in [0..n -> S] /\ f[0] = s
  /\ \A k \in 1..n : f[k] = step[f[k - 1]]

LEMMA IterationExists ==
  ASSUME NEW S, NEW s \in S, NEW step \in [S -> S], NEW n \in Nat
  PROVE  \E f : Iterates(f, n, S, s, step)
<1> DEFINE N == {m \in Nat : \E f : Iterates(f, m, S, s, step)}
<1>1. 0 \in N
  <2> DEFINE f == [k \in 0..0 |-> s]
  <2>1. Iterates(f, 0, S, s, step) BY DEF Iterates
  <2> QED BY <2>1
<1>2. ASSUME NEW m \in Nat, m \in N PROVE m + 1 \in N
  <2>1. PICK f : Iterates(f, m, S, s, step) BY <1>2
  <2> DEFINE g == [k \in 0..m + 1 |-> IF k = m + 1 THEN step[f[m]] ELSE f[k]]
  <2>2. f \in [0..m -> S] /\ f[0] = s /\ \A k \in 1..m : f[k] = step[f[k - 1]]
    BY <2>1 DEF Iterates
  <2>3. step[f[m]] \in S BY <2>2
  <2>4. g \in [0..m + 1 -> S]
    <3>1. \A k \in 0..m + 1 : k # m + 1 => k \in 0..m OBVIOUS
    <3> QED BY <2>2, <2>3, <3>1
  <2>5. g[0] = s BY <2>2
  <2>6. ASSUME NEW k \in 1..m + 1 PROVE g[k] = step[g[k - 1]]
    <3>1. k - 1 \in 0..m + 1 /\ k - 1 # m + 1 /\ k \in 0..m + 1 OBVIOUS
    <3>2. g[k - 1] = f[k - 1] BY <3>1
    <3>3. CASE k = m + 1
      <4>1. k - 1 = m BY <3>3
      <4> QED BY <3>1, <3>2, <3>3, <4>1
    <3>4. CASE k # m + 1
      <4>1. k \in 1..m BY <3>4
      <4>2. g[k] = f[k] BY <3>1, <3>4
      <4> QED BY <2>2, <3>2, <4>1, <4>2
    <3> QED BY <3>3, <3>4
  <2> HIDE DEF g
  <2>7. Iterates(g, m + 1, S, s, step) BY <2>4, <2>5, <2>6 DEF Iterates
  <2>8. m + 1 \in Nat OBVIOUS
  <2> QED BY <2>7, <2>8
<1> HIDE DEF N
<1>3. Nat \subseteq N BY <1>1, <1>2, Induction
<1> QED BY <1>3 DEF N

-----------------------------------------------------------------------------
(* The abstract decoder, char by char.                                      *)
\* What is left after the first char.
Rest(b) == SubSeq(b, Width(b[1]) + 1, Len(b))

\* What is left of a source after p bytes.
LEMMA SuffixOf ==
  ASSUME NEW s \in Seq(Byte), NEW p \in Nat
  PROVE  /\ SubSeq(s, p + 1, Len(s)) \in Seq(Byte)
         /\ p <= Len(s) =>
              /\ Len(SubSeq(s, p + 1, Len(s))) = Len(s) - p
              /\ \A i \in 1..Len(s) - p : SubSeq(s, p + 1, Len(s))[i] = s[p + i]
<1> DEFINE m == p + 1
           n == Len(s)
<1>1. n \in Nat /\ m \in Int /\ n \in Int BY LenProperties
<1>2. \A i \in m..n : s[i] \in Byte
  <2>1. \A i \in m..n : i \in 1..Len(s) BY <1>1
  <2> QED BY <2>1, ElementOfSeq
<1>3. n - m + 1 = n - p /\ (m <= n <=> n - p > 0) BY <1>1
<1>4. \A i \in 1..n - p : m + i - 1 = p + i BY <1>1
<1> HIDE DEF m
<1>5. /\ SubSeq(s, m, n) \in Seq(Byte)
      /\ Len(SubSeq(s, m, n)) = IF m <= n THEN n - m + 1 ELSE 0
      /\ \A i \in 1..n - m + 1 : SubSeq(s, m, n)[i] = s[m + i - 1]
  BY <1>1, <1>2, SubSeqProperties
<1>6. p <= n => Len(SubSeq(s, m, n)) = n - p BY <1>1, <1>3, <1>5
<1>7. \A i \in 1..n - p : SubSeq(s, m, n)[i] = s[p + i] BY <1>3, <1>4, <1>5
<1> QED BY <1>5, <1>6, <1>7 DEF m

LEMMA RestType == ASSUME NEW b \in Seq(Byte) PROVE Rest(b) \in Seq(Byte)
<1>1. Width(b[1]) \in Nat BY DEF Width
<1> QED BY <1>1, SuffixOf DEF Rest

\* The abstract decoder's After is what its recursion says.
LEMMA AfterUnfolds ==
  ASSUME IInv
  PROVE  /\ Decoder!After[0] = SubSeq(source, src + 1, Len(source))
         /\ \A k \in 1..len : Decoder!After[k] = Rest(Decoder!After[k - 1])
<1> DEFINE S == Seq(Byte)
           s == SubSeq(source, src + 1, Len(source))
           step == [b \in S |-> Rest(b)]
           Eqn(f) == f = [k \in 0..len |-> IF k = 0 THEN s ELSE Rest(f[k - 1])]
<1>1. source \in S /\ src \in Nat /\ len \in Nat
  BY DEF IInv, CursorTypes, CursorsAgree, Byte
<1>2. s \in S BY <1>1, SuffixOf
<1>3. step \in [S -> S] BY RestType
<1>4. \A b \in S : step[b] = Rest(b) OBVIOUS
<1>5. Decoder!After = CHOOSE f : Eqn(f) BY DEF Decoder!After, Rest
<1> HIDE DEF S, s, step
<1>6. PICK f : Iterates(f, len, S, s, step) BY <1>1, <1>2, <1>3, IterationExists
<1>7. Eqn(f)
  <2>1. f \in [0..len -> S] /\ f[0] = s /\ \A k \in 1..len : f[k] = step[f[k - 1]]
    BY <1>6 DEF Iterates
  <2>2. ASSUME NEW k \in 0..len PROVE f[k] = IF k = 0 THEN s ELSE Rest(f[k - 1])
    <3>1. k # 0 => k \in 1..len /\ k - 1 \in 0..len BY <1>1
    <3> QED BY <1>4, <2>1, <3>1
  <2> QED BY <2>1, <2>2
<1>8. Eqn(Decoder!After) BY <1>5, <1>7, Zenon
<1>9. Decoder!After[0] = s
  <2>1. 0 \in 0..len BY <1>1
  <2> QED BY <1>8, <2>1
<1>10. ASSUME NEW k \in 1..len PROVE Decoder!After[k] = Rest(Decoder!After[k - 1])
  <2>1. k \in 0..len /\ k # 0 BY <1>1
  <2> QED BY <1>8, <2>1
<1> QED BY <1>9, <1>10 DEF s

\* A part of what is left is a part of the source.
LEMMA SuffixSub ==
  ASSUME NEW s \in Seq(Byte), NEW p \in Nat, p <= Len(s),
         NEW i \in Nat, NEW j \in Nat, 1 <= i, j <= Len(s) - p
  PROVE  SubSeq(SubSeq(s, p + 1, Len(s)), i, j) = SubSeq(s, p + i, p + j)
<1> DEFINE t == SubSeq(s, p + 1, Len(s))
           a == SubSeq(t, i, j)
           m == p + i
           n == p + j
           b == SubSeq(s, m, n)
<1>1. Len(s) \in Nat /\ m \in Int /\ n \in Int /\ i \in Int /\ j \in Int BY LenProperties
<1>2. \A k \in 1..Len(s) : s[k] \in Byte BY ElementOfSeq
<1>3. \A k \in 1..Len(s) - p : t[k] = s[p + k] BY SuffixOf
<1> HIDE DEF t
<1>4. \A k \in i..j : t[k] = s[p + k] /\ t[k] \in Byte
  <2> TAKE k \in i..j
  <2>1. k \in 1..Len(s) - p /\ p + k \in 1..Len(s) BY <1>1
  <2> QED BY <1>2, <1>3, <2>1
<1>5. \A k \in m..n : s[k] \in Byte
  <2> TAKE k \in m..n
  <2>1. k \in 1..Len(s) BY <1>1
  <2> QED BY <1>2, <2>1
<1>6. /\ a \in Seq(Byte) /\ Len(a) = IF i <= j THEN j - i + 1 ELSE 0
      /\ \A k \in 1..j - i + 1 : a[k] = t[i + k - 1]
  BY <1>1, <1>4, SubSeqProperties
<1>7. (m <= n <=> i <= j) /\ n - m + 1 = j - i + 1 BY <1>1
<1> HIDE DEF m, n
<1>8. /\ b \in Seq(Byte) /\ Len(b) = IF m <= n THEN n - m + 1 ELSE 0
      /\ \A k \in 1..n - m + 1 : b[k] = s[m + k - 1]
  BY <1>1, <1>5, SubSeqProperties
<1>9. Len(a) = Len(b) BY <1>6, <1>7, <1>8
<1>10. ASSUME NEW k \in 1..Len(a) PROVE a[k] = b[k]
  <2>1. k \in 1..j - i + 1 /\ i + k - 1 \in i..j /\ m + k - 1 = p + (i + k - 1)
    BY <1>1, <1>6, <1>10 DEF m
  <2> QED BY <1>4, <1>6, <1>7, <1>8, <2>1
<1> HIDE DEF a, b
<1>11. a = b BY <1>6, <1>8, <1>9, <1>10, SeqEqual
<1> QED BY <1>11 DEF a, b, t, m, n

\* p[j] bytes of the source are before what is left after j chars.
Starts(p, n) ==
  /\ p \in [0..n -> Nat] /\ p[0] = src
  /\ \A j \in 1..n : p[j] = p[j - 1] + Width(source[p[j - 1] + 1]) /\ p[j] <= Len(source)

CharAt(p) == SubSeq(source, p + 1, p + Width(source[p + 1]))

LEMMA AfterAt ==
  ASSUME IInv, NEW n \in 0..len, NEW p, Starts(p, n), NEW j \in 0..n
  PROVE  /\ Decoder!After[j] = SubSeq(source, p[j] + 1, Len(source))
         /\ j < n => Decoder!Whole(Decoder!After[j])
                     /\ Decoder!First(Decoder!After[j]) = Value(CharAt(p[j]))
<1>1. /\ source \in Seq(Byte) /\ Len(source) \in Nat /\ src \in Nat /\ len \in Nat
      /\ src <= Len(source)
  BY LenProperties DEF IInv, CursorTypes, CursorsAgree, Byte
<1>2. /\ p \in [0..n -> Nat] /\ p[0] = src
      /\ \A k \in 1..n : p[k] = p[k - 1] + Width(source[p[k - 1] + 1]) /\ p[k] <= Len(source)
  BY DEF Starts
<1>3. ASSUME NEW k \in Nat, k < n PROVE
        /\ k \in 0..n /\ p[k] \in Nat /\ k + 1 \in 1..n /\ (k + 1) - 1 = k
        /\ Width(source[p[k] + 1]) \in 1..3
        /\ p[k + 1] = p[k] + Width(source[p[k] + 1])
        /\ p[k] + Width(source[p[k] + 1]) <= Len(source)
  <2>1. k \in 0..n /\ k + 1 \in 1..n /\ (k + 1) - 1 = k BY <1>3
  <2>2. Width(source[p[k] + 1]) \in 1..3 BY DEF Width
  <2> QED BY <1>2, <2>1, <2>2
<1>4. ASSUME NEW k \in Nat, k < n, Decoder!After[k] = SubSeq(source, p[k] + 1, Len(source))
      PROVE  /\ Decoder!After[k + 1] = SubSeq(source, p[k + 1] + 1, Len(source))
             /\ Decoder!Whole(Decoder!After[k])
             /\ Decoder!First(Decoder!After[k]) = Value(CharAt(p[k]))
  <2> DEFINE b == Decoder!After[k]
             q == p[k]
             w == Width(source[q + 1])
  <2>1. q \in Nat /\ w \in 1..3 /\ p[k + 1] = q + w /\ q + w <= Len(source)
        /\ k + 1 \in 1..len /\ (k + 1) - 1 = k
    <3>1. q \in Nat /\ w \in 1..3 /\ p[k + 1] = q + w /\ q + w <= Len(source)
      BY <1>3, <1>4
    <3>2. k + 1 \in 1..len /\ (k + 1) - 1 = k BY <1>1, <1>4
    <3> QED BY <3>1, <3>2
  <2>2. b = SubSeq(source, q + 1, Len(source)) BY <1>4
  <2>3. Decoder!After[k + 1] = Rest(b) BY <2>1, AfterUnfolds
  <2> HIDE DEF b, q
  <2>4. 1 \in 1..Len(source) - q /\ q <= Len(source) BY <1>1, <2>1
  <2>5. Len(b) = Len(source) - q /\ b[1] = source[q + 1]
    BY <1>1, <2>1, <2>2, <2>4, SuffixOf
  <2>6. Rest(b) = SubSeq(b, w + 1, Len(source) - q) BY <2>5 DEF Rest
  <2> HIDE DEF w
  <2>7. /\ w + 1 \in Nat /\ Len(source) - q \in Nat /\ 1 <= w + 1
        /\ q + (w + 1) = (q + w) + 1 /\ q + (Len(source) - q) = Len(source)
        /\ w \in Nat /\ w <= Len(source) - q /\ q \in Nat /\ q + 1 = q + 1
    BY <1>1, <2>1
  <2>8. SubSeq(b, w + 1, Len(source) - q) = SubSeq(source, q + (w + 1), q + (Len(source) - q))
    BY <1>1, <2>2, <2>4, <2>7, SuffixSub
  <2>9. Rest(b) = SubSeq(source, (q + w) + 1, Len(source)) BY <2>6, <2>7, <2>8
  <2>10. SubSeq(b, 1, w) = SubSeq(source, q + 1, q + w) BY <1>1, <2>2, <2>4, <2>7, SuffixSub
  <2>11. Width(b[1]) = w BY <2>5 DEF w
  <2>12. Decoder!First(b) = Value(CharAt(q)) BY <2>10, <2>11 DEF Decoder!First, CharAt, w
  <2>13. b # << >>
    <3>1. Len(b) # 0 BY <2>1, <2>5, <2>7
    <3> QED BY <3>1
  <2>14. Decoder!Whole(b) BY <2>5, <2>7, <2>11, <2>13 DEF Decoder!Whole
  <2> QED BY <2>1, <2>3, <2>9, <2>12, <2>14 DEF b, q
<1> DEFINE N == {k \in Nat : k <= n => Decoder!After[k] = SubSeq(source, p[k] + 1, Len(source))}
<1>5. 0 \in N BY <1>2, AfterUnfolds
<1>6. ASSUME NEW k \in Nat, k \in N PROVE k + 1 \in N
  <2>1. k + 1 \in Nat OBVIOUS
  <2>2. ASSUME k + 1 <= n PROVE Decoder!After[k + 1] = SubSeq(source, p[k + 1] + 1, Len(source))
    <3>1. k < n /\ k <= n BY <2>2
    <3>2. Decoder!After[k] = SubSeq(source, p[k] + 1, Len(source)) BY <1>6, <3>1
    <3> QED BY <1>4, <3>1, <3>2
  <2> QED BY <2>1, <2>2
<1> HIDE DEF N
<1>7. Nat \subseteq N BY <1>5, <1>6, Induction
<1>8. Decoder!After[j] = SubSeq(source, p[j] + 1, Len(source))
  <2>1. j \in Nat /\ j <= n OBVIOUS
  <2> QED BY <1>7, <2>1 DEF N
<1>9. j \in Nat OBVIOUS
<1> QED BY <1>4, <1>8, <1>9

LEMMA IsSeqOf ==
  ASSUME NEW S, NEW a \in Nat, NEW f \in [1..a -> S]
  PROVE  f \in Seq(S) /\ Len(f) = a
<1>1. f \in Seq(S) BY SeqDef
<1>2. Len(f) \in Nat /\ DOMAIN f = 1..Len(f) BY <1>1, LenProperties
<1> DEFINE m == Len(f)
<1> HIDE DEF m
<1>3. m \in Nat /\ 1..m = 1..a BY <1>2 DEF m
<1>4. m = a
  <2>1. m > a => m \in 1..m /\ m \notin 1..a BY <1>3
  <2>2. a > m => a \in 1..a /\ a \notin 1..m BY <1>3
  <2> QED BY <1>3, <2>1, <2>2
<1> QED BY <1>1, <1>4 DEF m

LEMMA Appended ==
  ASSUME NEW S, NEW f \in Seq(S), NEW g \in Seq(S), NEW h \in Seq(S),
         Len(h) = Len(f) + Len(g),
         \A k \in 1..Len(f) : h[k] = f[k], \A k \in 1..Len(g) : h[Len(f) + k] = g[k]
  PROVE  h = f \o g
<1> DEFINE a == Len(f)
           b == Len(g)
<1>1. a \in Nat /\ b \in Nat BY LenProperties
<1>2. /\ f \o g \in Seq(S) /\ Len(f \o g) = a + b
      /\ \A k \in 1..a + b : (f \o g)[k] = IF k <= a THEN f[k] ELSE g[k - a]
  BY ConcatProperties
<1> HIDE DEF a, b
<1>3. ASSUME NEW k \in 1..a + b PROVE h[k] = (f \o g)[k]
  <2>1. k <= a => k \in 1..a BY <1>1
  <2>2. ~(k <= a) => k - a \in 1..b /\ a + (k - a) = k BY <1>1
  <2> QED BY <1>2, <2>1, <2>2 DEF a, b
<1>4. Len(h) = a + b BY DEF a, b
<1> QED BY <1>2, <1>3, <1>4, SeqEqual

\* A step that leaves the counted cells, the cursors and the call's end alone.
LEMMA CharsStay ==
  ASSUME IInv, target' = target \/ \E cells : Fits(cells) /\ target' = Stored(cells),
         NEW k \in 1..dst
  PROVE  target'[k - 1] = target[k - 1]
<1>1. dst \in Int BY DEF IInv, CursorTypes
<1>2. k - 1 \in 0..dst - 1 BY <1>1
<1>3. k - 1 \in DOMAIN target BY <1>2, KeptInTarget
<1>4. ~(dst <= k - 1) BY <1>1
<1> QED BY <1>3, <1>4, StoredInside

LEMMA Stutters ==
  ASSUME IInv, UNCHANGED << args, cursors >>,
         target' = target \/ \E cells : Fits(cells) /\ target' = Stored(cells),
         pc # "returned", pc' # "returned"
  PROVE  UNCHANGED Decoder!vars
<1>1. source' = source /\ off' = off /\ src' = src /\ dst' = dst /\ len' = len
  BY DEF args, cursors
<1>2. WellFormed' = WellFormed BY <1>1 DEF WellFormed, Called
<1>3. \A k \in 1..dst : target'[k - 1] = target[k - 1] BY CharsStay
<1>4. [k \in 1..dst' |-> target'[k - 1]] = [k \in 1..dst |-> target[k - 1]] BY <1>1, <1>3
<1>5. SubSeq(source', src' + 1, Len(source')) = SubSeq(source, src + 1, Len(source)) BY <1>1
<1> QED BY <1>1, <1>2, <1>4, <1>5 DEF Decoder!vars

LEMMA TakesChars ==
  ASSUME IInv, CellsOK, CellsOK', WellFormed, pc # "returned", UNCHANGED << args, pc, result >>,
         NEW n \in 1..len, NEW p, Starts(p, n), Advance(p[n] - src, n),
         NEW cells, target' = Stored(cells), Fits(cells), n <= Len(cells),
         \A j \in 1..n : cells[j] = Value(CharAt(p[j - 1]))
  PROVE  Decoder!Take(n)
<1>1. /\ src \in Nat /\ dst \in Nat /\ len \in Nat /\ n \in Nat /\ n \in 0..len
      /\ source' = source /\ off' = off /\ pc' = pc /\ result' = result
  BY DEF IInv, CursorTypes, CursorsAgree, args
<1>2. p[n] \in Nat
  <2>1. p \in [0..n -> Nat] BY DEF Starts
  <2> QED BY <1>1, <2>1
<1>3. src' = p[n] /\ dst' = dst + n /\ len' = len - n BY <1>1, <1>2 DEF Advance
<1>4. \A j \in 0..n - 1 : Decoder!Whole(Decoder!After[j])
                          /\ Decoder!First(Decoder!After[j]) = Value(CharAt(p[j]))
  <2> TAKE j \in 0..n - 1
  <2>1. j \in 0..n /\ j < n BY <1>1
  <2> QED BY <1>1, <2>1, AfterAt
<1>5. SubSeq(source', src' + 1, Len(source')) = Decoder!After[n]
  <2>1. n \in 0..n BY <1>1
  <2> QED BY <1>1, <1>3, <2>1, AfterAt
<1> DEFINE f == [k \in 1..dst |-> target[k - 1]]
           g == [j \in 1..n |-> Decoder!First(Decoder!After[j - 1])]
           h == [k \in 1..dst' |-> target'[k - 1]]
           S == Char \cup {Any}
<1>6. \A k \in 0..dst - 1 : k \in DOMAIN target BY KeptInTarget
<1>7. \A k \in 1..n : dst + k - 1 \in DOMAIN target
  <2>1. \A k \in 1..n : dst + k - 1 \in 0..dst + len - 1 BY <1>1
  <2> QED BY <2>1, CellInTarget
<1>8. DOMAIN target' = DOMAIN target BY StoredDomain
<1>9. \A k \in DOMAIN target : target[k] \in S /\ target'[k] \in S BY <1>8 DEF CellsOK
<1>10. f \in [1..dst -> S]
  <2>1. \A k \in 1..dst : k - 1 \in 0..dst - 1 BY <1>1
  <2> HIDE DEF S
  <2> QED BY <1>6, <1>9, <2>1
<1>11. \A k \in 1..dst : target'[k - 1] = target[k - 1] BY CharsStay
<1>12. \A k \in 1..n : target'[dst + k - 1] = Decoder!First(Decoder!After[k - 1])
  <2> TAKE k \in 1..n
  <2> DEFINE i == dst + k - 1
  <2>1. k - 1 \in 0..n - 1 /\ dst <= i /\ i < dst + Len(cells) /\ i - dst + 1 = k
    BY <1>1
  <2>2. i \in DOMAIN target BY <1>7
  <2> HIDE DEF i
  <2>3. target'[i] = cells[i - dst + 1] BY <2>1, <2>2, StoredInside
  <2>4. target'[i] = Decoder!First(Decoder!After[k - 1]) BY <1>4, <2>1, <2>3
  <2> QED BY <2>4 DEF i
<1>13. \A k \in 1..n : h[dst + k] = g[k]
  <2> TAKE k \in 1..n
  <2>1. dst + k \in 1..dst' /\ dst + k - 1 = (dst + k) - 1 BY <1>1, <1>3
  <2>2. h[dst + k] = target'[dst + k - 1] BY <2>1
  <2> QED BY <1>12, <2>2
<1>14. g \in [1..n -> S]
  <2>1. \A k \in 1..n : Decoder!First(Decoder!After[k - 1]) \in S BY <1>7, <1>9, <1>12
  <2> HIDE DEF S
  <2> QED BY <2>1
<1>15. h \in [1..dst' -> S]
  <2>1. ASSUME NEW k \in 1..dst' PROVE k - 1 \in DOMAIN target
    <3>1. k <= dst => k - 1 \in 0..dst - 1 BY <1>1
    <3>2. ~(k <= dst) => k - dst \in 1..n /\ dst + (k - dst) - 1 = k - 1 BY <1>1, <1>3
    <3> QED BY <1>6, <1>7, <3>1, <3>2
  <2> HIDE DEF S
  <2> QED BY <1>3, <1>9, <2>1
<1>16. \A k \in 1..dst : h[k] = f[k]
  <2>1. \A k \in 1..dst : k \in 1..dst' BY <1>1, <1>3
  <2> QED BY <1>11, <2>1
<1> HIDE DEF f, g, h, S
<1>17. h = f \o g
  <2>1. dst \in Nat /\ n \in Nat /\ dst' \in Nat /\ dst' = dst + n BY <1>1, <1>3
  <2>2. f \in Seq(S) /\ Len(f) = dst BY <2>1, <1>10, IsSeqOf
  <2>3. g \in Seq(S) /\ Len(g) = n BY <2>1, <1>14, IsSeqOf
  <2>4. h \in Seq(S) /\ Len(h) = dst' BY <2>1, <1>15, IsSeqOf
  <2>5. Len(h) = Len(f) + Len(g) BY <2>1, <2>2, <2>3, <2>4
  <2>6. \A k \in 1..Len(f) : h[k] = f[k] BY <1>16, <2>2
  <2>7. \A k \in 1..Len(g) : h[Len(f) + k] = g[k] BY <1>13, <2>2, <2>3
  <2> QED BY <2>2, <2>3, <2>4, <2>5, <2>6, <2>7, Appended
<1>18. WellFormed' = WellFormed BY <1>1 DEF WellFormed, Called
<1> QED BY <1>1, <1>3, <1>4, <1>5, <1>17, <1>18 DEF Decoder!Take, f, g, h

-----------------------------------------------------------------------------
(* The steps that take what they see as it is.                             *)
\* The state before a step that decodes, and what does not change in it.
Decodes ==
  /\ IInv /\ CellsOK /\ CellsOK' /\ WellFormed /\ SplitsNoChar
  /\ pc # "returned" /\ UNCHANGED << args, pc, result >>

LEMMA TakesAreSteps == ASSUME NEW n \in 1..len, Decoder!Take(n) PROVE Decoder!Next
BY DEF Decoder!Next

LEMMA CursorFacts ==
  ASSUME IInv
  PROVE  /\ source \in Seq(Byte) /\ Len(source) \in Nat /\ off \in Nat /\ off <= src
         /\ src \in Nat /\ dst \in Nat /\ len \in Nat /\ rem \in Nat
         /\ src + rem = Len(source)
BY LenProperties DEF IInv, CursorTypes, CursorsAgree, Byte

LEMMA TakesOne ==
  ASSUME Decodes, NEW w, w = Width(source[src + 1]), w <= rem, len > 0,
         Advance(w, 1), target' = Stored(<< Value(Bytes(w)) >>)
  PROVE  Decoder!Next
<1>1. /\ IInv /\ CellsOK /\ CellsOK' /\ WellFormed
      /\ pc # "returned" /\ UNCHANGED << args, pc, result >>
  BY DEF Decodes
<1>2. src \in Nat /\ len \in Nat /\ rem \in Nat /\ Len(source) \in Nat /\ src + rem = Len(source)
  BY <1>1, CursorFacts
<1>3. w \in 1..3 BY DEF Width
<1> DEFINE p == [k \in 0..1 |-> IF k = 0 THEN src ELSE src + w]
           cells == << Value(Bytes(w)) >>
<1>4. p[0] = src /\ p[1] = src + w OBVIOUS
<1>5. Starts(p, 1)
  <2>1. p \in [0..1 -> Nat] BY <1>2, <1>3
  <2>2. \A j \in 1..1 : j = 1 /\ j - 1 = 0 OBVIOUS
  <2>3. src + w <= Len(source) BY <1>2, <1>3
  <2> HIDE DEF p
  <2> QED BY <1>4, <2>1, <2>2, <2>3 DEF Starts
<1>6. Advance(p[1] - src, 1)
  <2>1. (src + w) - src = w BY <1>2, <1>3
  <2> QED BY <1>4, <2>1
<1>7. cells[1] = Value(CharAt(p[0])) BY <1>4 DEF CharAt, Bytes
<1>8. Len(cells) = 1 /\ Fits(cells) BY <1>2, <1>7 DEF Fits
<1> HIDE DEF p, cells
<1>9. \A j \in 1..1 : cells[j] = Value(CharAt(p[j - 1])) BY <1>7
<1>10. 1 \in 1..len /\ 1 <= Len(cells) BY <1>2, <1>8
<1>11. Decoder!Take(1) BY <1>1, <1>5, <1>6, <1>8, <1>9, <1>10, TakesChars DEF cells
<1> QED BY <1>10, <1>11, TakesAreSteps

LEMMA AsciiCells ==
  ASSUME IInv, NEW q \in Nat, 1 <= q, q <= Len(source), Ascii(source[q])
  PROVE  Width(source[q]) = 1 /\ Value(SubSeq(source, q, q)) = source[q]
<1>1. source \in Seq(Byte) BY CursorFacts
<1>2. q \in Int /\ \A i \in q..q : source[i] \in Byte
  <2>1. Len(source) \in Nat BY <1>1, LenProperties
  <2> QED BY <1>1, <2>1, ElementOfSeq
<1> DEFINE b == SubSeq(source, q, q)
<1>3. /\ Len(b) = IF q <= q THEN q - q + 1 ELSE 0
      /\ \A i \in 1..q - q + 1 : b[i] = source[q + i - 1]
  BY <1>2, SubSeqProperties
<1>4. Len(b) = 1 /\ b[1] = source[q] BY <1>2, <1>3
<1> HIDE DEF b
<1>5. Value(b) = source[q] BY <1>4, SMT DEF Value
<1> QED BY <1>5 DEF b, Width

LEMMA AsciiCharTakes == ASSUME Decodes, AsciiChar PROVE Decoder!Next
<1>1. /\ IInv /\ len > 0 /\ rem > 0 /\ Ascii(source[src + 1])
      /\ target' = Stored(Bytes(1)) /\ Advance(1, 1)
  BY DEF Decodes, AsciiChar, More
<1>2. src \in Nat /\ len \in Nat /\ rem \in Nat /\ Len(source) \in Nat /\ src + rem = Len(source)
  BY <1>1, CursorFacts
<1>3. src + 1 \in Nat /\ 1 <= src + 1 /\ src + 1 <= Len(source) BY <1>1, <1>2
<1>4. Width(source[src + 1]) = 1 /\ Value(SubSeq(source, src + 1, src + 1)) = source[src + 1]
  BY <1>1, <1>3, AsciiCells
<1>5. Value(Bytes(1)) = source[src + 1] BY <1>4 DEF Bytes
<1>6. Bytes(1) = << Value(Bytes(1)) >>
  <2>1. 1 \in Nat /\ 1 <= rem BY <1>1, <1>2
  <2>2. Bytes(1) \in Seq(Byte) /\ Len(Bytes(1)) = 1 /\ \A i \in 1..1 : Bytes(1)[i] = source[src + i]
    BY <1>1, <2>1, BytesType
  <2>3. Bytes(1)[1] = source[src + 1] BY <2>2
  <2> QED BY <1>5, <2>2, <2>3
<1>7. 1 <= rem BY <1>1, <1>2
<1>8. target' = Stored(<< Value(Bytes(1)) >>) BY <1>1, <1>6
<1> QED BY <1>1, <1>4, <1>7, <1>8, TakesOne

LEMMA GeneralCharTakes == ASSUME Decodes, GeneralChar PROVE Decoder!Next
<1> DEFINE w == Width(source[src + 1])
<1>1. w <= rem /\ len > 0 /\ Advance(w, 1) /\ target' = Stored(<< Value(Bytes(w)) >>)
  BY DEF GeneralChar, More
<1>2. w = Width(source[src + 1]) OBVIOUS
<1> HIDE DEF w
<1> QED BY <1>1, <1>2, TakesOne

LEMMA VectorAsciiTakes == ASSUME Decodes, VectorAscii PROVE Decoder!Next
<1>1. /\ IInv /\ CellsOK /\ CellsOK' /\ WellFormed
      /\ pc # "returned" /\ UNCHANGED << args, pc, result >>
  BY DEF Decodes
<1>2. len >= Chunk /\ rem >= Chunk /\ AllAscii(Bytes(Chunk))
      /\ target' = Stored(Bytes(Chunk)) /\ Advance(Chunk, Chunk)
  BY DEF VectorAscii, Vector
<1>3. /\ src \in Nat /\ len \in Nat /\ rem \in Nat /\ Len(source) \in Nat
      /\ src + rem = Len(source) /\ Chunk \in Nat /\ Chunk >= 3
  BY <1>1, CursorFacts, ChunkAssumption
<1>4. /\ Chunk <= rem /\ Len(Bytes(Chunk)) = Chunk
      /\ \A i \in 1..Chunk : Bytes(Chunk)[i] = source[src + i]
  <2>1. Chunk <= rem BY <1>2, <1>3
  <2> QED BY <1>1, <1>3, <2>1, BytesType
<1> DEFINE p == [k \in 0..Chunk |-> src + k]
<1>5. ASSUME NEW j \in 1..Chunk
      PROVE  /\ p[j] = p[j - 1] + Width(source[p[j - 1] + 1]) /\ p[j] <= Len(source)
             /\ Bytes(Chunk)[j] = Value(CharAt(p[j - 1]))
  <2> DEFINE q == src + j
  <2>1. q \in Nat /\ 1 <= q /\ q <= Len(source) BY <1>2, <1>3
  <2>2. p[j] = q /\ p[j - 1] = q - 1 /\ (q - 1) + 1 = q
    <3>1. j \in 0..Chunk /\ j - 1 \in 0..Chunk /\ src + (j - 1) = q - 1 /\ (q - 1) + 1 = q
      BY <1>3
    <3> QED BY <3>1
  <2>3. Bytes(Chunk)[j] = source[q] /\ Ascii(source[q]) BY <1>2, <1>4 DEF AllAscii, Lanes
  <2> HIDE DEF q, p
  <2>4. Width(source[q]) = 1 /\ Value(SubSeq(source, q, q)) = source[q]
    BY <1>1, <2>1, <2>3, AsciiCells
  <2>5. p[j - 1] + 1 = q BY <2>2
  <2>6. p[j - 1] + Width(source[p[j - 1] + 1]) = q BY <2>1, <2>2, <2>4
  <2>7. CharAt(p[j - 1]) = SubSeq(source, q, q) BY <2>5, <2>6 DEF CharAt
  <2> QED BY <2>1, <2>2, <2>3, <2>4, <2>6, <2>7
<1>6. p[0] = src /\ p[Chunk] - src = Chunk BY <1>3
<1>7. p \in [0..Chunk -> Nat] BY <1>3
<1> HIDE DEF p
<1>8. Starts(p, Chunk) BY <1>5, <1>6, <1>7 DEF Starts
<1>9. Advance(p[Chunk] - src, Chunk) BY <1>2, <1>6
<1>10. Chunk \in 1..len /\ Chunk <= Len(Bytes(Chunk)) /\ Fits(Bytes(Chunk))
  BY <1>2, <1>3, <1>4 DEF Fits
<1>11. \A j \in 1..Chunk : Bytes(Chunk)[j] = Value(CharAt(p[j - 1])) BY <1>5
<1>12. Decoder!Take(Chunk) BY <1>1, <1>2, <1>8, <1>9, <1>10, <1>11, TakesChars
<1> QED BY <1>10, <1>12, TakesAreSteps

-----------------------------------------------------------------------------
(* A chunk of a well-formed source.                                        *)
\* A chunk of a well-formed source that starts with a char.
Started(v) ==
  /\ \A j \in Lanes : v[j] \in Byte /\ v[j] <= 239 /\ v[j] # 192 /\ v[j] # 193
  /\ Clean(v, Chunk)

LEMMA StartedChunk ==
  ASSUME IInv, WellFormed, SplitsNoChar, Chunk <= rem PROVE Started(Bytes(Chunk))
<1> DEFINE v == Bytes(Chunk)
<1>1. /\ off \in Nat /\ off <= src /\ src \in Nat /\ rem \in Nat /\ Len(source) \in Nat
      /\ src + rem = Len(source) /\ Chunk \in Nat /\ Chunk >= 3
  BY CursorFacts, ChunkAssumption
<1>2. \A j \in 1..Chunk : v[j] = source[src + j] /\ v[j] \in Byte BY <1>1, BytesType
<1> HIDE DEF v
<1>3. \A j \in 1..Chunk : src + j \in off + 1..Len(source) BY <1>1
<1>4. \A j \in 1..Chunk :
        /\ v[j] <= 239 /\ v[j] # 192 /\ v[j] # 193
        /\ Continues(v[j]) <=> Called(src + j)
  BY <1>2, <1>3 DEF WellFormed
<1>5. ~Continues(source[src + 1]) /\ rem > 0 BY <1>1 DEF SplitsNoChar
<1>6. src > off => ~Lead3(source[src]) BY <1>1, <1>5, NothingReaches
<1>7. ASSUME NEW j \in 1..Chunk PROVE Continues(v[j]) <=> Follows(v, j)
  <2>1. CASE j = 1
    <3>1. ~Follows(v, j) BY <2>1 DEF Follows
    <3>2. ~Continues(v[j]) BY <1>2, <1>5, <2>1
    <3> QED BY <3>1, <3>2
  <2>2. CASE j = 2
    <3> DEFINE q == src + j
    <3>1. 1 \in 1..Chunk /\ q - 1 = src + 1 /\ q - 2 = src /\ src + 1 > off /\ j - 1 = 1
      BY <1>1, <2>2
    <3>2. Continues(v[j]) <=> Called(q) BY <1>4
    <3> HIDE DEF q
    <3>3. Called(q) <=> Lead(source[src + 1]) BY <1>6, <3>1 DEF Called
    <3>4. Follows(v, j) <=> Lead(v[1]) BY <2>2, <3>1 DEF Follows
    <3> QED BY <1>2, <3>1, <3>2, <3>3, <3>4
  <2>3. CASE j > 2
    <3> DEFINE q == src + j
               b == j - 1
               a == j - 2
    <3>1. b \in 1..Chunk /\ a \in 1..Chunk /\ q - 1 = src + b /\ q - 2 = src + a
          /\ q - 1 > off /\ q - 2 > off
      BY <1>1, <2>3
    <3>2. Continues(v[j]) <=> Called(q) BY <1>4
    <3> HIDE DEF q
    <3>3. Called(q) <=> Lead(source[q - 1]) \/ Lead3(source[q - 2]) BY <3>1 DEF Called
    <3>4. Follows(v, j) <=> Lead(v[b]) \/ Lead3(v[a]) BY <2>3 DEF Follows
    <3> HIDE DEF a, b
    <3> QED BY <1>2, <3>1, <3>2, <3>3, <3>4
  <2> QED BY <2>1, <2>2, <2>3
<1>8. Clean(v, Chunk) BY <1>7 DEF Clean, Continues
<1> QED BY <1>2, <1>4, <1>8 DEF Started, Lanes, v

\* What a byte of such a chunk can be.
LEMMA LaneKinds ==
  ASSUME NEW v, Started(v), NEW i \in Lanes
  PROVE  /\ v[i] \in Byte /\ i \in Int /\ 1 <= i /\ i <= Chunk /\ Chunk \in Int
         /\ Continues(v[i]) <=> Follows(v, i)
         /\ Ascii(v[i]) => ~Lead(v[i]) /\ ~Continues(v[i])
         /\ Lead(v[i]) => ~Continues(v[i])
         /\ Lead3(v[i]) => Lead(v[i])
         /\ Ascii(v[i]) \/ Lead(v[i]) \/ Continues(v[i])
<1>1. v[i] \in Byte /\ v[i] # 192 /\ v[i] # 193 BY DEF Started
<1>2. Continues(v[i]) <=> Follows(v, i) BY DEF Started, Clean, Continues, Lanes
<1>3. i \in Int /\ 1 <= i /\ i <= Chunk /\ Chunk \in Int BY ChunkAssumption DEF Lanes
<1> QED BY <1>1, <1>2, <1>3 DEF Byte, Ascii, Lead, Lead3, Continues

\* After the last byte of a char another one starts.
LEMMA EndThenStart ==
  ASSUME NEW v, Started(v), NEW i \in Lanes, Ends(v, i), i + 1 \in Lanes
  PROVE  ~Continues(v[i + 1])
<1>1. i \in Int /\ 1 <= i /\ (i + 1) - 1 = i /\ (i + 1) - 2 = i - 1 BY LaneKinds
<1>2. ~Lead(v[i])
  <2>1. CASE Ascii(v[i]) BY <2>1, LaneKinds
  <2>2. CASE Follows(v, i) BY <2>2, LaneKinds
  <2> QED BY <2>1, <2>2 DEF Ends
<1>3. i > 1 => ~Lead3(v[i - 1])
  <2>1. CASE Ascii(v[i]) /\ i > 1
    <3>1. ~Follows(v, i) BY <2>1, LaneKinds
    <3>2. ~Lead(v[i - 1]) BY <2>1, <3>1 DEF Follows
    <3>3. i - 1 \in Lanes BY <1>1, <2>1, LaneKinds DEF Lanes
    <3> QED BY <3>2, <3>3, LaneKinds
  <2> QED BY <2>1 DEF Ends
<1>4. ~Follows(v, i + 1) BY <1>1, <1>2, <1>3 DEF Follows
<1> QED BY <1>4, LaneKinds

\* src_adv is where a char ends.
LEMMA AdvEnds ==
  ASSUME NEW v, Started(v)
  PROVE  SrcAdv(v) \in Lanes /\ Ends(v, SrcAdv(v))
<1> DEFINE n == SrcAdv(v)
<1>1. Chunk \in Int /\ Chunk >= 3 /\ n \in Int /\ 1 <= n /\ n <= Chunk
  BY ChunkAssumption, SrcAdvRange
<1>2. n \in Lanes BY <1>1 DEF Lanes
<1>3. /\ \A j \in 2..Chunk : Lead(v[j - 1]) => ~Lead(v[j])
      /\ \A j \in 3..Chunk : Lead3(v[j - 2]) => ~Lead(v[j])
  <2>1. ASSUME NEW j \in 2..Chunk, Lead(v[j - 1]) PROVE ~Lead(v[j])
    <3>1. j \in Lanes /\ j > 1 BY <1>1 DEF Lanes
    <3>2. Follows(v, j) BY <2>1, <3>1 DEF Follows
    <3> QED BY <3>1, <3>2, LaneKinds
  <2>2. ASSUME NEW j \in 3..Chunk, Lead3(v[j - 2]) PROVE ~Lead(v[j])
    <3>1. j \in Lanes /\ j > 2 BY <1>1 DEF Lanes
    <3>2. Follows(v, j) BY <2>2, <3>1 DEF Follows
    <3> QED BY <3>1, <3>2, LaneKinds
  <2> QED BY <2>1, <2>2
<1>4. Spaced(v) BY <1>3 DEF Spaced, Started
<1>5. \A i \in Lanes : Lead3(v[i]) => Lead(v[i]) BY LaneKinds
<1> DEFINE a == Chunk
           b == Chunk - 1
           c == Chunk - 2
<1>6. /\ a \in Lanes /\ b \in Lanes /\ c \in Lanes /\ a - 1 = b /\ b - 1 = c /\ a - 2 = c
      /\ a > 1 /\ b > 1 /\ a \in 2..Chunk /\ b \in 2..Chunk /\ a \in 3..Chunk
      /\ (c > 1 => c \in 2..Chunk /\ b \in 3..Chunk /\ c - 1 \in Lanes /\ b - 2 = c - 1)
  BY <1>1 DEF Lanes
<1>7. /\ Bit1(Counts(v, a)) <=> Lead(v[a]) \/ Lead3(v[b])
      /\ Bit1(Counts(v, b)) <=> Lead(v[b]) \/ Lead3(v[c])
  BY <1>4, <1>6, BitOfCounts
<1>8. n = IF ~Bit1(Counts(v, a)) THEN a ELSE IF ~Bit1(Counts(v, b)) THEN b ELSE c
  BY DEF SrcAdv
<1> HIDE DEF a, b, c, n
<1>9. ~Lead(v[n]) /\ (n > 1 => ~Lead3(v[n - 1]))
  <2>1. CASE n = a /\ ~Bit1(Counts(v, a)) BY <1>6, <1>7, <2>1
  <2>2. CASE n = b /\ ~Bit1(Counts(v, b)) BY <1>6, <1>7, <2>2
  <2>3. CASE n = c /\ Bit1(Counts(v, a)) /\ Bit1(Counts(v, b))
    <3>1. Lead(v[b]) => ~Lead(v[a]) /\ ~Lead(v[c])
      <4>1. Lead(v[b]) => ~Lead(v[a]) BY <1>3, <1>6
      <4>2. Lead(v[c]) => ~Lead(v[b]) BY <1>3, <1>6
      <4> QED BY <4>1, <4>2
    <3>2. Lead3(v[c]) => ~Lead(v[a]) /\ ~Lead(v[b])
      <4>1. Lead3(v[c]) => ~Lead(v[a]) BY <1>3, <1>6
      <4>2. Lead3(v[c]) => Lead(v[c]) BY <1>5, <1>6
      <4>3. Lead(v[c]) => ~Lead(v[b]) BY <1>3, <1>6
      <4> QED BY <4>1, <4>2, <4>3
    <3>3. Lead3(v[b]) => Lead(v[b]) BY <1>5, <1>6
    <3>4. Lead(v[b]) BY <1>7, <2>3, <3>2, <3>3
    <3>5. c > 1 => ~Lead3(v[c - 1])
      <4>1. c > 1 /\ Lead3(v[b - 2]) => ~Lead(v[b]) BY <1>3, <1>6
      <4> QED BY <1>6, <3>4, <4>1
    <3> QED BY <2>3, <3>1, <3>4, <3>5
  <2> QED BY <1>8, <2>1, <2>2, <2>3
<1>10. Ascii(v[n]) \/ Follows(v, n) BY <1>2, <1>9, LaneKinds
<1>11. Follows(v, n) => n > 1 BY <1>1 DEF Follows, n
<1>12. Ends(v, n) BY <1>9, <1>10, <1>11 DEF Ends
<1> QED BY <1>2, <1>12 DEF n

\* From the start of a char, its bytes end nothing but the last one.
LEMMA CharFrom ==
  ASSUME NEW v, Started(v), NEW s \in Lanes, ~Continues(v[s]), NEW w, w = Width(v[s])
  PROVE  /\ w \in 1..3
         /\ \A i \in Lanes : s <= i /\ i < s + w - 1 => ~Ends(v, i)
         /\ s + w - 1 \in Lanes => Ends(v, s + w - 1)
<1>1. w \in 1..3 BY DEF Width
<1>2. /\ v[s] \in Byte /\ s \in Int /\ 1 <= s /\ s <= Chunk /\ Chunk \in Int
      /\ Lead3(v[s]) => Lead(v[s])
      /\ ~Follows(v, s)
  BY LaneKinds
<1>3. /\ w = 1 => Ascii(v[s])
      /\ w = 2 => Lead(v[s]) /\ ~Lead3(v[s])
      /\ w = 3 => Lead3(v[s]) /\ Lead(v[s])
  <2>1. v[s] <= 239 /\ v[s] # 192 /\ v[s] # 193 BY DEF Started
  <2> QED BY <1>2, <2>1, WidthKinds
<1>4. CASE w = 1
  <2>1. Ends(v, s) BY <1>3, <1>4 DEF Ends
  <2>2. s + w - 1 = s BY <1>2, <1>4
  <2>3. \A i \in Lanes : ~(s <= i /\ i < s) BY <1>2 DEF Lanes
  <2> QED BY <1>1, <2>1, <2>2, <2>3
<1>5. ASSUME w # 1 PROVE ~Ends(v, s) /\ Lead(v[s]) /\ (w = 3 <=> Lead3(v[s]))
  <2>1. Lead(v[s]) /\ (w = 3 <=> Lead3(v[s])) BY <1>1, <1>3, <1>5
  <2>2. ~Ascii(v[s]) BY <2>1, LaneKinds
  <2> QED BY <1>2, <2>1, <2>2 DEF Ends
<1> DEFINE m == s + 1
           e == s + 2
<1>6. ASSUME w # 1, m \in Lanes
      PROVE  ~Lead(v[m]) /\ (Ends(v, m) <=> w = 2)
  <2>1. m > 1 /\ m - 1 = s BY <1>2
  <2> HIDE DEF m
  <2>2. Follows(v, m) BY <1>5, <1>6, <2>1 DEF Follows
  <2>3. ~Ascii(v[m]) /\ ~Lead(v[m]) BY <1>6, <2>2, LaneKinds
  <2>4. Ends(v, m) <=> ~Lead3(v[s]) BY <2>1, <2>2, <2>3 DEF Ends
  <2> QED BY <1>1, <1>5, <1>6, <2>3, <2>4
<1>7. CASE w = 2
  <2>1. s + w - 1 = m BY <1>2, <1>7
  <2>2. \A i \in Lanes : s <= i /\ i < m => i = s BY <1>2 DEF Lanes
  <2> HIDE DEF m
  <2> QED BY <1>1, <1>5, <1>6, <1>7, <2>1, <2>2
<1>8. CASE w = 3
  <2>1. s + w - 1 = e BY <1>2, <1>8
  <2>2. \A i \in Lanes : s <= i /\ i < e => i = s \/ i = m BY <1>2 DEF Lanes
  <2>3. e \in Lanes => m \in Lanes BY <1>2 DEF Lanes
  <2>4. e > 2 /\ e - 2 = s /\ e - 1 = m BY <1>2
  <2> HIDE DEF m, e
  <2>5. ASSUME e \in Lanes PROVE Ends(v, e)
    <3>1. Follows(v, e) BY <1>5, <1>8, <2>4 DEF Follows
    <3>2. ~Lead(v[m]) BY <1>6, <1>8, <2>3, <2>5
    <3>3. ~Lead3(v[m]) BY <2>3, <2>5, <3>2, LaneKinds
    <3> QED BY <2>4, <3>1, <3>3 DEF Ends
  <2> QED BY <1>1, <1>5, <1>6, <1>8, <2>1, <2>2, <2>5
<1> QED BY <1>1, <1>4, <1>7, <1>8

\* The vector loop decodes such a char as the general loop would.
LEMMA DecodedIsValue ==
  ASSUME NEW v, Started(v), NEW s \in Lanes, ~Continues(v[s]), NEW w, w = Width(v[s]),
         s + w - 1 \in Lanes, NEW b \in Seq(Byte), Len(b) = w,
         \A j \in 1..w : b[j] = v[s + j - 1]
  PROVE  Decoded(v, s + w - 1) = Value(b)
<1>1. /\ w \in 1..3
      /\ v[s] \in Byte /\ s \in Int /\ 1 <= s /\ s <= Chunk /\ Chunk \in Int
      /\ ~Follows(v, s)
  BY LaneKinds, CharFrom
<1>2. /\ w = 1 => Ascii(v[s])
      /\ w = 2 => Lead(v[s]) /\ ~Lead3(v[s])
      /\ w = 3 => Lead3(v[s]) /\ Lead(v[s])
  <2>1. v[s] <= 239 /\ v[s] # 192 /\ v[s] # 193 BY DEF Started
  <2> QED BY <1>1, <2>1, WidthKinds
<1>3. CASE w = 1
  <2>1. s + w - 1 = s /\ 1 \in 1..w /\ s + 1 - 1 = s BY <1>1, <1>3
  <2>2. b[1] = v[s] BY <2>1
  <2>3. Value(b) = b[1] BY <1>3, SMT DEF Value
  <2>4. Decoded(v, s) = v[s] BY <1>2, <1>3 DEF Decoded
  <2> QED BY <2>1, <2>2, <2>3, <2>4
<1>4. CASE w = 2
  <2> DEFINE i == s + 1
  <2>1. s + w - 1 = i /\ 1 \in 1..w /\ 2 \in 1..w /\ s + 1 - 1 = s /\ s + 2 - 1 = i /\ i - 1 = s /\ i > 1
    BY <1>1, <1>4
  <2> HIDE DEF i
  <2>2. b[1] = v[s] /\ b[2] = v[i] BY <2>1
  <2>3. Value(b) = (b[1] % 32) * 64 + (b[2] % 64) BY <1>4, SMT DEF Value
  <2>4. ~Ascii(v[i])
    <3>1. Follows(v, i) BY <1>2, <1>4, <2>1 DEF Follows
    <3> QED BY <2>1, <3>1, LaneKinds
  <2>5. Decoded(v, i) = (v[s] % 32) * 64 + (v[i] % 64) BY <1>2, <1>4, <2>1, <2>4 DEF Decoded
  <2> QED BY <2>1, <2>2, <2>3, <2>5
<1>5. CASE w = 3
  <2> DEFINE m == s + 1
             i == s + 2
  <2>1. /\ s + w - 1 = i /\ 1 \in 1..w /\ 2 \in 1..w /\ 3 \in 1..w
        /\ s + 1 - 1 = s /\ s + 2 - 1 = m /\ s + 3 - 1 = i
        /\ i - 1 = m /\ i - 2 = s /\ m - 1 = s /\ m > 1 /\ i > 2
    BY <1>1, <1>5
  <2>2. m \in Lanes BY <1>1, <2>1 DEF Lanes
  <2> HIDE DEF i, m
  <2>3. b[1] = v[s] /\ b[2] = v[m] /\ b[3] = v[i]
    <3>1. b[1] = v[s + 1 - 1] /\ b[2] = v[s + 2 - 1] /\ b[3] = v[s + 3 - 1] BY <2>1
    <3> QED BY <2>1, <3>1
  <2>4. Value(b) = (b[1] % 16) * 4096 + (b[2] % 64) * 64 + (b[3] % 64)
    BY <1>5, SMT DEF Value
  <2>5. ~Ascii(v[i])
    <3>1. Follows(v, i) BY <1>2, <1>5, <2>1 DEF Follows
    <3> QED BY <2>1, <3>1, LaneKinds
  <2>6. ~Lead(v[m])
    <3>1. Follows(v, m) BY <1>2, <1>5, <2>1 DEF Follows
    <3> QED BY <2>2, <3>1, LaneKinds
  <2>7. Decoded(v, i) = (v[s] % 16) * 4096 + (v[m] % 64) * 64 + (v[i] % 64)
    BY <2>1, <2>5, <2>6 DEF Decoded
  <2> QED BY <2>1, <2>3, <2>4, <2>7
<1> QED BY <1>1, <1>3, <1>4, <1>5

-----------------------------------------------------------------------------
(* Counting the chars that end in a chunk.                                 *)
\* The chars that end in the first i lanes.
Rank(v, i) == i - Shift(v, i)

LEMMA RankSteps ==
  ASSUME NEW v
  PROVE  /\ Rank(v, 0) = 0
         /\ \A i \in Nat : Rank(v, i) \in Nat /\ Rank(v, i) <= i
         /\ \A i \in Nat \ {0} : Rank(v, i) = Rank(v, i - 1) + (IF Ends(v, i) THEN 1 ELSE 0)
<1>1. \A i \in Nat : Rank(v, i) \in Nat /\ Rank(v, i) <= i BY ShiftRange DEF Rank
<1>2. Rank(v, 0) = 0 BY <1>1
<1>3. ASSUME NEW i \in Nat \ {0}
      PROVE  Rank(v, i) = Rank(v, i - 1) + (IF Ends(v, i) THEN 1 ELSE 0)
  <2> DEFINE S == {j \in 1..i - 1 : ~Ends(v, j)}
             T == {j \in 1..i : ~Ends(v, j)}
  <2>1. IsFiniteSet(S) /\ Cardinality(S) \in Nat
    <3>1. 1 \in Int /\ i - 1 \in Int OBVIOUS
    <3>2. IsFiniteSet(1..i - 1) BY <3>1, FS_Interval
    <3>3. S \subseteq 1..i - 1 OBVIOUS
    <3> HIDE DEF S
    <3> QED BY <3>2, <3>3, FS_Subset, FS_CardinalityType
  <2>2. i \notin S OBVIOUS
  <2>3. T = IF Ends(v, i) THEN S ELSE S \cup {i} OBVIOUS
  <2>4. Shift(v, i - 1) = Cardinality(S) /\ Shift(v, i) = Cardinality(T) BY DEF Shift
  <2> HIDE DEF S, T
  <2>5. Cardinality(S \cup {i}) = Cardinality(S) + 1 BY <2>1, <2>2, FS_AddElement
  <2> QED BY <2>1, <2>3, <2>4, <2>5 DEF Rank
<1> QED BY <1>1, <1>2, <1>3

LEMMA RankGrows ==
  ASSUME NEW v, NEW i \in Nat, NEW j \in Nat, i <= j PROVE Rank(v, i) <= Rank(v, j)
<1> DEFINE N == {d \in Nat : Rank(v, i) <= Rank(v, i + d)}
<1>1. 0 \in N
  <2>1. i + 0 = i OBVIOUS
  <2>2. Rank(v, i) \in Nat BY RankSteps
  <2> QED BY <2>1, <2>2
<1>2. ASSUME NEW d \in Nat, d \in N PROVE d + 1 \in N
  <2> DEFINE k == i + d + 1
  <2>1. k \in Nat \ {0} /\ k - 1 = i + d /\ i + (d + 1) = k /\ d + 1 \in Nat OBVIOUS
  <2>2. Rank(v, i) <= Rank(v, i + d) BY <1>2
  <2> HIDE DEF k
  <2>3. Rank(v, k) = Rank(v, k - 1) + (IF Ends(v, k) THEN 1 ELSE 0) BY <2>1, RankSteps
  <2>4. Rank(v, i) \in Nat /\ Rank(v, k - 1) \in Nat
    <3>1. k - 1 \in Nat BY <2>1
    <3> QED BY <3>1, RankSteps
  <2>5. Rank(v, i) <= Rank(v, k) BY <2>1, <2>2, <2>3, <2>4
  <2> QED BY <2>1, <2>5
<1> HIDE DEF N
<1>3. Nat \subseteq N BY <1>1, <1>2, Induction
<1>4. j - i \in N /\ i + (j - i) = j BY <1>3
<1> QED BY <1>4 DEF N

\* Where the chars of the first n lanes end; the last of them ends in lane n.
EndsAt(v, n, e) ==
  /\ e \in [0..Rank(v, n) -> 0..n]
  /\ e[0] = 0 /\ e[Rank(v, n)] = n
  /\ \A k \in 1..Rank(v, n) :
       /\ e[k - 1] < e[k] /\ Ends(v, e[k])
       /\ Rank(v, e[k]) = k
       /\ \A i \in Nat : e[k - 1] < i /\ i < e[k] => ~Ends(v, i)
       /\ \A i \in Nat \ {0} : Ends(v, i) /\ Rank(v, i) = k => i = e[k]

LEMMA EndsExist ==
  ASSUME NEW v, NEW n \in Nat \ {0}, Ends(v, n)
  PROVE  Rank(v, n) \in 1..n /\ \E e : EndsAt(v, n, e)
<1> DEFINE r(i) == Rank(v, i)
           K == r(n)
<1>1. /\ r(0) = 0
      /\ \A i \in Nat : r(i) \in Nat /\ r(i) <= i
      /\ \A i \in Nat \ {0} : r(i) = r(i - 1) + (IF Ends(v, i) THEN 1 ELSE 0)
  BY RankSteps
<1>2. \A i, j \in Nat : i <= j => r(i) <= r(j) BY RankGrows
<1> HIDE DEF r
<1>3. r(n) = r(n - 1) + 1 /\ n - 1 \in Nat BY <1>1
<1>4. K \in 1..n
  <2>1. r(n - 1) \in Nat /\ r(n) \in Nat /\ r(n) <= n BY <1>1, <1>3
  <2> QED BY <1>3, <2>1
<1> DEFINE LeastWith(k, m) == m \in Nat /\ r(m) >= k /\ \A i \in Nat : r(i) >= k => m <= i
<1> HIDE DEF K
<1>5. ASSUME NEW k \in 0..K PROVE \E m : LeastWith(k, m)
  <2> DEFINE T == {i \in Nat : r(i) >= k}
  <2>1. n \in T
    <3>1. r(n) \in Nat BY <1>1
    <3> QED BY <3>1 DEF K
  <2>2. T \in SUBSET Nat /\ T # {} BY <2>1
  <2> HIDE DEF T
  <2>3. PICK m \in T : \A i \in T : m <= i BY <2>2, Least
  <2> QED BY <2>3 DEF T
<1> DEFINE e == [k \in 0..K |-> CHOOSE m : LeastWith(k, m)]
<1>6. ASSUME NEW k \in 0..K PROVE LeastWith(k, e[k])
  <2>1. e[k] = CHOOSE m : LeastWith(k, m) OBVIOUS
  <2> HIDE DEF e, LeastWith
  <2> QED BY <1>5, <2>1
<1> HIDE DEF e
<1>7. ASSUME NEW k \in 0..K
      PROVE  /\ e[k] \in 0..n /\ r(e[k]) >= k
             /\ \A i \in Nat : i < e[k] => r(i) < k
  <2>1. e[k] \in Nat /\ r(e[k]) >= k /\ \A i \in Nat : r(i) >= k => e[k] <= i BY <1>6
  <2>2. n \in Nat /\ r(n) >= k
    <3>1. r(n) \in Nat BY <1>1
    <3> QED BY <3>1 DEF K
  <2>3. e[k] <= n BY <2>1, <2>2
  <2>4. ASSUME NEW i \in Nat, i < e[k] PROVE r(i) < k
    <3>1. r(i) \in Nat BY <1>1
    <3> QED BY <2>1, <2>4, <3>1
  <2> QED BY <2>1, <2>3, <2>4
<1>8. ASSUME NEW k \in 1..K
      PROVE  /\ e[k] \in Nat \ {0} /\ e[k] \in 0..n /\ r(e[k]) = k /\ Ends(v, e[k])
             /\ r(e[k] - 1) = k - 1
  <2>1. e[k] \in 0..n /\ r(e[k]) >= k /\ \A i \in Nat : i < e[k] => r(i) < k
    BY <1>4, <1>7
  <2> DEFINE m == e[k]
  <2> HIDE DEF m
  <2>2. m \in Nat \ {0}
    <3>1. m # 0 BY <1>1, <2>1 DEF m
    <3> QED BY <2>1, <3>1 DEF m
  <2>3. m - 1 \in Nat /\ m - 1 < m BY <2>2
  <2>4. r(m - 1) < k /\ r(m - 1) \in Nat BY <1>1, <2>1, <2>3 DEF m
  <2>5. r(m) = r(m - 1) + (IF Ends(v, m) THEN 1 ELSE 0) BY <1>1, <2>2
  <2>6. r(m) >= k BY <2>1 DEF m
  <2>7. r(m) = k /\ Ends(v, m) /\ r(m - 1) = k - 1 BY <2>4, <2>5, <2>6
  <2> QED BY <2>1, <2>2, <2>7 DEF m
<1>9. e[0] = 0
  <2>1. e[0] \in Nat /\ \A i \in Nat : r(i) >= 0 => e[0] <= i BY <1>4, <1>6
  <2>2. r(0) >= 0 BY <1>1
  <2> QED BY <2>1, <2>2
<1>10. ASSUME NEW k \in 1..K PROVE e[k - 1] \in Nat /\ r(e[k - 1]) = k - 1
  <2>1. CASE k = 1
    <3>1. k - 1 = 0 BY <2>1
    <3> QED BY <1>1, <1>9, <3>1
  <2>2. CASE k # 1
    <3>1. k - 1 \in 1..K BY <1>4, <2>2
    <3> QED BY <1>8, <3>1
  <2> QED BY <2>1, <2>2
<1>11. e[K] = n
  <2>1. K \in 1..K BY <1>4
  <2>2. e[K] \in 0..n /\ r(e[K]) = K BY <1>8, <2>1
  <2>3. ASSUME e[K] < n PROVE FALSE
    <3>1. e[K] \in Nat /\ e[K] <= n - 1 BY <2>2, <2>3
    <3>2. r(e[K]) <= r(n - 1) BY <1>2, <1>3, <3>1
    <3>3. r(n - 1) \in Nat BY <1>1, <1>3
    <3>4. K = r(n - 1) + 1 BY <1>3 DEF K
    <3> QED BY <2>2, <3>2, <3>3, <3>4
  <2> QED BY <2>2, <2>3
<1>12. ASSUME NEW k \in 1..K, NEW i \in Nat \ {0}, Ends(v, i), r(i) = k PROVE i = e[k]
  <2>1. e[k] \in Nat /\ \A j \in Nat : r(j) >= k => e[k] <= j /\ r(e[k]) = k BY <1>4, <1>6, <1>8
  <2>2. e[k] <= i BY <1>12, <2>1
  <2>3. ASSUME e[k] < i PROVE FALSE
    <3>1. e[k] <= i - 1 /\ i - 1 \in Nat BY <2>1, <2>3
    <3>2. r(e[k]) <= r(i - 1) BY <1>2, <2>1, <3>1
    <3>3. r(i) = r(i - 1) + 1 BY <1>1, <1>12
    <3>4. r(i - 1) \in Nat BY <1>1, <3>1
    <3>5. r(e[k]) = k BY <1>8
    <3> QED BY <1>12, <3>2, <3>3, <3>4, <3>5
  <2> QED BY <2>1, <2>2, <2>3
<1>13. ASSUME NEW k \in 1..K PROVE e[k - 1] < e[k]
  <2>1. e[k] \in Nat /\ r(e[k]) = k /\ e[k - 1] \in Nat /\ r(e[k - 1]) = k - 1 BY <1>8, <1>10
  <2>2. e[k] <= e[k - 1] => r(e[k]) <= r(e[k - 1]) BY <1>2, <2>1
  <2> QED BY <2>1, <2>2
<1>14. ASSUME NEW k \in 1..K, NEW i \in Nat, e[k - 1] < i, i < e[k] PROVE ~Ends(v, i)
  <2>1. k \in 0..K /\ e[k - 1] \in Nat /\ r(e[k - 1]) = k - 1 BY <1>4, <1>10
  <2>2. r(i) < k BY <1>7, <1>14, <2>1
  <2>3. i \in Nat \ {0} /\ i - 1 \in Nat /\ e[k - 1] <= i - 1 BY <1>14, <2>1
  <2>4. r(e[k - 1]) <= r(i - 1) BY <1>2, <2>1, <2>3
  <2>5. r(i) = r(i - 1) + (IF Ends(v, i) THEN 1 ELSE 0) BY <1>1, <2>3
  <2>6. r(i - 1) \in Nat BY <1>1, <2>3
  <2> QED BY <2>1, <2>2, <2>4, <2>5, <2>6
<1>15. e \in [0..K -> 0..n] BY <1>7 DEF e
<1>16. EndsAt(v, n, e)
  BY <1>8, <1>9, <1>11, <1>12, <1>13, <1>14, <1>15 DEF EndsAt, K, r
<1> QED BY <1>4, <1>16 DEF K, r

-----------------------------------------------------------------------------
(* The step that compacts a chunk.                                         *)
\* The k-th cell that is kept is the value of the k-th char.
LEMMA KeptIsDecoded ==
  ASSUME NEW v, Started(v), NEW n \in Lanes, NEW e, EndsAt(v, n, e), NEW k \in 1..Rank(v, n)
  PROVE  /\ e[k - 1] + 1 \in Lanes /\ ~Continues(v[e[k - 1] + 1])
         /\ e[k] = e[k - 1] + Width(v[e[k - 1] + 1]) /\ e[k] \in Lanes
         /\ Compacted(v)[k] = Decoded(v, e[k])
<1> DEFINE a == e[k - 1]
           z == e[k]
           s == a + 1
           w == Width(v[s])
<1>1. Chunk \in Nat /\ n \in Nat /\ n \in 1..Chunk BY ChunkAssumption DEF Lanes
<1>2. Rank(v, n) \in Nat /\ Rank(v, n) <= n BY <1>1, RankSteps
<1>3. /\ a < z /\ Ends(v, z) /\ Rank(v, z) = k
      /\ \A i \in Nat : a < i /\ i < z => ~Ends(v, i)
      /\ \A i \in Nat \ {0} : Ends(v, i) /\ Rank(v, i) = k => i = z
      /\ e \in [0..Rank(v, n) -> 0..n] /\ e[0] = 0
  BY DEF EndsAt
<1>4. a \in 0..n /\ z \in 0..n
  <2>1. k - 1 \in 0..Rank(v, n) /\ k \in 0..Rank(v, n) BY <1>2
  <2> QED BY <1>3, <2>1
<1>5. s \in Lanes /\ z \in Lanes /\ s \in Nat /\ s <= z /\ a \in Nat /\ z \in Nat
  BY <1>1, <1>3, <1>4 DEF Lanes
<1>6. ~Continues(v[s])
  <2>1. CASE k = 1
    <3>1. s = 1 BY <1>3, <2>1
    <3>2. ~Follows(v, s) BY <3>1 DEF Follows
    <3> QED BY <1>5, <3>2, LaneKinds
  <2>2. CASE k # 1
    <3>1. k - 1 \in 1..Rank(v, n) BY <1>2, <2>2
    <3>2. Ends(v, a) /\ e[k - 1 - 1] < a BY <3>1 DEF EndsAt
    <3>3. e[k - 1 - 1] \in Nat
      <4>1. k - 1 - 1 \in 0..Rank(v, n) BY <1>2, <3>1
      <4>2. e[k - 1 - 1] \in 0..n BY <1>3, <4>1
      <4> QED BY <1>1, <4>2
    <3>4. a \in Lanes BY <1>1, <1>4, <3>2, <3>3 DEF Lanes
    <3> HIDE DEF a
    <3> QED BY <1>5, <3>2, <3>4, EndThenStart
  <2> QED BY <2>1, <2>2
<1> HIDE DEF a, z, s, w
<1>7. /\ w \in 1..3
      /\ \A i \in Lanes : s <= i /\ i < s + w - 1 => ~Ends(v, i)
      /\ s + w - 1 \in Lanes => Ends(v, s + w - 1)
  BY <1>5, <1>6, CharFrom DEF w
<1>8. z = s + w - 1
  <2>1. ~(z < s + w - 1) BY <1>3, <1>5, <1>7
  <2>2. ASSUME s + w - 1 < z PROVE FALSE
    <3> DEFINE i == s + w - 1
    <3>1. i \in Nat /\ a < i /\ i < z /\ i \in Lanes
      BY <1>1, <1>4, <1>5, <1>7, <2>2 DEF Lanes, s
    <3> HIDE DEF i
    <3>2. ~Ends(v, i) BY <1>3, <3>1
    <3>3. Ends(v, i) BY <1>7, <3>1 DEF i
    <3> QED BY <3>2, <3>3
  <2> QED BY <1>5, <1>7, <2>1, <2>2
<1>9. z = a + w BY <1>5, <1>7, <1>8 DEF s
<1>10. Compacted(v)[k] = Decoded(v, z)
  <2> DEFINE last == {i \in Lanes : Clean(v, i) /\ Ends(v, i) /\ i - Shift(v, i) = k}
  <2>1. k \in Lanes BY <1>1, <1>2 DEF Lanes
  <2>2. Compacted(v)[k] = IF last = {} THEN Any ELSE Decoded(v, CHOOSE i \in last : TRUE)
    BY <2>1 DEF Compacted
  <2>3. Clean(v, z)
    <3>1. \A i \in 1..z : i \in 1..Chunk BY <1>1, <1>5 DEF Lanes
    <3> QED BY <3>1 DEF Started, Clean
  <2>4. z \in last BY <1>3, <1>5, <2>3 DEF Rank
  <2>5. \A i \in last : i = z
    <3> TAKE i \in last
    <3>1. i \in Nat \ {0} BY <1>1 DEF Lanes
    <3>2. Ends(v, i) /\ Rank(v, i) = k BY DEF Rank
    <3> QED BY <1>3, <3>1, <3>2
  <2>6. last = {z} BY <2>4, <2>5
  <2> HIDE DEF last
  <2>7. (CHOOSE i \in last : TRUE) = z BY <2>6
  <2> QED BY <2>2, <2>6, <2>7
<1> QED BY <1>5, <1>6, <1>9, <1>10 DEF s, w, z, a

LEMMA VectorMixedTakes ==
  ASSUME Decodes, Vector, target' = Stored(Compacted(Bytes(Chunk))),
         NEW kept \in DstAdv(Bytes(Chunk)), Advance(SrcAdv(Bytes(Chunk)), kept)
  PROVE  Decoder!Next
<1> DEFINE v == Bytes(Chunk)
           n == SrcAdv(v)
           cells == Compacted(v)
<1>1. /\ IInv /\ CellsOK /\ CellsOK' /\ WellFormed /\ SplitsNoChar
      /\ pc # "returned" /\ UNCHANGED << args, pc, result >>
  BY DEF Decodes
<1>2. /\ src \in Nat /\ len \in Nat /\ rem \in Nat /\ Len(source) \in Nat
      /\ src + rem = Len(source) /\ Chunk \in Nat /\ Chunk >= 3
      /\ len >= Chunk /\ rem >= Chunk /\ source \in Seq(Byte)
  BY <1>1, CursorFacts, ChunkAssumption DEF Vector
<1>3. /\ Chunk <= rem
      /\ \A i \in 1..Chunk : v[i] = source[src + i] /\ v[i] \in Byte
  <2>1. Chunk <= rem BY <1>2
  <2> QED BY <1>1, <1>2, <2>1, BytesType
<1>4. Started(v) BY <1>1, <1>3, StartedChunk
<1>5. kept \in DstAdv(v) /\ Advance(n, kept) /\ target' = Stored(cells) OBVIOUS
<1> HIDE DEF v
<1>6. n \in Lanes /\ Ends(v, n) BY <1>4, AdvEnds
<1>7. Len(cells) = Chunk
  <2>1. \A j \in Lanes : v[j] \in Byte BY <1>3 DEF Lanes
  <2> QED BY <2>1, CompactedType
<1>8. kept = Rank(v, n) BY <1>4, <1>5 DEF DstAdv, Started, Rank
<1> HIDE DEF n, cells
<1>9. n \in Nat \ {0} /\ n <= Chunk BY <1>2, <1>6 DEF Lanes
<1>10. Rank(v, n) \in 1..n /\ \E e : EndsAt(v, n, e) BY <1>6, <1>9, EndsExist
<1>11. PICK e : EndsAt(v, n, e) BY <1>10
<1>12. kept \in 1..n /\ kept \in Nat BY <1>8, <1>9, <1>10
<1> DEFINE p == [k \in 0..kept |-> src + e[k]]
<1>13. /\ e \in [0..kept -> 0..n] /\ e[0] = 0 /\ e[kept] = n BY <1>8, <1>11 DEF EndsAt
<1>14. p \in [0..kept -> Nat] /\ p[0] = src /\ p[kept] = src + n
       /\ \A k \in 0..kept : p[k] = src + e[k]
  <2>1. \A k \in 0..kept : e[k] \in 0..n BY <1>13
  <2>2. 0 \in 0..kept /\ kept \in 0..kept BY <1>12
  <2>3. \A k \in 0..kept : src + e[k] \in Nat BY <1>2, <1>9, <2>1
  <2>4. src + 0 = src BY <1>2
  <2> QED BY <1>13, <2>2, <2>3, <2>4
<1> HIDE DEF p
<1>15. ASSUME NEW k \in 1..kept
       PROVE  /\ p[k] = p[k - 1] + Width(source[p[k - 1] + 1]) /\ p[k] <= Len(source)
              /\ cells[k] = Value(CharAt(p[k - 1]))
  <2> DEFINE a == e[k - 1]
             s == a + 1
             w == Width(v[s])
             q == p[k - 1]
             b == CharAt(q)
  <2>1. /\ s \in Lanes /\ ~Continues(v[s])
        /\ e[k] = a + w /\ e[k] \in Lanes /\ cells[k] = Decoded(v, e[k])
    BY <1>4, <1>6, <1>8, <1>11, KeptIsDecoded DEF cells
  <2>2. k - 1 \in 0..kept /\ k \in 0..kept BY <1>12
  <2>3. a \in Nat
    <3>1. a \in 0..n BY <1>13, <2>2
    <3> QED BY <1>9, <3>1
  <2>4. q = src + a /\ p[k] = src + e[k] BY <1>14, <2>2
  <2> HIDE DEF a, q
  <2>5. s \in 1..Chunk /\ q + 1 = src + s BY <1>2, <2>1, <2>3, <2>4 DEF Lanes
  <2>6. source[q + 1] = v[s] BY <1>3, <2>5
  <2> HIDE DEF s
  <2>7. w \in 1..3 BY DEF Width
  <2>8. w = Width(source[q + 1]) BY <2>6
  <2> HIDE DEF w
  <2>9. e[k] = s + w - 1 /\ e[k] \in Nat /\ e[k] <= Chunk /\ s \in Nat
    BY <1>2, <2>1, <2>3, <2>5, <2>7 DEF Lanes, s
  <2>10. p[k] = q + w /\ p[k] <= Len(source) BY <1>2, <2>1, <2>3, <2>4, <2>7, <2>9
  <2>11. b \in Seq(Byte) /\ Len(b) = w /\ \A j \in 1..w : b[j] = v[s + j - 1]
    <3> DEFINE m == q + 1
               z == q + w
    <3>1. q \in Nat /\ m \in Int /\ z \in Int /\ z - m + 1 = w /\ m <= z
      BY <1>2, <2>3, <2>4, <2>7
    <3>2. b = SubSeq(source, m, z) BY <2>8 DEF CharAt
    <3>3. \A i \in m..z : source[i] \in Byte
      <4>1. \A i \in m..z : i \in 1..Len(source) BY <1>2, <2>10, <3>1
      <4> QED BY <1>2, <4>1, ElementOfSeq
    <3>4. \A j \in 1..w : m + j - 1 = src + (s + j - 1) /\ s + j - 1 \in 1..Chunk
      BY <1>2, <2>5, <2>7, <2>9, <3>1
    <3> HIDE DEF m, z
    <3>5. /\ b \in Seq(Byte) /\ Len(b) = IF m <= z THEN z - m + 1 ELSE 0
          /\ \A j \in 1..z - m + 1 : b[j] = source[m + j - 1]
      BY <3>1, <3>2, <3>3, SubSeqProperties
    <3>6. ASSUME NEW j \in 1..w PROVE b[j] = v[s + j - 1]
      <4>1. b[j] = source[m + j - 1] BY <3>1, <3>5
      <4>2. v[s + j - 1] = source[src + (s + j - 1)] BY <1>3, <3>4
      <4> QED BY <3>4, <4>1, <4>2
    <3> QED BY <3>1, <3>5, <3>6
  <2> HIDE DEF b
  <2>12. s + w - 1 \in Lanes /\ w = Width(v[s]) BY <2>1, <2>9 DEF w
  <2>13. Decoded(v, s + w - 1) = Value(b) BY <1>4, <2>1, <2>11, <2>12, DecodedIsValue
  <2>14. cells[k] = Value(b) BY <2>1, <2>9, <2>13
  <2> QED BY <2>8, <2>10, <2>14 DEF b, q
<1>16. Starts(p, kept) BY <1>14, <1>15 DEF Starts
<1>17. p[kept] - src = n BY <1>2, <1>9, <1>14
<1>18. Advance(p[kept] - src, kept) BY <1>5, <1>17
<1>19. kept \in 1..len /\ kept <= Len(cells) /\ Fits(cells)
  BY <1>2, <1>7, <1>9, <1>12 DEF Fits
<1>20. \A j \in 1..kept : cells[j] = Value(CharAt(p[j - 1])) BY <1>15
<1>21. Decoder!Take(kept) BY <1>1, <1>5, <1>16, <1>18, <1>19, <1>20, TakesChars
<1> QED BY <1>19, <1>21, TakesAreSteps

-----------------------------------------------------------------------------
(* Every step decodes some chars, ends the call, or changes nothing that   *)
(* the abstract decoder has.                                               *)
\* A step that ends the call ends the decoder.
LEMMA EndsDecoder ==
  ASSUME IInv, pc = "general", pc' = "returned", UNCHANGED << args, target, cursors >>,
         \/ More /\ Width(source[src + 1]) > rem /\ result' = -1
         \/ ~More /\ result' = src - off
  PROVE  Decoder!Next
<1>1. /\ source \in Seq(Byte) /\ off \in Nat /\ off <= src
      /\ src \in Nat /\ len \in Nat /\ rem \in Nat /\ Len(source) \in Nat
      /\ src + rem = Len(source)
  BY CursorFacts
<1> DEFINE b == SubSeq(source, src + 1, Len(source))
<1>2. b \in Seq(Byte) /\ Len(b) = rem /\ \A i \in 1..rem : b[i] = source[src + i]
  <2>1. src <= Len(source) /\ Len(source) - src = rem BY <1>1
  <2> QED BY <1>1, <2>1, SuffixOf
<1>3. source' = source /\ off' = off /\ src' = src /\ dst' = dst /\ len' = len /\ target' = target
  BY DEF args, cursors
<1>4. WellFormed' = WellFormed BY <1>3 DEF WellFormed, Called
<1>5. SubSeq(source', src' + 1, Len(source')) = b BY <1>3
<1> HIDE DEF b
<1>6. b = << >> <=> rem = 0 BY <1>2
<1>7. CASE More /\ Width(source[src + 1]) > rem /\ result' = -1
  <2>1. len # 0 /\ b # << >> /\ 1 \in 1..rem BY <1>1, <1>6, <1>7 DEF More
  <2>2. b[1] = source[src + 1] BY <1>2, <2>1
  <2>3. ~(Width(b[1]) <= Len(b))
    <3>1. Width(b[1]) \in Nat BY DEF Width
    <3> QED BY <1>1, <1>2, <1>7, <2>2, <3>1
  <2>4. ~Decoder!Whole(b) BY <2>3 DEF Decoder!Whole
  <2>5. Decoder!Finish BY <1>3, <1>4, <1>5, <1>7, <2>1, <2>4 DEF Decoder!Finish, b
  <2> QED BY <2>5 DEF Decoder!Next
<1>8. CASE ~More /\ result' = src - off
  <2>1. result' # -1 BY <1>1, <1>8
  <2>2. len = 0 \/ b = << >> BY <1>1, <1>6, <1>8 DEF More
  <2>3. Decoder!Finish BY <1>3, <1>4, <1>5, <2>1, <2>2 DEF Decoder!Finish, b
  <2> QED BY <2>3 DEF Decoder!Next
<1> QED BY <1>7, <1>8

LEMMA StepDecodes ==
  ASSUME IInv, CellsOK, CellsOK', SplitsNoChar, WellFormed, [Next]_vars
  PROVE  Decoder!Next \/ UNCHANGED Decoder!vars
<1>1. CASE VectorAscii
  <2>1. Decodes BY <1>1 DEF Decodes, VectorAscii, Vector
  <2> QED BY <1>1, <2>1, VectorAsciiTakes
<1>2. CASE VectorMixed
  <2> DEFINE v == Bytes(Chunk)
  <2>1. Vector /\ UNCHANGED args /\ target' = Stored(Compacted(v)) BY <1>2 DEF VectorMixed
  <2>2. \/ GoTo("ascii") /\ UNCHANGED cursors
        \/ UNCHANGED << pc, result >> /\ \E kept \in DstAdv(v) : Advance(SrcAdv(v), kept)
    BY <1>2 DEF VectorMixed
  <2>3. pc # "returned" BY <2>1 DEF Vector
  <2>4. CASE GoTo("ascii") /\ UNCHANGED cursors
    <3>1. UNCHANGED << args, cursors >> /\ pc' # "returned" BY <2>1, <2>4 DEF GoTo
    <3>2. Fits(Compacted(v)) BY <2>1, CompactedFits
    <3> HIDE DEF v
    <3> QED BY <2>1, <2>3, <3>1, <3>2, Stutters
  <2>5. ASSUME UNCHANGED << pc, result >>, NEW kept \in DstAdv(v), Advance(SrcAdv(v), kept)
        PROVE  Decoder!Next
    <3>1. Decodes BY <2>1, <2>3, <2>5 DEF Decodes
    <3> QED BY <2>1, <2>5, <3>1, VectorMixedTakes
  <2> QED BY <2>2, <2>4, <2>5
<1>3. CASE VectorRefuses \/ VectorEnds \/ AsciiEnds
  <2>1. UNCHANGED << args, cursors >> /\ target' = target /\ pc # "returned" /\ pc' # "returned"
    BY <1>3 DEF VectorRefuses, VectorEnds, AsciiEnds, Vector, GoTo
  <2> QED BY <2>1, Stutters
<1>4. CASE AsciiChar
  <2>1. Decodes BY <1>4 DEF Decodes, AsciiChar
  <2> QED BY <1>4, <2>1, AsciiCharTakes
<1>5. CASE GeneralChar
  <2>1. Decodes BY <1>5 DEF Decodes, GeneralChar
  <2> QED BY <1>5, <2>1, GeneralCharTakes
<1>6. CASE CutShort BY <1>6, EndsDecoder DEF CutShort
<1>7. CASE Returns BY <1>7, EndsDecoder DEF Returns
<1>8. CASE UNCHANGED vars
  <2>1. source' = source /\ off' = off /\ src' = src /\ dst' = dst /\ len' = len
        /\ target' = target /\ pc' = pc /\ result' = result
    BY <1>8 DEF vars, args, cursors
  <2>2. WellFormed' = WellFormed BY <2>1 DEF WellFormed, Called
  <2> QED BY <2>1, <2>2 DEF Decoder!vars
<1> QED
  BY <1>1, <1>2, <1>3, <1>4, <1>5, <1>6, <1>7, <1>8 DEF Next, VectorStep, ScalarStep

LEMMA InitDecodes == ASSUME Init PROVE Decoder!Init
<1>1. dst = 0 /\ pc = "vector" BY DEF Init
<1>2. [k \in 1..dst |-> target[k - 1]] = << >>
  <2>1. 1..dst = {} BY <1>1
  <2> QED BY <2>1
<1> QED BY <1>1, <1>2 DEF Decoder!Init

\* Whatever mixture of the loops takes which chars of a well-formed source, and
\* wherever the chunks cut them, the call is the plain decoder: each step takes
\* the next chars in their order and stores what their bytes stand for, or ends
\* the call where the room or the source ends or the source cuts a char.
THEOREM Refinement == Spec => ImplementsDecoder
<1> DEFINE Inv == IInv /\ CellsOK /\ SplitsNoChar
<1>1. Init => Inv BY InitInvariant, InitCells, InitSplits
<1>2. Inv /\ [Next]_vars => Inv' BY StepInvariant, CellsStep, SplitsStep
<1>3. Init => Decoder!Init BY InitDecodes
<1>4. Inv /\ Inv' /\ [Next]_vars => [WellFormed => Decoder!Next]_(Decoder!vars)
  BY StepDecodes
<1> HIDE DEF Inv
<1> QED BY <1>1, <1>2, <1>3, <1>4, PTL DEF Spec, ImplementsDecoder, Decoder!Spec

=============================================================================
