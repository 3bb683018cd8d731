----------------------------- MODULE Utf8Native -----------------------------
(***************************************************************************)
(* gs-native/com_nc_gs_io_UTF8Util.c, one call of utf8BytesToArray: bytes  *)
(* of a Java array from off on are decoded into a char array until one of  *)
(* the two is exhausted.  A vector loop takes Chunk bytes at a time and    *)
(* writes Chunk chars, of which it keeps as many as the bytes stand for;   *)
(* two scalar loops take what it leaves, one char at a time.  The four     *)
(* cursors (where to load, where to store, how many chars and bytes are    *)
(* left) are advanced separately, and everything rests on their agreeing.  *)
(*                                                                         *)
(* Lanes are numbered 1..Chunk; the C code and the SSE registers count     *)
(* from 0.  A cell of the target whose value nothing specifies is Any.     *)
(***************************************************************************)
EXTENDS Integers, Sequences, FiniteSets

CONSTANTS
  Chunk,     \* GS_CHUNK_SIZE
  Sources,   \* the contents of source
  Offsets,   \* off
  Rooms      \* the lengths of target

ASSUME ChunkAssumption == Chunk \in Nat /\ Chunk >= 3

ASSUME ArgsAssumption ==
  /\ \A s \in Sources : s \in Seq(0..255)
  /\ Offsets \subseteq Nat /\ Rooms \subseteq Nat

VARIABLES
  source, target,  \* the two arrays; target[0] is the first char
  off,
  src, dst,        \* the cursors, from the start of their arrays
  len, rem,        \* room left in target, bytes left in source
  pc,              \* the loop that is running, or "returned"
  result           \* what the call returned

args == << source, off >>
cursors == << src, dst, len, rem >>
vars == << args, target, cursors, pc, result >>

Any == -1
Byte == 0..255
MaxChar == 65535        \* jchar
Char == 0..MaxChar
Loop == {"vector", "ascii", "general", "returned"}

-----------------------------------------------------------------------------
(* One chunk in the vector registers.                                      *)
Lanes == 1..Chunk
Ascii(b) == b <= 127
Lead(b) == b >= 194      \* cond2
Lead3(b) == b >= 224     \* cond3
Lead4(b) == b >= 240     \* cond4

\* count: how many bytes the char that starts here takes, 0 if none does.
Count(b) == IF Lead3(b) THEN 3 ELSE IF Lead(b) THEN 2 ELSE 0
CountBefore(v, i, d) == IF i - d < 1 THEN 0 ELSE Count(v[i - d])
Less(a, b) == IF a > b THEN a - b ELSE 0    \* saturating subtraction

\* counts: how many bytes of its char are left from this one on.
CountsNear(v, i) ==
  IF i < 1 THEN 0 ELSE CountBefore(v, i, 0) + Less(CountBefore(v, i, 1), 1)
Counts(v, i) ==
  IF i < 1 THEN 0 ELSE CountsNear(v, i) + Less(CountsNear(v, i - 2), 2)

\* The two error checks: a byte is part of a longer char exactly if it is not
\* ASCII, and within a char the number of bytes left falls by one.
Malformed(v) ==
  \/ \E i \in Lanes : Ascii(v[i]) # (Counts(v, i) = 0)
  \/ \E i \in Lanes : Counts(v, i - 1) - Counts(v, i) > 1

\* src_adv: a char that the chunk cuts is left for the next one.
Bit1(n) == (n \div 2) % 2 = 1
SrcAdvWhole(v) == Chunk
SrcAdvOne(v) == IF ~Bit1(Counts(v, Chunk)) THEN Chunk ELSE Chunk - 1
SrcAdv(v) ==
  IF ~Bit1(Counts(v, Chunk)) THEN Chunk
  ELSE IF ~Bit1(Counts(v, Chunk - 1)) THEN Chunk - 1 ELSE Chunk - 2

\* No byte is out of place: those from 0x80 to 0xBF are exactly the ones that
\* the bytes before them call for.  The checks above miss some chunks that are
\* not clean; what is made of those is left open.
Follows(v, i) == (i > 1 /\ Lead(v[i - 1])) \/ (i > 2 /\ Lead3(v[i - 2]))
Clean(v, k) == \A i \in 1..k : (128 <= v[i] /\ v[i] <= 191) <=> Follows(v, i)

\* shifts: how many of the bytes up to lane i are not the last one of a char.
Ends(v, i) == Ascii(v[i]) \/ (Follows(v, i) /\ ~Lead3(v[i - 1]))
Shift(v, i) == Cardinality({j \in 1..i : ~Ends(v, j)})

\* dst_adv
DstAdv(v) ==
  IF Clean(v, Chunk) THEN {SrcAdv(v) - Shift(v, SrcAdv(v))} ELSE 1..SrcAdv(v)

\* The char that ends in lane i.
DecodedUnmasked(v, i) ==
  IF Ascii(v[i]) THEN v[i]
  ELSE IF Lead(v[i - 1]) THEN v[i - 1] * 64 + (v[i] % 64)
  ELSE v[i - 2] * 4096 + (v[i - 1] % 64) * 64 + (v[i] % 64)

Decoded(v, i) ==
  IF Ascii(v[i]) THEN v[i]
  ELSE IF Lead(v[i - 1]) THEN (v[i - 1] % 32) * 64 + (v[i] % 64)
  ELSE (v[i - 2] % 16) * 4096 + (v[i - 1] % 64) * 64 + (v[i] % 64)

\* What the shuffle leaves in lane k: the char whose last byte moves there.
Compacted(v) ==
  [k \in Lanes |->
     LET last == {i \in Lanes : Clean(v, i) /\ Ends(v, i) /\ i - Shift(v, i) = k}
     IN  IF last = {} THEN Any ELSE Decoded(v, CHOOSE i \in last : TRUE)]

\* A three-byte char that should be shorter or is half of a surrogate pair, by
\* the high byte of its code, in the lane of its second byte.
High(v, i) == (v[i - 1] % 16) * 16 + (v[i] % 64) \div 4
Illegal(v) == \E i \in 2..Chunk : Lead3(v[i - 1]) /\ (High(v, i) \div 8) \in {0, 27}

NonChar(c) == (64976 <= c /\ c <= 65007) \/ 65534 <= c
HasNonChar(v) == \E k \in Lanes : NonChar(Compacted(v)[k])

-----------------------------------------------------------------------------
Bytes(k) == SubSeq(source, src + 1, src + k)

\* cells is stored at dst, which is not moved.  Nothing stops a store that
\* leaves the array: it writes the memory behind it.
Stored(cells) ==
  LET stored == dst..dst + Len(cells) - 1
  IN  [i \in DOMAIN target \cup stored |->
         IF i \in stored THEN cells[i - dst + 1] ELSE target[i]]

AdvanceTogether(bytes, chars) ==
  /\ src' = src + bytes /\ rem' = rem - bytes
  /\ dst' = dst + chars /\ len' = len - bytes

Advance(bytes, chars) ==
  /\ src' = src + bytes /\ rem' = rem - bytes
  /\ dst' = dst + chars /\ len' = len - chars

GoTo(loop) == pc' = loop /\ UNCHANGED result

-----------------------------------------------------------------------------
(* The vector loop.                                                        *)
VectorByRem == pc = "vector" /\ rem >= Chunk
Vector == pc = "vector" /\ len >= Chunk /\ rem >= Chunk
AllAscii(v) == \A i \in Lanes : Ascii(v[i])

VectorAscii ==
  /\ Vector
  /\ AllAscii(Bytes(Chunk))
  /\ target' = Stored(Bytes(Chunk))
  /\ Advance(Chunk, Chunk)
  /\ UNCHANGED << args, pc, result >>

Scalar(v) == (\E i \in Lanes : Lead4(v[i])) \/ Malformed(v)

VectorContinues ==
  /\ Vector
  /\ LET v == Bytes(Chunk) IN ~AllAscii(v) /\ (Scalar(v) \/ Illegal(v))
  /\ UNCHANGED vars

\* The chunk is left to the scalar loops, before anything is stored ...
VectorRefuses ==
  /\ Vector
  /\ LET v == Bytes(Chunk)
     IN  /\ ~AllAscii(v)
         /\ Scalar(v) \/ Illegal(v) \/ ~Clean(v, Chunk)
  /\ GoTo("ascii")
  /\ UNCHANGED << args, target, cursors >>

\* ... or after.
VectorMixed ==
  /\ Vector
  /\ LET v == Bytes(Chunk)
     IN  /\ ~AllAscii(v) /\ ~Scalar(v)
         /\ Illegal(v) => ~Clean(v, Chunk)
         /\ target' = Stored(Compacted(v))
         /\ \/ /\ HasNonChar(v) \/ ~Clean(v, Chunk)
               /\ GoTo("ascii") /\ UNCHANGED cursors
            \/ /\ ~HasNonChar(v) \/ ~Clean(v, Chunk)
               /\ \E kept \in DstAdv(v) : Advance(SrcAdv(v), kept)
               /\ UNCHANGED << pc, result >>
  /\ UNCHANGED args

VectorEnds ==
  /\ pc = "vector" /\ ~Vector
  /\ GoTo("ascii")
  /\ UNCHANGED << args, target, cursors >>

-----------------------------------------------------------------------------
(* The scalar loops.                                                       *)
More == len > 0 /\ rem > 0

AsciiChar ==
  /\ pc = "ascii" /\ More
  /\ Ascii(source[src + 1])
  /\ target' = Stored(Bytes(1))
  /\ Advance(1, 1)
  /\ UNCHANGED << args, pc, result >>

AsciiEnds ==
  /\ pc = "ascii" /\ ~(More /\ Ascii(source[src + 1]))
  /\ GoTo("general")
  /\ UNCHANGED << args, target, cursors >>

\* A byte from 0x80 to 0xDF starts two bytes, any other after it three.
Width(b) == IF Ascii(b) THEN 1 ELSE IF b \div 16 < 14 THEN 2 ELSE 3

Value(b) ==
  CASE Len(b) = 1 -> b[1]
    [] Len(b) = 2 -> (b[1] % 32) * 64 + (b[2] % 64)
    [] OTHER -> (b[1] % 16) * 4096 + (b[2] % 64) * 64 + (b[3] % 64)

GeneralChar ==
  /\ pc = "general" /\ More
  /\ LET w == Width(source[src + 1])
     IN  /\ w <= rem
         /\ target' = Stored(<< Value(Bytes(w)) >>)
         /\ Advance(w, 1)
  /\ UNCHANGED << args, pc, result >>

\* return -1, without releasing the two arrays.
CutShort ==
  /\ pc = "general" /\ More
  /\ Width(source[src + 1]) > rem
  /\ pc' = "returned" /\ result' = -1
  /\ UNCHANGED << args, target, cursors >>

Returns ==
  /\ pc = "general" /\ ~More
  /\ pc' = "returned" /\ result' = src - off
  /\ UNCHANGED << args, target, cursors >>

-----------------------------------------------------------------------------
Init ==
  /\ source \in Sources
  /\ off \in {o \in Offsets : o <= Len(source)}
  /\ \E room \in Rooms : len = room /\ target = [i \in 0..room - 1 |-> Any]
  /\ src = off /\ rem = Len(source) - off
  /\ dst = 0
  /\ pc = "vector" /\ result = 0

VectorStep == VectorAscii \/ VectorMixed \/ VectorRefuses \/ VectorEnds
ScalarStep == AsciiChar \/ AsciiEnds \/ GeneralChar \/ CutShort \/ Returns

Next == VectorStep \/ ScalarStep

\* The caller's thread runs the call to its end.
Spec == Init /\ [][Next]_vars /\ WF_vars(Next)

-----------------------------------------------------------------------------
(* Properties.                                                             *)

\* The types, the decoded cells being chars unless the bytes are malformed.
TypeOK ==
  /\ source \in Seq(Byte) /\ off \in 0..Len(source)
  /\ src \in Nat /\ dst \in Nat
  /\ len \in Nat /\ rem \in Nat
  /\ target \in [DOMAIN target -> Char \cup {Any}]
  /\ pc \in Loop /\ result \in Int

\* The four cursors agree: what is left is counted from where the cursors are,
\* so that a loop that looks at len and rem loads and stores inside the arrays.
CursorsAgree ==
  /\ off <= src /\ src + rem = Len(source) /\ rem >= 0
  /\ 0 <= dst /\ dst + len = Cardinality(DOMAIN target) /\ len >= 0

\* Every byte is where a UTF-8 encoder can have put it: what follows off is a
\* sequence of chars of one to three bytes, the last one possibly cut.
Continues(b) == 128 <= b /\ b <= 191
Called(p) ==
  \/ p - 1 > off /\ Lead(source[p - 1])
  \/ p - 2 > off /\ Lead3(source[p - 2])
WellFormed ==
  \A p \in off + 1..Len(source) :
    /\ source[p] <= 239 /\ source[p] \notin {192, 193}
    /\ Continues(source[p]) <=> Called(p)

\* However the chunks cut the chars, no loop and no step from one loop to the
\* next leaves the cursor inside a char: what is decoded next starts one.
SplitsNoChar == WellFormed /\ rem > 0 => ~Continues(source[src + 1])

\* No store leaves the target array, although the vector loop stores a whole
\* chunk for what may be one char, and looks only at the room that is left by
\* the counts of all the chunks and chars before; malformed bytes included.
StoresStayInside == [][DOMAIN target' = DOMAIN target]_vars

\* Whatever mixture of the loops runs, on a well-formed source the call is the
\* plain decoder: char by char, as the general loop alone would.
Decoder == INSTANCE CharDecoder WITH
  WidthOf <- Width, ValueOf <- Value, legal <- WellFormed,
  bytes <- SubSeq(source, src + 1, Len(source)),
  chars <- [k \in 1..dst |-> target[k - 1]],
  room <- len,
  status <- IF pc # "returned" THEN "decoding" ELSE IF result = -1 THEN "cut" ELSE "read"
ImplementsDecoder == Decoder!Spec

\* Each iteration moves the cursors, so the call returns.
CallReturns == <>(pc = "returned")

\* UTF8Util.java:28: the result is "the amount of bytes read from src".
ReturnsBytesRead == pc = "returned" => result = src - off

=============================================================================
