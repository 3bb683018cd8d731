----------------------------- MODULE DataInput ------------------------------
(***************************************************************************)
(* com.nc.io.ByteArrayObjectDataInput: a cursor with a mark over a byte    *)
(* array, reused from array to array, with a char buffer it keeps between  *)
(* strings.                                                                *)
(*                                                                         *)
(* A sequential read is a queue of gets.  A get takes one value at the     *)
(* cursor; one that takes the length of an array or a string replaces      *)
(* itself by the gets of its elements, so what a call reads depends on the *)
(* bytes it has read.  Any get can fail, and leaves the cursor where the   *)
(* gets before it put it.  The lengths are whatever four bytes the array   *)
(* holds: nothing says that the array was produced by the writer.          *)
(***************************************************************************)
EXTENDS JavaBits

CONSTANTS
  HeapMax,        \* the longest array the heap can hold
  BigEndian,      \* bigEndian
  CharBufferMax,  \* UTF_BUFFER_SIZE * 8, what clear() keeps of the char buffer
  Arrays,         \* the byte arrays the caller reads
  Widths,         \* the widths of the fixed-width values the caller reads
  IndexArgs       \* positions, offsets and lengths the caller passes

ASSUME SizeAssumption ==
  /\ HeapMax \in Nat /\ HeapMax <= IntMax
  /\ CharBufferMax \in Nat /\ CharBufferMax <= HeapMax
  /\ BigEndian \in BOOLEAN

ASSUME ArgsAssumption ==
  /\ \A a \in Arrays : a \in Seq(Byte) /\ Len(a) <= HeapMax
  /\ \A w \in Widths : w \in Nat /\ 2 <= w /\ w <= 8
  /\ \A i \in IndexArgs : i \in Int /\ -IntMax - 1 <= i /\ i <= IntMax

VARIABLES
  data,     \* the bytes of the array, data[1] .. data[Len(data)]
  open,     \* data is not null
  size,     \* size
  pos,      \* pos
  mark,     \* mark
  charLen,  \* charBuffer.length, or NoBuffer when charBuffer is null
  todo,     \* the gets of the call in progress
  got,      \* the values they have delivered, lengths included
  src,      \* how far native code has read, while it runs
  thrown,   \* what the last call threw, "none" while it runs or when it returned
  stale     \* history: init has replaced the array since the mark was last set

arrayVars == << data, open, size >>
cursorVars == << pos, mark, stale >>
callVars == << todo, got, src, thrown >>
vars == << arrayVars, cursorVars, charLen, callVars >>

NoBuffer == -1
Unspecified == -1    \* a char of the buffer that this call has not written
Exception == {"none", "EOF", "UTFDataFormat", "IllegalArgument", "NullPointer",
              "IndexOutOfBounds", "ArrayIndex", "StringIndex", "NegativeArraySize",
              "OutOfMemory", "Crash"}

(***************************************************************************)
(* Gets.  n is the width of a value, the index of a char, the number of    *)
(* bytes or chars asked for, or the length of a destination array.         *)
(***************************************************************************)
GetKind == {"try",        \* read(): the next byte or -1
            "byte",       \* readByte
            "boolean",    \* readBoolean
            "fixed",      \* readChar, readShort, readInt, readLong ...
            "char",       \* one char of readUTF, to charBuffer[n]
            "dstChar",    \* one char of inflateUTF
            "fill",       \* readFully of the n bytes of readByteArray
            "bytes", "booleans", "fixeds", "utfs",   \* readXArray
            "utf", "utfJNI", "inflate", "inflateJNI",
            "native",     \* utf8BytesToArray with room for n chars
            "string",     \* new String(charBuffer, 0, n)
            "untouched"}  \* the n chars of the destination of inflateUTFJNI

Get == [kind : GetKind, n : Int, be : BOOLEAN]

GetOf(kind, n) == [kind |-> kind, n |-> n, be |-> BigEndian]
Repeat(get, count) == [i \in 1..count |-> get]

Counted == {"bytes", "booleans", "fixeds", "utfs", "utf", "utfJNI", "inflate",
            "inflateJNI"}

-----------------------------------------------------------------------------
InBounds == 0 <= pos /\ pos <= size

\* A JVM that native code has brought down does not run anything any more.
Idle == todo = << >> /\ thrown # "Crash"
Reading(kinds) == todo # << >> /\ Head(todo).kind \in kinds

\* The call in progress ends: with an exception, or with these values.
Throw(e) == todo' = << >> /\ thrown' = e /\ src' = 0 /\ UNCHANGED got
Return(values) ==
  todo' = << >> /\ got' = values /\ thrown' = "none" /\ src' = 0

\* The current get delivers a value, and these gets take its place.
Deliver(value, gets) ==
  /\ got' = Append(got, value)
  /\ todo' = gets \o Tail(todo)
  /\ src' = 0
  /\ UNCHANGED thrown

\* A method starts: this is what it will read.
Call(get) ==
  /\ Idle
  /\ todo' = << get >> /\ got' = << >> /\ thrown' = "none" /\ src' = 0
  /\ UNCHANGED << arrayVars, cursorVars, charLen >>

Bytes(p, k) == SubSeq(data, p + 1, p + k)

\* pos moves on by k bytes.
Advance(k) == pos' = pos + k /\ UNCHANGED << arrayVars, mark, stale >>

\* new T[n] fails.
AllocError(n) ==
  IF n < 0 THEN "NegativeArraySize" ELSE IF n > HeapMax THEN "OutOfMemory" ELSE "none"

-----------------------------------------------------------------------------
(* Fixed-width values: checkAvailable, then Bits.readX.                    *)
FixedError(p, k) ==
  IF p < 0 THEN "IllegalArgument"
  ELSE IF size - p < k THEN "EOF"
  ELSE IF ~open THEN "NullPointer" ELSE "none"

TakeFixedAsInt ==
  /\ Reading({"fixed"})
  /\ FixedError(pos, Head(todo).n) = "none"
  /\ Deliver(InOrder(Bytes(pos, Head(todo).n), Head(todo).be), << >>)
  /\ Advance(4)
  /\ UNCHANGED charLen

TakeFixed ==
  /\ Reading({"fixed"})
  /\ FixedError(pos, Head(todo).n) = "none"
  /\ Deliver(InOrder(Bytes(pos, Head(todo).n), Head(todo).be), << >>)
  /\ Advance(Head(todo).n)
  /\ UNCHANGED charLen

\* The width of what the current get asks checkAvailable for.
Wanted == IF Head(todo).kind = "fixed" THEN Head(todo).n ELSE 4

FixedFails ==
  /\ Reading({"fixed"} \cup Counted)
  /\ FixedError(pos, Wanted) # "none"
  /\ Throw(FixedError(pos, Wanted))
  /\ UNCHANGED << arrayVars, cursorVars, charLen >>

-----------------------------------------------------------------------------
(* Bytes: read() and the methods that turn its -1 into an EOFException.    *)
ByteKinds == {"try", "byte", "boolean"}
CharKinds == {"char", "dstChar"}

TakeByte ==
  /\ Reading(ByteKinds)
  /\ InBounds /\ pos < size /\ open
  /\ Deliver(<< IF Head(todo).kind = "boolean" /\ data[pos + 1] # 0
                THEN 1 ELSE data[pos + 1] >>, << >>)
  /\ Advance(1)
  /\ UNCHANGED charLen

AtEnd ==
  /\ Reading({"try"})
  /\ pos >= size
  /\ Deliver(<< -1 >>, << >>)
  /\ UNCHANGED << arrayVars, cursorVars, charLen >>

ByteFails ==
  /\ Reading(ByteKinds \cup CharKinds)
  /\ UNCHANGED charLen
  /\ \/ /\ pos >= size /\ Head(todo).kind # "try"
        /\ Throw("EOF")
        /\ UNCHANGED << arrayVars, cursorVars >>
     \/ /\ pos < size /\ ~(0 <= pos /\ open)   \* data[pos++] moves pos first
        /\ Throw(IF open THEN "ArrayIndex" ELSE "NullPointer")
        /\ Advance(1)

-----------------------------------------------------------------------------
(* A char in UTF-8: a byte, or Bits.readUtf8Char, which reads the others.  *)
\* The bytes of a char by its first byte, 0 if no char starts with it.
CharWidth(b) ==
  IF b <= 127 THEN 1
  ELSE IF 192 <= b /\ b <= 223 THEN 2
  ELSE IF 224 <= b /\ b <= 239 THEN 3 ELSE 0

CharOf(b) ==
  CASE Len(b) = 1 -> b[1]
    [] Len(b) = 2 -> (b[1] % 32) * 64 + (b[2] % 64)
    [] OTHER -> (b[1] % 16) * 4096 + (b[2] % 64) * 64 + (b[3] % 64)

ReadingChar == Reading(CharKinds) /\ InBounds /\ pos < size /\ open

\* charBuffer[n] exists; inflateUTF has looked at its destination's length.
CharFits == Head(todo).kind = "char" => Head(todo).n < charLen

TakeChar ==
  /\ ReadingChar /\ CharFits
  /\ LET w == CharWidth(data[pos + 1])
     IN  /\ w # 0 /\ w <= size - pos
         /\ Deliver(<< CharOf(Bytes(pos, w)) >>, << >>)
         /\ Advance(w)
  /\ UNCHANGED charLen

CharFails ==
  /\ ReadingChar
  /\ LET w == CharWidth(data[pos + 1])
     IN  \/ w = 0 /\ Throw("UTFDataFormat") /\ Advance(1)
         \/ w > size - pos /\ Throw("EOF") /\ Advance(size - pos)
         \/ w # 0 /\ w <= size - pos /\ ~CharFits /\ Throw("ArrayIndex") /\ Advance(w)
  /\ UNCHANGED charLen

-----------------------------------------------------------------------------
(* read(byte[], int, int): at most n bytes, in one copy.                   *)
CopyLengthUncut(n) == n
CopyLength(n) == IF Wrap(pos + n) > size THEN size - pos ELSE n

CopyError(n) ==
  IF ~open THEN "NullPointer"
  ELSE IF pos < 0 \/ pos + n > Len(data) THEN "ArrayIndex" ELSE "none"

\* new byte[n] once the n bytes asked for have been read into it.
Filled(n) == [i \in 1..n |-> IF i <= CopyLength(n) THEN data[pos + i] ELSE 0]

Fill ==
  /\ Reading({"fill"})
  /\ pos < size /\ CopyError(CopyLength(Head(todo).n)) = "none"
  /\ Deliver(Filled(Head(todo).n), << >>)
  /\ Advance(CopyLength(Head(todo).n))
  /\ UNCHANGED charLen

FillFails ==
  /\ Reading({"fill"})
  /\ LET error == IF pos >= size THEN "EOF" ELSE CopyError(CopyLength(Head(todo).n))
     IN  error # "none" /\ Throw(error)
  /\ UNCHANGED << arrayVars, cursorVars, charLen >>

-----------------------------------------------------------------------------
(* A length, and what it turns the call into.                              *)
CountBigEndian == IntValue(Bytes(pos, 4))
Count == IntValue(InOrder(Bytes(pos, 4), BigEndian))

Elements(get, n) ==
  CASE get.kind = "bytes" -> IF n > 0 THEN << GetOf("fill", n) >> ELSE << >>
    [] get.kind = "booleans" -> Repeat(GetOf("boolean", 1), n)
    [] get.kind = "fixeds" -> Repeat(GetOf("fixed", get.n), n)
    [] get.kind = "utfs" -> Repeat(GetOf("utf", 0), n)
    [] get.kind = "utf" -> [i \in 1..n |-> GetOf("char", i - 1)]
    [] get.kind = "inflate" -> Repeat(GetOf("dstChar", 1), n)
    [] get.kind = "utfJNI" -> << GetOf("native", MaxOf(n, charLen)), GetOf("string", n) >>
    [] OTHER -> << GetOf("native", charLen), GetOf("untouched", n) >>

\* The char buffer is kept unless it is too small.
NeedsBuffer(n) == charLen = NoBuffer \/ n > charLen
Buffered == Head(todo).kind \in {"utf", "utfJNI"} /\ Count # NULL_ARRAY_LENGTH

CountError(get, n) ==
  IF n = NULL_ARRAY_LENGTH THEN "none"
  ELSE IF get.kind \in {"utf", "utfJNI"}
  THEN IF NeedsBuffer(n) THEN AllocError(n)
       ELSE IF get.kind = "utf" /\ n < 0 THEN "StringIndex" ELSE "none"
  ELSE IF get.kind \in {"inflate", "inflateJNI"}
  THEN IF get.n < n THEN "IllegalArgument"
       ELSE IF get.kind = "inflateJNI" /\ charLen = NoBuffer THEN "Crash" ELSE "none"
  ELSE IF n > 0 THEN AllocError(n) ELSE "none"

Counting == Reading(Counted) /\ FixedError(pos, 4) = "none"

TakeCount ==
  /\ Counting
  /\ CountError(Head(todo), Count) = "none"
  /\ Deliver(<< MaxOf(Count, IF Count = NULL_ARRAY_LENGTH THEN -1 ELSE 0) >>,
             IF Count = NULL_ARRAY_LENGTH THEN << >> ELSE Elements(Head(todo), Count))
  /\ charLen' = IF Buffered /\ NeedsBuffer(Count) THEN Count ELSE charLen
  /\ Advance(4)

CountFails ==
  /\ Counting
  /\ CountError(Head(todo), Count) # "none"
  /\ Throw(CountError(Head(todo), Count))
  /\ Advance(4)
  /\ UNCHANGED charLen

-----------------------------------------------------------------------------
(* UTF8Util.utf8BytesToArray, in the order of its scalar loop: as many     *)
(* chars as there is room for, or until the array ends; -1 when it ends in *)
(* the middle of a char.                                                   *)
NativeWidth(b) == IF b <= 127 THEN 1 ELSE IF b \div 16 < 14 THEN 2 ELSE 3
Unread == Len(data) - pos - src
NativeMore == Reading({"native"}) /\ Head(todo).n > 0 /\ Unread > 0

NativeChar ==
  /\ NativeMore
  /\ LET w == NativeWidth(data[pos + src + 1])
     IN  /\ w <= Unread
         /\ got' = Append(got, << CharOf(Bytes(pos + src, w)) >>)
         /\ src' = src + w
  /\ todo' = << GetOf("native", Head(todo).n - 1) >> \o Tail(todo)
  /\ UNCHANGED << arrayVars, cursorVars, charLen, thrown >>

\* pos += read, where read is what native code returned.
NativeReturns(read) ==
  /\ Advance(read)
  /\ todo' = Tail(todo) /\ src' = 0
  /\ UNCHANGED << got, thrown, charLen >>

NativeMalformedWaits == FALSE
NativeMalformed ==
  NativeMore /\ NativeWidth(data[pos + src + 1]) > Unread /\ NativeReturns(-1)

NativeDoneInPlace == Reading({"native"}) /\ ~NativeMore /\ NativeReturns(0)
NativeDone == Reading({"native"}) /\ ~NativeMore /\ NativeReturns(src)

\* The n chars of the string or of the destination, after the length in got[1].
Chars(n) ==
  [i \in 1..n + 1 |->
     IF i = 1 \/ (Head(todo).kind = "string" /\ i <= Len(got)) THEN got[i]
     ELSE << Unspecified >>]

NativeString ==
  /\ Reading({"string", "untouched"})
  /\ IF Head(todo).kind = "string" /\ Head(todo).n < 0
     THEN Throw("StringIndex")
     ELSE /\ got' = Chars(MaxOf(Head(todo).n, 0)) /\ todo' = Tail(todo)
          /\ UNCHANGED << src, thrown >>
  /\ UNCHANGED << arrayVars, cursorVars, charLen >>

-----------------------------------------------------------------------------
(* The methods.  Those that only read are a Call of one get.               *)
Sequential ==
  {GetOf(kind, 1) : kind \in ByteKinds \cup {"bytes", "booleans", "utfs", "utf", "utfJNI"}}
    \cup {[kind |-> "fixed", n |-> w, be |-> be] : w \in Widths, be \in BOOLEAN}
    \cup {GetOf("fixeds", w) : w \in Widths}
    \cup {GetOf(kind, n) : kind \in {"inflate", "inflateJNI"},
                           n \in {i \in IndexArgs : 0 <= i /\ i <= HeapMax}}

\* Nothing but the outcome changes.
Outcome(error, values) ==
  /\ Idle
  /\ IF error = "none" THEN Return(values) ELSE Throw(error)
  /\ UNCHANGED << arrayVars, cursorVars, charLen >>

\* read(byte[], int, int), and readFully when fully
ReadRange(length, off, len, fully) ==
  LET n == CopyLength(len)
      error == IF off < 0 \/ len < 0 \/ len > length - off THEN "IndexOutOfBounds"
               ELSE IF len = 0 THEN "none"
               ELSE IF pos >= size THEN IF fully THEN "EOF" ELSE "none"
               ELSE CopyError(n)
  IN  IF error = "none" /\ len > 0 /\ pos < size
      THEN Idle /\ Return(<< << n >>, Bytes(pos, n) >>) /\ Advance(n) /\ UNCHANGED charLen
      ELSE Outcome(error, << << IF len = 0 THEN 0 ELSE -1 >> >>)

\* read(int), and readByte and readBoolean when must
ReadByteAt(p, must) ==
  IF p >= size THEN Outcome(IF must THEN "EOF" ELSE "none", << << -1 >> >>)
  ELSE IF ~open THEN Outcome("NullPointer", << >>)
  ELSE IF p < 0 THEN Outcome("ArrayIndex", << >>)
  ELSE Outcome("none", << << data[p + 1] >> >>)

\* readChar, readShort, readInt, readLong, readFloat, readDouble at a position
ReadFixedAt(p, w, be) ==
  IF FixedError(p, w) # "none" THEN Outcome(FixedError(p, w), << >>)
  ELSE Outcome("none", << InOrder(Bytes(p, w), be) >>)

\* position(int): a mark that is now ahead is lost.
MoveToKeepingMark(newPos) ==
  /\ pos' = newPos
  /\ UNCHANGED << arrayVars, mark, stale, charLen >>

MoveTo(newPos) ==
  /\ pos' = newPos
  /\ mark' = IF mark > newPos THEN -1 ELSE mark
  /\ UNCHANGED << arrayVars, stale, charLen >>

Position(newPos) ==
  /\ Idle
  /\ IF newPos > size \/ newPos < 0
     THEN Throw("IllegalArgument") /\ UNCHANGED << arrayVars, cursorVars, charLen >>
     ELSE Return(<< >>) /\ MoveTo(newPos)

\* skipBytes(int)
SkipBytes(n) ==
  LET skip == CopyLength(n)
      newPos == Wrap(pos + skip)
  IN  IF n <= 0 THEN Outcome("none", << << 0 >> >>)
      ELSE IF newPos > size \/ newPos < 0 THEN Outcome("IllegalArgument", << >>)
      ELSE Idle /\ Return(<< << skip >> >>) /\ MoveTo(newPos)

\* skip(long)
Skip(n) ==
  IF n <= 0 \/ n >= IntMax THEN Outcome("none", << << 0 >> >>) ELSE SkipBytes(n)

Mark ==
  /\ Idle /\ Return(<< >>)
  /\ mark' = pos
  /\ stale' = (stale /\ ~InBounds)
  /\ UNCHANGED << arrayVars, pos, charLen >>

Reset ==
  /\ Idle /\ Return(<< >>)
  /\ pos' = mark
  /\ UNCHANGED << arrayVars, mark, stale, charLen >>

\* init(byte[], int), of null unless given: the mark is not touched.
InitKeepingSize(array, given, offset) ==
  /\ Idle /\ Return(<< >>)
  /\ data' = IF given THEN array ELSE << >>
  /\ open' = given
  /\ pos' = offset
  /\ stale' = TRUE
  /\ UNCHANGED << size, mark, charLen >>

InitWith(array, given, offset) ==
  /\ Idle /\ Return(<< >>)
  /\ data' = IF given THEN array ELSE << >>
  /\ open' = given
  /\ size' = Len(data')
  /\ pos' = offset
  /\ stale' = TRUE
  /\ UNCHANGED << mark, charLen >>

Clear ==
  /\ Idle /\ Return(<< >>)
  /\ data' = << >> /\ open' = FALSE /\ size' = 0
  /\ pos' = 0 /\ mark' = 0 /\ stale' = FALSE
  /\ charLen' = MinOf(charLen, CharBufferMax)

\* close(): the array and the char buffer go, size and pos stay.
Close ==
  /\ Idle /\ Return(<< >>)
  /\ data' = << >> /\ open' = FALSE
  /\ charLen' = NoBuffer
  /\ UNCHANGED << size, cursorVars >>

-----------------------------------------------------------------------------
\* The public constructor: offset 0, and an array or null.
Init ==
  /\ open \in BOOLEAN /\ data \in (IF open THEN Arrays ELSE {<< >>}) /\ size = Len(data)
  /\ pos = 0 /\ mark = 0 /\ stale = FALSE
  /\ charLen = NoBuffer
  /\ todo = << >> /\ got = << >> /\ src = 0 /\ thrown = "none"

CallStep ==
  \/ TakeFixed \/ FixedFails
  \/ TakeByte \/ AtEnd \/ ByteFails
  \/ TakeChar \/ CharFails
  \/ Fill \/ FillFails
  \/ TakeCount \/ CountFails
  \/ NativeChar \/ NativeMalformed \/ NativeDone \/ NativeString

Next ==
  \/ CallStep
  \/ \E get \in Sequential : Call(get)
  \/ \E length, off, len \in IndexArgs, fully \in BOOLEAN :
       0 <= length /\ length <= HeapMax /\ ReadRange(length, off, len, fully)
  \/ \E p \in IndexArgs, must \in BOOLEAN : ReadByteAt(p, must)
  \/ \E p \in IndexArgs, w \in Widths, be \in BOOLEAN : ReadFixedAt(p, w, be)
  \/ \E newPos \in IndexArgs : Position(newPos)
  \/ \E n \in IndexArgs : SkipBytes(n) \/ Skip(n)
  \/ Mark \/ Reset
  \/ \E array \in Arrays, given \in BOOLEAN, offset \in IndexArgs :
       InitWith(array, given, offset)
  \/ Clear \/ Close

Spec == Init /\ [][Next]_vars

-----------------------------------------------------------------------------
(* Properties.                                                             *)

\* Every variable has its type; a null array has no bytes and the size is that
\* of the array until close.
TypeOK ==
  /\ data \in Seq(Byte) /\ Len(data) <= HeapMax
  /\ open \in BOOLEAN
  /\ size \in 0..HeapMax /\ (open => size = Len(data))
  /\ pos \in Int /\ mark \in Int /\ stale \in BOOLEAN
  /\ charLen \in -1..HeapMax
  /\ todo \in Seq(Get) /\ got \in Seq(Seq(Int)) /\ src \in Nat
  /\ thrown \in Exception

\* Unless init has put the reader on another array, the mark is never ahead of
\* the cursor and the cursor never past the end, whatever was read, skipped,
\* marked, reset or failed: what lets reset() take the mark without looking.
\* The -1 is a mark that position(int) has dropped.
MarkBehindCursor == ~stale => -1 <= mark /\ mark <= pos /\ pos <= size

\* The cursor is never negative: position(int) (line 151) and checkAvailable
\* ("Negative pos!", line 56) both reject a position before the first byte.
CursorNotNegative == ~stale => pos >= 0

\* Whatever bytes the array holds (lengths that are negative, too long or past
\* the end, chars cut short) a read at the cursor that starts inside the array
\* ends inside it, never goes back by more than native code's -1, and never
\* reports its own index or char buffer as the problem.  The one exception is
\* the sum pos + len of read(byte[], int, int), when it overflows an int.  The
\* read is a step of a sequential method or a range the caller asks for.
Inside(n) ==
  /\ InBounds'
  /\ pos' >= pos - 1
  /\ thrown' = "ArrayIndex" => pos + n > IntMax

RangeRead(len) ==
  \E length, off \in IndexArgs, fully \in BOOLEAN :
    0 <= length /\ length <= HeapMax /\ ReadRange(length, off, len, fully)

ReadsStayInside ==
  [][InBounds => /\ CallStep => Inside(Head(todo).n)
                 /\ \A len \in IndexArgs : ~Inside(len) => ~RangeRead(len)]_vars

\* A sequential read ends, whatever lengths the array holds: each get either
\* moves on, or is the last one.
FairSpec == Spec /\ WF_vars(CallStep)
CallsEnd == todo # << >> ~> todo = << >>

=============================================================================
