-------------------------- MODULE DataInputProofs ---------------------------
(***************************************************************************)
(* Proofs about DataInput, for every array, width of int, heap and         *)
(* argument.  The inductive invariant adds to the properties what the gets *)
(* that wait in todo need: the counts they were made from have been        *)
(* checked, and native code runs first, on what is left of the array.      *)
(***************************************************************************)
EXTENDS DataInput, JavaBitsProofs

-----------------------------------------------------------------------------
(* The inductive invariant.                                                *)

\* A get that can wait while the char buffer has c chars.
Gets(c) ==
  {g \in Get : /\ g.kind \in {"fixed", "fixeds"} => g.n >= 0
               /\ g.kind = "fill" => g.n > 0
               /\ g.kind = "char" => g.n < c}

NativeKinds == {"native", "string", "untouched"}

\* Only the first get of a queue is native code.
NativeFirst(queue) == \A i \in DOMAIN queue : i > 1 => queue[i].kind # "native"

QueueSound == todo \in Seq(Gets(charLen)) /\ NativeFirst(todo)

\* Native code has the length before it, and the array to read from.
LengthTaken == \A i \in DOMAIN todo : todo[i].kind \in NativeKinds => got # << >>
NativeSound ==
  Reading({"native"}) =>
    /\ open /\ pos >= 1 /\ pos + src <= Len(data)
    /\ ~stale => mark < pos

Running == todo # << >> => thrown = "none"

IInv ==
  TypeOK /\ MarkBehindCursor /\ QueueSound /\ LengthTaken /\ NativeSound /\ Running
-----------------------------------------------------------------------------
(* Values.                                                                 *)
LEMMA ByteIsInt == \A b \in Byte : b \in Int /\ 0 <= b /\ b <= 255
BY DEF Byte

LEMMA SeqOfInts == Seq(Byte) \subseteq Seq(Int)
BY ByteIsInt, SeqMonotonic

\* The bytes that a check has found to be there.
LEMMA BytesType ==
  ASSUME TypeOK, NEW p \in Int, NEW k \in Int, 0 <= p, 0 <= k, p + k <= Len(data)
  PROVE  Bytes(p, k) \in Seq(Byte) /\ Bytes(p, k) \in Seq(Int) /\ Len(Bytes(p, k)) = k
<1>1. data \in Seq(Byte) /\ Len(data) \in Nat BY LenProperties DEF TypeOK
<1>2. \A i \in p + 1..p + k : data[i] \in Byte BY <1>1, LenProperties
<1>3. Bytes(p, k) \in Seq(Byte) BY <1>1, <1>2, SubSeqProperties DEF Bytes
<1>4. Len(Bytes(p, k)) = k BY <1>1, <1>2, SubSeqProperties DEF Bytes
<1> QED BY <1>3, <1>4, SeqOfInts

LEMMA IntValueType ==
  ASSUME NEW b \in Seq(Byte), Len(b) = 4 PROVE IntValue(b) \in Int
<1>1. \A i \in 1..4 : b[i] \in Int BY LenProperties, ByteIsInt
<1>2. b[1] \in Int /\ b[2] \in Int /\ b[3] \in Int /\ b[4] \in Int BY <1>1
<1> QED BY <1>2 DEF IntValue

LEMMA RemaindersAreInts ==
  ASSUME NEW n \in Int PROVE n % 16 \in Int /\ n % 32 \in Int /\ n % 64 \in Int
BY SMT

LEMMA CharOfType ==
  ASSUME NEW b \in Seq(Int), Len(b) \in {1, 2, 3} PROVE CharOf(b) \in Int
<1>1. \A i \in 1..Len(b) : b[i] \in Int BY LenProperties
<1>2. CASE Len(b) = 1 BY <1>1, <1>2, SMT DEF CharOf
<1>3. CASE Len(b) = 2
  <2>1. b[1] % 32 \in Int /\ b[2] % 64 \in Int BY <1>1, <1>3, RemaindersAreInts
  <2> QED BY <1>3, <2>1, SMT DEF CharOf
<1>4. CASE Len(b) = 3
  <2>1. b[1] % 16 \in Int /\ b[2] % 64 \in Int /\ b[3] % 64 \in Int
    BY <1>1, <1>4, RemaindersAreInts
  <2> QED BY <1>4, <2>1, SMT DEF CharOf
<1> QED BY <1>2, <1>3, <1>4

LEMMA OneInt == ASSUME NEW n \in Int PROVE << n >> \in Seq(Int)
BY Tuples

LEMMA WrapType == ASSUME NEW x \in Int PROVE Wrap(x) \in Int
BY IntMaxAssumption DEF Wrap

-----------------------------------------------------------------------------
(* Queues of gets.                                                         *)
LEMMA GetsGrow ==
  ASSUME NEW c \in Int, NEW d \in Int, c <= d PROVE Gets(c) \subseteq Gets(d)
BY DEF Gets, Get

LEMMA GetsAreGets == ASSUME NEW c PROVE Gets(c) \subseteq Get
BY DEF Gets

\* A get that asks for nothing that was not checked.
LEMMA PlainGet ==
  ASSUME NEW kind \in GetKind, NEW n \in Int, NEW c,
         kind \in {"fixed", "fixeds"} => n >= 0, kind = "fill" => n > 0,
         kind = "char" => n < c
  PROVE  GetOf(kind, n) \in Gets(c)
BY SizeAssumption DEF GetOf, Gets, Get

\* The gets that take the place of the first one go before the others.
LEMMA Replaced ==
  ASSUME NEW c, NEW queue \in Seq(Gets(c)), queue # << >>, NativeFirst(queue),
         NEW gets \in Seq(Gets(c)), NativeFirst(gets)
  PROVE  /\ gets \o Tail(queue) \in Seq(Gets(c))
         /\ NativeFirst(gets \o Tail(queue))
         /\ gets \o Tail(queue) # << >> =>
              \/ gets # << >> /\ Head(gets \o Tail(queue)) = Head(gets)
              \/ gets = << >> /\ Head(gets \o Tail(queue)).kind # "native"
<1> DEFINE rest == Tail(queue)
<1>1. /\ rest \in Seq(Gets(c)) /\ Len(rest) \in Nat /\ Len(gets) \in Nat
      /\ DOMAIN rest = 1..Len(rest) /\ DOMAIN gets = 1..Len(gets)
  BY HeadTailProperties, LenProperties
<1>2. \A j \in 1..Len(rest) : rest[j].kind # "native"
  <2>1. /\ DOMAIN queue = 1..Len(queue) /\ Len(queue) \in Nat
        /\ Len(rest) = Len(queue) - 1
        /\ \A j \in 1..Len(rest) : rest[j] = queue[j + 1]
    BY HeadTailProperties, LenProperties, EmptySeq
  <2> QED BY <2>1 DEF NativeFirst
<1> HIDE DEF rest
<1>3. /\ gets \o rest \in Seq(Gets(c)) /\ Len(gets \o rest) = Len(gets) + Len(rest)
      /\ \A k \in 1..Len(gets) + Len(rest) :
           (gets \o rest)[k] = IF k <= Len(gets) THEN gets[k] ELSE rest[k - Len(gets)]
  BY <1>1, ConcatProperties
<1>4. DOMAIN (gets \o rest) = 1..Len(gets) + Len(rest) BY <1>3, LenProperties
<1>5. NativeFirst(gets \o rest)
  <2> SUFFICES ASSUME NEW i \in 1..Len(gets) + Len(rest), i > 1
               PROVE  (gets \o rest)[i].kind # "native"
    BY <1>4 DEF NativeFirst
  <2>1. CASE i <= Len(gets)
    <3>1. i \in DOMAIN gets /\ (gets \o rest)[i] = gets[i] BY <1>1, <1>3, <2>1
    <3> QED BY <3>1 DEF NativeFirst
  <2>2. CASE i > Len(gets)
    <3>1. i - Len(gets) \in 1..Len(rest) /\ (gets \o rest)[i] = rest[i - Len(gets)]
      BY <1>1, <1>3, <2>2
    <3> QED BY <1>2, <3>1
  <2> QED BY <1>1, <2>1, <2>2
<1>6. ASSUME gets \o rest # << >>
      PROVE  \/ gets # << >> /\ Head(gets \o rest) = Head(gets)
             \/ gets = << >> /\ Head(gets \o rest).kind # "native"
  <2>1. Len(gets) + Len(rest) >= 1 BY <1>1, <1>3, <1>6, EmptySeq
  <2>2. Head(gets \o rest) = (gets \o rest)[1] BY <1>3, <1>6
  <2>3. CASE gets # << >>
    <3>1. Len(gets) >= 1 /\ Head(gets) = gets[1] BY <1>1, <2>3, EmptySeq
    <3> QED BY <1>1, <1>3, <2>1, <2>2, <2>3, <3>1
  <2>4. CASE gets = << >>
    <3>1. Len(gets) = 0 BY <2>4
    <3>2. (gets \o rest)[1] = rest[1] BY <1>1, <1>3, <2>1, <3>1
    <3> QED BY <1>1, <1>2, <2>1, <2>2, <2>4, <3>1, <3>2
  <2> QED BY <2>3, <2>4
<1> QED BY <1>3, <1>5, <1>6 DEF rest

-----------------------------------------------------------------------------
(* The ways a step ends.                                                   *)
LEMMA ExceptionNames ==
  \A e \in {"none", "EOF", "UTFDataFormat", "IllegalArgument", "NullPointer",
            "IndexOutOfBounds", "ArrayIndex", "StringIndex", "NegativeArraySize",
            "OutOfMemory", "Crash"} : e \in Exception
BY DEF Exception

\* The facts about types that every step needs.
LEMMA Types ==
  ASSUME TypeOK
  PROVE  /\ pos \in Int /\ mark \in Int /\ size \in Int /\ 0 <= size /\ size <= HeapMax
         /\ HeapMax \in Int /\ HeapMax <= IntMax /\ IntMax \in Int /\ IntMax >= 8
         /\ Len(data) \in Nat /\ (open => size = Len(data))
         /\ charLen \in Int /\ -1 <= charLen /\ charLen <= HeapMax
         /\ src \in Int /\ src >= 0
BY LenProperties, SizeAssumption, IntMaxAssumption DEF TypeOK

\* A call that has ended leaves nothing to account for but array and cursor.
LEMMA EndedInvariant ==
  ASSUME IInv, todo' = << >>, src' = 0, got' \in Seq(Seq(Int)), thrown' \in Exception,
         data' \in Seq(Byte), Len(data') <= HeapMax, open' \in BOOLEAN,
         size' \in 0..HeapMax, open' => size' = Len(data'),
         pos' \in Int, mark' \in Int, stale' \in BOOLEAN, charLen' \in -1..HeapMax,
         MarkBehindCursor'
  PROVE  IInv'
<1>1. << >> \in Seq(Get) /\ << >> \in Seq(Gets(charLen')) BY EmptySeq
<1>2. TypeOK' BY <1>1 DEF TypeOK
<1>3. QueueSound' BY <1>1 DEF QueueSound, NativeFirst
<1>4. LengthTaken' BY DEF LengthTaken
<1>5. NativeSound' BY DEF NativeSound, Reading
<1>6. Running' BY DEF Running
<1> QED BY <1>2, <1>3, <1>4, <1>5, <1>6 DEF IInv

\* The cursor moves inside the array, and so stays ahead of the mark.
LEMMA CursorForward ==
  ASSUME IInv, UNCHANGED << data, open, size, mark, stale >>,
         pos' \in Int, ~stale => pos <= pos' /\ pos' <= size
  PROVE  MarkBehindCursor'
<1>1. pos \in Int /\ mark \in Int /\ size \in Int BY Types DEF IInv
<1>2. ~stale => -1 <= mark /\ mark <= pos BY DEF IInv, MarkBehindCursor
<1>3. mark' = mark /\ size' = size /\ stale' = stale OBVIOUS
<1> QED BY <1>1, <1>2, <1>3 DEF MarkBehindCursor

LEMMA ThrowInvariant ==
  ASSUME IInv, NEW e \in Exception, Throw(e),
         UNCHANGED << data, open, size, mark, stale >>, charLen' = charLen,
         pos' \in Int, ~stale => pos <= pos' /\ pos' <= size
  PROVE  IInv'
<1>1. MarkBehindCursor' BY CursorForward
<1>2. /\ todo' = << >> /\ src' = 0 /\ got' = got /\ thrown' = e BY DEF Throw
<1>3. /\ data' = data /\ open' = open /\ size' = size /\ mark' = mark /\ stale' = stale
  OBVIOUS
<1> QED BY <1>1, <1>2, <1>3, EndedInvariant DEF IInv, TypeOK

LEMMA ThrowInPlace ==
  ASSUME IInv, NEW e \in Exception, Throw(e), UNCHANGED << arrayVars, cursorVars, charLen >>
  PROVE  IInv'
<1>1. pos \in Int BY Types DEF IInv
<1>2. ~stale => pos <= size BY DEF IInv, MarkBehindCursor
<1>3. /\ data' = data /\ open' = open /\ size' = size /\ mark' = mark /\ stale' = stale
      /\ charLen' = charLen /\ pos' = pos
  BY DEF arrayVars, cursorVars
<1> QED BY <1>1, <1>2, <1>3, ThrowInvariant

LEMMA ReturnInvariant ==
  ASSUME IInv, NEW values \in Seq(Seq(Int)), Return(values),
         UNCHANGED << data, open, size, mark, stale >>, charLen' = charLen,
         pos' \in Int, ~stale => pos <= pos' /\ pos' <= size
  PROVE  IInv'
<1>1. MarkBehindCursor' BY CursorForward
<1>2. /\ todo' = << >> /\ src' = 0 /\ got' = values /\ thrown' = "none" BY DEF Return
<1>3. /\ data' = data /\ open' = open /\ size' = size /\ mark' = mark /\ stale' = stale
  OBVIOUS
<1>4. thrown' \in Exception BY <1>2, ExceptionNames
<1> QED BY <1>1, <1>2, <1>3, <1>4, EndedInvariant DEF IInv, TypeOK

\* A get that delivers: others may take its place, native code only with room
\* to read in.
LEMMA DeliverInvariant ==
  ASSUME IInv, todo # << >>, NEW value \in Seq(Int), NEW gets, Deliver(value, gets),
         UNCHANGED << data, open, size, mark, stale >>,
         charLen' \in -1..HeapMax, charLen <= charLen',
         gets \in Seq(Gets(charLen')), NativeFirst(gets),
         pos' \in Int, ~stale => pos <= pos' /\ pos' <= size,
         gets # << >> /\ Head(gets).kind = "native" =>
           /\ open /\ pos' >= 1 /\ pos' <= Len(data)
           /\ ~stale => mark < pos'
  PROVE  IInv'
<1>1. MarkBehindCursor' BY CursorForward
<1>2. /\ todo' = gets \o Tail(todo) /\ got' = Append(got, value) /\ src' = 0
      /\ thrown' = thrown
  BY DEF Deliver
<1>3. /\ data' = data /\ open' = open /\ size' = size /\ mark' = mark /\ stale' = stale
  OBVIOUS
<1>4. todo \in Seq(Gets(charLen'))
  <2>1. charLen \in Int /\ charLen' \in Int BY Types, SizeAssumption DEF IInv
  <2>2. Gets(charLen) \subseteq Gets(charLen') BY <2>1, GetsGrow
  <2> QED BY <2>2, SeqMonotonic DEF IInv, QueueSound
<1>5. /\ todo' \in Seq(Gets(charLen')) /\ NativeFirst(todo')
      /\ todo' # << >> =>
           \/ gets # << >> /\ Head(todo') = Head(gets)
           \/ gets = << >> /\ Head(todo').kind # "native"
  BY <1>2, <1>4, Replaced DEF IInv, QueueSound
<1>6. got' \in Seq(Seq(Int)) /\ got' # << >>
  <2>1. got \in Seq(Seq(Int)) BY DEF IInv, TypeOK
  <2>2. Len(Append(got, value)) = Len(got) + 1 /\ Append(got, value) \in Seq(Seq(Int))
    BY <2>1, AppendProperties
  <2>3. Len(got) \in Nat BY <2>1, LenProperties
  <2> QED BY <1>2, <2>2, <2>3
<1>7. TypeOK'
  <2>1. todo' \in Seq(Get) BY <1>5, GetsAreGets, SeqMonotonic
  <2> QED BY <1>2, <1>3, <1>6, <2>1 DEF IInv, TypeOK
<1>8. QueueSound' BY <1>5 DEF QueueSound
<1>9. LengthTaken' BY <1>6 DEF LengthTaken
<1>10. NativeSound'
  <2> SUFFICES ASSUME todo' # << >>, Head(todo').kind = "native"
               PROVE  /\ open' /\ pos' >= 1 /\ pos' + src' <= Len(data')
                      /\ ~stale' => mark' < pos'
    BY DEF NativeSound, Reading
  <2>1. gets # << >> /\ Head(gets).kind = "native" BY <1>5
  <2> QED BY <1>2, <1>3, <2>1
<1>11. Running' BY <1>2 DEF IInv, Running
<1> QED BY <1>1, <1>7, <1>8, <1>9, <1>10, <1>11 DEF IInv

\* The usual case: one value, nothing in its place.
LEMMA DeliverOne ==
  ASSUME IInv, todo # << >>, NEW value \in Seq(Int), Deliver(value, << >>),
         UNCHANGED << data, open, size, mark, stale >>, charLen' = charLen,
         pos' \in Int, ~stale => pos <= pos' /\ pos' <= size
  PROVE  IInv'
<1>1. << >> \in Seq(Gets(charLen')) /\ NativeFirst(<< >>) BY EmptySeq DEF NativeFirst
<1>2. charLen' \in -1..HeapMax /\ charLen <= charLen' BY Types DEF IInv, TypeOK
<1> QED BY <1>1, <1>2, DeliverInvariant

-----------------------------------------------------------------------------
(* Fixed-width values and bytes.                                           *)

\* What checkAvailable has established.
LEMMA Available ==
  ASSUME TypeOK, NEW p \in Int, NEW k \in Int, FixedError(p, k) = "none"
  PROVE  0 <= p /\ p + k <= size /\ open /\ size = Len(data)
BY Types DEF FixedError

LEMMA FixedErrorName ==
  ASSUME NEW p, NEW k PROVE FixedError(p, k) \in Exception
BY ExceptionNames DEF FixedError

\* What is known of the first get.
LEMMA FirstGet ==
  ASSUME IInv, todo # << >>
  PROVE  Head(todo) \in Gets(charLen) /\ Head(todo) \in Get
         /\ Head(todo).n \in Int /\ Head(todo).be \in BOOLEAN /\ Head(todo).kind \in GetKind
<1>1. Head(todo) \in Gets(charLen) BY HeadTailProperties DEF IInv, QueueSound
<1> QED BY <1>1 DEF Gets, Get

LEMMA TakeFixedInvariant ==
  ASSUME IInv, TakeFixed
  PROVE  IInv' /\ pos' >= pos /\ pos' <= size /\ size' = size
<1> DEFINE n == Head(todo).n
<1>1. todo # << >> /\ Head(todo).kind = "fixed" BY DEF TakeFixed, Reading
<1>2. n \in Int /\ n >= 0 BY <1>1, FirstGet DEF Gets
<1>3. FixedError(pos, n) = "none" BY DEF TakeFixed
<1>4. TypeOK /\ pos \in Int BY Types DEF IInv
<1>5. 0 <= pos /\ pos + n <= size /\ open /\ size = Len(data) BY <1>2, <1>3, <1>4, Available
<1>6. InOrder(Bytes(pos, n), Head(todo).be) \in Seq(Int)
  <2>1. Bytes(pos, n) \in Seq(Byte) BY <1>2, <1>4, <1>5, BytesType
  <2> QED BY <2>1, InOrderType, SeqOfInts
<1>7. Deliver(InOrder(Bytes(pos, n), Head(todo).be), << >>) BY DEF TakeFixed
<1>8. /\ UNCHANGED << data, open, size, mark, stale >> /\ charLen' = charLen
      /\ pos' = pos + n
  BY DEF TakeFixed, Advance, arrayVars
<1> HIDE DEF n
<1>9. pos' \in Int /\ pos <= pos' /\ pos' <= size BY <1>2, <1>4, <1>5, <1>8
<1>10. IInv' BY <1>1, <1>6, <1>7, <1>8, <1>9, DeliverOne
<1> QED BY <1>8, <1>9, <1>10

LEMMA FixedFailsInvariant ==
  ASSUME IInv, FixedFails
  PROVE  IInv' /\ pos' = pos /\ size' = size /\ thrown' # "ArrayIndex"
<1>1. Throw(FixedError(pos, Wanted)) /\ UNCHANGED << arrayVars, cursorVars, charLen >>
  BY DEF FixedFails
<1>2. IInv' BY <1>1, FixedErrorName, ThrowInPlace
<1>3. FixedError(pos, Wanted) # "ArrayIndex" BY DEF FixedError
<1> QED BY <1>1, <1>2, <1>3 DEF arrayVars, cursorVars, Throw

\* The byte at a cursor inside the array.
LEMMA ByteAt ==
  ASSUME TypeOK, InBounds, pos < size, open
  PROVE  data[pos + 1] \in Int /\ 0 <= data[pos + 1] /\ data[pos + 1] <= 255
         /\ size = Len(data) /\ pos \in Int
<1>1. pos \in Int /\ size = Len(data) /\ Len(data) \in Nat BY Types
<1>2. pos + 1 \in 1..Len(data) BY <1>1 DEF InBounds
<1>3. data[pos + 1] \in Byte BY <1>1, <1>2, LenProperties DEF TypeOK
<1> QED BY <1>1, <1>3, ByteIsInt

LEMMA TakeByteInvariant ==
  ASSUME IInv, TakeByte
  PROVE  IInv' /\ pos' >= pos /\ pos' <= size /\ size' = size
<1>1. todo # << >> /\ InBounds /\ pos < size /\ open BY DEF TakeByte, Reading
<1>2. TypeOK /\ size \in Int BY Types DEF IInv
<1>3. data[pos + 1] \in Int /\ pos \in Int BY <1>1, <1>2, ByteAt
<1> DEFINE value == IF Head(todo).kind = "boolean" /\ data[pos + 1] # 0
                    THEN 1 ELSE data[pos + 1]
<1>4. Deliver(<< value >>, << >>) BY DEF TakeByte
<1>5. value \in Int BY <1>3
<1>6. /\ UNCHANGED << data, open, size, mark, stale >> /\ charLen' = charLen
      /\ pos' = pos + 1
  BY DEF TakeByte, Advance, arrayVars
<1> HIDE DEF value
<1>7. pos' \in Int /\ pos <= pos' /\ pos' <= size BY <1>1, <1>2, <1>3, <1>6
<1>8. << value >> \in Seq(Int) BY <1>5, OneInt
<1>9. IInv' BY <1>1, <1>4, <1>6, <1>7, <1>8, DeliverOne
<1> QED BY <1>6, <1>7, <1>9

LEMMA AtEndInvariant ==
  ASSUME IInv, AtEnd PROVE IInv' /\ pos' = pos /\ size' = size /\ thrown' = thrown
<1>1. todo # << >> /\ Deliver(<< -1 >>, << >>) /\ UNCHANGED << arrayVars, cursorVars, charLen >>
  BY DEF AtEnd, Reading
<1>2. pos \in Int /\ (~stale => pos <= size) BY Types DEF IInv, MarkBehindCursor
<1>3. << -1 >> \in Seq(Int)
  <2>1. -1 \in Int OBVIOUS
  <2> QED BY <2>1, OneInt
<1>4. /\ UNCHANGED << data, open, size, mark, stale >> /\ charLen' = charLen /\ pos' = pos
      /\ thrown' = thrown
  BY <1>1 DEF arrayVars, cursorVars, Deliver
<1>5. pos' \in Int /\ (~stale => pos <= pos' /\ pos' <= size) BY <1>2, <1>4
<1>6. IInv' BY <1>1, <1>3, <1>4, <1>5, DeliverOne
<1> QED BY <1>4, <1>6

LEMMA ByteFailsInvariant ==
  ASSUME IInv, ByteFails
  PROVE  /\ IInv' /\ pos' >= pos /\ size' = size
         /\ InBounds => pos' <= size /\ thrown' # "ArrayIndex"
<1>1. pos \in Int /\ size \in Int /\ (~stale => pos <= size) BY Types DEF IInv, MarkBehindCursor
<1>2. CASE pos >= size /\ Throw("EOF") /\ UNCHANGED << arrayVars, cursorVars >>
  <2>1. charLen' = charLen BY DEF ByteFails
  <2>2. IInv' BY <1>2, <2>1, ExceptionNames, ThrowInPlace
  <2>3. pos' = pos /\ size' = size /\ thrown' = "EOF"
    BY <1>2 DEF arrayVars, cursorVars, Throw
  <2> QED BY <1>1, <2>2, <2>3 DEF InBounds
<1>3. CASE /\ pos < size /\ ~(0 <= pos /\ open) /\ Advance(1)
           /\ Throw(IF open THEN "ArrayIndex" ELSE "NullPointer")
  <2>1. /\ UNCHANGED << data, open, size, mark, stale >> /\ charLen' = charLen
        /\ pos' = pos + 1
    BY <1>3 DEF ByteFails, Advance, arrayVars
  <2>2. pos' \in Int /\ pos <= pos' /\ pos' <= size BY <1>1, <1>3, <2>1
  <2>3. (IF open THEN "ArrayIndex" ELSE "NullPointer") \in Exception BY ExceptionNames
  <2>4. IInv' BY <1>3, <2>1, <2>2, <2>3, ThrowInvariant
  <2>5. InBounds => ~open BY <1>3 DEF InBounds
  <2>6. InBounds => thrown' = "NullPointer" BY <1>3, <2>5 DEF Throw
  <2> QED BY <2>1, <2>2, <2>4, <2>6
<1> QED BY <1>2, <1>3 DEF ByteFails

-----------------------------------------------------------------------------
(* Chars.                                                                  *)
LEMMA CharWidths ==
  ASSUME NEW b \in Int
  PROVE  CharWidth(b) \in {0, 1, 2, 3} /\ NativeWidth(b) \in {1, 2, 3}
BY DEF CharWidth, NativeWidth

LEMMA TakeCharInvariant ==
  ASSUME IInv, TakeChar
  PROVE  IInv' /\ pos' >= pos /\ pos' <= size /\ size' = size
<1> DEFINE w == CharWidth(data[pos + 1])
<1>1. todo # << >> /\ InBounds /\ pos < size /\ open
  BY DEF TakeChar, ReadingChar, Reading
<1>2. TypeOK /\ size \in Int BY Types DEF IInv
<1>3. data[pos + 1] \in Int /\ pos \in Int /\ size = Len(data) BY <1>1, <1>2, ByteAt
<1>4. w \in {0, 1, 2, 3} BY <1>3, CharWidths
<1>5. /\ w # 0 /\ w <= size - pos
      /\ Deliver(<< CharOf(Bytes(pos, w)) >>, << >>)
      /\ Advance(w) /\ charLen' = charLen
  BY DEF TakeChar
<1> HIDE DEF w
<1>6. w \in {1, 2, 3} /\ 0 <= pos BY <1>1, <1>4, <1>5 DEF InBounds
<1>7. Bytes(pos, w) \in Seq(Int) /\ Len(Bytes(pos, w)) = w
  BY <1>2, <1>3, <1>5, <1>6, BytesType
<1>8. << CharOf(Bytes(pos, w)) >> \in Seq(Int) BY <1>6, <1>7, CharOfType, OneInt
<1>9. UNCHANGED << data, open, size, mark, stale >> /\ pos' = pos + w
  BY <1>5 DEF Advance, arrayVars
<1>10. pos' \in Int /\ pos <= pos' /\ pos' <= size BY <1>2, <1>3, <1>5, <1>6, <1>9
<1>11. IInv' BY <1>1, <1>5, <1>8, <1>9, <1>10, DeliverOne
<1> QED BY <1>9, <1>10, <1>11

\* The char buffer is always long enough for the char that goes into it.
LEMMA CharsFit == ASSUME IInv, todo # << >> PROVE CharFits
BY FirstGet DEF CharFits, Gets

LEMMA CharFailsInvariant ==
  ASSUME IInv, CharFails
  PROVE  IInv' /\ pos' >= pos /\ pos' <= size /\ size' = size /\ thrown' # "ArrayIndex"
<1> DEFINE w == CharWidth(data[pos + 1])
<1>1. todo # << >> /\ InBounds /\ pos < size /\ open
  BY DEF CharFails, ReadingChar, Reading
<1>2. TypeOK /\ size \in Int BY Types DEF IInv
<1>3. data[pos + 1] \in Int /\ pos \in Int BY <1>1, <1>2, ByteAt
<1>4. CharFits BY <1>1, CharsFit
<1>5. charLen' = charLen BY DEF CharFails
<1>6. \/ Throw("UTFDataFormat") /\ Advance(1)
      \/ Throw("EOF") /\ Advance(size - pos)
  BY <1>4 DEF CharFails
<1>7. CASE Throw("UTFDataFormat") /\ Advance(1)
  <2>1. UNCHANGED << data, open, size, mark, stale >> /\ pos' = pos + 1
        /\ thrown' = "UTFDataFormat"
    BY <1>7 DEF Advance, arrayVars, Throw
  <2>2. pos' \in Int /\ pos <= pos' /\ pos' <= size BY <1>1, <1>2, <1>3, <2>1
  <2>3. IInv' BY <1>5, <1>7, <2>1, <2>2, ExceptionNames, ThrowInvariant
  <2> QED BY <2>1, <2>2, <2>3
<1>8. CASE Throw("EOF") /\ Advance(size - pos)
  <2>1. UNCHANGED << data, open, size, mark, stale >> /\ pos' = pos + (size - pos)
        /\ thrown' = "EOF"
    BY <1>8 DEF Advance, arrayVars, Throw
  <2>2. pos' \in Int /\ pos <= pos' /\ pos' <= size BY <1>1, <1>2, <1>3, <2>1
  <2>3. IInv' BY <1>5, <1>8, <2>1, <2>2, ExceptionNames, ThrowInvariant
  <2> QED BY <2>1, <2>2, <2>3
<1> QED BY <1>6, <1>7, <1>8

-----------------------------------------------------------------------------
(* read(byte[], int, int).                                                 *)

\* A copy that arraycopy accepts ends inside the array.
LEMMA CopyInside ==
  ASSUME TypeOK, NEW n \in Int, n > 0, pos < size, CopyError(CopyLength(n)) = "none"
  PROVE  /\ CopyLength(n) \in Int /\ CopyLength(n) > 0
         /\ 0 <= pos /\ pos + CopyLength(n) <= size
         /\ open /\ size = Len(data)
<1>1. pos \in Int /\ size \in Int /\ (open => size = Len(data)) BY Types
<1>2. CopyLength(n) \in Int /\ CopyLength(n) > 0 BY <1>1 DEF CopyLength
<1>3. open /\ 0 <= pos /\ pos + CopyLength(n) <= Len(data)
  BY <1>1, <1>2 DEF CopyError
<1> QED BY <1>1, <1>2, <1>3

\* The only way arraycopy fails on a cursor inside the array.
LEMMA CopyOverflow ==
  ASSUME TypeOK, NEW n \in Int, InBounds, CopyError(CopyLength(n)) = "ArrayIndex"
  PROVE  pos + n > IntMax
<1>1. /\ pos \in Int /\ size \in Int /\ (open => size = Len(data)) /\ IntMax \in Int
      /\ size <= IntMax /\ IntMax >= 8
  BY Types
<1>2. open /\ 0 <= pos /\ pos <= size /\ pos + CopyLength(n) > size
  BY <1>1 DEF CopyError, InBounds
<1>3. CASE Wrap(pos + n) > size
  <2>1. CopyLength(n) = size - pos BY <1>3 DEF CopyLength
  <2> QED BY <1>1, <1>2, <2>1
<1>4. CASE ~(Wrap(pos + n) > size)
  <2>1. pos + n > size BY <1>2, <1>4 DEF CopyLength
  <2>2. Wrap(pos + n) # pos + n BY <2>1, <1>4
  <2>3. pos + n \in Int /\ pos + n >= 0 BY <1>1, <1>2, <2>1
  <2>4. \A x \in Int : x >= 0 /\ Wrap(x) # x => x > IntMax BY <1>1 DEF Wrap
  <2> QED BY <2>2, <2>3, <2>4
<1> QED BY <1>3, <1>4

LEMMA FilledType ==
  ASSUME TypeOK, NEW n \in Int, n > 0, pos < size, CopyError(CopyLength(n)) = "none"
  PROVE  Filled(n) \in Seq(Int)
<1>1. /\ CopyLength(n) \in Int /\ 0 <= pos /\ pos + CopyLength(n) <= Len(data)
  BY CopyInside
<1>2. pos \in Int /\ data \in Seq(Byte) /\ Len(data) \in Nat BY Types DEF TypeOK
<1>3. \A i \in 1..n : (IF i <= CopyLength(n) THEN data[pos + i] ELSE 0) \in Int
  <2> SUFFICES ASSUME NEW i \in 1..n, i <= CopyLength(n) PROVE data[pos + i] \in Int
    OBVIOUS
  <2>1. pos + i \in 1..Len(data) BY <1>1, <1>2
  <2> QED BY <1>2, <2>1, LenProperties, ByteIsInt
<1>4. n \in Nat BY SMT
<1>5. [i \in 1..n |-> IF i <= CopyLength(n) THEN data[pos + i] ELSE 0] \in [1..n -> Int]
  BY <1>3
<1> QED BY <1>4, <1>5, FunctionIsSeq DEF Filled

LEMMA FillInvariant ==
  ASSUME IInv, Fill
  PROVE  IInv' /\ pos' >= pos /\ pos' <= size /\ size' = size
<1> DEFINE n == Head(todo).n
           k == CopyLength(n)
<1>1. todo # << >> /\ Head(todo).kind = "fill" /\ pos < size /\ CopyError(k) = "none"
  BY DEF Fill, Reading
<1>2. n \in Int /\ n > 0 BY <1>1, FirstGet DEF Gets
<1>3. TypeOK /\ pos \in Int /\ size \in Int BY Types DEF IInv
<1>4. Deliver(Filled(n), << >>) /\ Advance(k) /\ charLen' = charLen BY DEF Fill
<1> HIDE DEF n
<1>5. k \in Int /\ k > 0 /\ pos + k <= size BY <1>1, <1>2, <1>3, CopyInside
<1>6. Filled(n) \in Seq(Int) BY <1>1, <1>2, <1>3, FilledType
<1> HIDE DEF k
<1>7. UNCHANGED << data, open, size, mark, stale >> /\ pos' = pos + k
  BY <1>4 DEF Advance, arrayVars
<1>8. pos' \in Int /\ pos <= pos' /\ pos' <= size BY <1>3, <1>5, <1>7
<1>9. IInv' BY <1>1, <1>4, <1>6, <1>7, <1>8, DeliverOne
<1> QED BY <1>7, <1>8, <1>9

LEMMA FillFailsInvariant ==
  ASSUME IInv, FillFails
  PROVE  /\ IInv' /\ pos' = pos /\ size' = size
         /\ InBounds /\ thrown' = "ArrayIndex" => pos + Head(todo).n > IntMax
<1> DEFINE error == IF pos >= size THEN "EOF" ELSE CopyError(CopyLength(Head(todo).n))
<1>1. error # "none" /\ Throw(error) /\ UNCHANGED << arrayVars, cursorVars, charLen >>
      /\ todo # << >>
  BY DEF FillFails, Reading
<1>2. error \in Exception BY ExceptionNames DEF CopyError
<1>3. TypeOK BY DEF IInv
<1>4. thrown' = error BY <1>1 DEF Throw
<1>5. ASSUME InBounds, error = "ArrayIndex" PROVE pos + Head(todo).n > IntMax
  <2>1. Head(todo).n \in Int BY <1>1, FirstGet
  <2> QED BY <1>3, <1>5, <2>1, CopyOverflow
<1> HIDE DEF error
<1>6. IInv' BY <1>1, <1>2, ThrowInPlace
<1>7. pos' = pos /\ size' = size BY <1>1 DEF arrayVars, cursorVars
<1> QED BY <1>4, <1>5, <1>6, <1>7

-----------------------------------------------------------------------------
(* Lengths.                                                                *)
LEMMA RepeatGets ==
  ASSUME NEW S, NEW get \in S, NEW n \in Int
  PROVE  Repeat(get, n) \in Seq(S) /\ \A i \in DOMAIN Repeat(get, n) : Repeat(get, n)[i] = get
<1> DEFINE f == [i \in 1..n |-> get]
<1>1. f = [i \in 1..n |-> f[i]] /\ \A i \in 1..n : f[i] \in S /\ f[i] = get OBVIOUS
<1> HIDE DEF f
<1>2. f \in Seq(S) /\ DOMAIN f = 1..n BY <1>1, LoopIsSeq
<1>3. Repeat(get, n) = f BY DEF Repeat, f
<1> QED BY <1>1, <1>2, <1>3

\* A queue of one get that is repeated has no native code in it.
LEMMA RepeatPlain ==
  ASSUME NEW c, NEW get \in Gets(c), get.kind # "native", NEW n \in Int
  PROVE  Repeat(get, n) \in Seq(Gets(c)) /\ NativeFirst(Repeat(get, n))
BY RepeatGets DEF NativeFirst

\* What a length turns a call into is made of gets that can wait.
LEMMA ElementsSound ==
  ASSUME NEW get, get.kind \in Counted, get.kind = "fixeds" => get.n \in Int /\ get.n >= 0,
         NEW n \in Int, NEW c \in Int, charLen \in Int, get.kind = "utf" => n <= c
  PROVE  Elements(get, n) \in Seq(Gets(c)) /\ NativeFirst(Elements(get, n))
<1>1. CASE get.kind = "bytes"
  <2>1. Elements(get, n) = IF n > 0 THEN << GetOf("fill", n) >> ELSE << >>
    BY <1>1, SMT DEF Elements
  <2>2. CASE n > 0
    <3>1. GetOf("fill", n) \in Gets(c) BY <2>2, PlainGet DEF GetKind
    <3>2. Elements(get, n) = << GetOf("fill", n) >> BY <2>1, <2>2
    <3>3. << GetOf("fill", n) >> \in Seq(Gets(c)) BY <3>1, Tuples
    <3>4. NativeFirst(<< GetOf("fill", n) >>) BY DEF NativeFirst
    <3> QED BY <3>2, <3>3, <3>4
  <2>3. CASE ~(n > 0)
    <3>1. Elements(get, n) = << >> BY <2>1, <2>3
    <3>2. << >> \in Seq(Gets(c)) /\ NativeFirst(<< >>) BY EmptySeq DEF NativeFirst
    <3> QED BY <3>1, <3>2
  <2> QED BY <2>2, <2>3
<1>2. CASE get.kind = "booleans"
  <2>1. Elements(get, n) = Repeat(GetOf("boolean", 1), n) BY <1>2, SMT DEF Elements
  <2>2. GetOf("boolean", 1) \in Gets(c) BY PlainGet DEF GetKind
  <2>3. GetOf("boolean", 1).kind # "native" BY DEF GetOf
  <2> QED BY <2>1, <2>2, <2>3, RepeatPlain
<1>3. CASE get.kind = "fixeds"
  <2>1. Elements(get, n) = Repeat(GetOf("fixed", get.n), n) BY <1>3, SMT DEF Elements
  <2>2. GetOf("fixed", get.n) \in Gets(c) BY <1>3, PlainGet DEF GetKind
  <2>3. GetOf("fixed", get.n).kind # "native" BY DEF GetOf
  <2> QED BY <2>1, <2>2, <2>3, RepeatPlain
<1>4. CASE get.kind = "utfs"
  <2>1. Elements(get, n) = Repeat(GetOf("utf", 0), n) BY <1>4, SMT DEF Elements
  <2>2. GetOf("utf", 0) \in Gets(c) BY PlainGet DEF GetKind
  <2>3. GetOf("utf", 0).kind # "native" BY DEF GetOf
  <2> QED BY <2>1, <2>2, <2>3, RepeatPlain
<1>5. CASE get.kind = "inflate"
  <2>1. Elements(get, n) = Repeat(GetOf("dstChar", 1), n) BY <1>5, SMT DEF Elements
  <2>2. GetOf("dstChar", 1) \in Gets(c) BY PlainGet DEF GetKind
  <2>3. GetOf("dstChar", 1).kind # "native" BY DEF GetOf
  <2> QED BY <2>1, <2>2, <2>3, RepeatPlain
<1>6. CASE get.kind = "utf"
  <2> DEFINE f == [i \in 1..n |-> GetOf("char", i - 1)]
  <2>1. Elements(get, n) = f BY <1>6, SMT DEF Elements
  <2>2. \A i \in 1..n : f[i] \in Gets(c) /\ f[i].kind # "native"
    <3> SUFFICES ASSUME NEW i \in 1..n
                 PROVE  GetOf("char", i - 1) \in Gets(c)
                        /\ GetOf("char", i - 1).kind # "native"
      OBVIOUS
    <3>1. i - 1 \in Int /\ i - 1 < c BY <1>6
    <3>2. GetOf("char", i - 1) \in Gets(c) BY <3>1, PlainGet DEF GetKind
    <3> QED BY <3>2 DEF GetOf
  <2>3. f = [i \in 1..n |-> f[i]] OBVIOUS
  <2> HIDE DEF f
  <2>4. f \in Seq(Gets(c)) /\ DOMAIN f = 1..n BY <2>2, <2>3, LoopIsSeq
  <2> QED BY <2>1, <2>2, <2>4 DEF NativeFirst
<1>7. ASSUME NEW first \in Int, NEW kind \in {"string", "untouched"},
             Elements(get, n) = << GetOf("native", first), GetOf(kind, n) >>
      PROVE  Elements(get, n) \in Seq(Gets(c)) /\ NativeFirst(Elements(get, n))
  <2>1. GetOf("native", first) \in Gets(c) BY PlainGet DEF GetKind
  <2>2. GetOf(kind, n) \in Gets(c) BY PlainGet DEF GetKind
  <2>3. << GetOf("native", first), GetOf(kind, n) >> \in Seq(Gets(c)) BY <2>1, <2>2, Tuples
  <2>4. NativeFirst(<< GetOf("native", first), GetOf(kind, n) >>)
    <3>1. GetOf(kind, n).kind # "native" BY DEF GetOf
    <3> QED BY <3>1 DEF NativeFirst
  <2> QED BY <1>7, <2>3, <2>4
<1>8. CASE get.kind = "utfJNI"
  <2>1. Elements(get, n) = << GetOf("native", MaxOf(n, charLen)), GetOf("string", n) >>
    BY <1>8, SMT DEF Elements
  <2>2. MaxOf(n, charLen) \in Int BY DEF MaxOf
  <2> QED BY <1>7, <2>1, <2>2
<1>9. CASE get.kind = "inflateJNI"
  <2>1. Elements(get, n) = << GetOf("native", charLen), GetOf("untouched", n) >>
    BY <1>9, SMT DEF Elements
  <2> QED BY <1>7, <2>1
<1> QED BY <1>1, <1>2, <1>3, <1>4, <1>5, <1>6, <1>8, <1>9 DEF Counted

\* What a step that has found a length to be there knows.
LEMMA CountKnown ==
  ASSUME IInv, Counting
  PROVE  /\ TypeOK /\ todo # << >> /\ Head(todo).kind \in Counted
         /\ pos \in Int /\ size \in Int /\ 0 <= pos /\ pos + 4 <= size
         /\ open /\ size = Len(data) /\ Count \in Int
<1>1. TypeOK /\ pos \in Int /\ size \in Int BY Types DEF IInv
<1>2. todo # << >> /\ Head(todo).kind \in Counted /\ FixedError(pos, 4) = "none"
  BY DEF Counting, Reading
<1>3. 0 <= pos /\ pos + 4 <= size /\ open /\ size = Len(data) BY <1>1, <1>2, Available
<1>4. Bytes(pos, 4) \in Seq(Byte) /\ Len(Bytes(pos, 4)) = 4
  <2>1. \A k \in Int : 0 <= k /\ pos + k <= Len(data) =>
          Bytes(pos, k) \in Seq(Byte) /\ Len(Bytes(pos, k)) = k
    BY <1>1, <1>3, BytesType
  <2>2. 4 \in Int /\ 0 <= 4 /\ pos + 4 <= Len(data) BY <1>3
  <2> QED BY <2>1, <2>2
<1>5. Count \in Int BY <1>4, InOrderType, IntValueType DEF Count
<1> QED BY <1>1, <1>2, <1>3, <1>5

LEMMA TakeCountInvariant ==
  ASSUME IInv, TakeCount
  PROVE  IInv' /\ pos' >= pos /\ pos' <= size /\ size' = size /\ thrown' = thrown
<1> DEFINE n == Count
           gets == IF n = NULL_ARRAY_LENGTH THEN << >> ELSE Elements(Head(todo), n)
           value == MaxOf(n, IF n = NULL_ARRAY_LENGTH THEN -1 ELSE 0)
<1>1. /\ TypeOK /\ todo # << >> /\ Head(todo).kind \in Counted
      /\ pos \in Int /\ size \in Int /\ 0 <= pos /\ pos + 4 <= size
      /\ open /\ size = Len(data) /\ n \in Int
  BY CountKnown DEF TakeCount
<1>2. /\ CountError(Head(todo), n) = "none" /\ Deliver(<< value >>, gets)
      /\ charLen' = (IF Buffered /\ NeedsBuffer(n) THEN n ELSE charLen)
      /\ Advance(4)
  BY DEF TakeCount
<1>3. charLen \in Int /\ -1 <= charLen /\ charLen <= HeapMax /\ HeapMax \in Int
  BY <1>1, Types
<1>4. Buffered <=> Head(todo).kind \in {"utf", "utfJNI"} /\ n # NULL_ARRAY_LENGTH
  BY DEF Buffered
<1> HIDE DEF n
<1>5. value \in Int BY <1>1 DEF MaxOf
<1> HIDE DEF value
<1>6. charLen' \in Int /\ -1 <= charLen' /\ charLen' <= HeapMax /\ charLen <= charLen'
  <2>1. CASE Buffered /\ NeedsBuffer(n)
    <3>1. AllocError(n) = "none" BY <1>2, <1>4, <2>1 DEF CountError
    <3>2. n >= 0 /\ n <= HeapMax BY <1>1, <1>3, <3>1 DEF AllocError
    <3>3. charLen <= n BY <1>1, <1>3, <2>1, <3>2 DEF NeedsBuffer, NoBuffer
    <3>4. charLen' = n BY <1>2, <2>1
    <3> QED BY <1>1, <1>3, <3>2, <3>3, <3>4
  <2>2. CASE ~(Buffered /\ NeedsBuffer(n)) BY <1>2, <1>3, <2>2
  <2> QED BY <2>1, <2>2
<1>7. gets \in Seq(Gets(charLen')) /\ NativeFirst(gets)
  <2>1. CASE n = NULL_ARRAY_LENGTH
    <3>1. << >> \in Seq(Gets(charLen')) /\ NativeFirst(<< >>) BY EmptySeq DEF NativeFirst
    <3> QED BY <2>1, <3>1
  <2>2. CASE n # NULL_ARRAY_LENGTH
    <3>1. Head(todo).kind = "fixeds" => Head(todo).n \in Int /\ Head(todo).n >= 0
      BY <1>1, FirstGet DEF Gets
    <3>2. Head(todo).kind = "utf" => n <= charLen'
      BY <1>1, <1>2, <1>3, <1>4, <2>2 DEF NeedsBuffer
    <3>3. /\ Elements(Head(todo), n) \in Seq(Gets(charLen'))
          /\ NativeFirst(Elements(Head(todo), n))
      BY <1>1, <1>3, <1>6, <3>1, <3>2, ElementsSound
    <3> QED BY <2>2, <3>3
  <2> QED BY <2>1, <2>2
<1> HIDE DEF gets
<1>8. UNCHANGED << data, open, size, mark, stale >> /\ pos' = pos + 4
  BY <1>2 DEF Advance, arrayVars
<1>9. pos' \in Int /\ pos <= pos' /\ pos' <= size /\ pos' >= 1 /\ pos' <= Len(data)
  BY <1>1, <1>8
<1>10. ~stale => mark < pos'
  <2>1. mark \in Int /\ (~stale => mark <= pos) BY Types DEF IInv, MarkBehindCursor
  <2> QED BY <1>1, <1>8, <2>1
<1>11. << value >> \in Seq(Int) BY <1>5, OneInt
<1>12. charLen' \in -1..HeapMax BY <1>3, <1>6
<1>13. IInv' BY <1>1, <1>2, <1>6, <1>7, <1>8, <1>9, <1>10, <1>11, <1>12, DeliverInvariant
<1>14. thrown' = thrown BY <1>2 DEF Deliver
<1> QED BY <1>8, <1>9, <1>13, <1>14

LEMMA CountErrorName ==
  ASSUME NEW get, NEW n
  PROVE  CountError(get, n) \in Exception /\ CountError(get, n) # "ArrayIndex"
BY ExceptionNames DEF CountError, AllocError

LEMMA CountFailsInvariant ==
  ASSUME IInv, CountFails
  PROVE  IInv' /\ pos' >= pos /\ pos' <= size /\ size' = size /\ thrown' # "ArrayIndex"
<1> DEFINE error == CountError(Head(todo), Count)
<1>1. pos \in Int /\ size \in Int /\ pos + 4 <= size BY CountKnown DEF CountFails
<1>2. Throw(error) /\ Advance(4) /\ charLen' = charLen BY DEF CountFails
<1>3. error \in Exception /\ error # "ArrayIndex" BY CountErrorName
<1> HIDE DEF error
<1>4. /\ UNCHANGED << data, open, size, mark, stale >> /\ pos' = pos + 4 /\ thrown' = error
  BY <1>2 DEF Advance, arrayVars, Throw
<1>5. pos' \in Int /\ pos <= pos' /\ pos' <= size BY <1>1, <1>4
<1>6. IInv' BY <1>2, <1>3, <1>4, <1>5, ThrowInvariant
<1> QED BY <1>3, <1>4, <1>5, <1>6


-----------------------------------------------------------------------------
(* Native code.                                                            *)

\* The gets that are left when the first one has delivered.
LEMMA LeftGets ==
  ASSUME IInv, todo # << >>
  PROVE  /\ Tail(todo) \in Seq(Gets(charLen)) /\ NativeFirst(Tail(todo))
         /\ Tail(todo) # << >> => Head(Tail(todo)).kind # "native"
<1>1. todo \in Seq(Gets(charLen)) /\ NativeFirst(todo) BY DEF IInv, QueueSound
<1>2. /\ Tail(todo) \in Seq(Gets(charLen)) /\ Len(Tail(todo)) \in Nat
      /\ DOMAIN Tail(todo) = 1..Len(Tail(todo))
  BY <1>1, HeadTailProperties, LenProperties
<1>3. \A i \in 1..Len(Tail(todo)) : Tail(todo)[i].kind # "native"
  <2>1. /\ DOMAIN todo = 1..Len(todo) /\ Len(todo) \in Nat
        /\ Len(Tail(todo)) = Len(todo) - 1
        /\ \A i \in 1..Len(Tail(todo)) : Tail(todo)[i] = todo[i + 1]
    BY <1>1, HeadTailProperties, LenProperties, EmptySeq
  <2> QED BY <1>1, <2>1 DEF NativeFirst
<1>4. ASSUME Tail(todo) # << >> PROVE Head(Tail(todo)).kind # "native"
  <2>1. Len(Tail(todo)) >= 1 /\ Head(Tail(todo)) = Tail(todo)[1]
    BY <1>2, <1>4, EmptySeq, HeadTailProperties
  <2> QED BY <1>2, <1>3, <2>1
<1> QED BY <1>2, <1>3, <1>4 DEF NativeFirst

\* Native code and what follows it come after a length.
LEMMA LengthBefore ==
  ASSUME IInv, Reading(NativeKinds)
  PROVE  got # << >> /\ got \in Seq(Seq(Int)) /\ thrown = "none"
<1>1. todo # << >> /\ Head(todo).kind \in NativeKinds BY DEF Reading
<1>2. todo \in Seq(Get) BY DEF IInv, TypeOK
<1>3. 1 \in DOMAIN todo /\ Head(todo) = todo[1]
  BY <1>1, <1>2, LenProperties, EmptySeq, HeadTailProperties
<1> QED BY <1>1, <1>3 DEF IInv, LengthTaken, TypeOK, Running

\* What native code reads from.
LEMMA NativeKnown ==
  ASSUME IInv, Reading({"native"})
  PROVE  /\ TypeOK /\ todo # << >> /\ Reading(NativeKinds)
         /\ pos \in Int /\ size \in Int /\ mark \in Int /\ src \in Int /\ src >= 0
         /\ open /\ size = Len(data) /\ Len(data) \in Nat
         /\ pos >= 1 /\ pos + src <= Len(data)
         /\ ~stale => -1 <= mark /\ mark < pos
         /\ Head(todo).n \in Int
<1>1. todo # << >> /\ Head(todo).kind = "native" BY DEF Reading
<1>2. Reading(NativeKinds) BY <1>1 DEF Reading, NativeKinds
<1>3. /\ TypeOK /\ pos \in Int /\ size \in Int /\ mark \in Int /\ src \in Int /\ src >= 0
      /\ Len(data) \in Nat /\ (open => size = Len(data))
  BY Types DEF IInv
<1>4. Head(todo).n \in Int BY <1>1, FirstGet
<1> QED BY <1>1, <1>2, <1>3, <1>4 DEF IInv, NativeSound, MarkBehindCursor

LEMMA NativeCharInvariant ==
  ASSUME IInv, NativeChar
  PROVE  IInv' /\ pos' = pos /\ size' = size /\ thrown' = "none"
<1> DEFINE w == NativeWidth(data[pos + src + 1])
           rest == GetOf("native", Head(todo).n - 1)
<1>1. Reading({"native"}) /\ Unread > 0 BY DEF NativeChar, NativeMore
<1>2. /\ TypeOK /\ todo # << >> /\ Reading(NativeKinds)
      /\ pos \in Int /\ size \in Int /\ src \in Int /\ src >= 0
      /\ open /\ size = Len(data) /\ Len(data) \in Nat
      /\ pos >= 1 /\ pos + src <= Len(data)
      /\ ~stale => mark < pos
      /\ Head(todo).n \in Int
  BY <1>1, NativeKnown
<1>3. got # << >> /\ got \in Seq(Seq(Int)) /\ thrown = "none" BY <1>2, LengthBefore
<1>4. data[pos + src + 1] \in Int
  <2>1. pos + src + 1 \in 1..Len(data) BY <1>1, <1>2 DEF Unread
  <2> QED BY <1>2, <2>1, LenProperties, ByteIsInt DEF TypeOK
<1>5. w \in {1, 2, 3} BY <1>4, CharWidths
<1>6. /\ w <= Unread /\ got' = Append(got, << CharOf(Bytes(pos + src, w)) >>)
      /\ src' = src + w /\ todo' = << rest >> \o Tail(todo)
      /\ UNCHANGED << arrayVars, cursorVars, charLen, thrown >>
  BY DEF NativeChar
<1> HIDE DEF w
<1>7. << CharOf(Bytes(pos + src, w)) >> \in Seq(Int)
  <2>1. pos + src \in Int /\ 0 <= pos + src /\ w \in Int /\ 0 <= w
        /\ (pos + src) + w <= Len(data)
    BY <1>2, <1>5, <1>6 DEF Unread
  <2>2. Bytes(pos + src, w) \in Seq(Int) /\ Len(Bytes(pos + src, w)) = w
    BY <1>2, <2>1, BytesType
  <2>3. CharOf(Bytes(pos + src, w)) \in Int BY <1>5, <2>2, CharOfType
  <2> QED BY <2>3, OneInt
<1>8. got' \in Seq(Seq(Int)) /\ got' # << >>
  <2> DEFINE value == << CharOf(Bytes(pos + src, w)) >>
  <2>1. value \in Seq(Int) /\ got' = Append(got, value) BY <1>6, <1>7
  <2> HIDE DEF value
  <2>2. Len(Append(got, value)) = Len(got) + 1 /\ Append(got, value) \in Seq(Seq(Int))
    BY <1>3, <2>1, AppendProperties
  <2>3. Len(got) \in Nat BY <1>3, LenProperties
  <2> QED BY <2>1, <2>2, <2>3
<1>9. rest \in Gets(charLen) BY <1>2, PlainGet DEF GetKind
<1> HIDE DEF rest
<1>10. << rest >> \in Seq(Gets(charLen)) /\ NativeFirst(<< rest >>)
  BY <1>9, Tuples DEF NativeFirst
<1>11. todo' \in Seq(Gets(charLen)) /\ NativeFirst(todo')
  BY <1>2, <1>6, <1>10, Replaced DEF IInv, QueueSound
<1>12. /\ data' = data /\ open' = open /\ size' = size /\ pos' = pos /\ mark' = mark
       /\ stale' = stale /\ charLen' = charLen /\ thrown' = thrown
  BY <1>6 DEF arrayVars, cursorVars
<1>13. src' \in Nat /\ pos' + src' <= Len(data') BY <1>2, <1>5, <1>6, <1>12 DEF Unread
<1>14. TypeOK'
  <2>1. todo' \in Seq(Get) BY <1>11, GetsAreGets, SeqMonotonic
  <2> QED BY <1>2, <1>8, <1>12, <1>13, <2>1 DEF TypeOK
<1>15. MarkBehindCursor' BY <1>12 DEF IInv, MarkBehindCursor
<1>16. QueueSound' BY <1>11, <1>12 DEF QueueSound
<1>17. LengthTaken' BY <1>8 DEF LengthTaken
<1>18. NativeSound' BY <1>2, <1>12, <1>13 DEF NativeSound
<1>19. Running' BY <1>3, <1>12 DEF Running
<1> QED BY <1>3, <1>12, <1>14, <1>15, <1>16, <1>17, <1>18, <1>19 DEF IInv

\* Native code returns the bytes it has used, or -1, and leaves the cursor
\* inside the array and ahead of the mark.
LEMMA NativeReturnsInvariant ==
  ASSUME IInv, Reading({"native"}), NEW read \in Int, -1 <= read, read <= src,
         NativeReturns(read)
  PROVE  /\ IInv' /\ 0 <= pos' /\ pos' >= pos - 1 /\ pos' <= size /\ size' = size
         /\ thrown' = "none"
<1>1. /\ TypeOK /\ todo # << >> /\ Reading(NativeKinds)
      /\ pos \in Int /\ size \in Int /\ mark \in Int /\ src \in Int /\ src >= 0
      /\ open /\ size = Len(data) /\ Len(data) \in Nat
      /\ pos >= 1 /\ pos + src <= Len(data)
      /\ ~stale => -1 <= mark /\ mark < pos
  BY NativeKnown
<1>2. got # << >> /\ got \in Seq(Seq(Int)) /\ thrown = "none" BY <1>1, LengthBefore
<1>3. /\ data' = data /\ open' = open /\ size' = size /\ pos' = pos + read /\ mark' = mark
      /\ stale' = stale /\ charLen' = charLen /\ thrown' = thrown
      /\ got' = got /\ todo' = Tail(todo) /\ src' = 0
  BY DEF NativeReturns, Advance, arrayVars
<1>4. /\ todo' \in Seq(Gets(charLen)) /\ NativeFirst(todo')
      /\ todo' # << >> => Head(todo').kind # "native"
  BY <1>1, <1>3, LeftGets
<1>5. pos' \in Int /\ 0 <= pos' /\ pos' >= pos - 1 /\ pos' <= size BY <1>1, <1>3
<1>6. TypeOK'
  <2>1. todo' \in Seq(Get) BY <1>4, GetsAreGets, SeqMonotonic
  <2> QED BY <1>1, <1>2, <1>3, <1>5, <2>1 DEF TypeOK
<1>7. MarkBehindCursor' BY <1>1, <1>3, <1>5 DEF MarkBehindCursor
<1>8. QueueSound' BY <1>3, <1>4 DEF QueueSound
<1>9. LengthTaken' BY <1>2, <1>3 DEF LengthTaken
<1>10. NativeSound' BY <1>4 DEF NativeSound, Reading
<1>11. Running' BY <1>2, <1>3 DEF Running
<1> QED BY <1>2, <1>3, <1>5, <1>6, <1>7, <1>8, <1>9, <1>10, <1>11 DEF IInv

LEMMA NativeMalformedInvariant ==
  ASSUME IInv, NativeMalformed
  PROVE  IInv' /\ 0 <= pos' /\ pos' >= pos - 1 /\ pos' <= size /\ size' = size
         /\ thrown' = "none"
<1>1. Reading({"native"}) /\ NativeReturns(-1) BY DEF NativeMalformed, NativeMore
<1>2. src \in Int /\ src >= 0 BY <1>1, NativeKnown
<1>3. -1 \in Int /\ -1 <= -1 /\ -1 <= src BY <1>2
<1> QED BY <1>1, <1>3, NativeReturnsInvariant

LEMMA NativeDoneInvariant ==
  ASSUME IInv, NativeDone
  PROVE  IInv' /\ 0 <= pos' /\ pos' >= pos - 1 /\ pos' <= size /\ size' = size
         /\ thrown' = "none"
<1>1. Reading({"native"}) /\ NativeReturns(src) BY DEF NativeDone
<1>2. src \in Int /\ -1 <= src /\ src <= src BY <1>1, NativeKnown
<1> QED BY <1>1, <1>2, NativeReturnsInvariant

LEMMA CharsType ==
  ASSUME got \in Seq(Seq(Int)), got # << >>, NEW n \in Int, n >= 0
  PROVE  Chars(n) \in Seq(Seq(Int)) /\ Chars(n) # << >>
<1> DEFINE f == [i \in 1..n + 1 |->
                   IF i = 1 \/ (Head(todo).kind = "string" /\ i <= Len(got)) THEN got[i]
                   ELSE << Unspecified >>]
<1>1. Len(got) \in Nat /\ DOMAIN got = 1..Len(got) /\ Len(got) >= 1
      /\ \A i \in 1..Len(got) : got[i] \in Seq(Int)
  BY LenProperties, EmptySeq
<1>2. << Unspecified >> \in Seq(Int)
  <2>1. Unspecified \in Int BY DEF Unspecified
  <2> QED BY <2>1, OneInt
<1>3. \A i \in 1..n + 1 : f[i] \in Seq(Int)
  <2> SUFFICES ASSUME NEW i \in 1..n + 1 PROVE f[i] \in Seq(Int) OBVIOUS
  <2>1. CASE i = 1 \/ (Head(todo).kind = "string" /\ i <= Len(got))
    <3>1. i \in 1..Len(got) BY <1>1, <2>1
    <3>2. f[i] = got[i] BY <2>1
    <3> QED BY <1>1, <3>1, <3>2
  <2>2. CASE ~(i = 1 \/ (Head(todo).kind = "string" /\ i <= Len(got))) BY <1>2, <2>2
  <2> QED BY <2>1, <2>2
<1>4. n + 1 \in Nat /\ n + 1 >= 1 BY SMT
<1>5. f = [i \in 1..n + 1 |-> f[i]] OBVIOUS
<1>6. Chars(n) = f BY DEF Chars
<1> HIDE DEF f
<1>7. f \in [1..n + 1 -> Seq(Int)] BY <1>3, <1>5
<1>8. f \in Seq(Seq(Int)) /\ Len(f) = n + 1 BY <1>4, <1>7, FunctionIsSeq
<1> QED BY <1>4, <1>6, <1>8

LEMMA NativeStringInvariant ==
  ASSUME IInv, NativeString
  PROVE  IInv' /\ pos' = pos /\ size' = size /\ thrown' # "ArrayIndex"
<1>1. Reading({"string", "untouched"}) /\ UNCHANGED << arrayVars, cursorVars, charLen >>
  BY DEF NativeString
<1>2. todo # << >> /\ Reading(NativeKinds) BY <1>1 DEF Reading, NativeKinds
<1>3. got # << >> /\ got \in Seq(Seq(Int)) /\ thrown = "none" BY <1>2, LengthBefore
<1>4. CASE Throw("StringIndex")
  <2>1. IInv' BY <1>1, <1>4, ExceptionNames, ThrowInPlace
  <2> QED BY <1>1, <1>4, <2>1 DEF Throw, arrayVars, cursorVars
<1>5. CASE /\ got' = Chars(MaxOf(Head(todo).n, 0)) /\ todo' = Tail(todo)
           /\ UNCHANGED << src, thrown >>
  <2>1. Head(todo).n \in Int BY <1>2, FirstGet
  <2>2. MaxOf(Head(todo).n, 0) \in Int /\ MaxOf(Head(todo).n, 0) >= 0 BY <2>1 DEF MaxOf
  <2>3. got' \in Seq(Seq(Int)) /\ got' # << >> BY <1>3, <1>5, <2>2, CharsType
  <2>4. /\ data' = data /\ open' = open /\ size' = size /\ pos' = pos /\ mark' = mark
        /\ stale' = stale /\ charLen' = charLen /\ thrown' = thrown /\ src' = src
    BY <1>1, <1>5 DEF arrayVars, cursorVars
  <2>5. /\ todo' \in Seq(Gets(charLen)) /\ NativeFirst(todo')
        /\ todo' # << >> => Head(todo').kind # "native"
    BY <1>2, <1>5, LeftGets
  <2>6. TypeOK'
    <3>1. todo' \in Seq(Get) BY <2>5, GetsAreGets, SeqMonotonic
    <3> QED BY <2>3, <2>4, <3>1 DEF IInv, TypeOK
  <2>7. MarkBehindCursor' BY <2>4 DEF IInv, MarkBehindCursor
  <2>8. QueueSound' BY <2>4, <2>5 DEF QueueSound
  <2>9. LengthTaken' BY <2>3 DEF LengthTaken
  <2>10. NativeSound' BY <2>5 DEF NativeSound, Reading
  <2>11. Running' BY <1>3, <2>4 DEF Running
  <2> QED BY <1>3, <2>4, <2>6, <2>7, <2>8, <2>9, <2>10, <2>11 DEF IInv
<1> QED BY <1>4, <1>5 DEF NativeString


-----------------------------------------------------------------------------
(* The methods.                                                            *)
LEMMA ArgIsInt == \A i \in IndexArgs : i \in Int
BY ArgsAssumption

\* A call starts with one get, and native code is never the first.
LEMMA SequentialSound ==
  ASSUME NEW get \in Sequential, NEW c
  PROVE  get \in Gets(c) /\ get.kind \notin NativeKinds
<1>1. ASSUME NEW kind \in ByteKinds \cup {"bytes", "booleans", "utfs", "utf", "utfJNI"},
             get = GetOf(kind, 1)
      PROVE  get \in Gets(c) /\ get.kind \notin NativeKinds
  <2>1. kind \in GetKind /\ kind \notin {"fixed", "fixeds", "fill", "char"}
        /\ kind \notin NativeKinds
    BY DEF ByteKinds, GetKind, NativeKinds
  <2>2. get \in Gets(c) BY <1>1, <2>1, PlainGet
  <2> QED BY <1>1, <2>1, <2>2 DEF GetOf
<1>2. ASSUME NEW w \in Widths, NEW be \in BOOLEAN,
             get = [kind |-> "fixed", n |-> w, be |-> be]
      PROVE  get \in Gets(c) /\ get.kind \notin NativeKinds
  BY <1>2, ArgsAssumption DEF Gets, Get, GetKind, NativeKinds
<1>3. ASSUME NEW w \in Widths, get = GetOf("fixeds", w)
      PROVE  get \in Gets(c) /\ get.kind \notin NativeKinds
  <2>1. w \in Int /\ w >= 0 BY ArgsAssumption
  <2>2. get \in Gets(c) BY <1>3, <2>1, PlainGet DEF GetKind
  <2> QED BY <1>3, <2>2 DEF GetOf, NativeKinds
<1>4. ASSUME NEW kind \in {"inflate", "inflateJNI"}, NEW n \in IndexArgs,
             get = GetOf(kind, n)
      PROVE  get \in Gets(c) /\ get.kind \notin NativeKinds
  <2>1. n \in Int BY ArgIsInt
  <2>2. get \in Gets(c) BY <1>4, <2>1, PlainGet DEF GetKind
  <2> QED BY <1>4, <2>2 DEF GetOf, NativeKinds
<1> QED BY <1>1, <1>2, <1>3, <1>4 DEF Sequential

LEMMA CallInvariant ==
  ASSUME IInv, NEW get \in Sequential, Call(get)
  PROVE  IInv'
<1>1. get \in Gets(charLen) /\ get.kind \notin NativeKinds BY SequentialSound
<1>2. /\ todo' = << get >> /\ got' = << >> /\ thrown' = "none" /\ src' = 0
      /\ data' = data /\ open' = open /\ size' = size /\ pos' = pos /\ mark' = mark
      /\ stale' = stale /\ charLen' = charLen
  BY DEF Call, arrayVars, cursorVars
<1>3. << get >> \in Seq(Gets(charLen)) BY <1>1, Tuples
<1>4. TypeOK'
  <2>1. todo' \in Seq(Get) BY <1>2, <1>3, GetsAreGets, SeqMonotonic
  <2>2. got' \in Seq(Seq(Int)) BY <1>2, EmptySeq
  <2> QED BY <1>2, <2>1, <2>2, ExceptionNames DEF IInv, TypeOK
<1>5. MarkBehindCursor' BY <1>2 DEF IInv, MarkBehindCursor
<1>6. QueueSound' BY <1>2, <1>3 DEF QueueSound, NativeFirst
<1>7. LengthTaken' BY <1>1, <1>2 DEF LengthTaken
<1>8. NativeSound' BY <1>1, <1>2 DEF NativeSound, Reading, NativeKinds
<1>9. Running' BY <1>2 DEF Running
<1> QED BY <1>4, <1>5, <1>6, <1>7, <1>8, <1>9 DEF IInv

LEMMA OutcomeInvariant ==
  ASSUME IInv, NEW error \in Exception, NEW values \in Seq(Seq(Int)), Outcome(error, values)
  PROVE  IInv'
<1>1. UNCHANGED << arrayVars, cursorVars, charLen >> BY DEF Outcome
<1>2. CASE Throw(error) BY <1>1, <1>2, ThrowInPlace
<1>3. CASE Return(values)
  <2>1. /\ UNCHANGED << data, open, size, mark, stale >> /\ charLen' = charLen /\ pos' = pos
    BY <1>1 DEF arrayVars, cursorVars
  <2>2. pos \in Int /\ (~stale => pos <= size) BY Types DEF IInv, MarkBehindCursor
  <2>3. pos' \in Int /\ (~stale => pos <= pos' /\ pos' <= size) BY <2>1, <2>2
  <2> QED BY <1>3, <2>1, <2>3, ReturnInvariant
<1> QED BY <1>2, <1>3 DEF Outcome

LEMMA OneValue == ASSUME NEW n \in Int PROVE << << n >> >> \in Seq(Seq(Int))
<1>1. << n >> \in Seq(Int) BY OneInt
<1> DEFINE value == << n >>
<1>2. value \in Seq(Int) BY <1>1
<1> HIDE DEF value
<1>3. << value >> \in Seq(Seq(Int)) BY <1>2, Tuples
<1> QED BY <1>3 DEF value

LEMMA NoValue == << >> \in Seq(Seq(Int))
BY EmptySeq

LEMMA ReadRangeInvariant ==
  ASSUME IInv, NEW length \in Int, NEW off \in Int, NEW len \in Int, NEW fully \in BOOLEAN,
         ReadRange(length, off, len, fully)
  PROVE  IInv'
<1> DEFINE n == CopyLength(len)
           error == IF off < 0 \/ len < 0 \/ len > length - off THEN "IndexOutOfBounds"
                    ELSE IF len = 0 THEN "none"
                    ELSE IF pos >= size THEN IF fully THEN "EOF" ELSE "none"
                    ELSE CopyError(n)
<1>1. \/ /\ error = "none" /\ len > 0 /\ pos < size
         /\ Return(<< << n >>, Bytes(pos, n) >>) /\ Advance(n) /\ UNCHANGED charLen
      \/ Outcome(error, << << IF len = 0 THEN 0 ELSE -1 >> >>)
  BY DEF ReadRange
<1>2. TypeOK /\ pos \in Int /\ size \in Int BY Types DEF IInv
<1>3. CASE /\ error = "none" /\ len > 0 /\ pos < size
           /\ Return(<< << n >>, Bytes(pos, n) >>) /\ Advance(n) /\ UNCHANGED charLen
  <2>1. CopyError(n) = "none" BY <1>2, <1>3
  <2>2. n \in Int /\ n > 0 /\ 0 <= pos /\ pos + n <= size /\ size = Len(data)
    BY <1>2, <1>3, <2>1, CopyInside
  <2>3. Return(<< << n >>, Bytes(pos, n) >>) /\ Advance(n) /\ UNCHANGED charLen BY <1>3
  <2> HIDE DEF n
  <2>4. Bytes(pos, n) \in Seq(Int) BY <1>2, <2>2, BytesType
  <2>5. << n >> \in Seq(Int) BY <2>2, OneInt
  <2> DEFINE values == << << n >>, Bytes(pos, n) >>
  <2>6. values \in Seq(Seq(Int)) BY <2>4, <2>5, Tuples
  <2>7. Return(values) BY <2>3
  <2> HIDE DEF values
  <2>8. UNCHANGED << data, open, size, mark, stale >> /\ charLen' = charLen /\ pos' = pos + n
    BY <2>3 DEF Advance, arrayVars
  <2>9. pos' \in Int /\ pos <= pos' /\ pos' <= size BY <1>2, <2>2, <2>8
  <2> QED BY <2>6, <2>7, <2>8, <2>9, ReturnInvariant
<1>4. CASE Outcome(error, << << IF len = 0 THEN 0 ELSE -1 >> >>)
  <2>1. error \in Exception BY ExceptionNames DEF CopyError
  <2> DEFINE values == << << IF len = 0 THEN 0 ELSE -1 >> >>
  <2>2. values \in Seq(Seq(Int))
    <3>1. (IF len = 0 THEN 0 ELSE -1) \in Int OBVIOUS
    <3> QED BY <3>1, OneValue
  <2>3. Outcome(error, values) BY <1>4
  <2> HIDE DEF values, error
  <2> QED BY <2>1, <2>2, <2>3, OutcomeInvariant
<1> QED BY <1>1, <1>3, <1>4

\* A range the caller asks for is read inside the array, or not at all.
LEMMA ReadRangeInside ==
  ASSUME IInv, InBounds, NEW length \in Int, NEW off \in Int, NEW len \in Int,
         NEW fully \in BOOLEAN, ReadRange(length, off, len, fully)
  PROVE  Inside(len)
<1> DEFINE n == CopyLength(len)
           error == IF off < 0 \/ len < 0 \/ len > length - off THEN "IndexOutOfBounds"
                    ELSE IF len = 0 THEN "none"
                    ELSE IF pos >= size THEN IF fully THEN "EOF" ELSE "none"
                    ELSE CopyError(n)
<1>1. \/ /\ error = "none" /\ len > 0 /\ pos < size
         /\ Return(<< << n >>, Bytes(pos, n) >>) /\ Advance(n) /\ UNCHANGED charLen
      \/ Outcome(error, << << IF len = 0 THEN 0 ELSE -1 >> >>)
  BY DEF ReadRange
<1>2. TypeOK /\ pos \in Int /\ size \in Int BY Types DEF IInv
<1>3. CASE /\ error = "none" /\ len > 0 /\ pos < size
           /\ Return(<< << n >>, Bytes(pos, n) >>) /\ Advance(n) /\ UNCHANGED charLen
  <2>1. CopyError(n) = "none" BY <1>2, <1>3
  <2>2. n \in Int /\ n > 0 /\ 0 <= pos /\ pos + n <= size
    BY <1>2, <1>3, <2>1, CopyInside
  <2>3. thrown' = "none" BY <1>3 DEF Return
  <2>4. pos' = pos + n /\ size' = size BY <1>3 DEF Advance, arrayVars
  <2> HIDE DEF n
  <2> QED BY <1>2, <2>2, <2>3, <2>4 DEF Inside, InBounds
<1>4. CASE Outcome(error, << << IF len = 0 THEN 0 ELSE -1 >> >>)
  <2>1. pos' = pos /\ size' = size BY <1>4 DEF Outcome, arrayVars, cursorVars
  <2>2. thrown' = error BY <1>4 DEF Outcome, Throw, Return
  <2>3. ASSUME error = "ArrayIndex" PROVE pos + len > IntMax
    <3>1. CopyError(n) = "ArrayIndex" BY <2>3
    <3> QED BY <1>2, <3>1, CopyOverflow
  <2> HIDE DEF error
  <2> QED BY <1>2, <2>1, <2>2, <2>3 DEF Inside, InBounds
<1> QED BY <1>1, <1>3, <1>4

LEMMA ReadByteAtInvariant ==
  ASSUME IInv, NEW p \in Int, NEW must \in BOOLEAN, ReadByteAt(p, must)
  PROVE  IInv'
<1>1. TypeOK /\ size \in Int /\ Len(data) \in Nat /\ (open => size = Len(data))
  BY Types DEF IInv
<1>2. CASE Outcome(IF must THEN "EOF" ELSE "none", << << -1 >> >>)
  <2>1. (IF must THEN "EOF" ELSE "none") \in Exception BY ExceptionNames
  <2>2. -1 \in Int OBVIOUS
  <2>3. << << -1 >> >> \in Seq(Seq(Int)) BY <2>2, OneValue
  <2> QED BY <1>2, <2>1, <2>3, OutcomeInvariant
<1>3. CASE Outcome("NullPointer", << >>) BY <1>3, ExceptionNames, NoValue, OutcomeInvariant
<1>4. CASE Outcome("ArrayIndex", << >>) BY <1>4, ExceptionNames, NoValue, OutcomeInvariant
<1>5. CASE p < size /\ open /\ 0 <= p /\ Outcome("none", << << data[p + 1] >> >>)
  <2>1. p + 1 \in 1..Len(data) BY <1>1, <1>5
  <2>2. data[p + 1] \in Int BY <1>1, <2>1, LenProperties, ByteIsInt DEF TypeOK
  <2>3. << << data[p + 1] >> >> \in Seq(Seq(Int)) BY <2>2, OneValue
  <2> QED BY <1>5, <2>3, ExceptionNames, OutcomeInvariant
<1> QED BY <1>1, <1>2, <1>3, <1>4, <1>5 DEF ReadByteAt

LEMMA ReadFixedAtInvariant ==
  ASSUME IInv, NEW p \in Int, NEW w \in Int, w >= 0, NEW be \in BOOLEAN,
         ReadFixedAt(p, w, be)
  PROVE  IInv'
<1>1. TypeOK BY DEF IInv
<1>2. CASE Outcome(FixedError(p, w), << >>)
  BY <1>2, FixedErrorName, NoValue, OutcomeInvariant
<1>3. CASE /\ FixedError(p, w) = "none"
           /\ Outcome("none", << InOrder(Bytes(p, w), be) >>)
  <2>1. 0 <= p /\ p + w <= Len(data) BY <1>1, <1>3, Available
  <2>2. Bytes(p, w) \in Seq(Byte) BY <1>1, <2>1, BytesType
  <2> DEFINE value == InOrder(Bytes(p, w), be)
  <2>3. value \in Seq(Int) BY <2>2, InOrderType, SeqOfInts
  <2>4. Outcome("none", << value >>) BY <1>3
  <2> HIDE DEF value
  <2>5. << value >> \in Seq(Seq(Int)) BY <2>3, Tuples
  <2> QED BY <2>4, <2>5, ExceptionNames, OutcomeInvariant
<1> QED BY <1>2, <1>3 DEF ReadFixedAt

\* position(int) puts the cursor inside the array and drops a mark ahead of it.
LEMMA MoveToInvariant ==
  ASSUME IInv, NEW newPos \in Int, 0 <= newPos, newPos <= size,
         NEW values \in Seq(Seq(Int)), Return(values), MoveTo(newPos)
  PROVE  IInv'
<1>1. /\ todo' = << >> /\ src' = 0 /\ got' = values /\ thrown' = "none" BY DEF Return
<1>2. /\ data' = data /\ open' = open /\ size' = size /\ stale' = stale
      /\ charLen' = charLen /\ pos' = newPos
      /\ mark' = (IF mark > newPos THEN -1 ELSE mark)
  BY DEF MoveTo, arrayVars
<1>3. mark \in Int /\ size \in Int /\ (~stale => -1 <= mark) BY Types DEF IInv, MarkBehindCursor
<1>4. mark' \in Int /\ (~stale => -1 <= mark' /\ mark' <= newPos) BY <1>2, <1>3
<1>5. MarkBehindCursor' BY <1>2, <1>4 DEF MarkBehindCursor
<1>6. thrown' \in Exception BY <1>1, ExceptionNames
<1> QED BY <1>1, <1>2, <1>4, <1>5, <1>6, EndedInvariant DEF IInv, TypeOK

LEMMA PositionInvariant ==
  ASSUME IInv, NEW newPos \in Int, Position(newPos)
  PROVE  IInv'
<1>1. CASE Throw("IllegalArgument") /\ UNCHANGED << arrayVars, cursorVars, charLen >>
  BY <1>1, ExceptionNames, ThrowInPlace
<1>2. CASE ~(newPos > size \/ newPos < 0) /\ Return(<< >>) /\ MoveTo(newPos)
  <2>1. size \in Int BY Types DEF IInv
  <2>2. 0 <= newPos /\ newPos <= size BY <1>2, <2>1
  <2> QED BY <1>2, <2>2, NoValue, MoveToInvariant
<1> QED BY <1>1, <1>2 DEF Position

LEMMA SkipBytesInvariant ==
  ASSUME IInv, NEW n \in Int, SkipBytes(n)
  PROVE  IInv'
<1> DEFINE skip == CopyLength(n)
           newPos == Wrap(pos + skip)
<1>1. pos \in Int /\ size \in Int BY Types DEF IInv
<1>2. skip \in Int BY <1>1 DEF CopyLength
<1>3. \/ Outcome("none", << << 0 >> >>)
      \/ Outcome("IllegalArgument", << >>)
      \/ ~(newPos > size \/ newPos < 0) /\ Return(<< << skip >> >>) /\ MoveTo(newPos)
  BY DEF SkipBytes
<1> HIDE DEF skip
<1>4. newPos \in Int
  <2>1. pos + skip \in Int BY <1>1, <1>2
  <2> QED BY <2>1, WrapType
<1> HIDE DEF newPos
<1>5. CASE Outcome("none", << << 0 >> >>)
  <2>1. 0 \in Int OBVIOUS
  <2>2. << << 0 >> >> \in Seq(Seq(Int)) BY <2>1, OneValue
  <2> QED BY <1>5, <2>2, ExceptionNames, OutcomeInvariant
<1>6. CASE Outcome("IllegalArgument", << >>)
  BY <1>6, ExceptionNames, NoValue, OutcomeInvariant
<1>7. CASE ~(newPos > size \/ newPos < 0) /\ Return(<< << skip >> >>) /\ MoveTo(newPos)
  <2>1. 0 <= newPos /\ newPos <= size BY <1>1, <1>4, <1>7
  <2>2. << << skip >> >> \in Seq(Seq(Int)) BY <1>2, OneValue
  <2> QED BY <1>4, <1>7, <2>1, <2>2, MoveToInvariant
<1> QED BY <1>3, <1>5, <1>6, <1>7

LEMMA SkipInvariant ==
  ASSUME IInv, NEW n \in Int, Skip(n)
  PROVE  IInv'
<1>1. CASE Outcome("none", << << 0 >> >>)
  <2>1. 0 \in Int OBVIOUS
  <2>2. << << 0 >> >> \in Seq(Seq(Int)) BY <2>1, OneValue
  <2> QED BY <1>1, <2>2, ExceptionNames, OutcomeInvariant
<1>2. CASE SkipBytes(n) BY <1>2, SkipBytesInvariant
<1> QED BY <1>1, <1>2 DEF Skip

\* Methods that return without reading: the part of the invariant about the
\* array and the cursor is all that is left to show.
LEMMA Returned ==
  ASSUME IInv, Return(<< >>),
         data' \in Seq(Byte), Len(data') <= HeapMax, open' \in BOOLEAN,
         size' \in 0..HeapMax, open' => size' = Len(data'),
         pos' \in Int, mark' \in Int, stale' \in BOOLEAN, charLen' \in -1..HeapMax,
         MarkBehindCursor'
  PROVE  IInv'
<1>1. /\ todo' = << >> /\ src' = 0 /\ got' = << >> /\ thrown' = "none" BY DEF Return
<1>2. got' \in Seq(Seq(Int)) /\ thrown' \in Exception BY <1>1, NoValue, ExceptionNames
<1> QED BY <1>1, <1>2, EndedInvariant

LEMMA MarkInvariant == ASSUME IInv, Mark PROVE IInv'
<1>1. /\ Return(<< >>) /\ data' = data /\ open' = open /\ size' = size /\ pos' = pos
      /\ mark' = pos /\ stale' = (stale /\ ~InBounds) /\ charLen' = charLen
  BY DEF Mark, arrayVars
<1>2. pos \in Int /\ mark \in Int /\ size \in Int BY Types DEF IInv
<1>3. stale \in BOOLEAN /\ (~stale => -1 <= mark /\ mark <= pos /\ pos <= size)
  BY DEF IInv, TypeOK, MarkBehindCursor
<1>4. MarkBehindCursor'
  <2>1. ASSUME ~stale' PROVE -1 <= pos /\ pos <= size
    BY <1>1, <1>2, <1>3, <2>1 DEF InBounds
  <2> QED BY <1>1, <1>2, <2>1 DEF MarkBehindCursor
<1>5. stale' \in BOOLEAN BY <1>1, <1>3
<1> QED BY <1>1, <1>4, <1>5, Returned DEF IInv, TypeOK

LEMMA ResetInvariant == ASSUME IInv, Reset PROVE IInv'
<1>1. /\ Return(<< >>) /\ data' = data /\ open' = open /\ size' = size /\ pos' = mark
      /\ mark' = mark /\ stale' = stale /\ charLen' = charLen
  BY DEF Reset, arrayVars
<1>2. pos \in Int /\ mark \in Int /\ size \in Int BY Types DEF IInv
<1>3. MarkBehindCursor' BY <1>1, <1>2 DEF IInv, MarkBehindCursor
<1> QED BY <1>1, <1>3, Returned DEF IInv, TypeOK

\* Another array: what is known of the mark is lost.
LEMMA InitWithInvariant ==
  ASSUME IInv, NEW array \in Arrays, NEW given \in BOOLEAN, NEW offset \in Int,
         InitWith(array, given, offset)
  PROVE  IInv'
<1>1. /\ Return(<< >>) /\ data' = (IF given THEN array ELSE << >>) /\ open' = given
      /\ size' = Len(data') /\ pos' = offset /\ stale' = TRUE
      /\ mark' = mark /\ charLen' = charLen
  BY DEF InitWith
<1>2. data' \in Seq(Byte) /\ Len(data') \in Nat /\ Len(data') <= HeapMax
  <2>1. CASE given
    <3>1. array \in Seq(Byte) /\ Len(array) <= HeapMax BY ArgsAssumption
    <3> QED BY <1>1, <2>1, <3>1, LenProperties
  <2>2. CASE ~given
    <3>1. << >> \in Seq(Byte) /\ Len(<< >>) = 0 BY EmptySeq
    <3>2. 0 <= HeapMax BY SizeAssumption
    <3> QED BY <1>1, <2>2, <3>1, <3>2
  <2> QED BY <2>1, <2>2
<1>3. MarkBehindCursor' BY <1>1 DEF MarkBehindCursor
<1>4. size' \in 0..HeapMax BY <1>1, <1>2, SizeAssumption
<1> QED BY <1>1, <1>2, <1>3, <1>4, Returned DEF IInv, TypeOK

LEMMA ClearInvariant == ASSUME IInv, Clear PROVE IInv'
<1>1. /\ Return(<< >>) /\ data' = << >> /\ open' = FALSE /\ size' = 0 /\ pos' = 0
      /\ mark' = 0 /\ stale' = FALSE /\ charLen' = MinOf(charLen, CharBufferMax)
  BY DEF Clear
<1>2. data' \in Seq(Byte) /\ Len(data') <= HeapMax
  <2>1. << >> \in Seq(Byte) /\ Len(<< >>) = 0 BY EmptySeq
  <2> QED BY <1>1, <2>1, SizeAssumption
<1>3. charLen' \in -1..HeapMax
  <2>1. charLen \in Int /\ -1 <= charLen /\ charLen <= HeapMax BY Types DEF IInv
  <2> QED BY <1>1, <2>1, SizeAssumption DEF MinOf
<1>4. MarkBehindCursor' BY <1>1 DEF MarkBehindCursor
<1>5. size' \in 0..HeapMax BY <1>1, SizeAssumption
<1>6. open' \in BOOLEAN /\ stale' \in BOOLEAN BY <1>1, Zenon
<1>7. pos' \in Int /\ mark' \in Int BY <1>1, SMT
<1>8. open' => size' = Len(data') BY <1>1, Zenon
<1>9. Return(<< >>) BY <1>1
<1> QED BY <1>2, <1>3, <1>4, <1>5, <1>6, <1>7, <1>8, <1>9, Returned

LEMMA CloseInvariant == ASSUME IInv, Close PROVE IInv'
<1>1. /\ Return(<< >>) /\ data' = << >> /\ open' = FALSE /\ charLen' = NoBuffer
      /\ size' = size /\ pos' = pos /\ mark' = mark /\ stale' = stale
  BY DEF Close, cursorVars
<1>2. data' \in Seq(Byte) /\ Len(data') <= HeapMax
  <2>1. << >> \in Seq(Byte) /\ Len(<< >>) = 0 BY EmptySeq
  <2> QED BY <1>1, <2>1, SizeAssumption
<1>3. charLen' \in -1..HeapMax BY <1>1, SizeAssumption DEF NoBuffer
<1>4. MarkBehindCursor' BY <1>1 DEF IInv, MarkBehindCursor
<1> QED BY <1>1, <1>2, <1>3, <1>4, Returned DEF IInv, TypeOK


-----------------------------------------------------------------------------
(* The invariant.                                                          *)
LEMMA InitInvariant == ASSUME Init PROVE IInv
<1>1. /\ pos = 0 /\ mark = 0 /\ stale = FALSE /\ charLen = -1 /\ size = Len(data)
      /\ todo = << >> /\ got = << >> /\ src = 0 /\ thrown = "none" /\ open \in BOOLEAN
  BY DEF Init, NoBuffer
<1>2. data \in Seq(Byte) /\ Len(data) \in Nat /\ Len(data) <= HeapMax
  <2>1. CASE open
    <3>1. data \in Arrays BY <2>1 DEF Init
    <3> QED BY <3>1, ArgsAssumption, LenProperties
  <2>2. CASE ~open
    <3>1. data = << >> BY <2>2 DEF Init
    <3>2. << >> \in Seq(Byte) /\ Len(<< >>) = 0 BY EmptySeq
    <3> QED BY <3>1, <3>2, SizeAssumption
  <2> QED BY <1>1, <2>1, <2>2
<1>3. << >> \in Seq(Get) /\ << >> \in Seq(Gets(charLen)) /\ << >> \in Seq(Seq(Int))
  BY EmptySeq
<1>4. size \in 0..HeapMax /\ charLen \in -1..HeapMax BY <1>1, <1>2, SizeAssumption
<1>5. TypeOK
  <2>1. stale \in BOOLEAN /\ open \in BOOLEAN BY <1>1, Zenon
  <2>2. pos \in Int /\ mark \in Int /\ src \in Nat BY <1>1, SMT
  <2>3. todo \in Seq(Get) /\ got \in Seq(Seq(Int)) BY <1>1, <1>3
  <2>4. thrown \in Exception BY <1>1, ExceptionNames
  <2> QED BY <1>1, <1>2, <1>4, <2>1, <2>2, <2>3, <2>4, Zenon DEF TypeOK
<1>6. MarkBehindCursor BY <1>1, <1>2 DEF MarkBehindCursor
<1>7. QueueSound BY <1>1, <1>3 DEF QueueSound, NativeFirst
<1> QED BY <1>1, <1>5, <1>6, <1>7 DEF IInv, LengthTaken, NativeSound, Reading, Running

LEMMA UnchangedInvariant == ASSUME IInv, UNCHANGED vars PROVE IInv'
<1>1. /\ data' = data /\ open' = open /\ size' = size /\ pos' = pos /\ mark' = mark
      /\ stale' = stale /\ charLen' = charLen /\ todo' = todo /\ got' = got /\ src' = src
      /\ thrown' = thrown
  BY DEF vars, arrayVars, cursorVars, callVars
<1>2. TypeOK' BY <1>1 DEF IInv, TypeOK
<1>3. MarkBehindCursor' BY <1>1 DEF IInv, MarkBehindCursor
<1>4. QueueSound' BY <1>1 DEF IInv, QueueSound
<1>5. LengthTaken' BY <1>1 DEF IInv, LengthTaken
<1>6. NativeSound' BY <1>1 DEF IInv, NativeSound, Reading
<1>7. Running' BY <1>1 DEF IInv, Running
<1> QED BY <1>2, <1>3, <1>4, <1>5, <1>6, <1>7 DEF IInv

\* A get that delivers does not throw.
LEMMA DeliverThrowsNothing ==
  ASSUME IInv, todo # << >>, NEW value, NEW gets, Deliver(value, gets)
  PROVE  thrown' = "none"
BY DEF Deliver, IInv, Running

\* One step of a sequential read.
LEMMA CallStepInvariant ==
  ASSUME IInv, CallStep
  PROVE  /\ IInv'
         /\ InBounds =>
              /\ 0 <= pos' /\ pos' <= size' /\ pos' >= pos - 1
              /\ thrown' = "ArrayIndex" => pos + Head(todo).n > IntMax
<1>1. pos \in Int /\ size \in Int BY Types DEF IInv
<1>2. CASE TakeFixed
  <2>1. IInv' /\ pos' >= pos /\ pos' <= size /\ size' = size BY <1>2, TakeFixedInvariant
  <2>2. thrown' = "none" BY <1>2, DeliverThrowsNothing DEF TakeFixed, Reading
  <2>3. pos' \in Int BY <2>1 DEF IInv, TypeOK
  <2> QED BY <1>1, <2>1, <2>2, <2>3 DEF InBounds
<1>3. CASE FixedFails
  <2>1. IInv' /\ pos' = pos /\ size' = size /\ thrown' # "ArrayIndex"
    BY <1>3, FixedFailsInvariant
  <2> QED BY <1>1, <2>1 DEF InBounds
<1>4. CASE TakeByte
  <2>1. IInv' /\ pos' >= pos /\ pos' <= size /\ size' = size BY <1>4, TakeByteInvariant
  <2>2. thrown' = "none" BY <1>4, DeliverThrowsNothing DEF TakeByte, Reading
  <2>3. pos' \in Int BY <2>1 DEF IInv, TypeOK
  <2> QED BY <1>1, <2>1, <2>2, <2>3 DEF InBounds
<1>5. CASE AtEnd
  <2>1. IInv' /\ pos' = pos /\ size' = size BY <1>5, AtEndInvariant
  <2>2. thrown' = "none" BY <1>5, DeliverThrowsNothing DEF AtEnd, Reading
  <2> QED BY <1>1, <2>1, <2>2 DEF InBounds
<1>6. CASE ByteFails
  <2>1. /\ IInv' /\ pos' >= pos /\ size' = size
        /\ InBounds => pos' <= size /\ thrown' # "ArrayIndex"
    BY <1>6, ByteFailsInvariant
  <2>2. pos' \in Int BY <2>1 DEF IInv, TypeOK
  <2> QED BY <1>1, <2>1, <2>2 DEF InBounds
<1>7. CASE TakeChar
  <2>1. IInv' /\ pos' >= pos /\ pos' <= size /\ size' = size BY <1>7, TakeCharInvariant
  <2>2. todo # << >> BY <1>7 DEF TakeChar, ReadingChar, Reading
  <2>3. thrown' = "none" BY <1>7, <2>2, DeliverThrowsNothing DEF TakeChar
  <2>4. pos' \in Int BY <2>1 DEF IInv, TypeOK
  <2> QED BY <1>1, <2>1, <2>3, <2>4 DEF InBounds
<1>8. CASE CharFails
  <2>1. IInv' /\ pos' >= pos /\ pos' <= size /\ size' = size /\ thrown' # "ArrayIndex"
    BY <1>8, CharFailsInvariant
  <2>2. pos' \in Int BY <2>1 DEF IInv, TypeOK
  <2> QED BY <1>1, <2>1, <2>2 DEF InBounds
<1>9. CASE Fill
  <2>1. IInv' /\ pos' >= pos /\ pos' <= size /\ size' = size BY <1>9, FillInvariant
  <2>2. thrown' = "none" BY <1>9, DeliverThrowsNothing DEF Fill, Reading
  <2>3. pos' \in Int BY <2>1 DEF IInv, TypeOK
  <2> QED BY <1>1, <2>1, <2>2, <2>3 DEF InBounds
<1>10. CASE FillFails
  <2>1. /\ IInv' /\ pos' = pos /\ size' = size
        /\ InBounds /\ thrown' = "ArrayIndex" => pos + Head(todo).n > IntMax
    BY <1>10, FillFailsInvariant
  <2> QED BY <1>1, <2>1 DEF InBounds
<1>11. CASE TakeCount
  <2>1. IInv' /\ pos' >= pos /\ pos' <= size /\ size' = size BY <1>11, TakeCountInvariant
  <2>2. todo # << >> BY <1>11 DEF TakeCount, Counting, Reading
  <2>3. thrown' = "none" BY <1>11, <2>2, DeliverThrowsNothing DEF TakeCount
  <2>4. pos' \in Int BY <2>1 DEF IInv, TypeOK
  <2> QED BY <1>1, <2>1, <2>3, <2>4 DEF InBounds
<1>12. CASE CountFails
  <2>1. IInv' /\ pos' >= pos /\ pos' <= size /\ size' = size /\ thrown' # "ArrayIndex"
    BY <1>12, CountFailsInvariant
  <2>2. pos' \in Int BY <2>1 DEF IInv, TypeOK
  <2> QED BY <1>1, <2>1, <2>2 DEF InBounds
<1>13. CASE NativeChar
  <2>1. IInv' /\ pos' = pos /\ size' = size /\ thrown' = "none" BY <1>13, NativeCharInvariant
  <2> QED BY <1>1, <2>1 DEF InBounds
<1>14. CASE NativeMalformed
  <2>1. IInv' /\ 0 <= pos' /\ pos' >= pos - 1 /\ pos' <= size /\ size' = size
        /\ thrown' = "none"
    BY <1>14, NativeMalformedInvariant
  <2> QED BY <2>1
<1>15. CASE NativeDone
  <2>1. IInv' /\ 0 <= pos' /\ pos' >= pos - 1 /\ pos' <= size /\ size' = size
        /\ thrown' = "none"
    BY <1>15, NativeDoneInvariant
  <2> QED BY <2>1
<1>16. CASE NativeString
  <2>1. IInv' /\ pos' = pos /\ size' = size /\ thrown' # "ArrayIndex"
    BY <1>16, NativeStringInvariant
  <2> QED BY <1>1, <2>1 DEF InBounds
<1> QED
  BY <1>2, <1>3, <1>4, <1>5, <1>6, <1>7, <1>8, <1>9, <1>10, <1>11, <1>12, <1>13,
     <1>14, <1>15, <1>16
  DEF CallStep

LEMMA StepInvariant == ASSUME IInv, [Next]_vars PROVE IInv'
<1>1. CASE CallStep BY <1>1, CallStepInvariant
<1>2. ASSUME NEW get \in Sequential, Call(get) PROVE IInv' BY <1>2, CallInvariant
<1>3. ASSUME NEW length \in IndexArgs, NEW off \in IndexArgs, NEW len \in IndexArgs,
             NEW fully \in BOOLEAN, ReadRange(length, off, len, fully)
      PROVE  IInv'
  BY <1>3, ArgIsInt, ReadRangeInvariant
<1>4. ASSUME NEW p \in IndexArgs, NEW must \in BOOLEAN, ReadByteAt(p, must) PROVE IInv'
  BY <1>4, ArgIsInt, ReadByteAtInvariant
<1>5. ASSUME NEW p \in IndexArgs, NEW w \in Widths, NEW be \in BOOLEAN, ReadFixedAt(p, w, be)
      PROVE  IInv'
  <2>1. w \in Int /\ w >= 0 BY ArgsAssumption
  <2> QED BY <1>5, <2>1, ArgIsInt, ReadFixedAtInvariant
<1>6. ASSUME NEW newPos \in IndexArgs, Position(newPos) PROVE IInv'
  BY <1>6, ArgIsInt, PositionInvariant
<1>7. ASSUME NEW n \in IndexArgs, SkipBytes(n) \/ Skip(n) PROVE IInv'
  BY <1>7, ArgIsInt, SkipBytesInvariant, SkipInvariant
<1>8. CASE Mark BY <1>8, MarkInvariant
<1>9. CASE Reset BY <1>9, ResetInvariant
<1>10. ASSUME NEW array \in Arrays, NEW given \in BOOLEAN, NEW offset \in IndexArgs,
              InitWith(array, given, offset)
       PROVE  IInv'
  BY <1>10, ArgIsInt, InitWithInvariant
<1>11. CASE Clear BY <1>11, ClearInvariant
<1>12. CASE Close BY <1>12, CloseInvariant
<1>13. CASE UNCHANGED vars BY <1>13, UnchangedInvariant
<1> QED
  BY <1>1, <1>2, <1>3, <1>4, <1>5, <1>6, <1>7, <1>8, <1>9, <1>10, <1>11, <1>12, <1>13
  DEF Next

\* What is known of every state the reader reaches.
THEOREM Invariant == Spec => []IInv
<1>1. Init => IInv BY InitInvariant
<1>2. IInv /\ [Next]_vars => IInv' BY StepInvariant
<1> QED BY <1>1, <1>2, PTL DEF Spec

\* Every variable of the reader has its type in every state, for every array,
\* argument, byte order and size of int, heap and char buffer: the length and
\* position of what is read never come from outside the array they describe.
THEOREM TypeCorrect == Spec => []TypeOK
<1>1. IInv => TypeOK BY DEF IInv
<1> QED BY <1>1, Invariant, PTL

\* Until init replaces the array, reset() always finds the mark at or behind
\* the cursor and the cursor at or before the end of the array: no read, skip,
\* failure or -1 of native code puts either past the other.
THEOREM MarkStaysBehind == Spec => []MarkBehindCursor
<1>1. IInv => MarkBehindCursor BY DEF IInv
<1> QED BY <1>1, Invariant, PTL

\* Whatever bytes an array holds, a read at the cursor that starts inside it ends
\* inside it, goes back by at most native code's -1 and never reports its own
\* index as the problem, save for the sum of read(byte[], int, int): a step of a
\* sequential method, and a range of any length the caller asks for.
THEOREM SequentialReads == Spec => ReadsStayInside
<1> DEFINE A == InBounds => /\ CallStep => Inside(Head(todo).n)
                            /\ \A len \in IndexArgs : ~Inside(len) => ~RangeRead(len)
<1>1. IInv /\ [Next]_vars => [A]_vars
  <2> SUFFICES ASSUME IInv, InBounds
               PROVE  /\ CallStep => Inside(Head(todo).n)
                      /\ \A len \in IndexArgs : RangeRead(len) => Inside(len)
    OBVIOUS
  <2>1. ASSUME CallStep PROVE Inside(Head(todo).n)
    BY <2>1, CallStepInvariant DEF Inside, InBounds
  <2>2. ASSUME NEW len \in IndexArgs, RangeRead(len) PROVE Inside(len)
    <3>1. PICK length \in IndexArgs, off \in IndexArgs, fully \in BOOLEAN :
            ReadRange(length, off, len, fully)
      BY <2>2 DEF RangeRead
    <3> QED BY <3>1, ArgIsInt, ReadRangeInside
  <2> QED BY <2>1, <2>2
<1>2. [][A]_vars => ReadsStayInside BY PTL DEF ReadsStayInside
<1> HIDE DEF A
<1> QED BY <1>1, <1>2, Invariant, PTL DEF Spec

=============================================================================
