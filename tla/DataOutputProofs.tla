-------------------------- MODULE DataOutputProofs --------------------------
(***************************************************************************)
(* Proofs about DataOutput, for every width of int, heap, initial size and *)
(* argument.  The inductive invariant adds to the properties what the puts *)
(* that wait in calls and the stores in progress look like.                *)
(***************************************************************************)
EXTENDS DataOutput, JavaBitsProofs

-----------------------------------------------------------------------------
(* Products.                                                               *)
LEMMA ProductAtLeast ==
  ASSUME NEW w \in Nat, NEW n \in Nat, w >= 1, n >= 1
  PROVE  w * n >= 1 /\ w * n >= w /\ w * n >= n
OBVIOUS

LEMMA ProductMinusOne ==
  ASSUME NEW w \in Nat, NEW n \in Nat
  PROVE  w * n \in Nat /\ w * (n - 1) = w * n - w
OBVIOUS

-----------------------------------------------------------------------------
(* Puts.                                                                   *)

\* Each store takes at most the width the put reserves per store, a bump takes
\* exactly one byte, and the room of a put is within one lap of an int.
StoreWithin(s, w) ==
  /\ w >= 1 /\ s.n <= w
  /\ s.kind = "bump" => w = 1 /\ s.n = 1 /\ Len(s.bytes) = 1

PutWithin(p) ==
  /\ p.width * Len(p.stores) <= 3 * IntMax
  /\ \A i \in DOMAIN p.stores :
       /\ StoreWithin(p.stores[i], p.width)
       /\ p.stores[i].kind = "bump" => Len(p.stores) <= IntMax

Sound == {p \in Put : PutWithin(p)}

LEMMA OneStore ==
  ASSUME NEW s \in Store, NEW w \in Nat, w <= IntMax, StoreWithin(s, w)
  PROVE  PutOf(w, << s >>) \in Sound
<1>1. << s >> \in Seq(Store) /\ Len(<< s >>) = 1 /\ DOMAIN << s >> = {1} OBVIOUS
<1>2. PutOf(w, << s >>) \in Put BY <1>1 DEF PutOf, Put
<1>3. w * 1 <= 3 * IntMax BY IntMaxAssumption
<1>4. PutWithin(PutOf(w, << s >>)) BY <1>1, <1>3, IntMaxAssumption DEF PutWithin, PutOf
<1> QED BY <1>2, <1>4 DEF Sound

LEMMA ManyStores ==
  ASSUME NEW n \in Nat, n <= IntMax, NEW w \in 1..3, NEW f \in [1..n -> Store],
         \A i \in 1..n : StoreWithin(f[i], w)
  PROVE  PutOf(w, f) \in Sound
<1>1. f \in Seq(Store) /\ Len(f) = n /\ DOMAIN f = 1..n BY FunctionIsSeq
<1>2. PutOf(w, f) \in Put BY <1>1 DEF PutOf, Put
<1>3. w * n <= 3 * IntMax BY IntMaxAssumption
<1>4. PutWithin(PutOf(w, f)) BY <1>1, <1>3 DEF PutWithin, PutOf
<1> QED BY <1>2, <1>4 DEF Sound

LEMMA StoreOfType ==
  ASSUME NEW kind \in StoreKind, NEW bytes \in Seq(Byte)
  PROVE  /\ StoreOf(kind, bytes) \in Store
         /\ StoreOf(kind, bytes).n = Len(bytes)
         /\ StoreOf(kind, bytes).kind = kind
BY LenProperties DEF StoreOf, Store

LEMMA BumpStore ==
  ASSUME NEW b \in Byte
  PROVE  /\ StoreOf("bump", << b >>) \in Store
         /\ StoreWithin(StoreOf("bump", << b >>), 1)
<1> DEFINE bytes == << b >>
           st == StoreOf("bump", bytes)
<1>1. bytes \in Seq(Byte) /\ Len(bytes) = 1 BY Tuples
<1> HIDE DEF bytes
<1>2. st \in Store /\ st.n = 1 /\ st.kind = "bump" BY <1>1, StoreOfType DEF StoreKind
<1>3. Len(st.bytes) = 1 BY <1>1 DEF StoreOf
<1> QED BY <1>2, <1>3 DEF StoreWithin, bytes

LEMMA PutStore ==
  ASSUME NEW w \in Nat, w >= 1, NEW bytes \in Seq(Byte), Len(bytes) <= w
  PROVE  /\ StoreOf("put", bytes) \in Store
         /\ StoreWithin(StoreOf("put", bytes), w)
<1> DEFINE st == StoreOf("put", bytes)
<1>1. st \in Store /\ st.n = Len(bytes) /\ st.kind = "put" BY StoreOfType DEF StoreKind
<1> QED BY <1>1 DEF StoreWithin

LEMMA PutByteSound == ASSUME NEW b \in Byte PROVE PutByte(b) \in Sound
BY BumpStore, OneStore, IntMaxAssumption DEF PutByte

LEMMA PutFixedSound ==
  ASSUME NEW v \in Seq(Byte), 1 <= Len(v), Len(v) <= 8, NEW be
  PROVE  PutFixed(v, be) \in Sound
<1>1. Len(v) \in Nat /\ Len(v) >= 1 /\ Len(v) <= IntMax BY LenProperties, IntMaxAssumption
<1>2. /\ StoreOf("put", InOrder(v, be)) \in Store
      /\ StoreWithin(StoreOf("put", InOrder(v, be)), Len(v))
  BY <1>1, InOrderType, PutStore
<1> QED BY <1>1, <1>2, OneStore DEF PutFixed

LEMMA PutIntSound == ASSUME NEW n \in Int PROVE PutInt(n) \in Sound
<1>1. IntBytes(n) \in Seq(Byte) /\ Len(IntBytes(n)) = 4 BY IntBytesType
<1>2. 1 <= Len(IntBytes(n)) /\ Len(IntBytes(n)) <= 8 BY <1>1
<1> QED BY <1>1, <1>2, PutFixedSound DEF PutInt

LEMMA PutUtfSound ==
  ASSUME NEW s \in Seq(Char), Len(s) <= IntMax PROVE PutUtf(s) \in Sound
<1>1. Len(s) \in Nat /\ \A i \in 1..Len(s) : s[i] \in Char BY LenProperties
<1> DEFINE st(i) == StoreOf("put", Utf8Bytes(s[i]))
<1>2. \A i \in 1..Len(s) : st(i) \in Store /\ StoreWithin(st(i), 3)
  BY <1>1, PutStore, Utf8BytesType
<1> HIDE DEF st
<1>3. PutOf(3, [i \in 1..Len(s) |-> st(i)]) \in Sound BY <1>1, <1>2, ManyStores
<1> QED BY <1>3 DEF PutUtf, st

LEMMA PutLowBytesSound ==
  ASSUME NEW s \in Seq(Char), Len(s) <= IntMax PROVE PutLowBytes(s) \in Sound
<1>1. Len(s) \in Nat /\ \A i \in 1..Len(s) : s[i] \in Char BY LenProperties
<1>2. \A i \in 1..Len(s) : s[i] % 256 \in Byte
  BY <1>1, LowByteIsByte
<1> DEFINE st(i) == StoreOf("bump", << s[i] % 256 >>)
<1>3. \A i \in 1..Len(s) : st(i) \in Store /\ StoreWithin(st(i), 1)
  BY <1>2, BumpStore
<1> HIDE DEF st
<1>4. PutOf(1, [i \in 1..Len(s) |-> st(i)]) \in Sound BY <1>1, <1>3, ManyStores
<1> QED BY <1>4 DEF PutLowBytes, st

LEMMA PutCharsSound ==
  ASSUME NEW s \in Seq(Char), Len(s) <= IntMax PROVE PutChars(s) \in Sound
<1> DEFINE by(i) == InOrder(CharBytes(s[i]), BigEndian)
           st(i) == StoreOf("put", by(i))
<1>1. Len(s) \in Nat /\ \A i \in 1..Len(s) : s[i] \in Char BY LenProperties
<1>2. \A i \in 1..Len(s) : by(i) \in Seq(Byte) /\ Len(by(i)) = 2
  BY <1>1, CharBytesType, InOrderType
<1> HIDE DEF by
<1>3. \A i \in 1..Len(s) : by(i) \in Seq(Byte) /\ Len(by(i)) <= 2
  <2> SUFFICES ASSUME NEW i \in 1..Len(s) PROVE by(i) \in Seq(Byte) /\ Len(by(i)) <= 2
    OBVIOUS
  <2>1. by(i) \in Seq(Byte) /\ Len(by(i)) = 2 BY <1>2
  <2> QED BY <2>1
<1>4. \A i \in 1..Len(s) : st(i) \in Store /\ StoreWithin(st(i), 2)
  BY <1>3, PutStore
<1> HIDE DEF st
<1>5. PutOf(2, [i \in 1..Len(s) |-> st(i)]) \in Sound BY <1>1, <1>4, ManyStores
<1> QED BY <1>5 DEF PutChars, st, by

LEMMA PutRangeSound ==
  ASSUME NEW b \in Seq(Byte), NEW off \in Nat, NEW len \in Nat,
         len >= 1, len <= IntMax
  PROVE  PutRange(b, off, len) \in Sound
<1> DEFINE upto == MinOf(off + len, Len(b))
           st == [kind |-> "copy", n |-> len, bytes |-> SubSeq(b, off + 1, upto)]
<1>1. upto \in Int /\ upto <= Len(b) BY LenProperties DEF MinOf
<1>2. \A i \in off + 1..upto : b[i] \in Byte BY <1>1, LenProperties
<1>3. SubSeq(b, off + 1, upto) \in Seq(Byte) BY <1>1, <1>2, SubSeqProperties
<1>4. st \in Store /\ StoreWithin(st, len) BY <1>3 DEF Store, StoreKind, StoreWithin
<1> QED BY <1>4, OneStore DEF PutRange

-----------------------------------------------------------------------------
(* Each method queues sound puts.                                          *)
LEMMA OneCall == ASSUME NEW p \in Sound PROVE << p >> \in Seq(Sound)
BY Tuples

LEMMA TwoCalls ==
  ASSUME NEW p \in Sound, NEW q \in Sound PROVE << p, q >> \in Seq(Sound)
BY Tuples

LEMMA NoCalls == << >> \in Seq(Sound)
BY EmptySeq

LEMMA ManyCalls ==
  ASSUME NEW n \in Int, NEW f, f = [i \in 1..n |-> f[i]], \A i \in 1..n : f[i] \in Sound
  PROVE  f \in Seq(Sound)
BY LoopIsSeq

LEMMA AfterLength ==
  ASSUME NEW n \in Int, NEW rest \in Seq(Sound)
  PROVE  << PutInt(n) >> \o rest \in Seq(Sound)
<1>1. << PutInt(n) >> \in Seq(Sound) BY PutIntSound, OneCall
<1> QED BY <1>1, ConcatProperties

-----------------------------------------------------------------------------
(* The inductive invariant.                                                *)

\* A put that waits is sound; a store in progress takes at most the width of
\* its put, and a bump starts inside the array.
PutsSound == calls \in Seq(Sound)
StoresSound ==
  \A i \in DOMAIN stores :
    /\ StoreWithin(stores[i], width)
    /\ stores[i].kind = "bump" => length # NoBuffer /\ pos <= length

IInv == TypeOK /\ CursorInBuffer /\ ReservedRoom /\ PutsSound /\ StoresSound

LEMMA InitInvariant == Init => IInv
<1> SUFFICES ASSUME Init PROVE IInv OBVIOUS
<1>1. << >> \in Seq(Put) /\ << >> \in Seq(Store) /\ << >> \in Seq(Sound) BY EmptySeq
<1>2. InitialSize \in -1..HeapMax BY SizeAssumption
<1>3. [i \in 0..InitialSize - 1 |-> 0] \in [0..InitialSize - 1 -> Byte] BY DEF Byte
<1>4. TypeOK BY <1>1, <1>2, <1>3 DEF Init, TypeOK, Exception
<1>5. CursorInBuffer BY SizeAssumption DEF Init, CursorInBuffer, NoBuffer
<1>6. ReservedRoom BY DEF Init, ReservedRoom
<1>7. PutsSound BY <1>1 DEF Init, PutsSound
<1>8. StoresSound BY DEF Init, StoresSound
<1> QED BY <1>4, <1>5, <1>6, <1>7, <1>8 DEF IInv

\* A call that starts changes nothing but what it has to do.
LEMMA CallInvariant ==
  ASSUME IInv, NEW puts \in Seq(Sound), Call(puts) PROVE IInv'
<1> USE DEF IInv, Call, arrayVars
<1>1. puts \in Seq(Put) BY SeqMonotonic DEF Sound
<1>2. TypeOK' BY <1>1 DEF TypeOK, Exception
<1>3. CursorInBuffer' BY DEF CursorInBuffer
<1>4. ReservedRoom' BY DEF ReservedRoom
<1>5. PutsSound' BY DEF PutsSound
<1>6. StoresSound' BY DEF StoresSound
<1> QED BY <1>2, <1>3, <1>4, <1>5, <1>6

\* A step that ends a call leaves no store and no put to account for.
LEMMA ThrowInvariant ==
  ASSUME IInv, NEW e \in Exception, Throw(e),
         length' \in -1..HeapMax, buffer' \in [0..length' - 1 -> Byte],
         pos' \in Nat, CursorInBuffer'
  PROVE  IInv'
<1> USE DEF IInv, Throw
<1>1. << >> \in Seq(Put) /\ << >> \in Seq(Store) /\ << >> \in Seq(Sound) BY EmptySeq
<1>2. TypeOK' BY <1>1 DEF TypeOK
<1>3. ReservedRoom' BY DEF ReservedRoom
<1>4. PutsSound' BY <1>1 DEF PutsSound
<1>5. StoresSound' BY DEF StoresSound
<1> QED BY <1>2, <1>3, <1>4, <1>5

LEMMA UnchangedInvariant == ASSUME IInv, UNCHANGED vars PROVE IInv'
BY DEF IInv, vars, arrayVars, callVars, TypeOK, CursorInBuffer, ReservedRoom,
       PutsSound, StoresSound

-----------------------------------------------------------------------------
(* ensureAvailable.                                                        *)

\* What is known of the put at the head of calls.
LEMMA HeadSound ==
  ASSUME IInv, Reserving
  PROVE  /\ Head(calls).width \in Nat /\ Head(calls).stores \in Seq(Store)
         /\ Wanted \in Nat /\ Wanted <= 3 * IntMax
         /\ \A i \in DOMAIN Head(calls).stores :
              /\ StoreWithin(Head(calls).stores[i], Head(calls).width)
              /\ Head(calls).stores[i].kind = "bump" =>
                   Len(Head(calls).stores) <= IntMax
         /\ Tail(calls) \in Seq(Sound) /\ Tail(calls) \in Seq(Put)
<1>1. Head(calls) \in Sound /\ Tail(calls) \in Seq(Sound)
  BY HeadTailProperties DEF IInv, PutsSound, Reserving
<1>2. Tail(calls) \in Seq(Put) BY <1>1, SeqMonotonic DEF Sound
<1>3. Head(calls).width \in Nat /\ Head(calls).stores \in Seq(Store)
  BY <1>1 DEF Sound, Put
<1>4. Wanted \in Nat BY <1>3, LenProperties, ProductMinusOne DEF Wanted
<1>5. PutWithin(Head(calls)) BY <1>1 DEF Sound
<1> QED BY <1>1, <1>2, <1>3, <1>4, <1>5 DEF PutWithin, Wanted

\* A put with something to store wants at least one byte, and its bumps
\* cannot have overflowed the room.
LEMMA WantedPositive ==
  ASSUME IInv, Reserving, NEW i \in DOMAIN Head(calls).stores
  PROVE  /\ Wanted >= 1 /\ Head(calls).width >= 1
         /\ Head(calls).stores[i].n <= Head(calls).width
         /\ Head(calls).stores[i].kind = "bump" => Reserved = Wanted
<1> DEFINE w == Head(calls).width
           ss == Head(calls).stores
<1>1. w \in Nat /\ ss \in Seq(Store) /\ StoreWithin(ss[i], w)
      /\ (ss[i].kind = "bump" => Len(ss) <= IntMax)
  BY HeadSound
<1> HIDE DEF ss, w
<1>2. Len(ss) \in Nat /\ DOMAIN ss = 1..Len(ss) BY <1>1, LenProperties
<1>3. i \in DOMAIN ss BY DEF ss
<1>4. Len(ss) >= 1 BY <1>2, <1>3
<1>5. w >= 1 /\ ss[i].n <= w BY <1>1 DEF StoreWithin
<1>6. w * Len(ss) >= 1 BY <1>1, <1>2, <1>4, <1>5, ProductAtLeast
<1>7. ASSUME ss[i].kind = "bump" PROVE Wrap(w * Len(ss)) = w * Len(ss)
  <2>1. w = 1 /\ Len(ss) <= IntMax BY <1>1, <1>7 DEF StoreWithin
  <2>2. \A n \in Nat : 1 * n = n OBVIOUS
  <2>3. w * Len(ss) = Len(ss) BY <1>2, <2>1, <2>2
  <2>4. \A n \in Nat : n <= IntMax => Wrap(n) = n BY IntMaxAssumption DEF Wrap
  <2> QED BY <1>2, <2>1, <2>3, <2>4
<1> QED BY <1>5, <1>6, <1>7 DEF Wanted, Reserved, w, ss

LEMMA StartPutInvariant ==
  ASSUME IInv, Reserving, StartPut,
         length' \in -1..HeapMax, buffer' \in [0..length' - 1 -> Byte],
         overflowed' \in BOOLEAN,
         CursorInBuffer',
         Reserved = Wanted /\ Wanted >= 1 => length' # NoBuffer /\ pos <= length',
         ~overflowed' /\ Wanted >= 1 => length' # NoBuffer /\ Wanted <= length' - pos
  PROVE  IInv'
<1> USE HeadSound DEF StartPut
<1>1. TypeOK' BY DEF IInv, TypeOK
<1>2. ReservedRoom'
  <2> SUFFICES ASSUME ~overflowed', stores' # << >>
               PROVE  /\ length' # NoBuffer
                      /\ width' * Len(stores') <= length' - pos'
                      /\ \A i \in DOMAIN stores' : stores'[i].n <= width'
    BY DEF ReservedRoom
  <2>1. 1 \in DOMAIN Head(calls).stores BY LenProperties, EmptySeq
  <2>2. Wanted >= 1 BY <2>1, WantedPositive
  <2>3. \A i \in DOMAIN stores' : stores'[i].n <= width' BY WantedPositive
  <2> QED BY <2>2, <2>3 DEF Wanted
<1>3. PutsSound' BY DEF PutsSound
<1>4. StoresSound'
  <2> SUFFICES ASSUME NEW i \in DOMAIN stores'
               PROVE  /\ StoreWithin(stores'[i], width')
                      /\ stores'[i].kind = "bump" => length' # NoBuffer /\ pos' <= length'
    BY DEF StoresSound
  <2> QED BY WantedPositive
<1> QED BY <1>1, <1>2, <1>3, <1>4 DEF IInv

LEMMA RoomLeftInvariant == ASSUME IInv, RoomLeft PROVE IInv'
<1> USE DEF IInv, RoomLeft
<1>0. length \in -1..HeapMax /\ pos \in Nat /\ HeapMax \in Nat
  BY SizeAssumption DEF TypeOK
<1>1. length' = length /\ buffer' = buffer /\ pos' = pos BY DEF arrayVars, StartPut
<1>2. Wanted \in Nat /\ Wanted <= 3 * IntMax BY HeadSound
<1>3. overflowed' = (Reserved # Wanted) OBVIOUS
<1>4. Reserved \in Int /\ (Reserved # Wanted => Wanted > IntMax)
  BY <1>2, WrapBelow, IntMaxAssumption DEF Reserved
<1>5. CASE Reserved = Wanted
  <2>1. available >= Wanted BY <1>5
  <2>2. Wanted >= 1 => length # NoBuffer /\ Wanted <= length - pos
    BY <1>0, <1>2, <2>1 DEF available
  <2>3. CursorInBuffer'
    BY <1>0, <1>1, <1>2, <2>1 DEF CursorInBuffer, available, NoBuffer
  <2> QED BY <1>0, <1>1, <1>2, <1>3, <1>5, <2>2, <2>3, StartPutInvariant DEF TypeOK
<1>6. CASE Reserved # Wanted
  <2>1. CursorInBuffer' BY <1>1, <1>3, <1>6 DEF CursorInBuffer
  <2> QED BY <1>0, <1>1, <1>3, <1>6, <2>1, StartPutInvariant DEF TypeOK
<1> QED BY <1>5, <1>6

\* The new array has room for the bytes before the position and, without an
\* overflow, for the put.
LEMMA NewCapacityEnough ==
  ASSUME IInv, Reserving, available < Reserved, NewCapacity \in 0..HeapMax,
         length = NoBuffer \/ pos <= length
  PROVE  /\ pos <= NewCapacity
         /\ Reserved = Wanted => Reserved >= 1
         /\ (length # NoBuffer /\ length + Reserved > IntMax)
              \/ pos + Reserved <= NewCapacity
<1>1. /\ length \in Int /\ -1 <= length /\ length <= IntMax
      /\ pos \in Nat /\ InitialSize \in Nat /\ IntMax \in Nat
  BY SizeAssumption, IntMaxAssumption DEF IInv, TypeOK
<1>2. Reserved \in Int /\ Reserved <= IntMax
  <2>1. Wanted \in Nat /\ Wanted <= 3 * IntMax BY HeadSound
  <2> QED BY <2>1, WrapBelow, IntMaxAssumption DEF Reserved
<1>3. NewCapacity \in Int /\ NewCapacity >= 0 BY SizeAssumption
<1>4. CASE length = NoBuffer
  <2>1. pos = 0 /\ Reserved >= 1
    BY <1>1, <1>2, <1>4 DEF IInv, CursorInBuffer, available
  <2>2. CASE Reserved > InitialSize \div 2
    <3>1. NewCapacity = Wrap(2 * Reserved) BY <1>4, <2>2 DEF NewCapacity
    <3>2. NewCapacity >= Reserved BY <1>1, <1>2, <1>3, <2>1, <3>1 DEF Wrap
    <3> QED BY <2>1, <3>2, <1>2, <1>3
  <2>3. CASE ~(Reserved > InitialSize \div 2)
    <3>1. NewCapacity = InitialSize BY <1>4, <2>3 DEF NewCapacity
    <3>2. InitialSize \div 2 \in Int /\ InitialSize \div 2 <= InitialSize
      BY <1>1, SMT
    <3>3. NewCapacity >= Reserved BY <1>1, <1>2, <2>3, <3>1, <3>2
    <3> QED BY <2>1, <3>3, <1>2, <1>3
  <2> QED BY <2>2, <2>3
<1>5. CASE length # NoBuffer
  <2>1. pos <= length /\ length >= 0 /\ Reserved >= 1
    BY <1>1, <1>2, <1>5 DEF available, NoBuffer
  <2>2. NewCapacity = MaxOf(Wrap(2 * length), Wrap(length + Reserved))
    BY <1>5 DEF NewCapacity
  <2>3. CASE length + Reserved <= IntMax
    <3>1. Wrap(length + Reserved) = length + Reserved BY <1>1, <1>2, <2>1, <2>3 DEF Wrap
    <3>2. Wrap(2 * length) \in Int BY <1>1 DEF Wrap
    <3>3. NewCapacity >= length + Reserved BY <1>1, <1>2, <2>2, <3>1, <3>2 DEF MaxOf
    <3> QED BY <1>1, <1>2, <1>3, <2>1, <3>3
  <2>4. CASE length + Reserved > IntMax
    <3>1. Wrap(length + Reserved) \in Int /\ Wrap(length + Reserved) < 0
      BY <1>1, <1>2, <2>4 DEF Wrap
    <3>2. NewCapacity = Wrap(2 * length) /\ Wrap(2 * length) >= 0
      BY <1>1, <1>3, <2>2, <3>1 DEF MaxOf, Wrap
    <3>3. NewCapacity = 2 * length BY <1>1, <2>1, <3>2 DEF Wrap
    <3> QED BY <1>1, <1>5, <2>1, <2>4, <3>3
  <2> QED BY <1>1, <1>2, <2>3, <2>4
<1> QED BY <1>4, <1>5

LEMMA GrowInvariant == ASSUME IInv, Grow PROVE IInv'
<1> USE DEF Grow
<1>1. /\ pos <= NewCapacity
      /\ Reserved = Wanted => Reserved >= 1
      /\ (length # NoBuffer /\ length + Reserved > IntMax)
           \/ pos + Reserved <= NewCapacity
  BY NewCapacityEnough
<1>2. length \in -1..HeapMax /\ pos \in Nat /\ buffer \in [0..length - 1 -> Byte]
      /\ HeapMax \in Nat
  BY SizeAssumption DEF IInv, TypeOK
<1>3. length' \in 0..HeapMax /\ length' = NewCapacity /\ pos' = pos BY DEF StartPut
<1>4. buffer' \in [0..length' - 1 -> Byte]
  <2>1. \A j \in 0..NewCapacity - 1 :
          (IF length # NoBuffer /\ j < pos THEN buffer[j] ELSE 0) \in Byte
    BY <1>2 DEF NoBuffer, Byte
  <2> QED BY <2>1 DEF Resized
<1>5. CursorInBuffer' BY <1>1, <1>2, <1>3 DEF CursorInBuffer, NoBuffer
<1>6. Wanted \in Nat /\ Reserved \in Int
  <2>1. Wanted \in Nat /\ Wanted <= 3 * IntMax BY HeadSound
  <2> QED BY <2>1, WrapBelow, IntMaxAssumption DEF Reserved
<1>7. ~overflowed' => Reserved = Wanted /\ Wanted <= length' - pos /\ length' # NoBuffer
  BY <1>1, <1>2, <1>3, <1>6 DEF NoBuffer
<1> QED BY <1>1, <1>2, <1>3, <1>4, <1>5, <1>6, <1>7, StartPutInvariant DEF NoBuffer

LEMMA ExceptionNames ==
  /\ "none" \in Exception /\ "NegativeArraySize" \in Exception
  /\ "OutOfMemory" \in Exception /\ "IndexOutOfBounds" \in Exception
  /\ "NullPointer" \in Exception /\ "IllegalArgument" \in Exception
BY DEF Exception

\* An exception that leaves the array and the position alone.
LEMMA RejectInvariant ==
  ASSUME IInv, NEW e \in Exception, Throw(e), UNCHANGED << arrayVars, pos >>
  PROVE  IInv'
<1>1. length' = length /\ buffer' = buffer /\ pos' = pos /\ overflowed' = overflowed
  BY DEF arrayVars, Throw
<1> QED BY <1>1, ThrowInvariant DEF IInv, TypeOK, CursorInBuffer

LEMMA GrowFailsInvariant == ASSUME IInv, GrowFails PROVE IInv'
<1> USE ExceptionNames
<1>1. \E e \in Exception : Throw(e) BY DEF GrowFails, AllocFails
<1> QED BY <1>1, RejectInvariant DEF GrowFails

-----------------------------------------------------------------------------
(* The stores.                                                             *)
LEMMA OverlayType ==
  ASSUME TypeOK, NEW p \in Int, NEW bytes \in Seq(Byte)
  PROVE  Overlay(p, bytes) \in [0..length - 1 -> Byte]
<1>1. Len(bytes) \in Nat /\ \A k \in 1..Len(bytes) : bytes[k] \in Byte BY LenProperties
<1>2. length \in Int BY SizeAssumption DEF TypeOK
<1> SUFFICES ASSUME NEW j \in 0..length - 1
             PROVE (IF p <= j /\ j < p + Len(bytes) THEN bytes[j - p + 1] ELSE buffer[j])
                     \in Byte
  BY DEF Overlay
<1>3. CASE p <= j /\ j < p + Len(bytes)
  <2>1. j - p + 1 \in 1..Len(bytes) BY <1>1, <1>2, <1>3
  <2> QED BY <1>1, <1>3, <2>1
<1>4. CASE ~(p <= j /\ j < p + Len(bytes)) BY <1>4 DEF TypeOK
<1> QED BY <1>3, <1>4

LEMMA FirstStore ==
  ASSUME IInv, Storing
  PROVE  /\ Head(stores) \in Store /\ Tail(stores) \in Seq(Store)
         /\ Len(stores) \in Nat /\ Len(stores) >= 1
         /\ Len(Tail(stores)) = Len(stores) - 1
         /\ DOMAIN stores = 1..Len(stores) /\ DOMAIN Tail(stores) = 1..Len(stores) - 1
         /\ \A i \in DOMAIN Tail(stores) :
              i + 1 \in DOMAIN stores /\ Tail(stores)[i] = stores[i + 1]
         /\ Head(stores) = stores[1] /\ 1 \in DOMAIN stores
<1>1. stores \in Seq(Store) /\ stores # << >> BY DEF IInv, TypeOK, Storing
<1>2. /\ Head(stores) \in Store /\ Tail(stores) \in Seq(Store)
      /\ Len(Tail(stores)) = Len(stores) - 1
      /\ \A i \in 1..Len(Tail(stores)) : Tail(stores)[i] = stores[i + 1]
  BY <1>1, HeadTailProperties
<1>3. Len(stores) \in Nat \ {0} /\ DOMAIN stores = 1..Len(stores)
  BY <1>1, EmptySeq, LenProperties
<1>4. DOMAIN Tail(stores) = 1..Len(Tail(stores)) BY <1>2, LenProperties
<1>5. Head(stores) = stores[1] BY <1>1
<1>6. \A i \in DOMAIN Tail(stores) : i + 1 \in DOMAIN stores BY <1>2, <1>3, <1>4
<1> QED BY <1>2, <1>3, <1>4, <1>5, <1>6

LEMMA StoreNextInvariant == ASSUME IInv, StoreNext PROVE IInv'
<1> USE DEF StoreNext
<1>1. /\ length \in -1..HeapMax /\ pos \in Nat /\ width \in Nat /\ HeapMax \in Nat
      /\ TypeOK
  BY SizeAssumption DEF IInv, TypeOK
<1>2. /\ Head(stores).n \in Nat /\ Head(stores).bytes \in Seq(Byte)
      /\ Head(stores).n <= width
  BY FirstStore DEF Store, IInv, StoresSound, StoreWithin
<1>3. length # NoBuffer /\ pos' = pos + Head(stores).n /\ pos' <= length BY DEF Fits
<1>4. TypeOK'
  <2>1. buffer' \in [0..length' - 1 -> Byte] BY <1>1, <1>2, OverlayType
  <2>2. pos' \in Nat BY <1>1, <1>2
  <2> QED BY <1>1, <2>1, <2>2, FirstStore DEF TypeOK
<1>5. CursorInBuffer' BY <1>3 DEF CursorInBuffer
<1>6. ReservedRoom'
  <2> SUFFICES ASSUME ~overflowed, Tail(stores) # << >>
               PROVE  /\ width * Len(Tail(stores)) <= length - pos'
                      /\ \A i \in DOMAIN Tail(stores) : Tail(stores)[i].n <= width
    BY <1>3 DEF ReservedRoom
  <2>1. /\ width * Len(stores) <= length - pos
        /\ \A i \in DOMAIN stores : stores[i].n <= width
    BY DEF IInv, ReservedRoom, Storing
  <2>2. /\ width * Len(stores) \in Nat
        /\ width * (Len(stores) - 1) = width * Len(stores) - width
    BY <1>1, FirstStore, ProductMinusOne
  <2>3. width * Len(Tail(stores)) = width * Len(stores) - width BY <2>2, FirstStore
  <2>4. width * Len(Tail(stores)) <= length - pos'
    BY <1>1, <1>2, <1>3, <2>1, <2>2, <2>3
  <2> QED BY <2>1, <2>4, FirstStore
<1>7. PutsSound' BY DEF IInv, PutsSound
<1>8. StoresSound'
  <2>1. \A i \in DOMAIN stores : StoreWithin(stores[i], width) BY DEF IInv, StoresSound
  <2> QED BY <1>3, <2>1, FirstStore DEF StoresSound
<1> QED BY <1>4, <1>5, <1>6, <1>7, <1>8 DEF IInv

\* A store that does not fit: a bump is the only one that moves the position,
\* and then the room was computed with an overflow.
LEMMA StoreFailsInvariant == ASSUME IInv, StoreFails PROVE IInv'
<1> USE DEF StoreFails
<1>1. /\ length \in -1..HeapMax /\ pos \in Nat /\ width \in Nat /\ HeapMax \in Nat
      /\ buffer \in [0..length - 1 -> Byte] /\ TypeOK
  BY SizeAssumption DEF IInv, TypeOK
<1>2. Head(stores).n \in Nat /\ Head(stores).bytes \in Seq(Byte)
  BY FirstStore DEF Store
<1>3. length' = length OBVIOUS
<1>4. buffer' \in [0..length' - 1 -> Byte] BY <1>1, <1>2, OverlayType
<1>5. pos' \in Nat BY <1>1
<1>6. overflowed' = overflowed BY DEF Throw
<1>7. CursorInBuffer'
  <2>1. CASE Head(stores).kind # "bump"
    BY <1>3, <1>6, <2>1 DEF IInv, CursorInBuffer
  <2>2. CASE Head(stores).kind = "bump"
    <3>1. length # NoBuffer /\ pos <= length
      BY <2>2, FirstStore DEF IInv, StoresSound
    <3>2. pos' = pos + 1 BY <2>2
    <3>3. CASE pos + 1 <= length BY <3>1, <3>2, <3>3, <1>3 DEF CursorInBuffer
    <3>4. CASE pos = length
      <4>1. ASSUME ~overflowed PROVE FALSE
        <5>1. width * Len(stores) <= length - pos /\ width >= 1
          BY <4>1, FirstStore DEF IInv, ReservedRoom, Storing, StoresSound, StoreWithin
        <5>2. width * Len(stores) >= 1 BY <1>1, <5>1, FirstStore, ProductAtLeast
        <5>3. width * Len(stores) \in Int BY <1>1, FirstStore, ProductMinusOne
        <5> QED BY <1>1, <3>4, <5>1, <5>2, <5>3
      <4> QED BY <1>3, <1>6, <3>1, <3>2, <3>4, <4>1 DEF CursorInBuffer
    <3> QED BY <1>1, <3>1, <3>3, <3>4
  <2> QED BY <2>1, <2>2
<1> HIDE DEF StoreFails
<1>8. \E e \in Exception : Throw(e) BY ExceptionNames DEF StoreFails
<1>9. length' \in -1..HeapMax BY <1>1, <1>3
<1> QED BY <1>4, <1>5, <1>7, <1>8, <1>9, ThrowInvariant

-----------------------------------------------------------------------------
(* The methods that are one step.                                          *)
LEMMA WriteAtInvariant ==
  ASSUME IInv, NEW p \in IndexArgs, NEW v \in FixedArgs, NEW be, WriteAt(p, v, be)
  PROVE  IInv'
<1> USE DEF WriteAt
<1>1. TypeOK /\ CursorInBuffer BY DEF IInv
<1>2. p \in Int /\ InOrder(v, be) \in Seq(Byte) BY ArgsAssumption, InOrderType
<1>3. length' = length /\ pos' = pos OBVIOUS
<1>4. buffer' \in [0..length' - 1 -> Byte] BY <1>1, <1>2, OverlayType DEF TypeOK
<1>5. \E e \in Exception : Throw(e) BY ExceptionNames
<1>6. overflowed' = overflowed BY DEF Throw
<1>7. CursorInBuffer' BY <1>1, <1>3, <1>6 DEF CursorInBuffer
<1> HIDE DEF WriteAt
<1>8. length' \in -1..HeapMax /\ pos' \in Nat BY <1>1, <1>3 DEF TypeOK
<1> QED BY <1>4, <1>5, <1>7, <1>8, ThrowInvariant

LEMMA PositionInvariant ==
  ASSUME IInv, NEW newPos \in IndexArgs, Position(newPos) PROVE IInv'
<1> USE DEF Position
<1>1. TypeOK /\ newPos \in Int /\ length \in Int
  BY ArgsAssumption, SizeAssumption DEF IInv, TypeOK
<1>2. CASE length # NoBuffer /\ newPos <= length /\ newPos >= 0
  <2>1. pos' = newPos /\ Throw("none") /\ length' = length /\ buffer' = buffer
    BY <1>2 DEF arrayVars
  <2>2. pos' \in Nat /\ length' \in -1..HeapMax /\ buffer' \in [0..length' - 1 -> Byte]
    BY <1>1, <1>2, <2>1 DEF TypeOK
  <2>3. CursorInBuffer' BY <1>2, <2>1 DEF CursorInBuffer
  <2> QED BY <2>1, <2>2, <2>3, ExceptionNames, ThrowInvariant
<1>3. CASE ~(length # NoBuffer /\ newPos <= length /\ newPos >= 0)
  <2>1. \E e \in Exception : Throw(e) BY <1>3, ExceptionNames
  <2>2. UNCHANGED << arrayVars, pos >> BY <1>3
  <2> QED BY <2>1, <2>2, RejectInvariant
<1> QED BY <1>2, <1>3

LEMMA ClearInvariant == ASSUME IInv, Clear PROVE IInv'
<1> USE DEF Clear, Shrink
<1>1. /\ length \in -1..HeapMax /\ buffer \in [0..length - 1 -> Byte] /\ HeapMax \in Nat
  BY SizeAssumption DEF IInv, TypeOK
<1>2. pos' = 0 /\ pos' \in Nat OBVIOUS
<1>3. \E e \in Exception : Throw(e) BY ExceptionNames DEF AllocFails
<1>4. \/ length' = length /\ buffer' = buffer
      \/ /\ length' \in 0..HeapMax
         /\ buffer' = [i \in 0..length' - 1 |-> 0]
  BY DEF arrayVars
<1> HIDE DEF Clear, Shrink
<1>5. length' \in -1..HeapMax BY <1>1, <1>4
<1>6. buffer' \in [0..length' - 1 -> Byte]
  <2>1. 0 \in Byte BY DEF Byte
  <2>2. \A n \in Int : [i \in 0..n - 1 |-> 0] \in [0..n - 1 -> Byte] BY <2>1
  <2>3. CASE length' = length /\ buffer' = buffer BY <1>1, <2>3
  <2>4. CASE length' \in 0..HeapMax /\ buffer' = [i \in 0..length' - 1 |-> 0]
    <3>1. length' \in Int BY <1>1, <2>4
    <3> QED BY <2>2, <2>4, <3>1
  <2> QED BY <1>4, <2>3, <2>4
<1>7. CursorInBuffer'
  <2>1. length' \in Int /\ (length' # -1 => 0 <= length') BY <1>1, <1>5
  <2> QED BY <1>2, <2>1 DEF CursorInBuffer, NoBuffer
<1> QED BY <1>2, <1>3, <1>5, <1>6, <1>7, ThrowInvariant

LEMMA CloseInvariant == ASSUME IInv, Close PROVE IInv'
<1> USE DEF Close
<1>1. pos' = 0 /\ length' = -1 /\ Throw("none") /\ HeapMax \in Nat
  BY SizeAssumption DEF NoBuffer
<1>2. buffer' \in [0..length' - 1 -> Byte] BY <1>1
<1>3. CursorInBuffer' BY <1>1 DEF CursorInBuffer, NoBuffer
<1> QED BY <1>1, <1>2, <1>3, ExceptionNames, ThrowInvariant

-----------------------------------------------------------------------------
(* The methods that queue puts.                                            *)
LEMMA WriteZeroBytesInvariant ==
  ASSUME IInv, NEW count \in IndexArgs, WriteZeroBytes(count) PROVE IInv'
<1> DEFINE f == [k \in 1..count |-> PutByte(0)]
<1>1. count \in Int BY ArgsAssumption
<1>2. 0 \in Byte BY DEF Byte
<1>3. f = [k \in 1..count |-> f[k]] /\ \A k \in 1..count : f[k] \in Sound
  BY <1>2, PutByteSound
<1>4. Call(f) BY DEF WriteZeroBytes
<1> HIDE DEF f
<1> QED BY <1>1, <1>3, <1>4, ManyCalls, CallInvariant

LEMMA WriteRangeInvariant ==
  ASSUME IInv, NEW b \in ByteArrayArgs, NEW off \in IndexArgs, NEW len \in IndexArgs,
         WriteRange(b, off, len)
  PROVE  IInv'
<1>1. /\ b \in Seq(Byte) /\ off \in Int /\ len \in Int /\ len <= IntMax
  BY ArgsAssumption
<1>2. CASE off < 0 \/ len < 0 \/ Wrap(off + len) > Len(b)
  BY <1>2, RejectInvariant, ExceptionNames DEF WriteRange, Reject
<1>3. CASE ~(off < 0 \/ len < 0 \/ Wrap(off + len) > Len(b)) /\ len = 0
  <2>1. Call(<< >>) BY <1>3 DEF WriteRange
  <2> QED BY <2>1, NoCalls, CallInvariant
<1>4. CASE ~(off < 0 \/ len < 0 \/ Wrap(off + len) > Len(b)) /\ len # 0
  <2>1. Call(<< PutRange(b, off, len) >>) BY <1>4 DEF WriteRange
  <2>2. off \in Nat /\ len \in Nat /\ len >= 1 BY <1>1, <1>4
  <2>3. << PutRange(b, off, len) >> \in Seq(Sound)
    BY <1>1, <2>2, PutRangeSound, OneCall
  <2> QED BY <2>1, <2>3, CallInvariant
<1> QED BY <1>2, <1>3, <1>4

LEMMA WriteStringInvariant ==
  ASSUME IInv, NEW s \in StringArgs, WriteBytes(s) \/ WriteChars(s) \/ WriteUTF(s)
  PROVE  IInv'
<1>1. s \in Seq(Char) /\ Len(s) <= IntMax /\ Len(s) \in Int
  BY ArgsAssumption, LenProperties
<1>2. PutLowBytes(s) \in Sound /\ PutChars(s) \in Sound /\ PutUtf(s) \in Sound
  BY <1>1, PutLowBytesSound, PutCharsSound, PutUtfSound
<1>3. PutLength(s) \in Sound BY <1>1, PutIntSound DEF PutLength
<1>4. /\ << PutLowBytes(s) >> \in Seq(Sound) /\ << PutChars(s) >> \in Seq(Sound)
      /\ << PutLength(s) >> \in Seq(Sound) /\ << PutLength(s), PutUtf(s) >> \in Seq(Sound)
  BY <1>2, <1>3, OneCall, TwoCalls
<1>5. \E puts \in Seq(Sound) : Call(puts) BY <1>4 DEF WriteBytes, WriteChars, WriteUTF
<1> QED BY <1>5, CallInvariant

LEMMA WriteByteArrayInvariant ==
  ASSUME IInv, NEW b \in ByteArrayArgs, WriteByteArray(b) \/ WriteBooleanArray(b)
  PROVE  IInv'
<1>1. b \in Seq(Byte) /\ Len(b) <= IntMax /\ Len(b) \in Nat
  BY ArgsAssumption, LenProperties
<1>2. PutLength(b) \in Sound BY <1>1, PutIntSound DEF PutLength
<1>3. CASE WriteByteArray(b)
  <2>1. CASE b = << >>
    BY <1>2, <1>3, <2>1, OneCall, CallInvariant DEF WriteByteArray
  <2>2. CASE b # << >>
    <3>1. Len(b) >= 1 BY <1>1, <2>2, EmptySeq
    <3>2. 0 \in Nat /\ PutRange(b, 0, Len(b)) \in Sound BY <1>1, <3>1, PutRangeSound
    <3>3. << PutLength(b), PutRange(b, 0, Len(b)) >> \in Seq(Sound)
      BY <1>2, <3>2, TwoCalls
    <3> QED BY <1>3, <2>2, <3>3, CallInvariant DEF WriteByteArray
  <2> QED BY <2>1, <2>2
<1>4. CASE WriteBooleanArray(b)
  <2> DEFINE f == [i \in 1..Len(b) |-> PutByte(IF b[i] = 0 THEN 0 ELSE 1)]
  <2>1. 0 \in Byte /\ 1 \in Byte BY DEF Byte
  <2>2. f \in [1..Len(b) -> Sound]
    <3>1. PutByte(0) \in Sound /\ PutByte(1) \in Sound BY <2>1, PutByteSound
    <3>2. \A i \in 1..Len(b) : PutByte(IF b[i] = 0 THEN 0 ELSE 1) \in Sound
      <4> SUFFICES ASSUME NEW i \in 1..Len(b)
                   PROVE  PutByte(IF b[i] = 0 THEN 0 ELSE 1) \in Sound
        OBVIOUS
      <4>1. CASE b[i] = 0 BY <3>1, <4>1
      <4>2. CASE b[i] # 0 BY <3>1, <4>2
      <4> QED BY <4>1, <4>2
    <3> QED BY <3>2
  <2>3. Call(<< PutInt(Len(b)) >> \o f) BY <1>4 DEF WriteBooleanArray, PutLength
  <2> HIDE DEF f
  <2>4. f \in Seq(Sound) BY <1>1, <2>2, FunctionIsSeq
  <2>5. << PutInt(Len(b)) >> \o f \in Seq(Sound) BY <1>1, <2>4, AfterLength
  <2> QED BY <2>3, <2>5, CallInvariant
<1> QED BY <1>3, <1>4

LEMMA WriteFixedArrayInvariant ==
  ASSUME IInv, NEW a \in FixedArrayArgs, WriteFixedArray(a) PROVE IInv'
<1> DEFINE f == [i \in 1..Len(a) |-> PutFixed(a[i], BigEndian)]
<1>1. a \in Seq(Seq(Byte)) /\ \A i \in DOMAIN a : 1 <= Len(a[i]) /\ Len(a[i]) <= 8
  BY ArgsAssumption
<1>2. Len(a) \in Nat /\ DOMAIN a = 1..Len(a) /\ \A i \in 1..Len(a) : a[i] \in Seq(Byte)
  BY <1>1, LenProperties
<1>3. f \in [1..Len(a) -> Sound] BY <1>1, <1>2, PutFixedSound
<1>4. Call(<< PutInt(Len(a)) >> \o f) BY DEF WriteFixedArray, PutLength
<1> HIDE DEF f
<1>5. f \in Seq(Sound) BY <1>2, <1>3, FunctionIsSeq
<1>6. << PutInt(Len(a)) >> \o f \in Seq(Sound) BY <1>2, <1>5, AfterLength
<1> QED BY <1>4, <1>6, CallInvariant

LEMMA WriteUTFArrayInvariant ==
  ASSUME IInv, NEW a \in StringArrayArgs, WriteUTFArray(a) PROVE IInv'
<1> DEFINE e(i) == IF i % 2 = 1 THEN PutInt(StringLength(a[(i + 1) \div 2]))
                   ELSE PutUtf(CharsOf(a[i \div 2]))
           f == [i \in 1..2 * Len(a) |-> e(i)]
<1>1. a \in Seq(StringOrNull) /\ \A i \in DOMAIN a : Len(CharsOf(a[i])) <= IntMax
  BY ArgsAssumption
<1>2. Len(a) \in Nat /\ DOMAIN a = 1..Len(a) /\ \A i \in 1..Len(a) : a[i] \in StringOrNull
  BY <1>1, LenProperties
<1>3. \A j \in 1..Len(a) :
        PutInt(StringLength(a[j])) \in Sound /\ PutUtf(CharsOf(a[j])) \in Sound
  <2> SUFFICES ASSUME NEW j \in 1..Len(a)
               PROVE  /\ PutInt(StringLength(a[j])) \in Sound
                      /\ PutUtf(CharsOf(a[j])) \in Sound
    OBVIOUS
  <2>1. CharsOf(a[j]) \in Seq(Char) /\ Len(CharsOf(a[j])) <= IntMax
    BY <1>1, <1>2, StringParts
  <2>2. StringLength(a[j]) \in Int BY <1>2, StringParts
  <2> QED BY <2>1, <2>2, PutIntSound, PutUtfSound
<1>4. \A n \in Nat : \A i \in 1..2 * n :
        \/ i % 2 = 1 /\ (i + 1) \div 2 \in 1..n
        \/ i % 2 # 1 /\ i \div 2 \in 1..n
  BY SMT
<1>5. \A i \in 1..2 * Len(a) : e(i) \in Sound
  <2> SUFFICES ASSUME NEW i \in 1..2 * Len(a) PROVE e(i) \in Sound OBVIOUS
  <2>1. CASE i % 2 = 1
    <3>1. (i + 1) \div 2 \in 1..Len(a) BY <1>2, <1>4, <2>1
    <3> QED BY <1>3, <2>1, <3>1
  <2>2. CASE i % 2 # 1
    <3>1. i \div 2 \in 1..Len(a) BY <1>2, <1>4, <2>2
    <3> QED BY <1>3, <2>2, <3>1
  <2> QED BY <2>1, <2>2
<1>6. Call(<< PutInt(Len(a)) >> \o f) BY DEF WriteUTFArray, PutLength
<1> HIDE DEF e
<1>7. f \in [1..2 * Len(a) -> Sound] /\ 2 * Len(a) \in Nat BY <1>2, <1>5
<1> HIDE DEF f
<1>8. f \in Seq(Sound) BY <1>7, FunctionIsSeq
<1>9. << PutInt(Len(a)) >> \o f \in Seq(Sound) BY <1>2, <1>8, AfterLength
<1> QED BY <1>6, <1>9, CallInvariant

-----------------------------------------------------------------------------
(* Every step preserves the invariant.                                     *)
LEMMA StepInvariant == IInv /\ [Next]_vars => IInv'
<1> SUFFICES ASSUME IInv, [Next]_vars PROVE IInv' OBVIOUS
<1>1. CASE UNCHANGED vars BY <1>1, UnchangedInvariant
<1>2. CASE CallStep
  BY <1>2, RoomLeftInvariant, GrowInvariant, GrowFailsInvariant,
     StoreNextInvariant, StoreFailsInvariant DEF CallStep
<1>3. ASSUME NEW b \in ByteArgs, Write(b) PROVE IInv'
  <2>1. << PutByte(b) >> \in Seq(Sound) BY ArgsAssumption, PutByteSound, OneCall
  <2> QED BY <1>3, <2>1, CallInvariant DEF Write
<1>4. ASSUME NEW count \in IndexArgs, WriteZeroBytes(count) PROVE IInv'
  BY <1>4, WriteZeroBytesInvariant
<1>5. ASSUME NEW v \in FixedArgs, NEW be \in BOOLEAN, WriteFixed(v, be) PROVE IInv'
  <2>1. << PutFixed(v, be) >> \in Seq(Sound) BY ArgsAssumption, PutFixedSound, OneCall
  <2> QED BY <1>5, <2>1, CallInvariant DEF WriteFixed
<1>6. ASSUME NEW b \in ByteArrayArgs, NEW off \in IndexArgs, NEW len \in IndexArgs,
             WriteRange(b, off, len)
      PROVE  IInv'
  BY <1>6, WriteRangeInvariant
<1>7. ASSUME NEW s \in StringArgs, WriteBytes(s) \/ WriteChars(s) \/ WriteUTF(s)
      PROVE  IInv'
  BY <1>7, WriteStringInvariant
<1>8. ASSUME NEW b \in ByteArrayArgs, WriteByteArray(b) \/ WriteBooleanArray(b)
      PROVE  IInv'
  BY <1>8, WriteByteArrayInvariant
<1>9. ASSUME NEW a \in FixedArrayArgs, WriteFixedArray(a) PROVE IInv'
  BY <1>9, WriteFixedArrayInvariant
<1>10. ASSUME NEW a \in StringArrayArgs, WriteUTFArray(a) PROVE IInv'
  BY <1>10, WriteUTFArrayInvariant
<1>11. CASE WriteNull
  <2>1. << PutInt(NULL_ARRAY_LENGTH) >> \in Seq(Sound)
    BY PutIntSound, OneCall DEF NULL_ARRAY_LENGTH
  <2> QED BY <1>11, <2>1, CallInvariant DEF WriteNull
<1>12. ASSUME NEW p \in IndexArgs, NEW v \in FixedArgs, NEW be \in BOOLEAN,
              WriteAt(p, v, be)
       PROVE  IInv'
  BY <1>12, WriteAtInvariant
<1>13. ASSUME NEW newPos \in IndexArgs, Position(newPos) PROVE IInv'
  BY <1>13, PositionInvariant
<1>14. CASE Clear BY <1>14, ClearInvariant
<1>15. CASE Close BY <1>15, CloseInvariant
<1> QED
  BY <1>1, <1>2, <1>3, <1>4, <1>5, <1>6, <1>7, <1>8, <1>9, <1>10, <1>11, <1>12,
     <1>13, <1>14, <1>15 DEF Next

LEMMA Invariant == Spec => []IInv
BY InitInvariant, StepInvariant, PTL DEF Spec

\* Every variable keeps its type in every call sequence: in particular what is
\* in the array are bytes, and a null array has none (buffer, pos).
THEOREM TypeCorrect == Spec => []TypeOK
<1>1. IInv => TypeOK BY DEF IInv
<1> QED BY <1>1, Invariant, PTL

\* The position never leaves the array, over any sequence of calls that
\* return, fail half way, clear or close, but for the one byte a string whose
\* room overflowed an int can move it past.
THEOREM CursorStaysInBuffer == Spec => []CursorInBuffer
<1>1. IInv => CursorInBuffer BY DEF IInv
<1> QED BY <1>1, Invariant, PTL

\* What ensureAvailable reserves is enough for every store of its put, whether
\* there was room, the array doubled, grew to the put or was allocated anew.
THEOREM ReservationHolds == Spec => []ReservedRoom
<1>1. IInv => ReservedRoom BY DEF IInv
<1> QED BY <1>1, Invariant, PTL

-----------------------------------------------------------------------------
(* DataOutput implements ByteLog: each step of a method is one step of the *)
(* log, or none.  First the refinement mapping.                            *)
LEMMA SizeFacts ==
  ASSUME IInv
  PROVE  /\ length \in Int /\ -1 <= length /\ pos \in Nat /\ LogSize \in Nat
         /\ LogSize <= pos
         /\ length = NoBuffer => LogSize = 0
         /\ length # NoBuffer => length \in Nat /\ LogSize <= length
         /\ length # NoBuffer /\ pos <= length => LogSize = pos
<1>1. length \in Int /\ -1 <= length /\ pos \in Nat
  BY SizeAssumption DEF IInv, TypeOK
<1> QED BY <1>1 DEF LogSize, MinOf, MaxOf, NoBuffer

LEMMA BufferFacts ==
  ASSUME IInv
  PROVE  /\ \A i \in 0..LogSize - 1 : i \in 0..length - 1 /\ buffer[i] \in Byte
         /\ ToByteArray \in [0..LogSize - 1 -> Byte]
<1>1. \A i \in 0..LogSize - 1 : i \in 0..length - 1 BY SizeFacts
<1>2. \A i \in 0..length - 1 : buffer[i] \in Byte BY DEF IInv, TypeOK
<1> QED BY <1>1, <1>2 DEF ToByteArray

LEMMA PendingFacts ==
  ASSUME IInv
  PROVE  /\ Pending \in Seq(Seq(Byte))
         /\ Pending = << >> <=> stores = << >>
         /\ Storing => /\ Head(Pending) = Head(stores).bytes
                       /\ Tail(Pending) =
                            [i \in DOMAIN Tail(stores) |-> Tail(stores)[i].bytes]
<1>1. /\ stores \in Seq(Store) /\ Len(stores) \in Nat /\ DOMAIN stores = 1..Len(stores)
      /\ \A i \in 1..Len(stores) : stores[i].bytes \in Seq(Byte)
  <2>1. stores \in Seq(Store) BY DEF IInv, TypeOK
  <2>2. \A s \in Store : s.bytes \in Seq(Byte) BY DEF Store
  <2> QED BY <2>1, <2>2, LenProperties
<1>2. Pending \in [1..Len(stores) -> Seq(Byte)] BY <1>1 DEF Pending
<1>3. Pending \in Seq(Seq(Byte)) /\ Len(Pending) = Len(stores)
  BY <1>1, <1>2, FunctionIsSeq
<1>4. Pending = << >> <=> stores = << >> BY <1>1, <1>3, EmptySeq
<1>5. ASSUME Storing
      PROVE  /\ Head(Pending) = Head(stores).bytes
             /\ Tail(Pending) = [i \in DOMAIN Tail(stores) |-> Tail(stores)[i].bytes]
  <2>1. Pending # << >> BY <1>4, <1>5 DEF Storing
  <2>2. Head(Pending) = Head(stores).bytes
    <3>1. Head(Pending) = Pending[1] /\ Head(stores) = stores[1] /\ 1 \in DOMAIN stores
      BY <1>3, <1>5, <2>1, FirstStore
    <3> QED BY <3>1 DEF Pending
  <2> DEFINE rest == [i \in DOMAIN Tail(stores) |-> Tail(stores)[i].bytes]
  <2>3. /\ Tail(Pending) \in Seq(Seq(Byte)) /\ Len(Tail(Pending)) = Len(stores) - 1
        /\ \A i \in 1..Len(Tail(Pending)) : Tail(Pending)[i] = Pending[i + 1]
    BY <1>3, <2>1, HeadTailProperties
  <2>4. /\ DOMAIN Tail(stores) = 1..Len(stores) - 1 /\ Len(stores) - 1 \in Nat
        /\ \A i \in 1..Len(stores) - 1 :
             i + 1 \in 1..Len(stores) /\ Tail(stores)[i] = stores[i + 1]
    BY <1>5, FirstStore
  <2>5. rest \in [1..Len(stores) - 1 -> Seq(Byte)] BY <1>1, <2>4
  <2>6. \A i \in 1..Len(stores) - 1 : rest[i] = Tail(Pending)[i]
    <3>1. \A i \in 1..Len(stores) - 1 : rest[i] = stores[i + 1].bytes BY <2>4
    <3>2. \A i \in 1..Len(stores) - 1 : Tail(Pending)[i] = stores[i + 1].bytes
      BY <1>1, <2>3, <2>4 DEF Pending
    <3> QED BY <3>1, <3>2
  <2> HIDE DEF rest
  <2>7. rest \in Seq(Seq(Byte)) /\ Len(rest) = Len(stores) - 1
    BY <2>4, <2>5, FunctionIsSeq
  <2>8. Tail(Pending) = rest BY <2>3, <2>6, <2>7, SeqEqual
  <2> QED BY <2>2, <2>8 DEF rest
<1> QED BY <1>3, <1>4, <1>5

-----------------------------------------------------------------------------
(* Steps that leave the bytes before the position alone.                   *)
\* What the log is when it is the bytes of f.
LEMMA LogIs ==
  ASSUME NEW n \in Int, LogSize' = n,
         NEW f, f = [i \in 0..n - 1 |-> f[i]], \A i \in 0..n - 1 : buffer'[i] = f[i]
  PROVE  ToByteArray' = f
BY DEF ToByteArray

\* The log with bytes appended, as ByteLog has it.
Appended(b) ==
  [i \in 0..LogSize + Len(b) - 1 |->
     IF i < LogSize THEN ToByteArray[i] ELSE b[i - LogSize + 1]]

\* Storing bytes at the position appends them to the log.
LEMMA StoredIsAppended ==
  ASSUME NEW b \in Seq(Byte), Len(b) \in Nat, length \in Nat, pos \in Nat,
         pos + Len(b) <= length, LogSize = pos, LogSize' = pos + Len(b),
         buffer' = Overlay(pos, b)
  PROVE  ToByteArray' = Appended(b)
<1> DEFINE n == LogSize + Len(b)
           f == Appended(b)
<1>1. n \in Int /\ LogSize' = n OBVIOUS
<1>2. f = [i \in 0..n - 1 |-> f[i]] BY DEF Appended
<1>3. \A i \in 0..n - 1 : buffer'[i] = f[i]
  <2> SUFFICES ASSUME NEW i \in 0..n - 1 PROVE buffer'[i] = f[i] OBVIOUS
  <2>1. i \in 0..length - 1 /\ i < pos + Len(b) OBVIOUS
  <2>2. buffer'[i] = IF pos <= i /\ i < pos + Len(b) THEN b[i - pos + 1] ELSE buffer[i]
    BY <2>1 DEF Overlay
  <2>3. f[i] = IF i < LogSize THEN ToByteArray[i] ELSE b[i - LogSize + 1]
    BY DEF Appended
  <2>4. CASE i < pos
    <3>1. i \in 0..LogSize - 1 BY <2>1, <2>4
    <3>2. ToByteArray[i] = buffer[i] BY <3>1 DEF ToByteArray
    <3> QED BY <2>1, <2>2, <2>3, <2>4, <3>2
  <2>5. CASE i >= pos BY <2>1, <2>2, <2>3, <2>5
  <2> QED BY <2>1, <2>4, <2>5
<1> HIDE DEF n, f
<1>4. ToByteArray' = f BY <1>1, <1>2, <1>3, LogIs
<1> QED BY <1>4 DEF f

LEMMA SameLog ==
  ASSUME IInv, LogSize' = LogSize,
         \A i \in 0..LogSize - 1 : buffer'[i] = buffer[i]
  PROVE  ToByteArray' = ToByteArray
BY DEF ToByteArray

LEMMA SameArray ==
  ASSUME IInv, UNCHANGED << arrayVars, pos >>
  PROVE  LogSize' = LogSize /\ ToByteArray' = ToByteArray
<1>1. length' = length /\ buffer' = buffer /\ pos' = pos BY DEF arrayVars
<1>2. LogSize' = LogSize BY <1>1 DEF LogSize
<1> QED BY <1>1, <1>2 DEF ToByteArray

\* The shape of Pending, as a state predicate that can be primed.
PendingShape == Pending \in Seq(Seq(Byte)) /\ (stores = << >> => Pending = << >>)

LEMMA PendingShapeNext == IInv' => PendingShape'
<1>1. IInv => PendingShape BY PendingFacts DEF PendingShape
<1> QED BY <1>1, PTL

LEMMA EnqueueStep ==
  ASSUME IInv, IInv', stores = << >>, LogSize' = LogSize, ToByteArray' = ToByteArray
  PROVE  Log!Next
<1>1. Pending = << >> /\ Pending' \in Seq(Seq(Byte)) BY PendingFacts, PendingShapeNext DEF PendingShape
<1>2. Log!Octet = Byte BY DEF Log!Octet, Byte
<1>3. Log!Enqueue BY <1>1, <1>2 DEF Log!Enqueue
<1> QED BY <1>3 DEF Log!Next

LEMMA FailStep ==
  ASSUME IInv, IInv', stores' = << >>, LogSize' = LogSize, ToByteArray' = ToByteArray
  PROVE  Log!Next
<1>1. Pending' = << >> BY PendingShapeNext DEF PendingShape
<1>2. Log!Fail BY <1>1 DEF Log!Fail
<1> QED BY <1>2 DEF Log!Next

-----------------------------------------------------------------------------
(* The steps of a call.                                                    *)
LEMMA RoomLeftStep == ASSUME IInv, IInv', RoomLeft PROVE Log!Next
<1>1. UNCHANGED << arrayVars, pos >> BY DEF RoomLeft, StartPut
<1> QED BY <1>1, SameArray, EnqueueStep DEF RoomLeft, Reserving

LEMMA GrowStep == ASSUME IInv, IInv', Grow PROVE Log!Next
<1> USE DEF Grow
<1>1. pos' = pos /\ length' = NewCapacity /\ length' \in 0..HeapMax /\ HeapMax \in Nat
  BY SizeAssumption DEF StartPut
<1>2. pos <= NewCapacity BY NewCapacityEnough
<1>3. length = NoBuffer => pos = 0 BY DEF IInv, CursorInBuffer
<1>4. LogSize' = LogSize
  <2>1. LogSize = pos BY <1>3, SizeFacts
  <2>2. LogSize' = MinOf(pos, MaxOf(NewCapacity, 0)) BY <1>1 DEF LogSize
  <2>3. NewCapacity \in Int /\ NewCapacity >= 0 BY <1>1
  <2>4. MinOf(pos, MaxOf(NewCapacity, 0)) = pos
    BY <1>2, <2>3, SizeFacts DEF MinOf, MaxOf
  <2> QED BY <2>1, <2>2, <2>4
<1>5. \A i \in 0..LogSize - 1 : buffer'[i] = buffer[i]
  <2> SUFFICES ASSUME NEW i \in 0..LogSize - 1 PROVE buffer'[i] = buffer[i] OBVIOUS
  <2>1. i \in Int /\ 0 <= i /\ i < pos /\ length # NoBuffer BY SizeFacts, <1>3
  <2>2. NewCapacity \in Int BY <1>1
  <2>3. i \in 0..NewCapacity - 1 BY <1>2, <2>1, <2>2, SizeFacts
  <2> QED BY <2>1, <2>3 DEF Resized
<1> QED BY <1>4, <1>5, SameLog, EnqueueStep DEF Reserving

LEMMA GrowFailsStep == ASSUME IInv, IInv', GrowFails PROVE Log!Next
<1>1. stores' = << >> BY DEF GrowFails, AllocFails, Throw
<1>2. UNCHANGED << arrayVars, pos >> BY DEF GrowFails
<1> QED BY <1>1, <1>2, SameArray, FailStep

LEMMA StoreNextStep == ASSUME IInv, IInv', StoreNext PROVE Log!Next
<1> USE DEF StoreNext
<1> DEFINE bytes == Head(stores).bytes
<1>1. /\ length # NoBuffer /\ length' = length /\ pos + Head(stores).n <= length
      /\ Len(bytes) = Head(stores).n /\ pos' = pos + Len(bytes)
      /\ buffer' = Overlay(pos, bytes)
  BY DEF Fits
<1>2. bytes \in Seq(Byte) /\ Len(bytes) \in Nat BY FirstStore, LenProperties DEF Store
<1>3. Pending # << >> /\ Head(Pending) = bytes BY PendingFacts DEF Storing
<1>4. Pending' = Tail(Pending) BY PendingFacts DEF Pending
<1>5. length \in Nat /\ pos \in Nat BY <1>1, SizeFacts
<1> HIDE DEF bytes, StoreNext
<1>6. LogSize = pos /\ LogSize' = pos + Len(bytes)
  <2>1. LogSize = pos BY <1>1, <1>2, <1>5, SizeFacts
  <2>2. LogSize' = MinOf(pos + Len(bytes), MaxOf(length, 0)) BY <1>1 DEF LogSize
  <2> QED BY <1>1, <1>2, <1>5, <2>1, <2>2 DEF MinOf, MaxOf
<1>7. ToByteArray' = Appended(bytes) BY <1>1, <1>2, <1>5, <1>6, StoredIsAppended
<1>8. Log!Append1 BY <1>3, <1>4, <1>6, <1>7 DEF Log!Append1, Appended
<1> QED BY <1>8 DEF Log!Next

LEMMA StoreFailsStep == ASSUME IInv, IInv', StoreFails PROVE Log!Next
<1> USE DEF StoreFails
<1> DEFINE s == Head(stores)
<1>1. length' = length /\ stores' = << >> BY DEF Throw
<1>2. s.n \in Nat /\ s.bytes \in Seq(Byte) BY FirstStore DEF Store
<1>3. LogSize' = LogSize
  <2>1. CASE s.kind # "bump" BY <1>1, <2>1 DEF LogSize
  <2>2. CASE s.kind = "bump"
    <3>1. length # NoBuffer /\ pos <= length BY <2>2, FirstStore DEF IInv, StoresSound
    <3>2. pos' = pos + 1 BY <2>2
    <3>3. CursorInBuffer' BY DEF IInv
    <3>4. pos = length
      <4>1. s.n = 1 /\ Len(s.bytes) = 1
        BY <2>2, FirstStore DEF IInv, StoresSound, StoreWithin
      <4>2. Fits(s) <=> pos + 1 <= length BY <3>1, <4>1 DEF Fits
      <4> QED BY <3>1, <4>2, SizeFacts
    <3>5. LogSize = length BY <3>1, <3>4, SizeFacts
    <3>6. LogSize' = MinOf(length + 1, MaxOf(length, 0)) BY <1>1, <3>2, <3>4 DEF LogSize
    <3> QED BY <3>1, <3>5, <3>6, SizeFacts DEF MinOf, MaxOf
  <2> QED BY <2>1, <2>2
<1>4. \A i \in 0..LogSize - 1 : buffer'[i] = buffer[i]
  <2> SUFFICES ASSUME NEW i \in 0..LogSize - 1 PROVE buffer'[i] = buffer[i] OBVIOUS
  <2>1. i \in 0..length - 1 /\ i < pos BY BufferFacts, SizeFacts
  <2>2. Overlay(pos, s.bytes)[i] = buffer[i] BY <2>1, SizeFacts DEF Overlay
  <2> QED BY <2>2
<1> QED BY <1>1, <1>3, <1>4, SameLog, FailStep

-----------------------------------------------------------------------------
(* The methods that are one step.                                          *)
LogShape == LogSize \in Nat /\ ToByteArray \in [0..LogSize - 1 -> Byte]

LEMMA LogShapeNext == IInv' => LogShape'
<1>1. IInv => LogShape BY SizeFacts, BufferFacts DEF LogShape
<1> QED BY <1>1, PTL

LEMMA IdlePending ==
  ASSUME IInv, IInv', Idle, stores' = << >>
  PROVE  Pending = << >> /\ Pending' = << >>
BY PendingFacts, PendingShapeNext DEF Idle, PendingShape

LEMMA WriteAtStep ==
  ASSUME IInv, IInv', NEW p \in IndexArgs, NEW v \in FixedArgs, NEW be, WriteAt(p, v, be)
  PROVE  Log!Next
<1>1. length' = length /\ pos' = pos /\ Idle /\ stores' = << >> BY DEF WriteAt, Throw
<1>2. LogSize' = LogSize BY <1>1 DEF LogSize
<1>3. CASE buffer' = buffer
  <2>1. UNCHANGED << arrayVars, pos >> BY <1>1, <1>3 DEF arrayVars
  <2> QED BY <1>1, <2>1, SameArray, FailStep
<1>4. CASE length # NoBuffer /\ p >= 0 /\ buffer' = Overlay(p, InOrder(v, be))
  <2>1. p \in Nat /\ Len(InOrder(v, be)) <= 8 /\ Len(InOrder(v, be)) \in Nat
    <3>1. p \in Int /\ v \in Seq(Byte) /\ Len(v) <= 8 BY ArgsAssumption
    <3> QED BY <1>4, <3>1, InOrderType, LenProperties
  <2> DEFINE q == IF p <= LogSize THEN p ELSE LogSize
  <2>2. q \in 0..LogSize BY <2>1, SizeFacts
  <2>3. \A j \in 0..LogSize - 1 : ToByteArray'[j] # ToByteArray[j] => j \in q..q + 7
    <3> SUFFICES ASSUME NEW j \in 0..LogSize - 1, ~(j \in q..q + 7)
                 PROVE  ToByteArray'[j] = ToByteArray[j]
      OBVIOUS
    <3>1. j \in 0..length - 1 BY BufferFacts
    <3>2. buffer'[j] = IF p <= j /\ j < p + Len(InOrder(v, be))
                       THEN InOrder(v, be)[j - p + 1] ELSE buffer[j]
      BY <1>4, <3>1 DEF Overlay
    <3>3. ~(p <= j /\ j < p + Len(InOrder(v, be))) BY <2>1, SizeFacts
    <3>4. buffer'[j] = buffer[j] BY <3>2, <3>3
    <3>5. ToByteArray'[j] = buffer'[j] BY <1>2 DEF ToByteArray
    <3>6. ToByteArray[j] = buffer[j] BY DEF ToByteArray
    <3> QED BY <3>4, <3>5, <3>6
  <2>4. ToByteArray' \in [0..LogSize - 1 -> Byte]
    BY <1>2, LogShapeNext DEF LogShape
  <2>5. Pending = << >> /\ Pending' = << >> BY <1>1, IdlePending
  <2> HIDE DEF q
  <2>6. Log!Patch BY <1>2, <2>2, <2>3, <2>4, <2>5 DEF Log!Patch, Log!Octet, Byte
  <2> QED BY <2>6 DEF Log!Next
<1> QED BY <1>3, <1>4 DEF WriteAt

LEMMA SeekStep ==
  ASSUME IInv, IInv', Idle, stores' = << >>,
         \A i \in 0..LogSize - 1 : i < LogSize' => buffer'[i] = buffer[i]
  PROVE  Log!Next
<1>1. Pending = << >> /\ Pending' = << >> BY IdlePending
<1>2. LogSize' \in Nat /\ ToByteArray' \in [0..LogSize' - 1 -> Byte]
  BY LogShapeNext DEF LogShape
<1>3. \A i \in 0..LogSize - 1 : i < LogSize' => ToByteArray'[i] = ToByteArray[i]
  <2> SUFFICES ASSUME NEW i \in 0..LogSize - 1, i < LogSize'
               PROVE  ToByteArray'[i] = ToByteArray[i]
    OBVIOUS
  <2>1. LogSize' \in Int /\ LogSize \in Int BY <1>2, SizeFacts
  <2>2. \A m, n \in Int : \A j \in 0..m - 1 : j < n => j \in 0..n - 1 OBVIOUS
  <2>3. i \in 0..LogSize' - 1 BY <2>1, <2>2
  <2>4. ToByteArray'[i] = buffer'[i] BY <2>3 DEF ToByteArray
  <2>5. ToByteArray[i] = buffer[i] BY DEF ToByteArray
  <2> QED BY <2>4, <2>5
<1>4. Log!Seek BY <1>1, <1>2, <1>3 DEF Log!Seek, Log!Octet, Byte
<1> QED BY <1>4 DEF Log!Next

LEMMA PositionStep ==
  ASSUME IInv, IInv', NEW newPos \in IndexArgs, Position(newPos) PROVE Log!Next
<1>1. Idle /\ stores' = << >> /\ buffer' = buffer BY DEF Position, Throw, arrayVars
<1> QED BY <1>1, SeekStep

LEMMA ResetStep ==
  ASSUME IInv, IInv', Idle, stores' = << >>, pos' = 0
  PROVE  Log!Next
<1>1. LogSize' = 0
  <2>1. LogSize' = MinOf(0, MaxOf(length', 0)) BY DEF LogSize
  <2>2. LogSize' \in Nat BY LogShapeNext DEF LogShape
  <2> QED BY <2>1, <2>2 DEF MinOf, MaxOf
<1> QED BY <1>1, SeekStep

LEMMA StartStep == ASSUME IInv, IInv', NEW puts, Call(puts) PROVE Log!Next
<1>1. stores = << >> /\ UNCHANGED << arrayVars, pos >> BY DEF Call, Idle
<1> QED BY <1>1, SameArray, EnqueueStep

LEMMA RejectStep == ASSUME IInv, IInv', NEW e, Reject(e) PROVE Log!Next
<1>1. stores' = << >> /\ UNCHANGED << arrayVars, pos >> BY DEF Reject, Throw
<1> QED BY <1>1, SameArray, FailStep

-----------------------------------------------------------------------------
LEMMA InitLog == Init => Log!Init
<1> SUFFICES ASSUME Init PROVE Log!Init OBVIOUS
<1>1. IInv BY InitInvariant
<1>2. LogSize = 0 BY <1>1, SizeFacts DEF Init
<1>3. ToByteArray = [i \in {} |-> 0] BY <1>2 DEF ToByteArray
<1>4. Pending = << >> BY <1>1, PendingFacts DEF Init
<1> QED BY <1>2, <1>3, <1>4 DEF Log!Init

LEMMA StepLog == IInv /\ IInv' /\ [Next]_vars => [Log!Next]_(Log!vars)
<1> SUFFICES ASSUME IInv, IInv', [Next]_vars PROVE [Log!Next]_(Log!vars) OBVIOUS
<1>1. CASE UNCHANGED vars
  BY <1>1 DEF vars, arrayVars, callVars, Log!vars, LogSize, ToByteArray, Pending
<1>2. CASE CallStep
  BY <1>2, RoomLeftStep, GrowStep, GrowFailsStep, StoreNextStep, StoreFailsStep
  DEF CallStep
<1>3. ASSUME NEW puts, Call(puts) PROVE Log!Next BY <1>3, StartStep
<1>4. ASSUME NEW b, NEW off, NEW len, WriteRange(b, off, len) PROVE Log!Next
  BY <1>3, <1>4, RejectStep DEF WriteRange
<1>5. ASSUME NEW p \in IndexArgs, NEW v \in FixedArgs, NEW be \in BOOLEAN,
             WriteAt(p, v, be)
      PROVE  Log!Next
  BY <1>5, WriteAtStep
<1>6. ASSUME NEW newPos \in IndexArgs, Position(newPos) PROVE Log!Next
  BY <1>6, PositionStep
<1>7. CASE Clear
  <2>1. Idle /\ pos' = 0 /\ stores' = << >>
    BY <1>7 DEF Clear, Shrink, AllocFails, Throw
  <2> QED BY <2>1, ResetStep
<1>8. CASE Close
  <2>1. Idle /\ pos' = 0 /\ stores' = << >> BY <1>8 DEF Close, Throw
  <2> QED BY <2>1, ResetStep
<1>9. ASSUME NEW b PROVE Write(b) \/ WriteByteArray(b) \/ WriteBooleanArray(b) => Log!Next
  BY <1>3 DEF Write, WriteByteArray, WriteBooleanArray
<1>10. ASSUME NEW s
       PROVE  WriteBytes(s) \/ WriteChars(s) \/ WriteUTF(s) \/ WriteUTFArray(s)
                \/ WriteFixedArray(s) \/ WriteZeroBytes(s) => Log!Next
  BY <1>3 DEF WriteBytes, WriteChars, WriteUTF, WriteUTFArray, WriteFixedArray,
              WriteZeroBytes
<1>11. ASSUME NEW v, NEW be PROVE WriteFixed(v, be) => Log!Next BY <1>3 DEF WriteFixed
<1>12. WriteNull => Log!Next BY <1>3 DEF WriteNull
<1> QED
  BY <1>1, <1>2, <1>4, <1>5, <1>6, <1>7, <1>8, <1>9, <1>10, <1>11, <1>12 DEF Next

\* Every behaviour of the buffer, with its growth, copies, reuse and failures
\* half way, is a behaviour of the append-only log that toByteArray shows.
THEOREM Refinement == Spec => ImplementsLog
<1>1. Spec => []IInv BY Invariant
<1>2. Spec => Log!Spec BY <1>1, InitLog, StepLog, PTL DEF Spec, Log!Spec
<1> QED BY <1>2 DEF ImplementsLog
=============================================================================
