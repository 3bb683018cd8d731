----------------------------- MODULE DataOutput -----------------------------
(***************************************************************************)
(* com.nc.io.ByteArrayObjectDataOutput: the serializer's output buffer, a  *)
(* byte array that grows on demand and is reused from record to record.    *)
(*                                                                         *)
(* A method call is a sequence of puts.  A put first reserves room for all *)
(* of its bytes (ensureAvailable) and then stores them one value at a time *)
(* without looking at the room again.  Methods that loop (arrays, strings, *)
(* zero bytes) are several puts or a put of several stores, and a failure  *)
(* anywhere leaves the buffer as the part already executed made it, so the *)
(* steps of a call are steps of the model.  Nothing else runs in between:  *)
(* a new call starts only when the last one has returned or thrown.        *)
(***************************************************************************)
EXTENDS JavaBits

CONSTANTS
  InitialSize,     \* initialSize, the capacity the constructor allocates
  HeapMax,         \* the longest byte array the heap can hold
  BigEndian,       \* isBigEndian
  ByteArgs,        \* bytes the caller writes
  FixedArgs,       \* fixed-width values the caller writes
  ByteArrayArgs,   \* byte arrays the caller writes
  FixedArrayArgs,  \* arrays of fixed-width values the caller writes
  StringArgs,      \* strings the caller writes
  StringArrayArgs, \* arrays of strings the caller writes
  IndexArgs        \* positions, offsets, lengths and counts the caller passes

ASSUME SizeAssumption ==
  /\ InitialSize \in Nat /\ HeapMax \in Nat
  /\ InitialSize <= HeapMax /\ HeapMax <= IntMax
  /\ BigEndian \in BOOLEAN

ASSUME ArgsAssumption ==
  /\ \A b \in ByteArgs : b \in Byte
  /\ \A v \in FixedArgs : v \in Seq(Byte) /\ 1 <= Len(v) /\ Len(v) <= 8
  /\ \A b \in ByteArrayArgs : b \in Seq(Byte) /\ Len(b) <= IntMax
  /\ \A a \in FixedArrayArgs :
       a \in Seq(Seq(Byte)) /\ \A i \in DOMAIN a : 1 <= Len(a[i]) /\ Len(a[i]) <= 8
  /\ \A s \in StringArgs : s \in Seq(Char) /\ Len(s) <= IntMax
  /\ \A a \in StringArrayArgs :
       a \in Seq(StringOrNull) /\ \A i \in DOMAIN a : Len(CharsOf(a[i])) <= IntMax
  /\ \A i \in IndexArgs : i \in Int /\ -IntMax - 1 <= i /\ i <= IntMax

VARIABLES
  length,     \* buffer.length, or NoBuffer when buffer is null
  buffer,     \* the bytes of the array, buffer[0] .. buffer[length - 1]
  pos,        \* the position of the next byte
  calls,      \* the puts the call in progress has not started
  stores,     \* the stores its current put has still to do
  width,      \* the most bytes one store of the current put takes
  overflowed, \* the room of the current put was computed with an int overflow
  thrown      \* what the last call threw, "none" while it runs or when it returned

arrayVars == << length, buffer >>
callVars == << calls, stores, width, overflowed >>
vars == << arrayVars, pos, callVars, thrown >>

NoBuffer == -1
Exception == {"none", "NegativeArraySize", "OutOfMemory", "IndexOutOfBounds",
              "NullPointer", "IllegalArgument"}

(***************************************************************************)
(* Stores and puts.  A store of kind "bump" is buffer[pos++] = b: the      *)
(* position moves even when the store fails.  "put" is Bits.writeX(buffer, *)
(* pos, v), byte after byte, and the position moves once all are in.       *)
(* "copy" is System.arraycopy, which stores all n bytes asked for or none. *)
(***************************************************************************)
StoreKind == {"bump", "put", "copy"}
Store == [kind : StoreKind, n : Nat, bytes : Seq(Byte)]
Put == [width : Nat, stores : Seq(Store)]

StoreOf(kind, bytes) == [kind |-> kind, n |-> Len(bytes), bytes |-> bytes]
PutOf(w, ss) == [width |-> w, stores |-> ss]

PutByte(b) == PutOf(1, << StoreOf("bump", << b >>) >>)
PutFixed(v, be) == PutOf(Len(v), << StoreOf("put", InOrder(v, be)) >>)
PutInt(n) == PutFixed(IntBytes(n), BigEndian)

\* The loop of writeUTF after the length, and those of writeBytes and writeChars.
PutUtf(s) == PutOf(3, [i \in 1..Len(s) |-> StoreOf("put", Utf8Bytes(s[i]))])
PutLowBytesUncast(s) == PutOf(1, [i \in 1..Len(s) |-> StoreOf("bump", << s[i] >>)])
PutLowBytes(s) == PutOf(1, [i \in 1..Len(s) |-> StoreOf("bump", << s[i] % 256 >>)])
PutChars(s) ==
  PutOf(2, [i \in 1..Len(s) |-> StoreOf("put", InOrder(CharBytes(s[i]), BigEndian))])

\* len bytes of b from off; fewer than len when the range leaves the array.
PutRange(b, off, len) ==
  PutOf(len, << [kind |-> "copy", n |-> len,
                 bytes |-> SubSeq(b, off + 1, MinOf(off + len, Len(b)))] >>)

PutLength(a) == PutInt(Len(a))

-----------------------------------------------------------------------------
available == IF length = NoBuffer THEN 0 ELSE length - pos

Idle == calls = << >> /\ stores = << >>

\* A method starts: these puts are what it will do.
Call(puts) ==
  /\ Idle
  /\ calls' = puts
  /\ thrown' = "none"
  /\ UNCHANGED << arrayVars, pos, stores, width, overflowed >>

\* The call in progress ends with an exception.
Throw(e) ==
  /\ calls' = << >> /\ stores' = << >>
  /\ thrown' = e
  /\ UNCHANGED << width, overflowed >>

\* A call that does nothing but return or throw at once.
Reject(e) == Idle /\ Throw(e) /\ UNCHANGED << arrayVars, pos >>

\* new byte[n] fails.
AllocFails(n) ==
  /\ n < 0 \/ n > HeapMax
  /\ Throw(IF n < 0 THEN "NegativeArraySize" ELSE "OutOfMemory")

-----------------------------------------------------------------------------
(* ensureAvailable, at the start of each put.                              *)
Wanted == Head(calls).width * Len(Head(calls).stores)
Reserved == Wrap(Wanted)

NewCapacityDoubled == IF length # NoBuffer THEN Wrap(2 * length) ELSE InitialSize

NewCapacity ==
  IF length # NoBuffer
  THEN MaxOf(Wrap(2 * length), Wrap(length + Reserved))
  ELSE IF Reserved > InitialSize \div 2 THEN Wrap(2 * Reserved) ELSE InitialSize

\* Room is there, or thought to be there: the stores of the put may go ahead.
StartPut ==
  /\ stores' = Head(calls).stores
  /\ width' = Head(calls).width
  /\ calls' = Tail(calls)
  /\ UNCHANGED << pos, thrown >>

Reserving == calls # << >> /\ stores = << >>

\* The larger array: the bytes before the position are copied.
ResizedBlank(n) == [i \in 0..n - 1 |-> 0]
Resized(n) ==
  [i \in 0..n - 1 |-> IF length # NoBuffer /\ i < pos THEN buffer[i] ELSE 0]

RoomLeft ==
  /\ Reserving
  /\ available >= Reserved
  /\ StartPut
  /\ overflowed' = (Reserved # Wanted)
  /\ UNCHANGED arrayVars

Grow ==
  /\ Reserving
  /\ available < Reserved
  /\ NewCapacity \in 0..HeapMax
  /\ length = NoBuffer \/ pos <= length
  /\ length' = NewCapacity
  /\ buffer' = Resized(NewCapacity)
  /\ overflowed' = \/ Reserved # Wanted
                   \/ length # NoBuffer /\ length + Reserved > IntMax
  /\ StartPut

GrowFails ==
  /\ Reserving
  /\ available < Reserved
  /\ \/ AllocFails(NewCapacity)
     \/ /\ NewCapacity \in 0..HeapMax
        /\ length # NoBuffer /\ pos > length    \* arraycopy past the array
        /\ Throw("IndexOutOfBounds")
  /\ UNCHANGED << arrayVars, pos >>

-----------------------------------------------------------------------------
(* The stores of a put.                                                    *)
Storing == stores # << >>

\* The array once bytes are stored at p, as far as the array goes.
Overlay(p, bytes) ==
  [i \in 0..length - 1 |->
     IF p <= i /\ i < p + Len(bytes) THEN bytes[i - p + 1] ELSE buffer[i]]

Fits(s) == length # NoBuffer /\ pos + s.n <= length /\ Len(s.bytes) = s.n

StoreNext ==
  /\ Storing
  /\ Fits(Head(stores))
  /\ buffer' = Overlay(pos, Head(stores).bytes)
  /\ pos' = pos + Head(stores).n
  /\ stores' = Tail(stores)
  /\ UNCHANGED << length, calls, width, overflowed, thrown >>

StoreFails ==
  /\ Storing
  /\ ~Fits(Head(stores))
  /\ buffer' = IF length # NoBuffer /\ Head(stores).kind = "put"
               THEN Overlay(pos, Head(stores).bytes) ELSE buffer
  /\ pos' = IF Head(stores).kind = "bump" THEN pos + 1 ELSE pos
  /\ Throw(IF length = NoBuffer THEN "NullPointer" ELSE "IndexOutOfBounds")
  /\ UNCHANGED length

-----------------------------------------------------------------------------
(* The methods.                                                            *)

\* write(int), writeByte, writeBoolean
Write(b) == Call(<< PutByte(b) >>)

WriteZeroBytes(count) == Call([k \in 1..count |-> PutByte(0)])

\* writeChar, writeShort, writeInt, writeLong, writeFloat, writeDouble,
\* in the stream's byte order or in the one the caller passes
WriteFixed(v, be) == Call(<< PutFixed(v, be) >>)

\* write(byte[], int, int)
WriteRange(b, off, len) ==
  IF off < 0 \/ len < 0 \/ Wrap(off + len) > Len(b)
  THEN Reject("IndexOutOfBounds")
  ELSE Call(IF len = 0 THEN << >> ELSE << PutRange(b, off, len) >>)

WriteBytes(s) == Call(<< PutLowBytes(s) >>)
WriteChars(s) == Call(<< PutChars(s) >>)
WriteUTF(s) == Call(IF s = << >> THEN << PutLength(s) >>
                    ELSE << PutLength(s), PutUtf(s) >>)

\* writeByteArray, writeData
WriteByteArray(b) ==
  Call(IF b = << >> THEN << PutLength(b) >>
       ELSE << PutLength(b), PutRange(b, 0, Len(b)) >>)

WriteBooleanArray(b) ==
  Call(<< PutLength(b) >> \o [i \in 1..Len(b) |-> PutByte(IF b[i] = 0 THEN 0 ELSE 1)])

\* writeCharArray, writeShortArray, writeIntArray, writeLongArray,
\* writeFloatArray, writeDoubleArray
WriteFixedArray(a) ==
  Call(<< PutLength(a) >> \o [i \in 1..Len(a) |-> PutFixed(a[i], BigEndian)])

\* Each element is a writeUTF: its length and chars, or the length of a null.
WriteUTFArray(a) ==
  Call(<< PutLength(a) >> \o
       [i \in 1..2 * Len(a) |-> IF i % 2 = 1 THEN PutInt(StringLength(a[(i + 1) \div 2]))
                                ELSE PutUtf(CharsOf(a[i \div 2]))])

\* Any of the methods above that take a null reference for an empty value.
WriteNull == Call(<< PutInt(NULL_ARRAY_LENGTH) >>)

\* write(int, int) and the other methods that take a position: one value over
\* what is there, as far as it fits, without moving the position.
WriteAt(p, v, be) ==
  /\ Idle
  /\ buffer' = IF length # NoBuffer /\ p >= 0 THEN Overlay(p, InOrder(v, be)) ELSE buffer
  /\ Throw(IF length = NoBuffer THEN "NullPointer"
           ELSE IF p < 0 \/ p + Len(v) > length THEN "IndexOutOfBounds" ELSE "none")
  /\ UNCHANGED << length, pos >>

Position(newPos) ==
  /\ Idle
  /\ IF length # NoBuffer /\ newPos <= length /\ newPos >= 0
     THEN pos' = newPos /\ Throw("none")
     ELSE /\ Throw(IF length = NoBuffer THEN "NullPointer" ELSE "IllegalArgument")
          /\ UNCHANGED pos
  /\ UNCHANGED arrayVars

\* An array that has grown past eight initial sizes is given back.
Shrink ==
  IF length # NoBuffer /\ length > Times8(InitialSize)
  THEN \/ AllocFails(Times8(InitialSize)) /\ UNCHANGED arrayVars
       \/ /\ Times8(InitialSize) \in 0..HeapMax
          /\ length' = Times8(InitialSize)
          /\ buffer' = [i \in 0..Times8(InitialSize) - 1 |-> 0]
          /\ Throw("none")
  ELSE Throw("none") /\ UNCHANGED arrayVars

ClearInPlace == Idle /\ Shrink /\ UNCHANGED pos
Clear == Idle /\ Shrink /\ pos' = 0

Close ==
  /\ Idle
  /\ pos' = 0
  /\ length' = NoBuffer
  /\ buffer' = [i \in {} |-> 0]
  /\ Throw("none")

\* toByteArray: the bytes before the position, as far as the array goes (with
\* the position one past the array the method itself throws).
LogSize == MinOf(pos, MaxOf(length, 0))
ToByteArray == [i \in 0..LogSize - 1 |-> buffer[i]]

\* The bytes of the stores still to do.
Pending == [i \in DOMAIN stores |-> stores[i].bytes]

-----------------------------------------------------------------------------
Init ==
  /\ length = InitialSize
  /\ buffer = [i \in 0..InitialSize - 1 |-> 0]
  /\ pos = 0
  /\ calls = << >> /\ stores = << >> /\ width = 0 /\ overflowed = FALSE
  /\ thrown = "none"

CallStep == RoomLeft \/ Grow \/ GrowFails \/ StoreNext \/ StoreFails

Next ==
  \/ CallStep
  \/ \E b \in ByteArgs : Write(b)
  \/ \E count \in IndexArgs : WriteZeroBytes(count)
  \/ \E v \in FixedArgs, be \in BOOLEAN : WriteFixed(v, be)
  \/ \E b \in ByteArrayArgs, off, len \in IndexArgs : WriteRange(b, off, len)
  \/ \E s \in StringArgs : WriteBytes(s) \/ WriteChars(s) \/ WriteUTF(s)
  \/ \E b \in ByteArrayArgs : WriteByteArray(b) \/ WriteBooleanArray(b)
  \/ \E a \in FixedArrayArgs : WriteFixedArray(a)
  \/ \E a \in StringArrayArgs : WriteUTFArray(a)
  \/ WriteNull
  \/ \E p \in IndexArgs, v \in FixedArgs, be \in BOOLEAN : WriteAt(p, v, be)
  \/ \E newPos \in IndexArgs : Position(newPos)
  \/ Clear
  \/ Close

Spec == Init /\ [][Next]_vars


-----------------------------------------------------------------------------
(* Properties.                                                             *)

\* Every variable has its type; a null array has no bytes.
TypeOK ==
  /\ length \in -1..HeapMax
  /\ buffer \in [0..length - 1 -> Byte]
  /\ pos \in Nat
  /\ calls \in Seq(Put) /\ stores \in Seq(Store)
  /\ width \in Nat /\ overflowed \in BOOLEAN
  /\ thrown \in Exception

\* The position never leaves the array, whatever calls ran, failed or reused
\* it, and is 0 without an array (close, clear and ensureAvailable agree).  The
\* exception is a string too long for int arithmetic: buffer[pos++] moves the
\* position one past an array that ensureAvailable made too short.
CursorInBuffer ==
  IF length = NoBuffer THEN pos = 0
  ELSE pos <= length \/ (overflowed /\ pos = length + 1)

\* Once ensureAvailable has returned, all the stores it reserved for fit, for
\* every growth step, unless computing the room overflowed an int.
ReservedRoom ==
  ~overflowed /\ stores # << >> =>
    /\ length # NoBuffer
    /\ width * Len(stores) <= length - pos
    /\ \A i \in DOMAIN stores : stores[i].n <= width

\* The buffer implements the append-only log: the bytes before the position
\* are exactly those of the stores done, growth changes none of them, and a
\* call that fails leaves the bytes already appended.
Log == INSTANCE ByteLog WITH size <- LogSize, log <- ToByteArray, pending <- Pending

ImplementsLog == Log!Spec

=============================================================================
