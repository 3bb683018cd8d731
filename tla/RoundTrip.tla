----------------------------- MODULE RoundTrip ------------------------------
(***************************************************************************)
(* The two streams together, the way TestSSEDeserialization uses them: a   *)
(* writer puts records into its buffer, a reader is opened on the buffer   *)
(* (bytes(), the live array) or on a copy of what is in it (toByteArray)   *)
(* and takes the records out in the order they went in.  The writer goes   *)
(* on: it appends, grows, is cleared for the next message, and when a      *)
(* record fails half way its caller moves the position back to where that  *)
(* record began.  Steps of the two sides interleave.                       *)
(***************************************************************************)
EXTENDS JavaBits

CONSTANTS
  InitialSize, HeapMax, BigEndian, CharBufferMax,
  Records,      \* the records the caller writes: [kind, value]
  StringReader  \* how strings are read: "utf" or "utfJNI"

MAX_VALUE == 2147483647    \* the greatest int of four bytes

ASSUME SizeAssumption ==
  /\ InitialSize \in Nat /\ HeapMax \in Nat
  /\ InitialSize <= HeapMax /\ HeapMax <= IntMax
  /\ IntMax <= MAX_VALUE
  /\ CharBufferMax \in Nat /\ CharBufferMax <= HeapMax
  /\ BigEndian \in BOOLEAN

\* The values have the types of the methods' parameters: a fixed-width value has
\* two to eight bytes, the values of an array the same width.  Arrays and strings
\* live in the same heap as the buffer.
ASSUME RecordsAssumption ==
  /\ StringReader \in {"utf", "utfJNI"}
  /\ \A r \in Records :
       /\ \/ r.kind = "byte" /\ r.value \in Seq(Byte) /\ Len(r.value) = 1
          \/ r.kind = "fixed" /\ r.value \in Seq(Byte) /\ Len(r.value) \in 2..8
          \/ r.kind = "bytes" /\ r.value \in Seq(Byte)
          \/ r.kind = "booleans" /\ r.value \in Seq({0, 1})
          \/ /\ r.kind = "fixeds" /\ r.value \in Seq(Seq(Byte))
             /\ \E w \in 2..8 : \A i \in DOMAIN r.value : Len(r.value[i]) = w
          \/ r.kind = "utf" /\ r.value \in Seq(Char)
          \/ /\ r.kind = "utfs" /\ r.value \in Seq(StringOrNull)
             /\ \A i \in DOMAIN r.value : Len(CharsOf(r.value[i])) <= HeapMax
          \/ r.kind = "null" /\ r.value = << >>
       /\ Len(r.value) <= HeapMax

VARIABLES
  length, buffer, outPos, calls, stores, width, overflowed, outThrown,
  data, open, size, inPos, mark, charLen, todo, got, src, inThrown, stale,
  start,     \* where the record being written begins
  written,   \* the records in the buffer, the one being written included
  message,   \* the records the reader was opened on
  end,       \* where the last of them ends
  live,      \* the reader's array is the writer's buffer
  reused,    \* the writer was cleared and has that array still
  read,      \* how many records the reader has taken or is taking
  kept       \* history: charLen when the reader was opened

Out == INSTANCE DataOutput WITH
  pos <- outPos, thrown <- outThrown,
  ByteArgs <- {}, FixedArgs <- {}, ByteArrayArgs <- {}, FixedArrayArgs <- {},
  StringArgs <- {}, StringArrayArgs <- {}, IndexArgs <- {}

In == INSTANCE DataInput WITH
  pos <- inPos, thrown <- inThrown, Arrays <- {}, Widths <- {}, IndexArgs <- {}

outVars == << length, buffer, outPos, calls, stores, width, overflowed, outThrown >>
inVars == << data, open, size, inPos, mark, charLen, todo, got, src, inThrown, stale >>
writing == << start, written >>
reading == << message, end, read, kept >>
vars == << outVars, inVars, writing, reading, live, reused >>

-----------------------------------------------------------------------------
(* Records: how each kind is written, read, and what the reader must get.  *)
WriteRecord(r) ==
  CASE r.kind = "byte" -> Out!Write(r.value[1])
    [] r.kind = "fixed" -> Out!WriteFixed(r.value, BigEndian)
    [] r.kind = "bytes" -> Out!WriteByteArray(r.value)
    [] r.kind = "booleans" -> Out!WriteBooleanArray(r.value)
    [] r.kind = "fixeds" -> Out!WriteFixedArray(r.value)
    [] r.kind = "utf" -> Out!WriteUTF(r.value)
    [] r.kind = "utfs" -> Out!WriteUTFArray(r.value)
    [] r.kind = "null" -> Out!WriteNull

GetFor(r) ==
  CASE r.kind = "fixed" -> In!GetOf("fixed", Len(r.value))
    [] r.kind = "fixeds" -> In!GetOf("fixeds", IF r.value = << >> THEN 2 ELSE Len(r.value[1]))
    [] r.kind = "utf" -> In!GetOf(StringReader, 1)
    [] r.kind = "null" -> In!GetOf("utf", 1)
    [] OTHER -> In!GetOf(r.kind, 1)

Singles(s) == [i \in 1..Len(s) |-> << s[i] >>]
Concat(ss) ==
  LET upTo[i \in 0..Len(ss)] == IF i = 0 THEN << >> ELSE upTo[i - 1] \o ss[i]
  IN  upTo[Len(ss)]

Values(r) ==
  LET counted == << << Len(r.value) >> >>
  IN  CASE r.kind \in {"byte", "fixed"} -> << r.value >>
        [] r.kind = "bytes" -> IF r.value = << >> THEN counted ELSE Append(counted, r.value)
        [] r.kind \in {"booleans", "utf"} -> counted \o Singles(r.value)
        [] r.kind = "fixeds" -> counted \o r.value
        [] r.kind = "utfs" ->
             counted \o Concat([i \in 1..Len(r.value) |->
                                  << << StringLength(r.value[i]) >> >>
                                    \o Singles(CharsOf(r.value[i]))])
        [] r.kind = "null" -> << << -1 >> >>

-----------------------------------------------------------------------------
(* The writer.                                                             *)
\* The reader's array is the buffer: what the writer stores is what it sees,
\* until the buffer is replaced by another array.
Shared ==
  IF live /\ length' = length
  THEN data' = [i \in 1..length |-> buffer'[i - 1]] /\ UNCHANGED live
  ELSE live' = FALSE /\ UNCHANGED data

ReaderWaits ==
  UNCHANGED << open, size, inPos, mark, charLen, todo, got, src, inThrown, stale >>

StartRecord(r) ==
  /\ outThrown = "none"
  /\ WriteRecord(r)
  /\ start' = outPos
  /\ written' = Append(written, r)
  /\ Shared /\ ReaderWaits
  /\ UNCHANGED << reading, reused >>

WriterStep ==
  /\ Out!CallStep
  /\ Shared /\ ReaderWaits
  /\ UNCHANGED << writing, reading, reused >>

\* The last record failed: its caller takes it back.  Or clear() did, and there
\* is no record to take back.
TakeBack ==
  /\ Out!Idle /\ outThrown # "none"
  /\ Out!Position(start)
  /\ written' = SubSeq(written, 1, Len(written) - 1)
  /\ Shared /\ ReaderWaits
  /\ UNCHANGED << start, reading, reused >>

\* clear(), for the next message; the smaller array it asks for may be refused.
NextMessage ==
  /\ outThrown = "none" /\ written # << >>
  /\ Out!Clear
  /\ written' = << >> /\ start' = 0
  /\ Shared /\ ReaderWaits
  /\ reused' = (reused \/ live')
  /\ UNCHANGED reading

-----------------------------------------------------------------------------
(* The reader.                                                             *)
\* A reader on bytes() when onBuffer, on toByteArray() otherwise.
Open(onBuffer) ==
  /\ Out!Idle /\ outThrown = "none" /\ written # << >>
  /\ message = << >>
  /\ In!InitWith([i \in 1..(IF onBuffer THEN length ELSE Out!LogSize) |-> buffer[i - 1]],
                 TRUE, 0)
  /\ message' = written /\ end' = outPos /\ read' = 0 /\ kept' = charLen
  /\ live' = onBuffer /\ reused' = FALSE
  /\ UNCHANGED << outVars, writing >>

ReadRecord ==
  /\ inThrown = "none" /\ read < Len(message)
  /\ In!Call(GetFor(message[read + 1]))
  /\ read' = read + 1
  /\ UNCHANGED << outVars, writing, message, end, kept, live, reused >>

ReaderStep ==
  /\ In!CallStep
  /\ UNCHANGED << outVars, writing, reading, live, reused >>

MessageRead ==
  /\ message # << >> /\ read = Len(message)
  /\ message' = << >> /\ end' = 0 /\ read' = 0 /\ kept' = -1
  /\ live' = FALSE /\ reused' = FALSE
  /\ UNCHANGED << outVars, writing >>

\* close(), as try-with-resources does, without the char buffer for the next
\* array; and clear(), with it.
Close == MessageRead /\ In!Close
Recycle == MessageRead /\ In!Clear

-----------------------------------------------------------------------------
Init ==
  /\ Out!Init
  /\ data = << >> /\ open = FALSE /\ size = 0
  /\ inPos = 0 /\ mark = 0 /\ stale = FALSE /\ charLen = -1
  /\ todo = << >> /\ got = << >> /\ src = 0 /\ inThrown = "none"
  /\ start = 0 /\ written = << >>
  /\ message = << >> /\ end = 0 /\ live = FALSE /\ reused = FALSE /\ read = 0
  /\ kept = -1

Next ==
  \/ \E r \in Records : StartRecord(r)
  \/ WriterStep \/ TakeBack \/ NextMessage
  \/ \E onBuffer \in BOOLEAN : Open(onBuffer)
  \/ ReadRecord \/ ReaderStep \/ Close \/ Recycle

Spec == Init /\ [][Next]_vars

-----------------------------------------------------------------------------
(* Properties.                                                             *)
Taken == read > 0 /\ todo = << >>
Same(r) == inThrown = "none" /\ got = Values(r)

\* Each record comes out as it went in, through growth, failed records that
\* were taken back and an exposed array, unless the array was reused under the
\* reader (bytes() and then clear()).  TestSSEDeserialization.java:172-173 expect
\* it of readUTFJNI too.
ReadsBack == Taken /\ ~reused => Same(message[read])

\* Both sides agree on where a message ends: a record that reads right but
\* takes a byte too many would spoil the next one.
SameEnd == Taken /\ ~reused /\ read = Len(message) => inPos = end

\* What readUTFJNI does deliver: every record of a message, and its end, as long
\* as no string it reads is shorter than a string before it in the message, those
\* of arrays included, or than the char buffer the reader had when it was opened;
\* then the buffer is never longer than the string.
StringLengths(r) ==
  CASE r.kind = "utf" -> {Len(r.value)}
    [] r.kind = "utfs" -> {Len(CharsOf(r.value[i])) : i \in DOMAIN r.value}
    [] OTHER -> {}

NeverShorter ==
  \A i \in DOMAIN message : message[i].kind = "utf" =>
    /\ kept <= Len(message[i].value)
    /\ \A j \in 1..i : \A n \in StringLengths(message[j]) : n <= Len(message[i].value)

NativeReadsBack ==
  Taken /\ ~reused /\ NeverShorter =>
    /\ Same(message[read])
    /\ read = Len(message) => inPos = end

=============================================================================
