# Verification of hz_research

`hz_research` is a pair of experiments around Hazelcast: hand-written object
streams with a native UTF-8 decoder (`hz-ser-bench`, `gs-native`), and a
reproduction of a second-level-cache failure (`hz-2nd-level-cache`). This
directory holds TLA+ modules that model the repository's own logic, TLC
configurations that check them on small instances, and proofs that TLAPS checks
for every value of the constants.

Paths below are relative to `src/`; `Output`, `Input` and `UTF8Util` stand for
`ByteArrayObjectDataOutput.java`, `ByteArrayObjectDataInput.java` and
`UTF8Util.java` under `hz-ser-bench/src/main/java/com/nc/`, and `the C file` for
`gs-native/com_nc_gs_io_UTF8Util.c`.

## 1. Inventory

### Object data output (`Output`)
*State*: `buffer` (a byte array or null), `pos`, the constant `initialSize` and
byte order. *Operations*: single values, arrays, strings and ranges written at
the cursor; the same values patched at a position; `position`, `clear`, `close`,
`toByteArray`, `bytes`. Every write reserves first (`ensureAvailable`) and then
stores without looking again. *Hard*: int overflow in what is reserved (doubling,
`len * 3`, `initialSize * 8`), methods that reserve several times and fail in
between, an array that is replaced while `bytes()` has handed it out, calls
after `close`. *Correct when*: a reservation covers its stores, the cursor stays
in the array, and the bytes before the cursor are exactly those that were
written.

### Object data input (`Input`)
*State*: `data`, `size`, `pos`, `mark`, and `charBuffer`, which strings share.
*Operations*: the same kinds of values read at the cursor or at a position,
`readUTF`, `inflateUTF` and their native variants, `skip`, `mark`, `reset`,
`position`, `init`, `clear`, `close`. What a call reads depends on lengths it
finds in the array. *Hard*: lengths that are negative, too long or past the end;
calls that fail half way with the cursor moved; mark, position and reset in any
order; a char buffer kept from another string. *Correct when*: whatever the bytes
are, a read ends, ends inside the array, and leaves the mark behind the cursor.

### Native UTF-8 decoder (the C file)
*State*: during one call, two array pointers and two remaining counts.
*Operations*: a vector loop over 16 bytes, a scalar ASCII loop, a scalar general
loop, and the return. *Hard*: a chunk cuts a char anywhere; the loop stores 16
chars and keeps fewer; chunks the vector loop must refuse, before or after it
has stored; malformed bytes its two checks do not notice; the error return.
*Correct when*: the four cursors agree and stay on char boundaries, no store, the
whole chunks of the vector loop included, leaves the target array, the call
returns, and the result is that of decoding char by char.

### JVM critical regions (the C file, 216-219 and 365-366)
*State*: how many arrays each thread holds, what its two pointers point to, and
the collector. *Operations*: two regions entered one after the other, the loops,
two regions left; before and after it the caller allocates (`Input` 695, 702).
*Hard*: other threads wait for the collector and the collector for these
threads; the second array is asked for in between; the error return (135-147)
leaves neither region; `JNI_ABORT` on a JVM that copies. *Correct when*: a call
gives back what it took, the chars reach the array, a wanted collection happens,
and nobody waits for ever.

### Native library loader (`UTF8Util` 32-56)
*State*: one path in the user's home directory, shared by every JVM of the user,
and the files that are or were there. *Operations*: load in place (from a
directory), or exists, delete, create, write, load. *Hard*: two JVMs delete and
overtake each other's files; one is killed while it copies. *Correct when*: a JVM
that is alone loads its own library whatever it finds, and of several that
overlap one succeeds.

### Tree node set (`VersionedTree`, `UnversionedNode`)
*State*: the labels of the nodes, and sets that keep the hash a node had when it
was added. *Operations*: `add`, `setLabel`, `getNodes` (and so removal),
`setNodes`. *Hard*: the hash changes while a node is in a set, and two trees may
share one. *Correct when*: no two nodes of a set are equal unless one of them was
renamed in it. What a tree promises of a renamed node is not said anywhere.

### Tree service, cache configuration, JNI headers, build script, tests
`TreeService` is three calls of `HibernateTemplate` over two READ_WRITE cache
regions, library code that this repository only configures. `jni.h`, `jni_md.h`
and the generated header hold declarations. `build.sh` is a developer's line of
commands and runs before there is a program. `TestSSEDeserialization` is the
reference for how the two streams and the decoder are used together.

### How they interact
A writer and a reader share a byte array: a copy (`toByteArray`) or the live
buffer (`bytes`), in which the reader sees later stores until the writer
replaces it. The reader calls native code with its whole array and its whole
char buffer and adds the result to its cursor; the char buffer is the channel
between strings, and between `readUTF` and `readUTFJNI`. Nothing is
synchronised: a stream belongs to one thread at a time. What threads do share is
the JVM's collector, through the critical regions of the native call; what JVMs
share is the file the loader copies.

## 2. Modules

| Module | Models | Source |
| --- | --- | --- |
| `JavaBits` | ints that wrap, the layout of values in bytes | `com.hazelcast.nio.Bits` as the streams call it (external) |
| `DataOutput` | the writer, call by call, put by put, store by store | `Output` |
| `ByteLog` | what a writer promises: an append-only log | abstract, no code |
| `DataInput` | the reader, call by call, get by get | `Input`; its native gets, `SCALAR_LOOP` of the C file |
| `RoundTrip` | both over one array | `TestSSEDeserialization`, `bytes`, `toByteArray` |
| `Utf8Native` | one call of the decoder, chunk by chunk, char by char | the C file, 110-150 and 206-368 |
| `CharDecoder` | what a decoder promises on a legal source: char by char, no loops and no cursors | abstract, no code |
| `CriticalRegions` | threads in the native call beside the collector, line by line | the C file, 135-147 and 216-368; `readUTFJNI`; the JVM (external) |
| `NativeLoader` | the static initializer in several JVMs, file operation by file operation | `UTF8Util` 32-56; the file system (external) |
| `NodeSet` | the nodes of trees | `VersionedTree`, `UnversionedNode`; `HashSet` (external) |
| `MC*` | instances for TLC | |
| `JavaBitsProofs`, `DataOutputProofs`, `DataInputProofs`, `RoundTripProofs`, `Utf8NativeProofs`, `CriticalRegionsProofs`, `NativeLoaderProofs`, `NodeSetProofs` | proofs; the first holds the lemmas on values and sequences that the streams share | |

### State and actions
**DataOutput.** A method call queues *puts* (`calls`). `RoomLeft`, `Grow` and
`GrowFails` are `ensureAvailable` for the next put; its *stores* then run one by
one (`StoreNext`, `StoreFails`) without another look at the room. A store is
`buffer[pos++] = b` ("bump", which moves the cursor even when it fails),
`Bits.writeX` ("put") or `arraycopy` ("copy", all or nothing). `Write`,
`WriteFixed`, `WriteUTF` and so on name the methods; those that differ only in the
width of their values are one definition, because a fixed-width value is the
tuple of its bytes. `overflowed` is a history flag: the room of the current put
was computed with an overflow.

**DataInput.** A method call is a queue of *gets* (`todo`). `TakeCount` reads a
length and replaces the get by those of its elements (`Elements`); `TakeFixed`,
`TakeByte`, `TakeChar` and `Fill` deliver a value; each has the failures the code
has, with the cursor where the code leaves it (`data[pos++]` moves first).
`NativeChar`, `NativeMalformed` and `NativeDone` are `utf8BytesToArray` in the
order of its scalar loop. `stale` is a history flag: `init` has replaced the array
since the mark was set.

**RoundTrip** instantiates both, keeps the reader's array equal to the buffer
while it is the same array (`Shared`), and adds what the caller does: records
taken back after a failure (`TakeBack`), the next message (`NextMessage`, whose
`clear()` may find no memory for the smaller array after it has reset the
position), readers opened on either array, and then closed (`Close`, which drops
the char buffer, as try-with-resources does) or cleared (`Recycle`, which keeps
it). Arrays of strings may hold null. `kept` is history: the char buffer a reader
came with.

**Utf8Native** computes `counts`, `shifts`, `src_adv` and `dst_adv` lane by lane,
by what the instructions leave in the registers rather than bit by bit. Where
the bytes of a chunk are not clean UTF-8 the shuffle mixes lanes in ways the
model does not follow: it leaves the cells open (`Any`) and lets the target
advance by anything from 1 to `src_adv`. The compiled function was compared with
these definitions on random chunks when they were written, clean and not.
`WellFormed` says what an encoder for chars of one to three bytes produces, cut
anywhere at the end; on such a source `Utf8Native` implements `CharDecoder` under
the mapping that shows the chars before the target cursor and the bytes behind
the source cursor.

**CriticalRegions.** A call is `GetSource`, `GetTarget`, `Decode`, then either
`LoopsEnd`, `ReleaseSource`, `ReleaseTarget` or `CutShort`, which is `return -1`.
`Decode` stands for the loops, whose inside is `Utf8Native`; here only where its
stores go matters: to the array, to a copy, or to where the array was before the
collector moved it ("stale"). `Begin` and `Allocate` are what `readUTFJNI` and
`inflateUTFJNI` do around the call. The JVM is modelled after HotSpot with the
collectors of the time: entering a first region waits while a collection is
wanted, entering a second does not; a thread that holds an array is refused
memory instead of waiting. `cuts` counts, as history, the calls cut short.

**NativeLoader.** Files are named by the JVM that made them, so a deleted file
goes on being written and a path can change hands under a JVM. `IOError` and
`Kill` may happen at every file operation. `LoadInPlaceFails` and `LoadFails` are
the `UnsatisfiedLinkError` of the two loads; a copy that is whole is taken to be
loadable. `broken` and `met` are history.

**NodeSet.** An entry is a node and the hash it was added under, as `HashSet`
keeps it; `Matches` is its lookup. `stale` is history: entries whose node was
renamed since.

## 3. Runs

| Run | Question | Outcome |
| --- | --- | --- |
| `output_grow` | is every call sequence on the buffer one of the log, with growth, failure, overflow, in both byte orders? | holds |
| `reader` | do cursor, mark and size stay ordered, do reads of values and of ranges stay inside and end, on any bytes? | holds |
| `reader_reset` | can the cursor become negative? | yes: mark, position back, reset |
| `round_trip` | does a reader get what was written and stop where the message ends? | holds |
| `native_strings` | also through `readUTFJNI`? | no: it reads on into the next record |
| `native_strings_growing` | and if no string is shorter than one before it or than the buffer the reader came with? | holds |
| `utf8_native` | do the cursors agree and stay on char boundaries, do stores stay inside the target, does the call end, and is it the plain decoder? | holds |
| `utf8_native_result` | is the result the number of bytes read? | no: -1 for a char cut short |
| `critical_regions` | who keeps arrays, who is refused memory, do the chars arrive, does a wanted collection happen, does a call come back? | holds: only cut calls keep arrays and do harm |
| `critical_regions_copying` | do the chars arrive on a JVM that hands out copies? | no: `JNI_ABORT` drops them |
| `native_loader` | does a JVM alone load its own library, does one of several, and in the end? | holds |
| `node_set` | are two nodes of a set equal of which none was renamed in it? | no |

**Bounds.** `IntMax` is 9 to 48 instead of 2^31 - 1, so that sums, doublings and
`len * 3` overflow within three calls. `HeapMax` is smaller: in `output_grow`, 8
where `IntMax` is 9, a size can be refused because it wrapped to a negative one
and because it is 9. Three calls on a buffer of one to three bytes are enough to
grow twice (by doubling and by length), shrink, fail and go on. `MCDataOutput`
runs three streams, a behaviour using one. Eight initial sizes of the first, one
byte and big-endian, are an int; those of the second, two bytes and
little-endian, wrap to -4, so that `clear` fails; those of the third, three
bytes, wrap to 4, and `clear` goes on with an array of that size. The reader runs
four calls (`mark`, a read, `position`, `reset`) over arrays with good, negative,
too long and truncated lengths, a cut char and two strings of growing length. The
round trip has three records of eight kinds with chars of one, two and three
bytes, and two readers, so that a writer can fail, take back, be cleared and go
on while a reader is open. In `native_strings_growing` strings are mixed with an
array of strings, a null and a byte, and a `clear` of the writer can find no
memory. The decoder has chunks of 4 bytes instead of 16: the smallest in which a
three-byte char starts, ends and is cut in every lane, with a second chunk behind
it. The MC modules count *calls*, never steps: a call that has begun always runs
to its end. The critical regions have three threads (one that holds, one that
waits to enter, one that waits for memory), memory for one object and one cut
call per thread (`MaxCuts`, a guard of `CutShort`); the number of calls is not
bounded. The loader has three JVMs and a library of two writes, so that it can be
half there; the node set two nodes, two trees and three labels, two that share a
hash and one that has the hash of null.

**Fairness.** `CallsEnd` assumes weak fairness of the steps of a call
(`CallStep`), `CallReturns` of the steps of the native call: a Java thread that is
inside a method keeps running it. Nothing is assumed of the caller.
`CollectionHappens` and `CallsComeBack` assume weak fairness of the collector and
of each thread's steps inside the native call, which no lock stops; nothing of
Java code, nor of entering a first region, for which a thread may have to
compete. `LoadedInTheEnd` assumes it of each initializer that runs.

`CHECK_DEADLOCK FALSE` is set where the number of calls is bounded (writer,
reader, round trip), for the decoder, which stops when it returns, and for the
loader, of which there are finitely many runs. The critical regions and the node
set are checked for deadlock. After a call cut short the collector never runs,
and a thread that asks for its first array or for memory waits for ever; the
thread whose call it was does not, which is why TLC finds no deadlock there and
`CollectionHappens` has to except it.

## 4. Findings

1. `reader_reset`: `position(int)` drops a mark by setting it to -1 (155-157) and
   `reset()` goes there without looking (707).
2. `native_strings`: `readUTFJNI` decodes into the whole char buffer it has kept
   (698), not into the `charCount` chars of its string.
3. `utf8_native_result`: when the array ends in the middle of a char the decoder
   returns -1 (136, 146), where its Java declaration promises the bytes read, and
   its callers add it to the cursor.
4. `critical_regions_copying`: the target is released with `JNI_ABORT` (366) and
   nobody asks whether it is a copy (219). On a JVM that hands out copies, as
   HotSpot does under `-Xcheck:jni`, the chars are dropped.

## 5. Proofs

All are for every value of the constants that the named assumptions allow: every
`IntMax >= 8`, `HeapMax`, initial size, array and argument of the streams, every
set of records of the round trip, every chunk size from 3 on and every source of
the decoder, any threads, JVMs, nodes and trees.

**DataOutputProofs.** The inductive invariant is `TypeOK /\ CursorInBuffer /\
ReservedRoom /\ PutsSound /\ StoresSound`. `ReservedRoom` alone is not inductive:
`Grow` has to know that a put's room is the product of its width and its stores
and is at most one lap past an int, which is what `PutsSound` says of every put
in the queue; and `CursorInBuffer` needs `StoresSound`, that a store of a single
byte is only under way in an array and before its end. `NewCapacityEnough` is
the arithmetic of `ensureAvailable`. Theorems: `TypeCorrect`,
`CursorStaysInBuffer`, `ReservationHolds`, and `Refinement`: every step of the
writer is a step or a stutter of `ByteLog`, under the mapping that shows the bytes
before the cursor.

**DataInputProofs.** The inductive invariant is `TypeOK /\ MarkBehindCursor /\
QueueSound /\ LengthTaken /\ NativeSound /\ Running`. The properties alone are
not inductive, because what a get may do was decided when an earlier one queued
it: `QueueSound` remembers that a char's index is inside the char buffer (the
buffer only grows while a call runs) and that native code is only ever the first
get of the queue; `NativeSound` that a length of four bytes was taken before
native code runs, so that its -1 cannot carry the cursor behind the mark or
before the array; `LengthTaken` that the chars of a native string follow a length
in `got`. `CallStepInvariant` has one step per kind of get. Theorems:
`TypeCorrect`, `MarkStaysBehind`, `SequentialReads` (the action property
`ReadsStayInside`), which covers the reads of a range as well; `ReadRangeInside`
is the lemma on those.

**RoundTripProofs.** The constants are bound by two assumptions of `RoundTrip`.
`SizeAssumption`: `IntMax` is at most 2^31 - 1, so that a length survives its four
bytes. `RecordsAssumption`: the records have the types of the methods' parameters
and fit in the heap.

`ReadsBack` is far from inductive: it speaks of a record that has been taken, and
what makes it true was decided byte by byte, when the writer stored it and the
reader went through it. `ChunksOf(r)` cuts the bytes of a record into the pieces
that the stores put and the gets take. `RecordGoes` shows, kind by kind, that
the puts of a record write its chunks, and `RecordComes` that the get of its kind,
with the gets it expands to, takes them and delivers `Values(r)`. `Holds`, `Laid`
and `Marks` say that an array has these chunks one behind the other, and where
each record ends. The inductive invariant `RoundTripInv` is then:

- `WriterOK`: the buffer holds the records written, exactly up to the position
  (`Settled`), or also the chunks of the record under way that have been stored,
  the others being what the queue still writes (`Writing`), or that record has
  failed and everything before it stands, or `clear` has and nothing is in the
  buffer (`Failed`).
- `LinkOK`: the reader's array (`ArrayOK`; `close` leaves its size behind) has
  the message in front of `end`, and a writer that was not cleared only stores
  behind it. Each step of the writer then leaves the message alone (`Spares`),
  also in an array both have; growth leaves the reader with the old one.
- `ReaderOK`: unless the array was reused, nothing has failed, the values read so
  far are the first of the record, and the queue takes the rest of them from the
  chunks at the cursor (`InRecord`). For that it must know that a char's index is
  inside the char buffer (`Fits`), and that `readUTFJNI` meets no buffer longer
  than the strings to come (`Short`), which is where `native_strings` breaks it.
  `NeverShorter` is what gives `Short`: it compares each string with the strings
  before it, those of arrays included, and with the buffer the reader came with.

Theorems: `RoundTripInvariant`, `RecordsReadBack` and `MessagesEndTogether` for
`readUTF`, `NativeStringsReadBack` for `readUTFJNI`, records of all kinds mixed,
and `WriterKeepsRecords`: between calls the buffer holds the records and nothing
else, whatever failed and was taken back.

**Utf8NativeProofs.** `CursorsAgree` is inductive once the cursors are ints. The
work is in `KeptRange`: what a chunk adds to the target is between 0 and the
chunk size because the lanes that do not end a char (`Shift`) are at most the
lanes. `TypeCorrect` adds `CellsOK` and `ControlOK`: what is stored is a char,
which is the arithmetic of one to three bytes (`TwoBytes`, `ThreeBytes`), for the
scalar loops and for the shuffle of the vector loop. `StoresAlwaysInside` is the
action property `StoresStayInside`: the loop's bound on the chars left and the
agreement of the cursors leave room for the whole chunk, in a target whose cells
are numbered from 0 (`Filled`). `NoCharIsSplit` (`SplitsNoChar`, on a well-formed
source) is the deepest: `src_adv` is computed from one bit per lane, and
`BitOfCounts` shows that the bit is set exactly where a char goes on behind the
lane, by cases on the distances between the lead bytes of a chunk
(`ChunkSpaced`); `ChunkFree` and `FreeAfter` turn it into a statement about where
the cursor lands, and `WellFormed` stays because the source does. `Refinement` is
`ImplementsDecoder`. A scalar step is one step of `CharDecoder`; a chunk of the
vector loop is as many as chars start in it, and the proof lines up those chars
with the lanes that are not shifted out. What is left after a number of chars is
a recursive function of that number (`After`); that there is such a function
(`IterationExists`) is proved from well-foundedness, as `Induction` is, with sets
in place of the library's operator parameters. Theorems: `CursorsAlwaysAgree`,
`TypeCorrect`, `StoresAlwaysInside`, `NoCharIsSplit`, `Refinement`.

**CriticalRegionsProofs.** The inductive invariant is `TypeOK /\ HeldByLine /\
RunsAlone /\ PointersFresh /\ Arrived /\ ErrorsAfterCut`. `KeptByCuts` speaks of
threads in Java code only; `HeldByLine` says for every line of the call how many
arrays it has, on top of two for each cut call. `RunsAlone` (the collector runs
only while nobody has any) then makes a thread inside a call and a running
collector exclude each other, which is what keeps its pointers fresh. Theorems:
`TypeCorrect`, `OnlyCutsKeep`, `ErrorsOnlyAfterCut`, and `PinnedCharsArrive` for
a JVM that does not copy; for one that does, `critical_regions_copying` refutes
it.

**NativeLoaderProofs.** The inductive invariant is `TypeOK /\ AloneSound /\
CopyWhole /\ AloneLoads /\ HopeLeft`. `AloneSound` is what an undisturbed
initializer relies on, line by line. `Hope` is why somebody succeeds: while
nothing is broken there is always a JVM whose own file is at the path and which
is about to load it, or one that is about to make that file, or to delete what
is in the way; whoever deletes takes the hope over. Theorems: `TypeCorrect`,
`AloneAlwaysLoads`, `SomeoneAlwaysLoads`.

**NodeSetProofs.** `NoDuplicates` needs `HashKept`: a node that has kept its label
still has the hash it was added under, so that `HashSet` looks in the right
place; `EqualHash` is the contract of `equals` and `hashCode`. Theorems:
`TypeCorrect`, `NoEqualNodes`.

**Only model-checked.** Liveness under fairness (`CallsEnd`, `CallReturns`,
`CollectionHappens`, `CallsComeBack`, `LoadedInTheEnd`), which is out of the
prover's reach. Every invariant and every safety property of a step that a run
shows to hold is also a theorem; what the four runs of section 4 refute has of
course no proof, and where a condition saves it (`NativeReadsBack`, a JVM that
pins arrays) the theorem states the condition.

## 6. Not modelled, and why

- `readObject`, `writeObject`, `getClassLoader`: calls of the serialization
  service, which is not in the repository.
- Floats and doubles as numbers: they are moved as the bytes of ints and longs.
- `GetPrimitiveArrayCritical` returning NULL (216, 219): a JVM that pins arrays
  never does, and one that copies them fails on every call anyway (finding 4).
  The code does not look; what then happens is undefined.
- Two threads on one stream: nothing in the code is written for it.
- The AVX2 and AVX-512 variants (C file, 11-79): they do not compile from this
  source, because `loadVecU`, `addBytes` and the 128-bit instructions of the loop
  exist only for SSE. `VECTOR_ASCII_LOOP` (152-202) is a macro nobody expands.
- `TreeService`, the two cache regions and the test that fails with one library
  version (`TestSupport` 43): the repository has single calls and settings, and
  what they do, in which order and with which region, is decided in Hibernate and
  Hazelcast. A model would be one of our own invention.
- `build.sh`: a line of commands without state of its own.
- `jni.h`, `jni_md.h` and the generated header: of the 2402 lines of C in the
  repository they are 2033, vendored or generated declarations that run nothing.
  The few that the C file relies on (`jchar`, `JNI_ABORT`, the two calls on
  critical arrays) are mapped where a model uses them. Of the C file's own 369
  lines 206 are modelled; the others are the variants and the macro above,
  macros that only name instructions, comments and blank lines. The two streams,
  the loader and the node classes, some 930 lines, are Java.

## 7. Plan

Written: `JavaBits`, `DataOutput`, `ByteLog`, `DataInput`, `RoundTrip`,
`Utf8Native`, `CharDecoder`, `CriticalRegions`, `NativeLoader` and `NodeSet`, with
the proofs above. Dropped: a module for the tree service over its cache regions
and one for the build script, for the reasons in section 6. What could follow:

1. An abstract reader, a cursor over the values of a record, that `DataInput`
   implements on arrays the writer made. `RoundTripProofs` has its content, as an
   invariant of the composition; as a specification it could stand by itself.
2. `CriticalRegions` composed with `RoundTrip`: the -1 of a cut call both keeps
   the arrays and moves the reader's cursor back.
