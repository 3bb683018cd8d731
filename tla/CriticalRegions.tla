--------------------------- MODULE CriticalRegions ---------------------------
(***************************************************************************)
(* Threads that read strings through utf8BytesToArray beside the collector *)
(* of their JVM.  The call asks for the two arrays one after the other,    *)
(* decodes, and gives them back one after the other; the collector, which  *)
(* moves arrays, waits until no thread has any.  A char that the end of    *)
(* the source cuts ends the call between the two, with both arrays kept.   *)
(*                                                                         *)
(* The JVM is external, and is HotSpot with the collectors of its time: a  *)
(* thread that has no array waits for one while a collection is wanted, a  *)
(* thread that has one does not; a thread that has one and finds no memory *)
(* gets an OutOfMemoryError where any other would wait.                    *)
(***************************************************************************)
EXTENDS Integers

CONSTANTS
  Threads,
  Copying,   \* the JVM hands out copies (as HotSpot does under -Xcheck:jni)
  Memory,    \* objects that fit between two collections
  MaxCuts    \* bound on the calls of a thread that are cut short

ASSUME CopyingAssumption == Copying \in BOOLEAN
ASSUME BoundsAssumption == Memory \in Nat \ {0} /\ MaxCuts \in Nat

VARIABLES
  pc,       \* where a thread is, the line it runs next
  held,     \* how many arrays a thread has and has not given back
  pointer,  \* what _src and _dst of its call point to
  stored,   \* where the chars of its call went
  outcome,  \* what became of its last call
  cuts,     \* history: its calls that returned -1
  gc,       \* no collection, one that is wanted, one that runs
  free      \* objects that fit before the next collection

call == << held, pointer, stored, cuts >>
jvm == << gc, free >>
vars == << pc, call, outcome, jvm >>

JNI_ABORT == 2
JavaLine == {"java", "buffer", "string"}
NativeLine == {"target", "loops", "releaseSource", "releaseTarget"}
Place == {"nowhere", "array", "copy", "stale"}
Pointers == [source : Place, target : Place]
NoPointers == [source |-> "nowhere", target |-> "nowhere"]

GoTo(t, line) == pc' = [pc EXCEPT ![t] = line]
JavaRuns == gc # "running"    \* the collector stops Java, not native code

-----------------------------------------------------------------------------
(* The Java side.                                                          *)

\* readUTFJNI or inflateUTFJNI: the char buffer fits, or needs a new array.
Begin(t) ==
  /\ pc[t] = "java" /\ JavaRuns
  /\ \E line \in {"buffer", "source"} : GoTo(t, line)
  /\ outcome' = [outcome EXCEPT ![t] = "none"]
  /\ UNCHANGED << call, jvm >>

\* new char[charCount], new String(charBuffer, 0, charCount)
Allocate(t) ==
  /\ JavaRuns /\ free > 0
  /\ \/ pc[t] = "buffer" /\ GoTo(t, "source")
     \/ pc[t] = "string" /\ GoTo(t, "java")
  /\ free' = free - 1
  /\ UNCHANGED << call, outcome, gc >>

NoMemory(t) == pc[t] \in {"buffer", "string"} /\ JavaRuns /\ free = 0

WantMemory(t) ==
  /\ NoMemory(t) /\ held[t] = 0 /\ gc = "none"
  /\ gc' = "wanted"
  /\ UNCHANGED << pc, call, outcome, free >>

OutOfMemory(t) ==
  /\ NoMemory(t) /\ held[t] > 0
  /\ gc' = "wanted"
  /\ GoTo(t, "java")
  /\ outcome' = [outcome EXCEPT ![t] = "error"]
  /\ UNCHANGED << call, free >>

\* System.gc()
WantCollection(t) ==
  /\ pc[t] = "java" /\ gc = "none"
  /\ gc' = "wanted"
  /\ UNCHANGED << pc, call, outcome, free >>

-----------------------------------------------------------------------------
(* The call.                                                               *)
Handed == IF Copying THEN "copy" ELSE "array"

GetSource(t) ==
  /\ pc[t] = "source" /\ (gc = "none" \/ held[t] > 0)
  /\ held' = [held EXCEPT ![t] = @ + 1]
  /\ pointer' = [pointer EXCEPT ![t].source = Handed]
  /\ stored' = [stored EXCEPT ![t] = "nowhere"]
  /\ GoTo(t, "target")
  /\ UNCHANGED << cuts, outcome, jvm >>

\* Both arrays are given back at once, and the pointers used after it.
GetTargetOnly(t) ==
  /\ pc[t] = "target"
  /\ held' = [held EXCEPT ![t] = @ - 1]
  /\ pointer' = [pointer EXCEPT ![t].target = Handed]
  /\ GoTo(t, "loops")
  /\ UNCHANGED << stored, cuts, outcome, jvm >>

GetTarget(t) ==
  /\ pc[t] = "target"
  /\ held' = [held EXCEPT ![t] = @ + 1]
  /\ pointer' = [pointer EXCEPT ![t].target = Handed]
  /\ GoTo(t, "loops")
  /\ UNCHANGED << stored, cuts, outcome, jvm >>

\* The loops store what they decode at dst; all their stores are one step.
Decode(t) ==
  /\ pc[t] = "loops" /\ stored[t] = "nowhere"
  /\ stored' = [stored EXCEPT ![t] =
                  IF pointer[t].source = "stale" THEN "stale" ELSE pointer[t].target]
  /\ UNCHANGED << pc, held, pointer, cuts, outcome, jvm >>

LoopsSpin(t) ==
  /\ pc[t] = "loops" /\ stored[t] # "nowhere"
  /\ stored' = [stored EXCEPT ![t] = "nowhere"]
  /\ UNCHANGED << pc, held, pointer, cuts, outcome, jvm >>

LoopsSkipRelease(t) ==
  /\ pc[t] = "loops"
  /\ GoTo(t, "releaseTarget")
  /\ UNCHANGED << call, outcome, jvm >>

LoopsEnd(t) ==
  /\ pc[t] = "loops"
  /\ GoTo(t, "releaseSource")
  /\ UNCHANGED << call, outcome, jvm >>

\* What the Java side does next: readUTFJNI makes a string, inflateUTFJNI not.
Return(t, out) ==
  /\ \E line \in {"string", "java"} : GoTo(t, line)
  /\ pointer' = [pointer EXCEPT ![t] = NoPointers]
  /\ outcome' = [outcome EXCEPT ![t] = out]

\* return -1
CutShort(t) ==
  /\ pc[t] = "loops" /\ cuts[t] < MaxCuts
  /\ cuts' = [cuts EXCEPT ![t] = @ + 1]
  /\ Return(t, "cut")
  /\ UNCHANGED << held, stored, jvm >>

ReleaseSourceTwice(t) ==
  /\ pc[t] = "releaseSource"
  /\ held' = [held EXCEPT ![t] = @ - 1]
  /\ GoTo(t, "releaseSource")
  /\ UNCHANGED << pointer, stored, cuts, outcome, jvm >>

ReleaseSource(t) ==
  /\ pc[t] = "releaseSource"
  /\ held' = [held EXCEPT ![t] = @ - 1]
  /\ GoTo(t, "releaseTarget")
  /\ UNCHANGED << pointer, stored, cuts, outcome, jvm >>

\* Whether the chars are in the Java array once it is released with this mode:
\* what was stored in a copy is, unless the mode drops the copy.
InArray(t, mode) ==
  stored[t] \in {"nowhere", "array"} \/ (stored[t] = "copy" /\ mode # JNI_ABORT)

ReleaseTargetMissing(t) ==
  /\ pc[t] = "releaseTarget"
  /\ Return(t, IF InArray(t, JNI_ABORT) THEN "read" ELSE "lost")
  /\ UNCHANGED << held, stored, cuts, jvm >>

ReleaseTarget(t) ==
  /\ pc[t] = "releaseTarget"
  /\ held' = [held EXCEPT ![t] = @ - 1]
  /\ Return(t, IF InArray(t, JNI_ABORT) THEN "read" ELSE "lost")
  /\ UNCHANGED << stored, cuts, jvm >>

-----------------------------------------------------------------------------
(* The collector.                                                          *)
CollectorStarts ==
  /\ gc = "wanted" /\ \A t \in Threads : held[t] = 0
  /\ gc' = "running"
  /\ UNCHANGED << pc, call, outcome, free >>

\* Every array has moved; a pointer to one that was not held is wild.
Moved(place) == IF place = "array" THEN "stale" ELSE place

CollectorEnds ==
  /\ gc = "running"
  /\ gc' = "none" /\ free' = Memory
  /\ pointer' = [t \in Threads |->
                   [source |-> Moved(pointer[t].source), target |-> Moved(pointer[t].target)]]
  /\ UNCHANGED << pc, held, stored, cuts, outcome >>

-----------------------------------------------------------------------------
Init ==
  /\ pc = [t \in Threads |-> "java"]
  /\ held = [t \in Threads |-> 0]
  /\ pointer = [t \in Threads |-> NoPointers]
  /\ stored = [t \in Threads |-> "nowhere"]
  /\ outcome = [t \in Threads |-> "none"]
  /\ cuts = [t \in Threads |-> 0]
  /\ gc = "none" /\ free = Memory

JavaStep(t) ==
  Begin(t) \/ Allocate(t) \/ WantMemory(t) \/ OutOfMemory(t) \/ WantCollection(t)

NativeStep(t) ==
  GetTarget(t) \/ Decode(t) \/ LoopsEnd(t) \/ CutShort(t) \/ ReleaseSource(t) \/ ReleaseTarget(t)

Collector == CollectorStarts \/ CollectorEnds

Next == Collector \/ \E t \in Threads : JavaStep(t) \/ GetSource(t) \/ NativeStep(t)

\* A call that has its first array runs on, and the JVM collects when it can.
\* Nothing is assumed of Java code, nor of which waiting thread goes first.
Fairness == WF_vars(Collector) /\ \A t \in Threads : WF_vars(NativeStep(t))

Spec == Init /\ [][Next]_vars /\ Fairness

-----------------------------------------------------------------------------
(* Properties.                                                             *)

TypeOK ==
  /\ pc \in [Threads -> JavaLine \cup {"source"} \cup NativeLine]
  /\ held \in [Threads -> Nat] /\ cuts \in [Threads -> Nat]
  /\ pointer \in [Threads -> Pointers] /\ stored \in [Threads -> Place]
  /\ outcome \in [Threads -> {"none", "read", "lost", "cut", "error"}]
  /\ gc \in {"none", "wanted", "running"} /\ free \in 0..Memory

\* A thread that is back in Java code still has the two arrays of every call
\* that was cut short, however the calls nested, and none of any other.
KeptByCuts == \A t \in Threads : pc[t] \in JavaLine => held[t] = 2 * cuts[t]

\* UTF8Util.java:15: a call that is not cut short "unpacks bytes from a byte
\* buffer to a char array": no char goes to an array that the collector has
\* moved meanwhile, or to a copy that is thrown away.
CharsArrive == \A t \in Threads : outcome[t] # "lost"

\* A thread is refused memory that a collection would free only if one of its
\* own calls was cut short.
ErrorsAfterCut == \A t \in Threads : outcome[t] = "error" => cuts[t] > 0

\* A collection that is wanted ends, however many calls are under way and more
\* try to begin, unless a call is cut short.
CollectionHappens ==
  gc = "wanted" ~> (gc = "none" \/ \E t \in Threads : cuts[t] > 0)

\* A call that has its first array comes back, whether or not the collector or
\* other threads are waiting: it waits for nobody in between.
CallsComeBack ==
  \A t \in Threads : pc[t] \in NativeLine ~> pc[t] \in JavaLine

=============================================================================
