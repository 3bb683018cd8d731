------------------------ MODULE CriticalRegionsProofs ------------------------
(***************************************************************************)
(* Proofs about CriticalRegions, for any set of threads, any amount of     *)
(* memory and any number of calls that are cut short.                      *)
(***************************************************************************)
EXTENDS CriticalRegions, TLAPS

\* What a thread has, line by line: the arrays of the calls that were cut short
\* and those its present call has asked for and not given back.
InCall(line) ==
  CASE line \in {"loops", "releaseSource"} -> 2
    [] line \in {"target", "releaseTarget"} -> 1
    [] OTHER -> 0
HeldByLine == \A t \in Threads : held[t] = 2 * cuts[t] + InCall(pc[t])

RunsAlone == gc = "running" => \A t \in Threads : held[t] = 0

\* The pointers of a call that has its arrays point into them, and what it has
\* stored went there.
Fresh(t) ==
  /\ pc[t] \in NativeLine => pointer[t].source = "array" /\ stored[t] \in {"nowhere", "array"}
  /\ pc[t] \in NativeLine \ {"target"} => pointer[t].target = "array"
PointersFresh == ~Copying => \A t \in Threads : Fresh(t)
Arrived == ~Copying => CharsArrive

IInv == TypeOK /\ HeldByLine /\ RunsAlone /\ PointersFresh /\ Arrived /\ ErrorsAfterCut

-----------------------------------------------------------------------------
LEMMA InCallValues ==
  /\ \A line \in JavaLine \cup {"source"} : InCall(line) = 0
  /\ InCall("target") = 1 /\ InCall("releaseTarget") = 1
  /\ InCall("loops") = 2 /\ InCall("releaseSource") = 2
  /\ \A line : InCall(line) \in Nat
BY SMT DEF InCall, JavaLine

LEMMA InitInvariant == ASSUME Init PROVE IInv
<1>1. TypeOK
  BY BoundsAssumption
  DEF Init, TypeOK, JavaLine, NativeLine, Pointers, NoPointers, Place
<1>2. HeldByLine
  <2> SUFFICES ASSUME NEW t \in Threads PROVE held[t] = 2 * cuts[t] + InCall(pc[t])
    BY DEF HeldByLine
  <2>1. pc[t] = "java" /\ held[t] = 0 /\ cuts[t] = 0 BY DEF Init
  <2>2. InCall(pc[t]) = 0 BY <2>1, InCallValues DEF JavaLine
  <2> QED BY <2>1, <2>2
<1>3. RunsAlone BY DEF Init, RunsAlone
<1>4. PointersFresh BY DEF Init, PointersFresh, Fresh, NativeLine
<1>5. Arrived /\ ErrorsAfterCut BY DEF Init, Arrived, CharsArrive, ErrorsAfterCut
<1> QED BY <1>1, <1>2, <1>3, <1>4, <1>5 DEF IInv

-----------------------------------------------------------------------------
(* One lemma for each conjunct.                                            *)
LEMMA TypeStep == ASSUME TypeOK, HeldByLine, [Next]_vars PROVE TypeOK'
<1> USE BoundsAssumption DEF TypeOK, JavaLine, NativeLine, Pointers, NoPointers, Place, GoTo,
        call, jvm, Return
<1>1. ASSUME NEW t \in Threads, Begin(t) PROVE TypeOK' BY <1>1 DEF Begin
<1>2. ASSUME NEW t \in Threads, Allocate(t) PROVE TypeOK' BY <1>2 DEF Allocate
<1>3. ASSUME NEW t \in Threads, WantMemory(t) PROVE TypeOK' BY <1>3 DEF WantMemory
<1>4. ASSUME NEW t \in Threads, OutOfMemory(t) PROVE TypeOK' BY <1>4 DEF OutOfMemory
<1>5. ASSUME NEW t \in Threads, WantCollection(t) PROVE TypeOK' BY <1>5 DEF WantCollection
<1>6. ASSUME NEW t \in Threads, GetSource(t) PROVE TypeOK' BY <1>6 DEF GetSource, Handed
<1>7. ASSUME NEW t \in Threads, GetTarget(t) PROVE TypeOK' BY <1>7 DEF GetTarget, Handed
<1>8. ASSUME NEW t \in Threads, Decode(t) PROVE TypeOK' BY <1>8 DEF Decode
<1>9. ASSUME NEW t \in Threads, LoopsEnd(t) PROVE TypeOK' BY <1>9 DEF LoopsEnd
<1>10. ASSUME NEW t \in Threads, CutShort(t) PROVE TypeOK' BY <1>10 DEF CutShort
<1>11. ASSUME NEW t \in Threads, ReleaseSource(t) PROVE TypeOK'
  <2>1. held[t] - 1 \in Nat BY <1>11, InCallValues DEF ReleaseSource, HeldByLine
  <2> QED BY <1>11, <2>1 DEF ReleaseSource
<1>12. ASSUME NEW t \in Threads, ReleaseTarget(t) PROVE TypeOK'
  <2>1. held[t] - 1 \in Nat BY <1>12, InCallValues DEF ReleaseTarget, HeldByLine
  <2> QED BY <1>12, <2>1 DEF ReleaseTarget
<1>13. CASE CollectorStarts BY <1>13 DEF CollectorStarts
<1>14. CASE CollectorEnds BY <1>14 DEF CollectorEnds, Moved
<1>15. CASE UNCHANGED vars BY <1>15 DEF vars
<1> QED
  BY <1>1, <1>2, <1>3, <1>4, <1>5, <1>6, <1>7, <1>8, <1>9, <1>10, <1>11, <1>12, <1>13, <1>14, <1>15
  DEF Next, JavaStep, NativeStep, Collector

\* A thread that gives an array back has one; so has one that is in the loops.
LEMMA HeldInside ==
  ASSUME TypeOK, HeldByLine, NEW t \in Threads, pc[t] \in NativeLine
  PROVE  held[t] > 0
BY InCallValues DEF HeldByLine, TypeOK, NativeLine

LEMMA HeldStep == ASSUME TypeOK, HeldByLine, [Next]_vars PROVE HeldByLine'
<1> USE InCallValues DEF HeldByLine, TypeOK, GoTo, JavaLine
<1>1. ASSUME NEW t \in Threads, Begin(t) PROVE HeldByLine' BY <1>1 DEF Begin, call
<1>2. ASSUME NEW t \in Threads, Allocate(t) PROVE HeldByLine' BY <1>2 DEF Allocate, call
<1>3. ASSUME NEW t \in Threads, WantMemory(t) \/ WantCollection(t) PROVE HeldByLine'
  BY <1>3 DEF WantMemory, WantCollection, call
<1>4. ASSUME NEW t \in Threads, OutOfMemory(t) PROVE HeldByLine'
  BY <1>4 DEF OutOfMemory, NoMemory, call
<1>5. ASSUME NEW t \in Threads, GetSource(t) PROVE HeldByLine' BY <1>5 DEF GetSource
<1>6. ASSUME NEW t \in Threads, GetTarget(t) PROVE HeldByLine' BY <1>6 DEF GetTarget
<1>7. ASSUME NEW t \in Threads, Decode(t) PROVE HeldByLine' BY <1>7 DEF Decode
<1>8. ASSUME NEW t \in Threads, LoopsEnd(t) PROVE HeldByLine' BY <1>8 DEF LoopsEnd, call
<1>9. ASSUME NEW t \in Threads, CutShort(t) PROVE HeldByLine' BY <1>9 DEF CutShort, Return
<1>10. ASSUME NEW t \in Threads, ReleaseSource(t) PROVE HeldByLine' BY <1>10 DEF ReleaseSource
<1>11. ASSUME NEW t \in Threads, ReleaseTarget(t) PROVE HeldByLine'
  BY <1>11 DEF ReleaseTarget, Return
<1>12. CASE Collector BY <1>12 DEF Collector, CollectorStarts, CollectorEnds, call
<1>13. CASE UNCHANGED vars BY <1>13 DEF vars, call
<1> QED
  BY <1>1, <1>2, <1>3, <1>4, <1>5, <1>6, <1>7, <1>8, <1>9, <1>10, <1>11, <1>12, <1>13
  DEF Next, JavaStep, NativeStep

\* While the collector runs nobody can get an array: a thread without one waits,
\* and nobody has one.
LEMMA RunsAloneStep ==
  ASSUME TypeOK, HeldByLine, RunsAlone, [Next]_vars PROVE RunsAlone'
<1> USE DEF RunsAlone, TypeOK
<1>1. ASSUME NEW t \in Threads, JavaStep(t) PROVE RunsAlone'
  BY <1>1 DEF JavaStep, Begin, Allocate, WantMemory, OutOfMemory, WantCollection, call, jvm
<1>2. ASSUME NEW t \in Threads, GetSource(t) PROVE RunsAlone' BY <1>2 DEF GetSource, jvm
<1>3. ASSUME NEW t \in Threads, NativeStep(t) PROVE RunsAlone'
  <2>1. pc[t] \in NativeLine /\ gc' = gc
    BY <1>3 DEF NativeStep, GetTarget, Decode, LoopsEnd, CutShort, ReleaseSource, ReleaseTarget,
                jvm, NativeLine
  <2>2. held[t] > 0 BY <2>1, HeldInside
  <2>3. gc # "running" BY <2>2
  <2> QED BY <2>1, <2>3
<1>4. CASE CollectorStarts BY <1>4 DEF CollectorStarts, call
<1>5. CASE CollectorEnds BY <1>5 DEF CollectorEnds
<1>6. CASE UNCHANGED vars BY <1>6 DEF vars, call, jvm
<1> QED BY <1>1, <1>2, <1>3, <1>4, <1>5, <1>6 DEF Next, Collector

LEMMA FreshStep ==
  ASSUME TypeOK, HeldByLine, RunsAlone, PointersFresh, [Next]_vars PROVE PointersFresh'
<1> SUFFICES ASSUME ~Copying PROVE \A u \in Threads : Fresh(u)'
  BY DEF PointersFresh
<1> USE DEF TypeOK, Fresh, JavaLine, NativeLine, GoTo, call, Pointers
<1>0. \A u \in Threads : Fresh(u) BY DEF PointersFresh
<1>1. ASSUME NEW t \in Threads, JavaStep(t) PROVE \A u \in Threads : Fresh(u)'
  BY <1>0, <1>1 DEF JavaStep, Begin, Allocate, NoMemory, WantMemory, OutOfMemory, WantCollection
<1>2. ASSUME NEW t \in Threads, GetSource(t) PROVE \A u \in Threads : Fresh(u)'
  BY <1>0, <1>2 DEF GetSource, Handed
<1>3. ASSUME NEW t \in Threads, GetTarget(t) PROVE \A u \in Threads : Fresh(u)'
  BY <1>0, <1>3 DEF GetTarget, Handed
<1>4. ASSUME NEW t \in Threads, Decode(t) PROVE \A u \in Threads : Fresh(u)'
  BY <1>0, <1>4 DEF Decode
<1>5. ASSUME NEW t \in Threads, LoopsEnd(t) \/ ReleaseSource(t) PROVE \A u \in Threads : Fresh(u)'
  BY <1>0, <1>5 DEF LoopsEnd, ReleaseSource
<1>6. ASSUME NEW t \in Threads, CutShort(t) \/ ReleaseTarget(t) PROVE \A u \in Threads : Fresh(u)'
  BY <1>0, <1>6 DEF CutShort, ReleaseTarget, Return
<1>7. CASE CollectorStarts BY <1>0, <1>7 DEF CollectorStarts
<1>8. CASE CollectorEnds
  <2>1. \A u \in Threads : pc[u] \notin NativeLine BY <1>8, HeldInside DEF CollectorEnds, RunsAlone
  <2> QED BY <1>8, <2>1 DEF CollectorEnds
<1>9. CASE UNCHANGED vars BY <1>0, <1>9 DEF vars
<1> QED BY <1>1, <1>2, <1>3, <1>4, <1>5, <1>6, <1>7, <1>8, <1>9 DEF Next, NativeStep, Collector

\* Only the last release decides whether the chars are in the array.
LEMMA ArrivedStep ==
  ASSUME TypeOK, PointersFresh, Arrived, [Next]_vars PROVE Arrived'
<1> SUFFICES ASSUME ~Copying PROVE CharsArrive'
  BY DEF Arrived
<1> USE DEF TypeOK, CharsArrive
<1>0. CharsArrive BY DEF Arrived
<1>1. ASSUME NEW t \in Threads, JavaStep(t) PROVE CharsArrive'
  BY <1>0, <1>1 DEF JavaStep, Begin, Allocate, WantMemory, OutOfMemory, WantCollection
<1>2. ASSUME NEW t \in Threads, GetSource(t) \/ GetTarget(t) \/ Decode(t) PROVE CharsArrive'
  BY <1>0, <1>2 DEF GetSource, GetTarget, Decode
<1>3. ASSUME NEW t \in Threads, LoopsEnd(t) \/ ReleaseSource(t) PROVE CharsArrive'
  BY <1>0, <1>3 DEF LoopsEnd, ReleaseSource
<1>4. ASSUME NEW t \in Threads, CutShort(t) PROVE CharsArrive'
  BY <1>0, <1>4 DEF CutShort, Return
<1>5. ASSUME NEW t \in Threads, ReleaseTarget(t) PROVE CharsArrive'
  <2>1. stored[t] \in {"nowhere", "array"}
    BY <1>5 DEF PointersFresh, Fresh, ReleaseTarget, NativeLine
  <2>2. InArray(t, JNI_ABORT) BY <2>1 DEF InArray
  <2> QED BY <1>0, <1>5, <2>2 DEF ReleaseTarget, Return
<1>6. CASE Collector BY <1>0, <1>6 DEF Collector, CollectorStarts, CollectorEnds
<1>7. CASE UNCHANGED vars BY <1>0, <1>7 DEF vars
<1> QED BY <1>1, <1>2, <1>3, <1>4, <1>5, <1>6, <1>7 DEF Next, NativeStep

LEMMA ErrorsStep ==
  ASSUME TypeOK, HeldByLine, ErrorsAfterCut, [Next]_vars PROVE ErrorsAfterCut'
<1> USE DEF TypeOK, ErrorsAfterCut, call
<1>1. ASSUME NEW t \in Threads, OutOfMemory(t) PROVE ErrorsAfterCut'
  <2>1. pc[t] \in JavaLine /\ held[t] > 0 BY <1>1 DEF OutOfMemory, NoMemory, JavaLine
  <2>2. held[t] = 2 * cuts[t] BY <2>1, InCallValues DEF HeldByLine
  <2>3. cuts[t] > 0 BY <2>1, <2>2
  <2> QED BY <1>1, <2>3 DEF OutOfMemory
<1>2. ASSUME NEW t \in Threads, Begin(t) \/ Allocate(t) \/ WantMemory(t) \/ WantCollection(t)
      PROVE  ErrorsAfterCut'
  BY <1>2 DEF Begin, Allocate, WantMemory, WantCollection
<1>3. ASSUME NEW t \in Threads, GetSource(t) \/ GetTarget(t) \/ Decode(t) PROVE ErrorsAfterCut'
  BY <1>3 DEF GetSource, GetTarget, Decode
<1>4. ASSUME NEW t \in Threads, LoopsEnd(t) \/ ReleaseSource(t) PROVE ErrorsAfterCut'
  BY <1>4 DEF LoopsEnd, ReleaseSource
<1>5. ASSUME NEW t \in Threads, CutShort(t) \/ ReleaseTarget(t) PROVE ErrorsAfterCut'
  BY <1>5 DEF CutShort, ReleaseTarget, Return
<1>6. CASE Collector BY <1>6 DEF Collector, CollectorStarts, CollectorEnds
<1>7. CASE UNCHANGED vars BY <1>7 DEF vars
<1> QED BY <1>1, <1>2, <1>3, <1>4, <1>5, <1>6, <1>7 DEF Next, JavaStep, NativeStep

-----------------------------------------------------------------------------
LEMMA StepInvariant == ASSUME IInv, [Next]_vars PROVE IInv'
BY TypeStep, HeldStep, RunsAloneStep, FreshStep, ArrivedStep, ErrorsStep DEF IInv

LEMMA AlwaysIInv == Spec => []IInv
<1>1. Init => IInv BY InitInvariant
<1>2. IInv /\ [Next]_vars => IInv' BY StepInvariant
<1> QED BY <1>1, <1>2, PTL DEF Spec

\* Every variable keeps its type; in particular no thread gives back more arrays
\* than it has.
THEOREM TypeCorrect == Spec => []TypeOK
<1>1. IInv => TypeOK BY DEF IInv
<1> QED BY <1>1, AlwaysIInv, PTL

\* What a thread keeps in Java code is two arrays for each call that was cut
\* short: the normal path gives back both, the return -1 none.
THEOREM OnlyCutsKeep == Spec => []KeptByCuts
<1>1. IInv => KeptByCuts BY InCallValues DEF IInv, TypeOK, HeldByLine, KeptByCuts
<1> QED BY <1>1, AlwaysIInv, PTL

\* On a JVM that pins arrays no call that ends normally loses its chars, however
\* the collector and other calls interleave with it.
THEOREM PinnedCharsArrive == ASSUME ~Copying PROVE Spec => []CharsArrive
<1>1. IInv => CharsArrive BY DEF IInv, Arrived
<1> QED BY <1>1, AlwaysIInv, PTL

\* Nobody is refused memory for the calls of another thread.
THEOREM ErrorsOnlyAfterCut == Spec => []ErrorsAfterCut
<1>1. IInv => ErrorsAfterCut BY DEF IInv
<1> QED BY <1>1, AlwaysIInv, PTL

=============================================================================
