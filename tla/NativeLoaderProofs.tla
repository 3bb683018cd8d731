-------------------------- MODULE NativeLoaderProofs --------------------------
(***************************************************************************)
(* Proofs about NativeLoader, for any set of JVMs and any library size.    *)
(***************************************************************************)
EXTENDS NativeLoader, TLAPS

\* What an initializer that nobody has disturbed relies on, line by line.
Undisturbed(p) ==
  /\ \A q \in JVMs \ {p} : ~Running(q)
  /\ pc[p] = "copy" => path = None
  /\ pc[p] \in {"write", "load"} => path = p
AloneSound == \A p \in JVMs : Running(p) /\ p \notin met => Undisturbed(p)

\* A copy is loaded only once it is whole.
CopyWhole == \A p \in JVMs : pc[p] = "load" => written[p] = Size

\* While nothing is broken, somebody is on the way to load its own file: the one
\* whose file is at the path, or whoever is about to make it, or to delete
\* what is there; or somebody has.
Hope ==
  \/ \A p \in JVMs : pc[p] = "new"
  \/ \E p \in JVMs : loaded[p] = p /\ pc[p] = "loaded"
  \/ \E p \in JVMs : path = p /\ pc[p] \in {"write", "load"}
  \/ path = None /\ \E p \in JVMs : pc[p] = "copy"
  \/ \E p \in JVMs : pc[p] = "delete"
HopeLeft == broken = {} => Hope

IInv == TypeOK /\ AloneSound /\ CopyWhole /\ AloneLoads /\ HopeLeft

-----------------------------------------------------------------------------
LEMMA InitInvariant == ASSUME Init PROVE IInv
<1>1. TypeOK BY SizeAssumption DEF Init, TypeOK, Line, Files
<1>2. AloneSound /\ CopyWhole /\ AloneLoads
  BY DEF Init, AloneSound, Running, CopyWhole, AloneLoads
<1>3. HopeLeft BY DEF Init, HopeLeft, Hope
<1> QED BY <1>1, <1>2, <1>3 DEF IInv

LEMMA TypeStep == ASSUME TypeOK, [Next]_vars PROVE TypeOK'
<1> USE SizeAssumption DEF TypeOK, Line, Files, GoTo, Load, Break, history
<1>1. ASSUME NEW p \in JVMs, LoadInPlace(p) \/ LoadInPlaceFails(p) \/ NoResource(p)
      PROVE  TypeOK'
  BY <1>1 DEF LoadInPlace, LoadInPlaceFails, NoResource
<1>2. ASSUME NEW p \in JVMs, Start(p) PROVE TypeOK' BY <1>2 DEF Start
<1>3. ASSUME NEW p \in JVMs, Delete(p) \/ Create(p) \/ AlreadyExists(p) PROVE TypeOK'
  BY <1>3 DEF Delete, Create, AlreadyExists
<1>4. ASSUME NEW p \in JVMs, Write(p) \/ Copied(p) PROVE TypeOK' BY <1>4 DEF Write, Copied
<1>5. ASSUME NEW p \in JVMs, LoadCopy(p) \/ LoadFails(p) PROVE TypeOK'
  BY <1>5 DEF LoadCopy, LoadFails, Complete
<1>6. ASSUME NEW p \in JVMs, IOError(p) \/ Kill(p) PROVE TypeOK' BY <1>6 DEF IOError, Kill
<1>7. CASE UNCHANGED vars BY <1>7 DEF vars
<1> QED BY <1>1, <1>2, <1>3, <1>4, <1>5, <1>6, <1>7 DEF Next, Step

LEMMA WholeStep == ASSUME TypeOK, CopyWhole, [Next]_vars PROVE CopyWhole'
<1> USE DEF TypeOK, CopyWhole, GoTo, Load, Break, history
<1>1. ASSUME NEW p \in JVMs, LoadInPlace(p) \/ LoadInPlaceFails(p) \/ NoResource(p) \/ Start(p)
      PROVE  CopyWhole'
  BY <1>1 DEF LoadInPlace, LoadInPlaceFails, NoResource, Start
<1>2. ASSUME NEW p \in JVMs, Delete(p) \/ Create(p) \/ AlreadyExists(p) PROVE CopyWhole'
  BY <1>2 DEF Delete, Create, AlreadyExists
<1>3. ASSUME NEW p \in JVMs, Write(p) \/ Copied(p) PROVE CopyWhole' BY <1>3 DEF Write, Copied
<1>4. ASSUME NEW p \in JVMs, LoadCopy(p) \/ LoadFails(p) PROVE CopyWhole'
  BY <1>4 DEF LoadCopy, LoadFails
<1>5. ASSUME NEW p \in JVMs, IOError(p) \/ Kill(p) PROVE CopyWhole' BY <1>5 DEF IOError, Kill
<1>6. CASE UNCHANGED vars BY <1>6 DEF vars
<1> QED BY <1>1, <1>2, <1>3, <1>4, <1>5, <1>6 DEF Next, Step

\* The step of another JVM cannot disturb one that runs alone: it is a first
\* step, and one that starts to touch the file makes the two meet.
LEMMA AloneSoundStep == ASSUME TypeOK, AloneSound, [Next]_vars PROVE AloneSound'
<1> USE NamesAssumption DEF TypeOK, AloneSound, Undisturbed, Running, GoTo, Load, Break, history
<1>1. ASSUME NEW p \in JVMs, LoadInPlace(p) \/ LoadInPlaceFails(p) \/ NoResource(p)
      PROVE  AloneSound'
  BY <1>1 DEF LoadInPlace, LoadInPlaceFails, NoResource
<1>2. ASSUME NEW p \in JVMs, Start(p) PROVE AloneSound' BY <1>2 DEF Start
<1>3. ASSUME NEW p \in JVMs, Delete(p) PROVE AloneSound' BY <1>3 DEF Delete
<1>4. ASSUME NEW p \in JVMs, Create(p) PROVE AloneSound' BY <1>4 DEF Create
<1>5. ASSUME NEW p \in JVMs, AlreadyExists(p) \/ Write(p) \/ Copied(p) PROVE AloneSound'
  BY <1>5 DEF AlreadyExists, Write, Copied
<1>6. ASSUME NEW p \in JVMs, LoadCopy(p) \/ LoadFails(p) PROVE AloneSound'
  BY <1>6 DEF LoadCopy, LoadFails
<1>7. ASSUME NEW p \in JVMs, IOError(p) \/ Kill(p) PROVE AloneSound' BY <1>7 DEF IOError, Kill
<1>8. CASE UNCHANGED vars BY <1>8 DEF vars
<1> QED BY <1>1, <1>2, <1>3, <1>4, <1>5, <1>6, <1>7, <1>8 DEF Next, Step

LEMMA AloneLoadsStep ==
  ASSUME TypeOK, AloneSound, CopyWhole, AloneLoads, [Next]_vars PROVE AloneLoads'
<1> USE DEF TypeOK, AloneLoads, GoTo, Load, Break, history
<1>1. ASSUME NEW p \in JVMs, LoadInPlace(p) \/ LoadInPlaceFails(p) \/ NoResource(p) \/ Start(p)
      PROVE  AloneLoads'
  BY <1>1 DEF LoadInPlace, LoadInPlaceFails, NoResource, Start
<1>2. ASSUME NEW p \in JVMs, Delete(p) \/ Create(p) \/ Write(p) \/ Copied(p) PROVE AloneLoads'
  BY <1>2 DEF Delete, Create, Write, Copied
<1>3. ASSUME NEW p \in JVMs, AlreadyExists(p) PROVE AloneLoads'
  <2>1. p \in met BY <1>3 DEF AlreadyExists, AloneSound, Undisturbed, Running
  <2> QED BY <1>3, <2>1 DEF AlreadyExists
<1>4. ASSUME NEW p \in JVMs, LoadCopy(p) PROVE AloneLoads'
  <2>1. p \in met \/ path = p BY <1>4 DEF LoadCopy, AloneSound, Undisturbed, Running
  <2> QED BY <1>4, <2>1 DEF LoadCopy
<1>5. ASSUME NEW p \in JVMs, LoadFails(p) PROVE AloneLoads'
  <2>1. p \in met \/ path = p BY <1>5 DEF LoadFails, AloneSound, Undisturbed, Running
  <2>2. path # p BY <1>5 DEF LoadFails, Complete, CopyWhole
  <2> QED BY <1>5, <2>1, <2>2 DEF LoadFails
<1>6. ASSUME NEW p \in JVMs, IOError(p) \/ Kill(p) PROVE AloneLoads' BY <1>6 DEF IOError, Kill
<1>7. CASE UNCHANGED vars BY <1>7 DEF vars
<1> QED BY <1>1, <1>2, <1>3, <1>4, <1>5, <1>6, <1>7 DEF Next, Step

\* A JVM that gives up leaves the hope to another: a file that is in its way
\* at the path is another one's, and so is one that is missing or not whole.
LEMMA HopeStep == ASSUME TypeOK, CopyWhole, HopeLeft, [Next]_vars PROVE HopeLeft'
<1> SUFFICES ASSUME broken' = {} PROVE Hope' BY DEF HopeLeft
<1> USE NamesAssumption DEF TypeOK, Hope, GoTo, Load, history
<1>0. broken = {} => Hope BY DEF HopeLeft
<1>1. ASSUME NEW p \in JVMs, LoadInPlace(p) PROVE Hope' BY <1>1 DEF LoadInPlace
<1>2. ASSUME NEW p \in JVMs, Start(p) PROVE Hope' BY <1>2 DEF Start
<1>3. ASSUME NEW p \in JVMs, Delete(p) PROVE Hope' BY <1>3 DEF Delete
<1>4. ASSUME NEW p \in JVMs, Create(p) PROVE Hope' BY <1>4 DEF Create
<1>5. ASSUME NEW p \in JVMs, AlreadyExists(p) PROVE Hope' BY <1>0, <1>5 DEF AlreadyExists
<1>6. ASSUME NEW p \in JVMs, Write(p) \/ Copied(p) PROVE Hope' BY <1>0, <1>6 DEF Write, Copied
<1>7. ASSUME NEW p \in JVMs, LoadCopy(p) PROVE Hope' BY <1>0, <1>7 DEF LoadCopy
<1>8. ASSUME NEW p \in JVMs, LoadFails(p) PROVE Hope'
  <2>1. path # p BY <1>8 DEF LoadFails, Complete, CopyWhole
  <2> QED BY <1>0, <1>8, <2>1 DEF LoadFails
<1>9. ASSUME NEW p \in JVMs, LoadInPlaceFails(p) \/ NoResource(p) \/ IOError(p) \/ Kill(p)
      PROVE  FALSE
  BY <1>9 DEF LoadInPlaceFails, NoResource, IOError, Kill, Break
<1>10. CASE UNCHANGED vars BY <1>0, <1>10 DEF vars
<1> QED
  BY <1>1, <1>2, <1>3, <1>4, <1>5, <1>6, <1>7, <1>8, <1>9, <1>10 DEF Next, Step

-----------------------------------------------------------------------------
LEMMA StepInvariant == ASSUME IInv, [Next]_vars PROVE IInv'
BY TypeStep, WholeStep, AloneSoundStep, AloneLoadsStep, HopeStep DEF IInv

LEMMA AlwaysIInv == Spec => []IInv
<1>1. Init => IInv BY InitInvariant
<1>2. IInv /\ [Next]_vars => IInv' BY StepInvariant
<1> QED BY <1>1, <1>2, PTL DEF Spec

\* Every variable keeps its type.
THEOREM TypeCorrect == Spec => []TypeOK
<1>1. IInv => TypeOK BY DEF IInv
<1> QED BY <1>1, AlwaysIInv, PTL

\* One initializer that runs alone loads its own library, after any crashes.
THEOREM AloneAlwaysLoads == Spec => []AloneLoads
<1>1. IInv => AloneLoads BY DEF IInv
<1> QED BY <1>1, AlwaysIInv, PTL

\* Any number of initializers, interleaved in any way, do not all fail.
THEOREM SomeoneAlwaysLoads == Spec => []SomeoneLoads
<1>1. IInv => SomeoneLoads BY DEF IInv, HopeLeft, Hope, SomeoneLoads, Running
<1> QED BY <1>1, AlwaysIInv, PTL

=============================================================================
