---------------------------- MODULE NodeSetProofs ----------------------------
(***************************************************************************)
(* Proofs about NodeSet, for any nodes, trees, labels and string hash.     *)
(***************************************************************************)
EXTENDS NodeSet, TLAPS

\* A node that has kept its label still has the hash it was added under.
HashKept ==
  \A s \in Sets : \A e \in entries[s] : e \in stale[s] \/ e.hash = Hash(e.node)

IInv == TypeOK /\ HashKept /\ NoDuplicates

-----------------------------------------------------------------------------
LEMMA HashIsInt == ASSUME TypeOK, NEW n \in Nodes PROVE Hash(n) \in Int
BY LabelAssumption DEF TypeOK, Hash

\* The hash is one of the label: equals implies the same hash.
LEMMA EqualHash ==
  ASSUME NEW m \in Nodes, NEW n \in Nodes, Equal(m, n) PROVE Hash(m) = Hash(n)
BY DEF Equal, Hash

LEMMA InitInvariant == ASSUME Init PROVE IInv
BY DEF Init, IInv, TypeOK, HashKept, NoDuplicates, Sets

LEMMA AddInvariant ==
  ASSUME IInv, NEW t \in Trees, NEW n \in Nodes, Add(t, n) PROVE IInv'
<1> DEFINE s == nodes[t]
           new == [node |-> n, hash |-> Hash(n)]
<1>1. /\ s \in Sets /\ Matches(s, n) = {}
      /\ entries' = [entries EXCEPT ![s] = @ \cup {new}]
      /\ label' = label /\ nodes' = nodes /\ stale' = stale
  BY DEF IInv, TypeOK, Add
<1>2. new \in Entry /\ new.node = n /\ new.hash = Hash(n) BY HashIsInt DEF IInv, Entry
<1> HIDE DEF s, new
<1>3. TypeOK' BY <1>1, <1>2 DEF IInv, TypeOK
<1>4. \A m : Hash(m)' = Hash(m) BY <1>1 DEF Hash
<1>5. \A r \in Sets : \A e \in entries'[r] : e \in entries[r] \/ (r = s /\ e = new)
  BY <1>1 DEF IInv, TypeOK
<1>6. HashKept'
  <2> SUFFICES ASSUME NEW r \in Sets, NEW e \in entries'[r]
               PROVE  e \in stale[r] \/ e.hash = Hash(e.node)
    BY <1>1, <1>4 DEF HashKept
  <2> QED BY <1>2, <1>5 DEF IInv, HashKept
<1>7. ASSUME NEW f \in entries[s], label[f.node] = label[n] PROVE f \in stale[s]
  <2>1. f \in Entry /\ f.node \in Nodes BY <1>1 DEF IInv, TypeOK, Entry
  <2>2. Equal(f.node, n) BY <1>7 DEF Equal
  <2>3. Hash(f.node) = Hash(n) BY <2>1, <2>2, EqualHash
  <2>4. f.hash # Hash(n) BY <1>1, <2>2 DEF Matches
  <2> QED BY <1>1, <2>3, <2>4 DEF IInv, HashKept
<1>8. NoDuplicates'
  <2> SUFFICES ASSUME NEW r \in Sets, NEW e \in entries'[r], NEW f \in entries'[r],
                      e # f, label[e.node] = label[f.node]
               PROVE  e \in stale[r] \/ f \in stale[r]
    BY <1>1 DEF NoDuplicates
  <2>1. CASE e \in entries[r] /\ f \in entries[r] BY <2>1 DEF IInv, NoDuplicates
  <2>2. CASE r = s /\ e = new /\ f \in entries[r] BY <1>2, <1>7, <2>2
  <2>3. CASE r = s /\ f = new /\ e \in entries[r] BY <1>2, <1>7, <2>3
  <2> QED BY <1>5, <2>1, <2>2, <2>3
<1> QED BY <1>3, <1>6, <1>8 DEF IInv

LEMMA RemoveInvariant ==
  ASSUME IInv, NEW t \in Trees, NEW n \in Nodes, Remove(t, n) PROVE IInv'
<1>1. nodes[t] \in Sets BY DEF IInv, TypeOK, Remove
<1>2. PICK e \in Matches(nodes[t], n) :
        /\ entries' = [entries EXCEPT ![nodes[t]] = @ \ {e}]
        /\ stale' = [stale EXCEPT ![nodes[t]] = @ \ {e}]
  BY DEF Remove
<1>3. label' = label /\ nodes' = nodes BY DEF Remove
<1>4. TypeOK' BY <1>1, <1>2, <1>3 DEF IInv, TypeOK
<1>5. \A r \in Sets : \A f \in entries'[r] :
        f \in entries[r] /\ (f \in stale[r] => f \in stale'[r])
  BY <1>1, <1>2 DEF IInv, TypeOK
<1>6. \A m : Hash(m)' = Hash(m) BY <1>3 DEF Hash
<1>7. HashKept' BY <1>5, <1>6 DEF IInv, HashKept
<1>8. NoDuplicates' BY <1>3, <1>5 DEF IInv, NoDuplicates
<1> QED BY <1>4, <1>7, <1>8 DEF IInv

LEMMA SetLabelInvariant ==
  ASSUME IInv, NEW n \in Nodes, NEW l \in Labels \cup {Null}, SetLabel(n, l) PROVE IInv'
<1>1. /\ label' = [label EXCEPT ![n] = l] /\ nodes' = nodes /\ entries' = entries
      /\ stale' = [s \in Sets |-> stale[s] \cup {e \in entries[s] : e.node = n}]
  BY DEF SetLabel
<1>2. TypeOK'
  <2>1. stale' \in [Sets -> SUBSET Entry] BY <1>1 DEF IInv, TypeOK
  <2> QED BY <1>1, <2>1 DEF IInv, TypeOK
<1>3. \A s \in Sets : \A e \in entries[s] :
        /\ e \in stale[s] => e \in stale'[s]
        /\ e \in stale'[s] \/ (e.node \in Nodes /\ e.node # n)
  BY <1>1 DEF IInv, TypeOK, Entry
<1>4. \A m \in Nodes : m # n => label'[m] = label[m] BY <1>1 DEF IInv, TypeOK
<1>5. \A m \in Nodes : m # n => Hash(m)' = Hash(m) BY <1>4 DEF Hash
<1>6. HashKept' BY <1>1, <1>3, <1>5 DEF IInv, HashKept
<1>7. NoDuplicates' BY <1>1, <1>3, <1>4 DEF IInv, NoDuplicates
<1> QED BY <1>2, <1>6, <1>7 DEF IInv

LEMMA StayInvariant ==
  ASSUME IInv, UNCHANGED << label, entries, stale >>, nodes' \in [Trees -> Sets \cup {Null}]
  PROVE  IInv'
<1>1. \A m : Hash(m)' = Hash(m) BY DEF Hash
<1> QED BY <1>1 DEF IInv, TypeOK, HashKept, NoDuplicates

LEMMA StepInvariant == ASSUME IInv, [Next]_vars PROVE IInv'
<1>1. ASSUME NEW t \in Trees, NEW s \in Sets \cup {Null}, SetNodes(t, s) PROVE IInv'
  BY <1>1, StayInvariant DEF SetNodes, IInv, TypeOK
<1>2. CASE UNCHANGED vars BY <1>2, StayInvariant DEF vars, IInv, TypeOK
<1> QED BY <1>1, <1>2, AddInvariant, RemoveInvariant, SetLabelInvariant DEF Next

LEMMA AlwaysIInv == Spec => []IInv
<1>1. Init => IInv BY InitInvariant
<1>2. IInv /\ [Next]_vars => IInv' BY StepInvariant
<1> QED BY <1>1, <1>2, PTL DEF Spec

-----------------------------------------------------------------------------
\* Every variable keeps its type.
THEOREM TypeCorrect == Spec => []TypeOK
<1>1. IInv => TypeOK BY DEF IInv
<1> QED BY <1>1, AlwaysIInv, PTL

\* The set of a tree has equal nodes only through a change of label.
THEOREM NoEqualNodes == Spec => []NoDuplicates
<1>1. IInv => NoDuplicates BY DEF IInv
<1> QED BY <1>1, AlwaysIInv, PTL

=============================================================================
