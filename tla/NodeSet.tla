------------------------------- MODULE NodeSet -------------------------------
(***************************************************************************)
(* VersionedTree.java and UnversionedNode.java: the set of nodes of a      *)
(* tree.  A node is equal to every node with its label and hashes by it,   *)
(* and the label may be changed while the node is in the set.              *)
(*                                                                         *)
(* java.util.HashSet is external: it keeps with each element the hash the  *)
(* element had when it was added, and finds by that hash and by equals.    *)
(***************************************************************************)
EXTENDS Integers

CONSTANTS
  Nodes,      \* UnversionedNode objects
  Trees,
  Labels,
  LabelHash,  \* String.hashCode, which two labels may share
  Null

ASSUME LabelAssumption == LabelHash \in [Labels -> Int] /\ Null \notin Labels

VARIABLES
  label,    \* the label of a node
  nodes,    \* the set that a tree uses; sets are named by the tree they began in
  entries,  \* the elements of a set, each with the hash it was added under
  stale     \* history: the entries whose node was given another label since

vars == << label, nodes, entries, stale >>

Sets == Trees
Entry == [node : Nodes, hash : Int]

-----------------------------------------------------------------------------
\* hashCode
HashUnguarded(n) == IF label[n] = Null THEN Null ELSE 31 + LabelHash[label[n]]

Hash(n) == 31 + (IF label[n] = Null THEN 0 ELSE LabelHash[label[n]])

\* equals
EqualIfNamed(m, n) == label[m] # Null /\ label[m] = label[n]

Equal(m, n) == m = n \/ label[m] = label[n]

\* HashSet: the entries that pass for n.
Matches(s, n) == {e \in entries[s] : e.hash = Hash(n) /\ Equal(e.node, n)}

-----------------------------------------------------------------------------
Add(t, n) ==
  LET s == nodes[t]
  IN  /\ s # Null
      /\ Matches(s, n) = {}
      /\ entries' = [entries EXCEPT ![s] = @ \cup {[node |-> n, hash |-> Hash(n)]}]
      /\ UNCHANGED << label, nodes, stale >>

\* getNodes().remove(n)
Remove(t, n) ==
  LET s == nodes[t]
  IN  /\ s # Null
      /\ \E e \in Matches(s, n) :
           /\ entries' = [entries EXCEPT ![s] = @ \ {e}]
           /\ stale' = [stale EXCEPT ![s] = @ \ {e}]
      /\ UNCHANGED << label, nodes >>

SetLabel(n, l) ==
  /\ l # label[n]
  /\ label' = [label EXCEPT ![n] = l]
  /\ stale' = [s \in Sets |-> stale[s] \cup {e \in entries[s] : e.node = n}]
  /\ UNCHANGED << nodes, entries >>

\* setNodes, with null or with a set that getNodes has returned.
SetNodes(t, s) ==
  /\ nodes' = [nodes EXCEPT ![t] = s]
  /\ UNCHANGED << label, entries, stale >>

Init ==
  /\ label = [n \in Nodes |-> Null]
  /\ nodes = [t \in Trees |-> t]
  /\ entries = [s \in Sets |-> {}]
  /\ stale = [s \in Sets |-> {}]

Next ==
  \/ \E t \in Trees, n \in Nodes : Add(t, n) \/ Remove(t, n)
  \/ \E n \in Nodes, l \in Labels \cup {Null} : SetLabel(n, l)
  \/ \E t \in Trees, s \in Sets \cup {Null} : SetNodes(t, s)

Spec == Init /\ [][Next]_vars

-----------------------------------------------------------------------------
(* Properties.                                                             *)

TypeOK ==
  /\ label \in [Nodes -> Labels \cup {Null}]
  /\ nodes \in [Trees -> Sets \cup {Null}]
  /\ entries \in [Sets -> SUBSET Entry]
  /\ stale \in [Sets -> SUBSET Entry]

\* Two nodes of a set are equal, or one is in it twice, only if one of them has
\* been given another label in the set: equals and hashCode agree on every
\* pair of labels, those that share a hash and null included.
NoDuplicates ==
  \A s \in Sets : \A e, f \in entries[s] :
    e # f /\ label[e.node] = label[f.node] => e \in stale[s] \/ f \in stale[s]

=============================================================================
