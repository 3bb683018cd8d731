------------------------------ MODULE MCNodeSet ------------------------------
(***************************************************************************)
(* Two nodes, two trees that may come to share a set, three labels: two    *)
(* that share their hash and one that has the hash of null (as "" has).    *)
(***************************************************************************)
EXTENDS NodeSet, TLC

CONSTANTS Aa, BB, Empty

Hashes == (Aa :> 2) @@ (BB :> 2) @@ (Empty :> 0)

=============================================================================
