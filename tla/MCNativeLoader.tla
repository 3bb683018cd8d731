--------------------------- MODULE MCNativeLoader ---------------------------
(***************************************************************************)
(* Three JVMs: one that copies, one that overtakes it and one that comes   *)
(* before or after both.  A library of two pieces can be loaded in part.   *)
(***************************************************************************)
EXTENDS NativeLoader

CONSTANTS p1, p2, p3

Two == {p1, p2}
Three == {p1, p2, p3}

=============================================================================
