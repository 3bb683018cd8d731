------------------------------- MODULE ByteLog ------------------------------
(***************************************************************************)
(* What a DataOutput promises its caller: a log of bytes.  A call queues   *)
(* the byte strings it was asked to write and they are appended to the log *)
(* one by one, each exactly as given; a call that fails drops what it has  *)
(* not appended and leaves the log as it is.  Between calls the cursor may *)
(* be moved, which keeps the bytes before it, and bytes may be patched in  *)
(* place, which keeps the size.  There is no buffer here: nothing grows,   *)
(* is copied or is reused.                                                 *)
(***************************************************************************)
EXTENDS Integers, Sequences

VARIABLES
  size,      \* number of bytes in the log
  log,       \* the bytes, log[0] .. log[size - 1]
  pending    \* byte strings the call in progress has still to append

vars == << size, log, pending >>

Octet == 0..255

Init == size = 0 /\ log = [i \in {} |-> 0] /\ pending = << >>

\* A call starts, or goes on to the next value it has to write.
Enqueue ==
  /\ pending = << >>
  /\ pending' \in Seq(Seq(Octet))
  /\ UNCHANGED << size, log >>

\* The next byte string goes to the end of the log.
Append1 ==
  /\ pending # << >>
  /\ size' = size + Len(Head(pending))
  /\ log' = [i \in 0..size + Len(Head(pending)) - 1 |->
               IF i < size THEN log[i] ELSE Head(pending)[i - size + 1]]
  /\ pending' = Tail(pending)

\* The call fails: what is in the log stays, the rest is dropped.
Fail ==
  /\ pending' = << >>
  /\ UNCHANGED << size, log >>

\* The cursor moves: back, or forward over bytes whose values are unspecified.
Seek ==
  /\ pending = << >>
  /\ size' \in Nat
  /\ log' \in [0..size' - 1 -> Octet]
  /\ \A i \in 0..size - 1 : i < size' => log'[i] = log[i]
  /\ UNCHANGED pending

\* Bytes are overwritten in place, at most one eight-byte value at a time.
Patch ==
  /\ pending = << >>
  /\ log' \in [0..size - 1 -> Octet]
  /\ \E p \in 0..size : \A i \in 0..size - 1 : log'[i] # log[i] => i \in p..p + 7
  /\ UNCHANGED << size, pending >>

Next == Enqueue \/ Append1 \/ Fail \/ Seek \/ Patch

Spec == Init /\ [][Next]_vars
=============================================================================
