---------------------------- MODULE MCDataOutput ----------------------------
(***************************************************************************)
(* DataOutput on small instances.  The arguments are the smallest that     *)
(* reach every way a put can reserve and store: a one-byte and a two-byte  *)
(* value, strings of one-, two- and three-byte chars, and strings whose    *)
(* room overflows a small int at three, two and one byte per char.         *)
(***************************************************************************)
EXTENDS DataOutput

MCBytes == {1}
MCFixed == {<< 1, 2 >>}
MCByteArrays == {<< >>, << 1, 2 >>}
MCFixedArrays == {<< << 1, 2 >> >>}
MCStrings == {<< >>, << 233, 8364 >>, [i \in 1..IntMax \div 3 + 1 |-> 65],
              [i \in 1..IntMax - 2 |-> 65]}
MCStringArrays == {<< NoString, << 233 >> >>}
MCIndexes == {-1, 0, 1, 3, IntMax}

-----------------------------------------------------------------------------
\* Three streams, of which a behaviour uses one.  Eight initial sizes of the
\* first fit in an int; those of the second wrap to a negative size, so that its
\* clear fails; those of the third wrap to a positive size, that of the array
\* its clear puts in place.
CONSTANTS SecondSize, ThirdSize
Second == INSTANCE DataOutput WITH InitialSize <- SecondSize, BigEndian <- ~BigEndian
Third == INSTANCE DataOutput WITH InitialSize <- ThirdSize

\* At most MaxCalls method calls; a call under way always runs to its end.
CONSTANT MaxCalls
VARIABLES stream, called

MCInit ==
  /\ called = 0
  /\ \/ stream = "first" /\ Init
     \/ stream = "second" /\ Second!Init
     \/ stream = "third" /\ Third!Init
MCNext ==
  /\ \/ stream = "first" /\ Next
     \/ stream = "second" /\ Second!Next
     \/ stream = "third" /\ Third!Next
  /\ called' = IF Idle THEN called + 1 ELSE called
  /\ called' <= MaxCalls
  /\ UNCHANGED stream
MCSpec == MCInit /\ [][MCNext]_<< vars, stream, called >>
=============================================================================
