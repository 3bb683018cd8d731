---------------------------- MODULE MCDataInput -----------------------------
(***************************************************************************)
(* DataInput on small arrays: what the writer produces and what it does    *)
(* not, as the two kinds of bytes a reader meets.                          *)
(***************************************************************************)
EXTENDS DataInput

MCArrays == {
  << >>,
  << 0, 0, 0, 2, 65, 195 >>,                              \* the last char is cut short
  << 0, 0, 0, 1, 226, 130, 172, 255, 255, 255, 255 >>,    \* a string, then null
  << 255, 255, 255, 254, 128 >>,                          \* a length of -2
  << 0, 0, 0, 7, 7 >>,                                    \* more than there is
  << 0, 0, 0, 2, 0, 0, 0, 1, 65, 0, 0, 0, 2, 66, 67 >> }  \* two strings, growing

MCWidths == {2}
MCIndexes == {-1, 0, 1, 4, IntMax}

-----------------------------------------------------------------------------
\* At most MaxCalls method calls; a call under way always runs to its end.
CONSTANT MaxCalls
VARIABLE called

MCInit == Init /\ called = 0
MCNext ==
  /\ Next
  /\ called' = IF Idle THEN called + 1 ELSE called
  /\ called' <= MaxCalls
MCSpec == MCInit /\ [][MCNext]_<< vars, called >> /\ WF_vars(CallStep)
=============================================================================
