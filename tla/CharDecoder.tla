----------------------------- MODULE CharDecoder -----------------------------
(***************************************************************************)
(* What a decoder promises on a legal source: the chars come out in their  *)
(* order, each is what its bytes stand for and stays what it is, no char   *)
(* is taken in part, and it stops when there is no room or nothing left,   *)
(* or at a char that the end of the source cuts.  There are no loops, no   *)
(* chunks and no cursors here.  On other sources nothing is promised.      *)
(***************************************************************************)
EXTENDS Integers, Sequences

CONSTANTS
  WidthOf(_),  \* the bytes of the char that starts with this byte
  ValueOf(_)   \* the char that these bytes stand for

VARIABLES
  legal,   \* the source is legal
  bytes,   \* what is left of the source
  chars,   \* what has been decoded
  room,    \* how many more chars fit
  status   \* "decoding", or how it ended

vars == << legal, bytes, chars, room, status >>

\* What is left after k chars.
After ==
  LET after[k \in 0..room] ==
        IF k = 0 THEN bytes
        ELSE LET b == after[k - 1] IN SubSeq(b, WidthOf(b[1]) + 1, Len(b))
  IN  after

Whole(b) == b # << >> /\ WidthOf(b[1]) <= Len(b)
First(b) == ValueOf(SubSeq(b, 1, WidthOf(b[1])))

Init == chars = << >> /\ status = "decoding"

\* The next k chars.
Take(k) ==
  /\ status = "decoding"
  /\ \A j \in 0..k - 1 : Whole(After[j])
  /\ bytes' = After[k]
  /\ chars' = chars \o [j \in 1..k |-> First(After[j - 1])]
  /\ room' = room - k
  /\ UNCHANGED << legal, status >>

Finish ==
  /\ status = "decoding"
  /\ status' = IF room = 0 \/ bytes = << >> THEN "read" ELSE "cut"
  /\ status' = "cut" => ~Whole(bytes)
  /\ UNCHANGED << legal, bytes, chars, room >>

Next == Finish \/ \E k \in 1..room : Take(k)

Spec == Init /\ [][legal => Next]_vars

=============================================================================
