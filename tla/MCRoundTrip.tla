---------------------------- MODULE MCRoundTrip -----------------------------
(***************************************************************************)
(* RoundTrip with one record of every kind; each array holds enough to     *)
(* tell its elements apart, and the strings have chars of every width.     *)
(***************************************************************************)
EXTENDS RoundTrip

RecordOf(kind, value) == [kind |-> kind, value |-> value]

MCRecords == {
  RecordOf("byte", << 200 >>),
  RecordOf("fixed", << 1, 2 >>),
  RecordOf("bytes", << 7, 8 >>),
  RecordOf("booleans", << 1, 0 >>),
  RecordOf("fixeds", << << 1, 2 >> >>),
  RecordOf("utf", << 233, 8364 >>),
  RecordOf("utfs", << << 65 >>, NoString, << >> >>),
  RecordOf("null", << >>) }

\* Strings only, with more chars and with fewer.
MCStringRecords == {
  RecordOf("utf", << 65 >>), RecordOf("utf", << 65, 233 >>), RecordOf("utf", << 8364, 66 >>) }

\* Strings that grow and shrink, and records of other kinds between them: the
\* longer string of an array, a null and a byte that a string must not swallow.
MCMixedRecords == {
  RecordOf("utf", << 65 >>), RecordOf("utf", << 8364, 66 >>),
  RecordOf("utfs", << NoString, << 233, 66 >> >>),
  RecordOf("byte", << 200 >>), RecordOf("null", << >>) }

-----------------------------------------------------------------------------
\* At most MaxRecords records are begun and MaxReaders readers opened.
CONSTANTS MaxRecords, MaxReaders
VARIABLES begun, opened

MCInit == Init /\ begun = 0 /\ opened = 0
MCNext ==
  /\ Next
  /\ begun' = IF Len(written') > Len(written) THEN begun + 1 ELSE begun
  /\ opened' = IF message = << >> /\ message' # << >> THEN opened + 1 ELSE opened
  /\ begun' <= MaxRecords /\ opened' <= MaxReaders
MCSpec == MCInit /\ [][MCNext]_<< vars, begun, opened >>
=============================================================================
