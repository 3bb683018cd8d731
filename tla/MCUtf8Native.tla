---------------------------- MODULE MCUtf8Native ----------------------------
(***************************************************************************)
(* Utf8Native with chunks of four bytes: the smallest in which a char of   *)
(* three bytes starts, ends and is cut in every lane.                      *)
(***************************************************************************)
EXTENDS Utf8Native

\* Every array of up to five bytes of: ASCII, a byte that continues a char, and
\* those that start one of two and three bytes.
Alphabet == {65, 169, 195, 226}
MCBytes == UNION {[1..n -> Alphabet] : n \in 0..5}

\* Three chars, among them those the vector loop refuses: half of a
\* surrogate pair, one that should be shorter, two that are not characters.
Units == {<< 65 >>, << 195, 169 >>, << 226, 130, 172 >>, << 237, 160, 128 >>,
          << 224, 128, 128 >>, << 239, 191, 191 >>, << 239, 183, 144 >>, << 240 >>}
MCChars == {a \o b \o c : a \in Units, b \in Units, c \in Units}

MCSources == MCBytes \cup MCChars
=============================================================================
