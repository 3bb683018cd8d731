CONSTANTS
  Aa = Aa
  BB = BB
  Empty = Empty
  Nodes = {n1, n2}
  Trees = {u, v}
  Labels = {Aa, BB, Empty}
  LabelHash <- Hashes
  Null = Null
SPECIFICATION Spec
INVARIANTS TypeOK NoDuplicates
