CONSTANTS
  Procs = {p1}
  TxIds = {t1, t2}
  i1 = i1
  i2 = i2
  k1 = k1
  k2 = k2
  Ids = {i1, i2}
  Contents = {c1, c2}
  Kinds = {k1, k2}
  KindOf <- MCKindOf
  Nil = Nil
  Torn = Torn
  MaxLedger = 3
SYMMETRY Symmetry
SPECIFICATION ForeignSpec
INVARIANTS CommittedAsPrepared OnlyPreparedBytes
PROPERTIES AppendOnly ContradictionKept ReadsWholeHistory
