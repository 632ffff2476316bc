CONSTANTS
  Procs = {p1, p2}
  TxIds = {t1, t2}
  i1 = i1
  i2 = i2
  k1 = k1
  k2 = k2
  Ids = {i1, i2}
  Contents = {c1, c2}
  Kinds = {k1, k2}
  KindOf <- MCKindOf
  Nil = Nil
  Torn = Torn
SYMMETRY Symmetry
SPECIFICATION Spec
INVARIANTS TypeOK OldOrNew CrashesNeverWedge RepliesDurable PublishExtends
PROPERTIES AppendOnly ImplementsAtomicLedger
CHECK_DEADLOCK TRUE
