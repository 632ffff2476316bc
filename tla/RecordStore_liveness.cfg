CONSTANTS
  Procs = {p1, p2}
  TxIds = {t1}
  i1 = i1
  i2 = i2
  k1 = k1
  k2 = k2
  Ids = {i1}
  Contents = {c1, c2}
  Kinds = {k1}
  KindOf <- MCKindOfOne
  Nil = Nil
  Torn = Torn
SPECIFICATION FairSpec
PROPERTIES EveryCallReturns
