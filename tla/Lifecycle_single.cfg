CONSTANTS
  d1 = d1
  d2 = d2
  e1 = e1
  q1 = q1
  w1 = w1
  w2 = w2
  Procs = {d1}
  Mode <- MCMode
  Contents = {a, b}
  Authorities = {u}
  Policies = {q1, q2}
  Workflows = {w1}
  Required <- MCRequired
  Statuses = {"PASS", "FAIL"}
  MaxRecords <- MCSingleRecords
  Nil = Nil
  MaxEvents = 32
  Native = {d1}
  RootAnywhere = FALSE
SYMMETRY Symmetry
SPECIFICATION Spec
CHECK_DEADLOCK TRUE
INVARIANTS FreezeJustified NeverAmbiguous FrozenEpochClosed FrozenEvidenceClean BundleAgrees
