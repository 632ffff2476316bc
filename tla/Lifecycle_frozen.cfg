CONSTANTS
  d1 = d1
  d2 = d2
  e1 = e1
  q1 = q1
  w1 = w1
  w2 = w2
  Procs = {d1, d2}
  Mode <- MCMode
  Contents = {a, b}
  Authorities = {u}
  Policies = {q1}
  Workflows = {w1}
  Required <- MCRequired
  Statuses = {"PASS", "FAIL"}
  MaxRecords <- MCLineageRecords
  Nil = Nil
  MaxEvents = 32
  Native = {}
  RootAnywhere = FALSE
SYMMETRY Symmetry
SPECIFICATION Spec
CHECK_DEADLOCK TRUE
INVARIANT FrozenEpochClosed
