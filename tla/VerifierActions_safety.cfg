CONSTANTS
  Procs = {p1, p2}
  Actions = {a1, a2}
  MaxVersion = 0
  Evaluator = FALSE
  Faults = {"crash", "ledgerTimeout", "raise"}
  Nil = Nil
SYMMETRY Symmetry
SPECIFICATION Spec
INVARIANTS TypeOK AtMostOneTerminal LiveExecutorNotPreempted ReceiptsAgree
CHECK_DEADLOCK TRUE
