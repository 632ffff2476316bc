SPECIFICATION Spec
CONSTANTS
    Procs = {p1, p2}
    Artifacts = {a1, a2}
    Baseline = base
    Requirements = {"translation-validation"}
    Observations = {o1}
    MaxRecords = 4
    Nil = Nil
INVARIANTS SelectionEarned
SYMMETRY Symmetry
CHECK_DEADLOCK FALSE
