SPECIFICATION Spec
CONSTANTS
    v1 = v1
    v2 = v2
    s1 = s1
    s2 = s2
    Procs = {p1, p2}
    Versions = {v1, v2}
    Selections = {s1, s2}
    Repair <- MCRepair
    Situations <- MCSituations
    PlanSet <- MCPlanSet
    Observations = {"complete", "foreign"}
    Nil = Nil
INVARIANTS RepairsEarned ReportsEarned
SYMMETRY Symmetry
CHECK_DEADLOCK FALSE
