SPECIFICATION Spec
CONSTANTS
    w1 = w1
    w2 = w2
    v1 = v1
    k1 = k1
    k2 = k2
    Procs = {p1}
    Candidates = {c1, c2}
    Authorities = {u1, u2}
    Environments = {e1, e2}
    Policies = {q1, q2}
    Workflows = {w1, w2}
    Verifiers = {v1}
    Protocol = {w2}
    ProjectScoped = {w2}
    FabricRecords <- MCFabricRecords
    Requests <- MCRequests
    Replies = {"PASS", "none"}
    Endings = {"completed", "nonzero-exit", "timeout"}
    Bounds <- MCBounds
    Category <- MCCategory
    RequiredSets <- MCRequiredSets
    RecordBound = 2
    NameBound = 2
INVARIANTS AssuranceEarned ResultsReceipted ReadinessAgrees ReconciliationAgrees
SYMMETRY Symmetry
CHECK_DEADLOCK FALSE
