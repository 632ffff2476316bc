---------------------------- MODULE MCLifecycle -----------------------------
EXTENDS Lifecycle, TLC

CONSTANTS d1, d2, e1, q1, w1, w2

MCMode == [p \in Procs |-> IF p = e1 THEN "evaluator" ELSE "development"]
MCRequired == [q \in Policies |-> IF q = q1 THEN {w1} ELSE Workflows \ {w1}]
Types ==
    {"epoch", "candidate", "result", "evaluation", "bundle", "disposition", "freeze"}

\* One development process checks two candidates twice.
MCSingleRecords ==
    [t \in Types |-> IF t \in {"candidate", "result"} THEN 2 ELSE 1]

\* Processes that race: two calls can both begin before a record is stored,
\* so that more records than the bound come from races only.
MCRaceRecords == [t \in Types |-> IF t = "bundle" THEN 0 ELSE 1]

\* A lineage of candidates: each has a successor, one of them an old content.
MCLineageRecords == [MCRaceRecords EXCEPT !["candidate"] = 3]

Symmetry ==
    Permutations(Contents) \cup Permutations(Authorities) \cup Permutations(Procs \ (Native \cup {e1}))
=============================================================================
