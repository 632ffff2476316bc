----------------------------- MODULE MCEvidence -----------------------------
EXTENDS Evidence, TLC

CONSTANTS w1, w2, v1, k1, k2

Report ==
    [reason |-> "exit-zero", code |-> "zero", duration |-> TRUE, streams |-> TRUE,
     named |-> TRUE, error |-> FALSE, filesystem |-> "enforced", network |-> "unknown",
     image |-> TRUE, same |-> "no"]

\* A job that ended well, one that was cut short and yet has an exit code, and
\* one that is lost for a reason that nobody knows.
MCFabricRecords ==
    {Report,
     [Report EXCEPT !.reason = "timeout", !.streams = TRUE],
     [Report EXCEPT !.reason = "preempted", !.code = "none", !.duration = FALSE, !.error = TRUE]}

\* All runners, their receipts and an assessment; or evidence of a local process
\* and a verifier while the project is edited.
MCBounds ==
    {[runners |-> Kinds, started |-> 2, verified |-> 0, assessed |-> 1, edits |-> 0],
     [runners |-> {"local-process"}, started |-> 2, verified |-> 1, assessed |-> 0,
      edits |-> 1]}

MCCategory == (w1 :> k1) @@ (w2 :> k2)
MCRequests ==
    {{"runner_capability", "same_operator_execution"}, {"filesystem_isolation", "containerization"}}
Symmetry ==
    UNION {Permutations(S) : S \in {Candidates, Authorities, Environments, Policies}}
MCRequiredSets == {{w1}, {w1, v1}}
=============================================================================
