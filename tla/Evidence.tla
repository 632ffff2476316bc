------------------------------ MODULE Evidence ------------------------------
(***************************************************************************)
(* What the evidence of the ledger amounts to: whether the current         *)
(* candidate is ready for its policy, and how the results of a candidate   *)
(* reconcile.  Both are computed twice in the code: by Python, and, with   *)
(* the native spine selected, by the packaged programs                     *)
(* mncs.forge.readiness and mncs.forge.reconciliation, for which the host  *)
(* reduces the records to bounded values first.                            *)
(***************************************************************************)
EXTENDS Receipts

CONSTANTS
    Category,       \* the category of each workflow
    RequiredSets,   \* what policies require: workflows and verifiers
    RecordBound,    \* records of a requirement or category the ABI holds, 8
    NameBound       \* requirements or categories of a request the ABI holds, 16

ASSUME EvidenceAssumption ==
    /\ DOMAIN Category = Workflows
    /\ RequiredSets \subseteq SUBSET (Workflows \cup Verifiers)
    /\ \A R \in RequiredSets : IsFiniteSet(R)
    /\ RecordBound \in Nat \ {0}
    /\ NameBound \in Nat

Kernel == INSTANCE NativeKernel WITH Nil <- 0, MaxEvents <- RecordBound
Sets == INSTANCE FiniteSetsExt

-----------------------------------------------------------------------------
(* What the host observes of each record *)

Matches(c, r) ==
    {n \in Indices("result") : ledger[n].candidate = c /\ ledger[n].workflow = r}
      \cup {n \in Indices("verifier") : ledger[n].candidate = c /\ ledger[n].verifier = r}

StatusesOf(S) == {ledger[n].status : n \in S}

\* A record counts for the candidate that is on disk; a verifier says what it
\* examined.
IsCurrent(n) ==
    /\ ledger[n].candidate = world.content
    /\ ledger[n].type = "verifier" => ledger[n].input = world.content
EnvironmentMatch(n) == ledger[n].environment = world.environment
PolicyMatch(n) == ledger[n].type = "verifier" => ledger[n].policy = world.policy

AuthorityMatch(c) ==
    \A n \in Indices("candidate") : ledger[n].id = c => ledger[n].authority = world.authority

-----------------------------------------------------------------------------
(* Readiness by the host: _compat_evidence_readiness *)

CompatReadiness(c, R, valid) ==
    LET present == {r \in R : Matches(c, r) # {}}
        failed == {r \in present : "FAIL" \in StatusesOf(Matches(c, r))}
        unknown == {r \in present \ failed : "UNKNOWN" \in StatusesOf(Matches(c, r))}
        noncomparable ==
            {r \in present : ~AuthorityMatch(c) \/
               \E n \in Matches(c, r) : ~(IsCurrent(n) /\ EnvironmentMatch(n) /\ PolicyMatch(n))}
        ready == /\ c \in Candidates /\ valid
                 /\ present = R /\ failed = {} /\ unknown = {} /\ noncomparable = {}
    IN  [present |-> present, missing |-> R \ present, failed |-> failed, unknown |-> unknown,
         stale |-> {}, noncomparable |-> noncomparable, ready |-> ready,
         status |-> IF failed # {} THEN "FAIL" ELSE IF ready THEN "PASS" ELSE "UNKNOWN"]

\* EvidenceReadiness.blocker
Blocker(e, valid) ==
    CASE ~valid -> "EVIDENCE_PLAN_INVALID"
      [] valid /\ e.failed # {} -> "EVIDENCE_FAILED"
      [] valid /\ e.failed = {} ->
           IF e.missing # {} THEN "EVIDENCE_INCOMPLETE"
           ELSE IF e.unknown # {} THEN "EVIDENCE_UNKNOWN"
           ELSE IF e.stale # {} THEN "EVIDENCE_STALE"
           ELSE IF e.noncomparable # {} THEN "EVIDENCE_NOT_COMPARABLE" ELSE "none"

-----------------------------------------------------------------------------
(* Readiness by the kernel: normalization, projection, classes *)

\* Fault: the last record decides what the requirement is compared with.
NormalizeLast(c, r) ==
    LET S == Matches(c, r)
        last == {n \in S : \A m \in S : m <= n}
    IN  [records |-> S,
         freshness |-> IF \A n \in last : IsCurrent(n) THEN "Current" ELSE "Unknown",
         environment |-> \A n \in last : EnvironmentMatch(n),
         policy |-> \A n \in last : PolicyMatch(n),
         authority |-> AuthorityMatch(c)]

\* _evidence_readiness: one value for a requirement, whatever it has records.
Normalize(c, r) ==
    LET S == Matches(c, r)
    IN  [records |-> S,
         freshness |-> IF \A n \in S : IsCurrent(n) THEN "Current" ELSE "Unknown",
         environment |-> \A n \in S : EnvironmentMatch(n),
         policy |-> \A n \in S : PolicyMatch(n),
         authority |-> AuthorityMatch(c)]

Count(S, status) == Cardinality({n \in S : ledger[n].status = status})

\* _readiness_requirement_value: the kernel sees the statuses of the records,
\* of which it only counts each.
RequirementValue(r, i) ==
    [identity |-> r, pass |-> Count(i.records, "PASS"), fail |-> Count(i.records, "FAIL"),
     unknown |-> Count(i.records, "UNKNOWN"), freshness |-> i.freshness,
     environment |-> i.environment, policy |-> i.policy, authority |-> i.authority]

\* readiness.requirement and classify_requirement
Requirement(v) ==
    LET observed == v.pass + v.fail + v.unknown
        noncomparable == \/ v.freshness # "Current"
                         \/ ~(v.environment /\ v.policy /\ v.authority)
    IN  [identity |-> v.identity, pass |-> v.pass, fail |-> v.fail, unknown |-> v.unknown,
         observed |-> observed, noncomparable |-> noncomparable,
         class |-> IF observed = 0 THEN "Missing" ELSE IF v.fail > 0 THEN "Failed"
                   ELSE IF v.unknown > 0 THEN "Unknown"
                   ELSE IF noncomparable THEN "NonComparable" ELSE "Present"]

Classed(q, class) == {x.identity : x \in {y \in q : y.class = class}}
Observed(q) == {x.identity : x \in {y \in q : y.observed > 0}}
NonComparable(q) == {x.identity : x \in {y \in q : y.noncomparable}}

\* readiness.project: the numbers of each kind among requirements q, and what
\* follows from them.
ReadinessKernel(q, candidate, valid) ==
    LET failed == Cardinality(Classed(q, "Failed"))
        missing == Cardinality(Classed(q, "Missing"))
        unknown == Cardinality(Classed(q, "Unknown"))
        noncomparable == Cardinality(NonComparable(q))
        ready == candidate /\ valid /\ failed + missing + unknown + noncomparable = 0
    IN  [present |-> Cardinality(Observed(q)), missing |-> missing, failed |-> failed,
         unknown |-> unknown, noncomparable |-> noncomparable, ready |-> ready,
         status |-> IF ready THEN "PASS" ELSE IF failed > 0 THEN "FAIL" ELSE "UNKNOWN"]

\* readiness_projection: more requirements than the ABI holds, or more records of
\* one of them, make every native call raise.
ReadinessBounded(c, R) ==
    /\ Cardinality(R) <= NameBound
    /\ \A r \in R : Cardinality(Normalize(c, r).records) <= RecordBound

ReadinessProjection(c, R, valid) ==
    LET q == {Requirement(RequirementValue(r, Normalize(c, r))) : r \in R}
    IN  [requirements |-> q, state |-> ReadinessKernel(q, c \in Candidates, valid)]

\* readiness_projection counts and compares once more for itself, and raises
\* NATIVE_READINESS_MISMATCH when the answer differs.
ReadinessConsistent(c, R, answer) ==
    /\ {x.identity : x \in answer.requirements} = R
    /\ \A x \in answer.requirements :
         LET i == Normalize(c, x.identity)
         IN  /\ x.observed = Cardinality(i.records)
             /\ x.pass = Count(i.records, "PASS") /\ x.fail = Count(i.records, "FAIL")
             /\ x.unknown = Count(i.records, "UNKNOWN")
             /\ x.noncomparable = (\/ i.freshness \in {"NotApplicable", "Unknown"}
                                   \/ ~i.environment \/ ~i.policy \/ ~i.authority)
    /\ answer.state.present = Cardinality(Observed(answer.requirements))
    /\ answer.state.missing = Cardinality(Classed(answer.requirements, "Missing"))
    /\ answer.state.failed = Cardinality(Classed(answer.requirements, "Failed"))
    /\ answer.state.unknown = Cardinality(Classed(answer.requirements, "Unknown"))
    /\ answer.state.noncomparable = Cardinality(NonComparable(answer.requirements))

\* The lists that _evidence_readiness makes of the answer.
NativeReadiness(c, R, valid) ==
    LET answer == ReadinessProjection(c, R, valid)
        q == answer.requirements
    IN  [present |-> Observed(q), missing |-> Classed(q, "Missing"),
         failed |-> Classed(q, "Failed"), unknown |-> Classed(q, "Unknown"),
         stale |-> Classed(q, "Stale"),
         noncomparable |-> Classed(q, "NonComparable") \cup NonComparable(q),
         ready |-> answer.state.ready, status |-> answer.state.status]

-----------------------------------------------------------------------------
(* Reconciliation *)

\* aggregate_status
Aggregate(S) ==
    IF "FAIL" \in S THEN "FAIL" ELSE IF S # {"PASS"} THEN "UNKNOWN" ELSE "PASS"

\* reconcile: the results of a candidate; those of the project without one.
Selected(c) ==
    {n \in Indices("result") : ledger[n].candidate = IF c = "none" THEN Project ELSE c}
CategoriesOf(S) == {Category[ledger[n].workflow] : n \in S}
InCategory(S, k) == {n \in S : Category[ledger[n].workflow] = k}

CompatReconciliation(S) ==
    LET categories == {<<k, Aggregate(StatusesOf(InCategory(S, k)))>> : k \in CategoriesOf(S)}
    IN  [categories |-> categories,
         conflicts |-> {k \in CategoriesOf(S) : Cardinality(StatusesOf(InCategory(S, k))) > 1},
         aggregate |-> Aggregate({x[2] : x \in categories})]

\* Fault: the first status is joined with the initial one.
CombineUnseeded(current, incoming) ==
    Kernel!Dominate(IF current = "none" THEN "UNKNOWN" ELSE current, incoming)

\* combine_category and the summary of statlib
Combine(current, incoming) ==
    IF current = "none" THEN incoming ELSE Kernel!Dominate(current, incoming)

\* _reconciliation_category_value: as for a requirement.
CategoryValue(k, S) ==
    [category |-> k, pass |-> Count(S, "PASS"), fail |-> Count(S, "FAIL"),
     unknown |-> Count(S, "UNKNOWN")]

\* reconciliation.category
CategoryProjection(v) ==
    LET kinds == (IF v.pass > 0 THEN {"PASS"} ELSE {})
                   \cup (IF v.fail > 0 THEN {"FAIL"} ELSE {})
                   \cup (IF v.unknown > 0 THEN {"UNKNOWN"} ELSE {})
    IN  [category |-> v.category, observed |-> v.pass + v.fail + v.unknown,
         status |-> Sets!FoldSet(LAMBDA x, s : Combine(s, x), "none", kinds),
         conflict |-> Cardinality(kinds) > 1]

\* reconciliation.project, of categories q
ReconciliationKernel(q) ==
    LET all == Sets!FoldSet(LAMBDA x, s : Combine(s, x.status), "none", q)
    IN  [status |-> IF all = "none" THEN "UNKNOWN" ELSE all,
         conflicts |-> Cardinality({x \in q : x.conflict}),
         observed |-> Sets!FoldSet(LAMBDA x, n : n + x.observed, 0, q)]

\* reconciliation_projection and _reconciliation_category_value, likewise.
ReconciliationBounded(S) ==
    /\ Cardinality(CategoriesOf(S)) <= NameBound
    /\ \A k \in CategoriesOf(S) : Cardinality(InCategory(S, k)) <= RecordBound

ReconciliationProjection(S) ==
    LET q == {CategoryProjection(CategoryValue(k, InCategory(S, k))) : k \in CategoriesOf(S)}
    IN  [categories |-> q, state |-> ReconciliationKernel(q)]

\* _native_reconciliation: the host counts again, and raises
\* NATIVE_RECONCILIATION_MISMATCH when the answer differs.
ReconciliationConsistent(S, answer) ==
    /\ \A x \in answer.categories : x.observed = Cardinality(InCategory(S, x.category))
    /\ answer.state.observed = Cardinality(S)
    /\ answer.state.conflicts = Cardinality({x \in answer.categories : x.conflict})

NativeReconciliation(S) ==
    LET answer == ReconciliationProjection(S)
    IN  [categories |-> {<<x.category, x.status>> : x \in answer.categories},
         conflicts |-> {x.category : x \in {y \in answer.categories : y.conflict}},
         aggregate |-> answer.state.status]

-----------------------------------------------------------------------------
(* Properties *)

\* docs/mncs-native-spine.md: the native spine decides as the host does.  For
\* every policy and ledger that the ABI holds (an oversized one is refused, while
\* Python answers) and whatever was edited since the evidence was recorded, the
\* two agree on readiness, its status, its blocker and the lists behind them,
\* although the host folds the records of a requirement into one value first,
\* and the host's recount of the answer never finds a mismatch.
ReadinessAgrees ==
    \A R \in RequiredSets :
      ReadinessBounded(Current, R) =>
        /\ ReadinessConsistent(Current, R, ReadinessProjection(Current, R, TRUE))
        /\ \A valid \in BOOLEAN :
             LET compat == CompatReadiness(Current, R, valid)
                 native == NativeReadiness(Current, R, valid)
             IN  /\ \A f \in {"present", "missing", "failed", "unknown", "ready", "status"} :
                      compat[f] = native[f]
                 /\ compat.noncomparable = native.noncomparable \cap native.present
                 /\ Blocker(compat, valid) = Blocker(native, valid)

\* The two reconcile a ledger that the ABI holds to the same statuses and
\* conflicts, for every candidate and for the project, and the host accepts the
\* counts of the kernel.
ReconciliationAgrees ==
    \A c \in Candidates \cup {"none"} :
        ReconciliationBounded(Selected(c)) =>
          /\ CompatReconciliation(Selected(c)) = NativeReconciliation(Selected(c))
          /\ ReconciliationConsistent(Selected(c), ReconciliationProjection(Selected(c)))
=============================================================================
