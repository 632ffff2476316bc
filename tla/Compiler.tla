------------------------------ MODULE Compiler ------------------------------
(***************************************************************************)
(* Compiler candidates, CompilerCandidateService: proposals of a search    *)
(* that validators judge and benchmarks measure.  A record is never        *)
(* changed: a validation or a benchmark appends a successor.  The identity *)
(* of a record is its content without the time, so that a candidate has as *)
(* many identities as it has had states, every one of which can be named   *)
(* in a later call, and a successor that returns to an earlier state is    *)
(* refused by the store.                                                   *)
(*                                                                         *)
(* Candidates are modelled by their artifact and the validation that they  *)
(* require; the other declared fields are copied from record to record.    *)
(***************************************************************************)
EXTENDS Naturals, Sequences, FiniteSets

CONSTANTS
    Procs,          \* processes that offer the operations
    Artifacts,      \* artifacts of candidates, other than the baseline
    Baseline,       \* the trusted artifact
    Requirements,   \* values of required_validation
    Observations,   \* benchmark observations
    MaxRecords,     \* bound on the ledger
    Nil

Judgements == {"PASS", "FAIL", "UNKNOWN"}

\* An old validation does not say which artifact it was made of.
Validation ==
    [judgement : Judgements, freshness : {"current", "stale"}, artifact : Artifacts \cup {Nil}]

\* RecordType.COMPILER_CANDIDATE, with the checks of its fields.
Candidate ==
    [artifact : Artifacts, required : Requirements,
     status : Judgements \cup {"UNVALIDATED"},
     benchmark : Observations \cup {Nil}, validation : Validation \cup {Nil},
     disposition : {"accept", "reject", "retain_unresolved"}]

ASSUME CompilerAssumption ==
    /\ Baseline \notin Artifacts
    /\ MaxRecords \in Nat
    /\ Nil \notin Validation

VARIABLES
    log,    \* the candidate records of the ledger
    call,   \* the record that each process is about to commit, if any
    made    \* judgements reported to have been made, with the artifact that the caller
            \* said they are of: by declaring it, or by naming a candidate that has it

vars == <<log, call, made>>

Records == {log[i] : i \in DOMAIN log}

\* _disposition
Disposition(status, required) ==
    IF status = "FAIL" THEN "reject"
    ELSE IF /\ status = "PASS"
            /\ required \in {"translation-validation", "bounded-agreement", "none"}
    THEN "accept"
    ELSE "retain_unresolved"

\* Fault: freshness is what the caller declared.
FreshnessDeclared(r) ==
    IF r.validation = Nil THEN "unvalidated" ELSE r.validation.freshness

\* _validation_freshness: from the artifact that the validation is bound to.
Freshness(r) ==
    IF r.validation = Nil THEN "unvalidated"
    ELSE IF r.validation.artifact \notin {Nil, r.artifact} THEN "stale-artifact-mismatch"
    ELSE r.validation.freshness

\* _effective_semantic_status
Effective(r) ==
    IF Freshness(r) \in {"stale", "stale-artifact-mismatch"} THEN "UNKNOWN" ELSE r.status

\* select accepts these, and so does a tournament.
Selectable(r) == Disposition(Effective(r), r.required) = "accept"

\* _successor
Successor(r, status, benchmark, validation) ==
    [r EXCEPT !.status = status, !.benchmark = benchmark, !.validation = validation,
              !.disposition = Disposition(status, r.required)]

Proposal(a, required) ==
    [artifact |-> a, required |-> required, status |-> "UNVALIDATED", benchmark |-> Nil,
     validation |-> Nil, disposition |-> "retain_unresolved"]

\* A candidate may be there that was judged before validations were bound.
Legacy ==
    {Successor(Proposal(a, required), "PASS", Nil,
               [judgement |-> "PASS", freshness |-> "current", artifact |-> Nil]) :
       a \in Artifacts, required \in Requirements}

Init ==
    /\ \/ log = <<>> /\ made = {}
       \/ \E r \in Legacy : log = <<r>> /\ made = {<<r.artifact, "PASS">>}
    /\ call = [p \in Procs |-> Nil]

-----------------------------------------------------------------------------
(* Operations: each reads the ledger and commits afterwards *)

Prepare(p, r) == call[p] = Nil /\ call' = [call EXCEPT ![p] = r]

\* A candidate that is the baseline is refused, one that is known is returned.
Register(p, a, required) ==
    /\ a # Baseline
    /\ Proposal(a, required) \notin Records
    /\ Prepare(p, Proposal(a, required))
    /\ UNCHANGED <<log, made>>

\* The caller reports a judgement.  It may declare the artifact that was judged,
\* and is refused if the candidate has another; a caller that does not is not
\* checked, and all that says what was judged is the candidate that it names.
\* What is stale is no judgement.
AttachValidation(p, r, about, judgement, stale, declared) ==
    /\ r \in Records
    /\ ~declared => about = r.artifact
    /\ made' = IF stale THEN made ELSE made \cup {<<about, judgement>>}
    /\ IF about # r.artifact THEN call[p] = Nil /\ UNCHANGED call
       ELSE LET kept == IF stale THEN "UNKNOWN" ELSE judgement
            IN  Prepare(p, Successor(r, kept, r.benchmark,
                             [judgement |-> kept,
                              freshness |-> IF stale THEN "stale" ELSE "current",
                              artifact |-> r.artifact]))
    /\ UNCHANGED log

\* A benchmark keeps the validation and the status that it still supports.
AttachBenchmark(p, r, observation) ==
    /\ r \in Records
    /\ Prepare(p, Successor(r, Effective(r), observation, r.validation))
    /\ UNCHANGED <<log, made>>

\* Another program copies a validation onto a candidate that it is not of.
Copy(p, r, from) ==
    /\ r \in Records /\ from \in Records
    /\ from.validation # Nil
    /\ Prepare(p, Successor(r, from.status, r.benchmark, from.validation))
    /\ UNCHANGED <<log, made>>

\* LocalRecordStore.commit (module RecordStore): an identity is stored once.
Commit(p) ==
    /\ call[p] # Nil
    /\ log' = IF call[p] \in Records THEN log ELSE Append(log, call[p])
    /\ call' = [call EXCEPT ![p] = Nil]
    /\ UNCHANGED made

Next ==
    \E p \in Procs :
        \/ Commit(p)
        \/ /\ Len(log) < MaxRecords
           /\ \/ \E a \in Artifacts \cup {Baseline}, required \in Requirements :
                   Register(p, a, required)
              \/ \E r \in Records :
                   \/ \E about \in Artifacts, j \in Judgements, stale, declared \in BOOLEAN :
                        AttachValidation(p, r, about, j, stale, declared)
                   \/ \E o \in Observations : AttachBenchmark(p, r, o)
                   \/ \E from \in Records : Copy(p, r, from)

Spec == Init /\ [][Next]_vars
-----------------------------------------------------------------------------
(* Properties *)

TypeOK ==
    /\ log \in Seq(Candidate)
    /\ call \in [Procs -> Candidate \cup {Nil}]
    /\ made \subseteq Artifacts \X Judgements

\* docs/adr/0015: search does not decide correctness.  A candidate that select
\* accepts, by whichever of its identities, after whatever benchmarks, stale
\* validations, copied validations and concurrent writers, carries a PASS that
\* a caller reported of this very artifact, declaring it or naming a candidate
\* of it; for a validation that does not say of which artifact it is, one that
\* was reported.
SelectionEarned ==
    \A r \in Records :
        Selectable(r) =>
            /\ r.validation # Nil
            /\ r.validation.judgement = "PASS"
            /\ IF r.validation.artifact = Nil THEN \E a \in Artifacts : <<a, "PASS">> \in made
               ELSE <<r.artifact, "PASS">> \in made

\* The inductive form, of the records that are stored and of those that are
\* about to be: a PASS status comes with a PASS validation, and a PASS validation
\* was reported, even where it was copied.
Sound(r) ==
    /\ r \in Candidate
    /\ r.status = "PASS" => r.validation # Nil /\ r.validation.judgement = "PASS"
    /\ r.validation # Nil /\ r.validation.judgement = "PASS" =>
         IF r.validation.artifact = Nil THEN \E a \in Artifacts : <<a, "PASS">> \in made
         ELSE <<r.validation.artifact, "PASS">> \in made

StatusesEarned ==
    /\ TypeOK
    /\ \A r \in Records : Sound(r)
    /\ \A p \in Procs : call[p] # Nil => Sound(call[p])
=============================================================================
