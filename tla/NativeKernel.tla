---------------------------- MODULE NativeKernel ----------------------------
(***************************************************************************)
(* The packaged MNCS programs mncs.forge.lifecycle and mncs.forge.bundle,   *)
(* which decide instead of the Python projection when the native spine is   *)
(* selected.  They are pure: a fold over the events that the host derives   *)
(* from the ledger, a table of transitions, and the preconditions of a      *)
(* bundle.  A zero digest is Nil.  Counters are omitted where only the host *)
(* compares them with its own.                                              *)
(***************************************************************************)
EXTENDS Naturals, Sequences

CONSTANTS
    Nil,
    MaxEvents   \* the events the ABI holds, 32

ASSUME MaxEventsAssumption == MaxEvents \in Nat

\* A record that the kernel is not told of, and the padding of a history: the
\* fold passes over it.
NoEvent == [kind |-> "Empty"]

\* statlib.dominate: FAIL > UNKNOWN > PASS.
Dominate(a, b) ==
    IF "FAIL" \in {a, b} THEN "FAIL" ELSE IF "UNKNOWN" \in {a, b} THEN "UNKNOWN" ELSE "PASS"

\* linelib.valid_root_or_successor is not in this repository.  It accepts the
\* successor of what is current and a root; whether it accepts a root when
\* something is current is the parameter roots.
ValidRootOrSuccessor(roots, parent, current) ==
    parent = current \/ (roots /\ parent = Nil)

ProjectionInitial ==
    [epoch |-> Nil, parentEpoch |-> Nil, candidate |-> Nil, parentCandidate |-> Nil,
     evidence |-> "UNKNOWN", observed |-> 0, disposition |-> "Undisposed",
     frozen |-> FALSE, evaluated |-> FALSE, lineage |-> TRUE]

Invalid(s) == [s EXCEPT !.lineage = FALSE]

If(s, valid, next) == IF valid THEN next ELSE Invalid(s)

ProjectEpoch(roots, s, e) ==
    If(s, e.epoch # Nil /\ ValidRootOrSuccessor(roots, e.parent, s.epoch),
       [ProjectionInitial EXCEPT !.epoch = e.epoch, !.parentEpoch = e.parent,
                                 !.lineage = s.lineage])

\* Fault: a successor inherits the disposition of the candidate before it.
ProjectCandidateInheriting(roots, s, e) ==
    If(s, /\ s.epoch # Nil /\ e.epoch = s.epoch
          /\ e.candidate # Nil /\ e.parent # e.candidate
          /\ ValidRootOrSuccessor(roots, e.parent, s.candidate),
       [s EXCEPT !.candidate = e.candidate, !.parentCandidate = e.parent,
                 !.evidence = "UNKNOWN", !.observed = 0])

ProjectCandidate(roots, s, e) ==
    If(s, /\ s.epoch # Nil /\ e.epoch = s.epoch
          /\ e.candidate # Nil /\ e.parent # e.candidate
          /\ ValidRootOrSuccessor(roots, e.parent, s.candidate),
       [ProjectionInitial EXCEPT !.epoch = s.epoch, !.parentEpoch = s.parentEpoch,
                                 !.candidate = e.candidate, !.parentCandidate = e.parent,
                                 !.lineage = s.lineage])

JoinEvidence(s, status) == IF s.observed = 0 THEN status ELSE Dominate(s.evidence, status)

ProjectEvidence(s, e) ==
    If(s, s.candidate # Nil /\ e.candidate = s.candidate /\ ~s.frozen /\ ~s.evaluated,
       [s EXCEPT !.evidence = JoinEvidence(s, e.status), !.observed = @ + 1])

ProjectSelected(s, e) ==
    If(s, e.candidate = s.candidate /\ s.disposition = "Undisposed",
       [s EXCEPT !.disposition = "Selected"])

ProjectRejected(s, e) ==
    If(s, e.candidate = s.candidate /\ s.disposition = "Undisposed",
       [s EXCEPT !.disposition = "Rejected", !.evidence = "FAIL"])

ProjectFrozen(s, e) ==
    If(s, e.candidate = s.candidate /\ s.disposition = "Selected" /\ ~s.frozen,
       [s EXCEPT !.frozen = TRUE])

\* The evaluation joins the evidence too, which no stage after it reads.
ProjectEvaluation(s, e) ==
    If(s, /\ e.candidate = s.candidate /\ s.disposition = "Selected"
          /\ s.frozen /\ ~s.evaluated,
       [s EXCEPT !.evaluated = TRUE])

ProjectEvent(roots, s, e) ==
    CASE e.kind = "Empty"               -> s
      [] e.kind = "EpochStarted"        -> ProjectEpoch(roots, s, e)
      [] e.kind = "CandidateRegistered" -> ProjectCandidate(roots, s, e)
      [] e.kind = "EvidenceObserved"    -> ProjectEvidence(s, e)
      [] e.kind = "CandidateSelected"   -> ProjectSelected(s, e)
      [] e.kind = "CandidateRejected"   -> ProjectRejected(s, e)
      [] e.kind = "CandidateFrozen"     -> ProjectFrozen(s, e)
      [] e.kind = "EvaluationRecorded"  -> ProjectEvaluation(s, e)

ProjectEvents(roots, events) ==
    LET state[n \in 0..Len(events)] ==
          IF n = 0 THEN ProjectionInitial ELSE ProjectEvent(roots, state[n - 1], events[n])
    IN  state[Len(events)]

UndisposedStage(s, required) ==
    IF s.observed = 0 THEN "CandidateRegistered"
    ELSE IF s.evidence = "PASS" /\ s.observed >= required THEN "CandidateReady"
    ELSE "EvidenceIncomplete"

ProjectStage(s, required) ==
    CASE ~s.lineage        -> "AmbiguousHistory"
      [] s.lineage /\ s.epoch = Nil -> "NoEpoch"
      [] s.lineage /\ s.epoch # Nil /\ s.candidate = Nil -> "EpochActive"
      [] OTHER ->
           IF s.evaluated THEN "EvaluationComplete"
           ELSE IF s.frozen THEN "CandidateFrozen"
           ELSE IF s.disposition = "Undisposed" THEN UndisposedStage(s, required)
           ELSE IF s.disposition = "Selected" THEN "CandidateSelected"
           ELSE "CandidateRejected"

-----------------------------------------------------------------------------
(* apply: the transitions that the host asks for before it commits *)

Refused(stage, reason) == [stage |-> stage, status |-> "FAIL", reason |-> reason]

Apply(stage, operation, evidence) ==
    CASE stage = "AmbiguousHistory" -> Refused(stage, 90)
      [] operation = "BeginEpoch" /\ stage # "AmbiguousHistory" ->
           IF stage = "NoEpoch"
           THEN [stage |-> "EpochActive", status |-> "PASS", reason |-> 0]
           ELSE Refused(stage, 2)
      [] operation = "RegisterCandidate" /\ stage # "AmbiguousHistory" ->
           IF stage = "EpochActive"
           THEN [stage |-> "CandidateRegistered", status |-> "UNKNOWN", reason |-> 0]
           ELSE Refused(stage, 4)
      [] operation = "SelectCandidate" /\ stage # "AmbiguousHistory" ->
           IF stage = "CandidateReady" /\ evidence = "PASS"
           THEN [stage |-> "CandidateSelected", status |-> "PASS", reason |-> 0]
           ELSE Refused(stage, 8)
      [] operation = "RejectCandidate" /\ stage # "AmbiguousHistory" ->
           IF stage \in {"CandidateRegistered", "EvidenceIncomplete", "CandidateReady"}
           THEN [stage |-> "CandidateRejected", status |-> "FAIL", reason |-> 9]
           ELSE Refused(stage, 10)
      [] operation = "FreezeCandidate" /\ stage # "AmbiguousHistory" ->
           IF stage = "CandidateSelected"
           THEN [stage |-> "CandidateFrozen", status |-> "PASS", reason |-> 0]
           ELSE Refused(stage, 11)

-----------------------------------------------------------------------------
(* mncs.forge.bundle: whether a bundle may be built, and why not *)

\* Fault: the freeze is not compared with what is on disk.
BundleDrifted(b) ==
    CASE ~b.valid -> "InvalidRequest"
      [] b.valid /\ b.candidate = Nil -> "NoCandidate"
      [] b.valid /\ b.candidate # Nil ->
           IF b.mode = "evaluator" /\ ~b.frozen THEN "FreezeMissing"
           ELSE IF b.requested # b.candidate THEN "CandidateMismatch"
           ELSE IF ~b.current THEN "CandidateStale"
           ELSE IF b.mode = "evaluator" /\ ~b.selected THEN "SelectionMissing"
           ELSE "Ready"

BundlePreconditions(b) ==
    CASE ~b.valid -> "InvalidRequest"
      [] b.valid /\ b.candidate = Nil -> "NoCandidate"
      [] b.valid /\ b.candidate # Nil ->
           IF b.mode = "evaluator" /\ ~b.frozen THEN "FreezeMissing"
           ELSE IF b.requested # b.candidate THEN "CandidateMismatch"
           ELSE IF ~b.current THEN "CandidateStale"
           ELSE IF b.mode = "evaluator" /\ ~b.selected THEN "SelectionMissing"
           ELSE IF b.mode = "evaluator" /\ ~b.freezeCurrent THEN "FreezeStale"
           ELSE "Ready"

-----------------------------------------------------------------------------
(* What the host asks of the kernel.  Answers are cached by their request,   *)
(* which determines them, so that the cache has no state worth modelling; a  *)
(* kernel that is not available refuses every operation.                     *)

\* A history longer than the ABI holds is refused before the kernel is asked.
LifecycleProjection(roots, events, required) ==
    LET state == ProjectEvents(roots, events)
    IN  [bounded |-> Len(SelectSeq(events, LAMBDA e : e # NoEvent)) <= MaxEvents,
         state   |-> state,
         stage   |-> ProjectStage(state, required)]

\* Is the answer to operation the transition that the host is about to take?
LifecyclePreflight(stage, operation, evidence, expected) ==
    Apply(stage, operation, evidence) = expected

BundlePreconditionProjection(b) ==
    b.mode \in {"development", "evaluator"} /\ BundlePreconditions(b) = "Ready"
=============================================================================
