---------------------------- MODULE Development ----------------------------
(***************************************************************************)
(* The MNCS development loop, MncsDevelopmentService.failure_loop: a test  *)
(* provider runs, a failing test is debugged, an exact replacement repairs *)
(* the source, the verification plan is made anew, the test provider runs  *)
(* again, and a report with a verdict is kept.                             *)
(*                                                                         *)
(* Providers are separate programs that leave their answers in files of    *)
(* the project.  The names of the files are those of every call and the    *)
(* exit status is not looked at: an answer that is read may be that of an  *)
(* earlier call, or of a call that another process is making.  An answer   *)
(* is modelled by what the loop or the properties tell apart: a run names  *)
(* the call and the phase that it was made in, the identity of a witness   *)
(* the call that imported it and whether it is valid.                      *)
(*                                                                         *)
(* There is one source: the code does not compare the path to repair with  *)
(* the source of the plan.  A provider finds what it reads and leaves what *)
(* it writes in one step.                                                  *)
(***************************************************************************)
EXTENDS Naturals, Sequences, FiniteSets

CONSTANTS
    Procs,         \* processes that offer the operation
    Versions,      \* contents of the source
    Selections,    \* what plans select to be tested
    Repair,        \* what the requested replacement makes of a version, if it
                   \* matches exactly once
    Situations,    \* files at the beginning, an Actions handoff for example, and
                   \* bounds: what calls ask for, how many calls and edits
    PlanSet,       \* plans that RAVEL makes
    Observations,  \* what witnesses contain of the execution
    Nil

Verdicts == {"PASS", "FAIL", "UNKNOWN"}
Depths == {"minimal", "standard", "deep"}
Labels ==
    {"capabilities", "validation", "open", "inspection", "trace", "provenance", "replay",
     "minimization", "diagnosis"}
Names ==
    Labels \cup {"plan", "post-plan", "plan.after", "result", "result.after", "witness", "handoff"}

\* authorized: the authority lets the call run providers.
\* permitted: the path to repair is in a scope that the authority may write.
\* family: everything that a proof of the family needs is configured.
\* repair: nothing, a replacement without a path or a path without one, or all.
Request ==
    [mode : {"invoke", "consume"}, plan : BOOLEAN, post : BOOLEAN, ravel : BOOLEAN,
     debug : BOOLEAN, family : BOOLEAN, repair : {"none", "pathless", "partial", "full"},
     authorized : BOOLEAN, permitted : BOOLEAN, depth : Depths, minimize : BOOLEAN]

Plan ==
    [source : Versions, tests : Selections,
     scope : {"local", "selected_repositories"}, sufficient : BOOLEAN]

ASSUME DevelopmentAssumption ==
    /\ DOMAIN Repair \subseteq Versions
    /\ \A v \in DOMAIN Repair : Repair[v] \in Versions
    /\ PlanSet \subseteq Plan
    /\ Observations \subseteq {"none", "partial", "complete", "foreign"}
    /\ \A s \in Situations :
         /\ DOMAIN s.files = Names
         /\ s.requests \subseteq Request /\ s.calls \in Nat /\ s.edits \in Nat

\* What lies in the files at the beginning was left by providers: the diagnosis
\* has the form of one, a witness and a validation of it say what the identity of
\* the witness stands for, and the second result is that of a second test.
ASSUME AnswersAssumption ==
    /\ Nil \notin Versions
    /\ \A s \in Situations :
         LET d == s.files["diagnosis"]
             w == s.files["witness"]
             v == s.files["validation"]
             t == s.files["result.after"]
         IN  /\ d # Nil => d = [witness |-> d.witness, status |-> d.status]
             /\ w # Nil => w.valid = w.id[2]
             /\ v # Nil => v.valid = v.witness[2]
             /\ t # Nil => t.run[2] = "after"

VARIABLES
    source,     \* the source file
    files,      \* the answers of the providers
    call,       \* the call that each process has in hand
    calls,      \* calls so far; their number identifies them
    reports,    \* what calls have reported
    edits,      \* edits so far
    bound       \* the situation of this behaviour

vars == <<source, files, call, calls, reports, edits, bound>>

Idle == [pc |-> "idle"]

Init ==
    /\ source \in Versions
    /\ bound \in Situations
    /\ files = bound.files
    /\ call = [p \in Procs |-> Idle]
    /\ calls = 0
    /\ reports = {}
    /\ edits = 0

-----------------------------------------------------------------------------
(* Steps of a call *)

Update(p, c) == call' = [call EXCEPT ![p] = c]

\* A ForgeError: the call ends without a report.
Raise(p) == Update(p, Idle) /\ UNCHANGED reports

\* _run: the provider leaves one of these answers, or none; it cannot be
\* executed, or is cut short, or exits.
Provide(p, name, answers, next) ==
    /\ files' = files \/ \E a \in answers : files' = [files EXCEPT ![name] = a]
    /\ Raise(p) \/ (Update(p, next) /\ UNCHANGED reports)
    /\ UNCHANGED <<source, calls, edits, bound>>

\* The plan and the test that the verdict of a call is about.
Final(c) == IF c.retested # Nil THEN [plan |-> c.after, test |-> c.retested]
            ELSE [plan |-> c.plan, test |-> c.result]

\* The report of a call says what was read of the answers that it rests on.  The
\* digests beside it are taken from the files once more, and may be those of
\* another call's answers: they are left out.
ReportOf(c, verdict) ==
    [verdict |-> verdict, failed |-> c.result.verdict = "FAIL", written |-> c.written,
     plan |-> Final(c).plan, test |-> Final(c).test, family |-> c.family]

\* _persist
Report(p, c, verdict) == reports' = reports \cup {ReportOf(c, verdict)} /\ Update(p, Idle)

\* A test PASS is not a PASS of the call when the plan wants more.
LocalVerdict(plan, test) ==
    IF plan # Nil /\ ~plan.sufficient THEN "UNKNOWN" ELSE test.verdict

NeedsFamily(plan) == plan # Nil /\ plan.scope = "selected_repositories"

-----------------------------------------------------------------------------
(* The test *)

\* The arguments are checked, and the plans are read.  A call that is refused
\* here changes nothing.
Begin(p, r) ==
    /\ call[p] = Idle
    /\ calls < bound.calls
    /\ r.authorized
    /\ r.plan => files["plan"] # Nil
    /\ r.post => files["post-plan"] # Nil
    /\ calls' = calls + 1
    /\ Update(p, [pc |-> IF r.plan THEN "bind" ELSE "test", id |-> calls + 1, request |-> r,
                  plan |-> IF r.plan THEN files["plan"] ELSE Nil,
                  post |-> IF r.post THEN files["post-plan"] ELSE Nil,
                  result |-> Nil, todo |-> <<>>, found |-> {}, witness |-> Nil,
                  validation |-> Nil, confidence |-> Nil, diagnosis |-> Nil, written |-> Nil,
                  after |-> Nil, retested |-> Nil, family |-> Nil])
    /\ UNCHANGED <<source, files, reports, edits, bound>>

\* The plan has to be one of the source of now, and a repair of it needs another.
Bind(p) ==
    /\ call[p].pc = "bind"
    /\ LET c == call[p]
           r == c.request
       IN  IF /\ c.plan.source = source
              /\ r.repair \in {"partial", "full"} => r.post \/ r.ravel
           THEN Update(p, [c EXCEPT !.pc = "test"]) /\ UNCHANGED reports
           ELSE Raise(p)
    /\ UNCHANGED <<source, files, calls, edits, bound>>

\* mncs-test runs what the plan selects that it finds, be it the one that the
\* loop has read or a later one.  An answer without the form of one, or a failure
\* that names no failing test, is malformed.
Results(c, phase, plan) ==
    [run : {<<c.id, phase>>}, tests : IF plan = Nil THEN {"all"} ELSE Selections,
     verdict : Verdicts \cup {"malformed"}]

Test(p) ==
    /\ call[p].pc = "test"
    /\ call[p].request.mode = "invoke"
    /\ Provide(p, "result", Results(call[p], "before", call[p].plan),
               [call[p] EXCEPT !.pc = "read"])

\* The answers of a provider that Actions ran are there already.
Consume(p) ==
    /\ call[p].pc = "test"
    /\ call[p].request.mode = "consume"
    /\ files["result"] # Nil
    /\ Update(p, [call[p] EXCEPT !.pc = "read"])
    /\ UNCHANGED <<source, files, calls, reports, edits, bound>>

\* _validate_test_result, _validate_check
Wellformed(test) == test # Nil /\ test.verdict \in Verdicts

\* The result is one of the tests that were planned.
Planned(test, plan) == Wellformed(test) /\ (plan # Nil => test.tests = plan.tests)

WithResult(p) == [call[p] EXCEPT !.result = files["result"]]

\* The names of the debug queries, in order; import-test makes the witness.
\* Minimization makes the loop deep.  What is known need not be asked.
Queries(r, known) ==
    LET depth == IF r.minimize THEN "deep" ELSE r.depth
        When(b, l) == IF b /\ l \notin known THEN <<l>> ELSE <<>>
    IN  When(depth = "deep", "capabilities") \o When(r.mode = "invoke", "import")
          \o When(TRUE, "validation") \o When(depth = "deep", "open")
          \o When(TRUE, "inspection")
          \o When(depth # "minimal", "trace") \o When(depth # "minimal", "provenance")
          \o When(depth = "deep", "replay") \o When(r.minimize, "minimization")
          \o When(TRUE, "diagnosis")

Asked(r) ==
    LET all == Queries(r, {}) IN {all[i] : i \in 1..Len(all)} \ {"import"}

\* Answers of a handoff that have the digest that it gives need no provider.
Reusable ==
    {l \in DOMAIN files["handoff"].references :
       files[l] # Nil /\ files[l] = files["handoff"].references[l]}

\* The handoff has established something.
HandedOver ==
    files["handoff"] # Nil /\ files["handoff"].verdict = "PASS" /\ files["witness"] # Nil

\* What is not a failure needs no debugger.
ReadNoFailure(p) ==
    /\ call[p].pc = "read"
    /\ Planned(files["result"], call[p].plan)
    /\ files["result"].verdict # "FAIL"
    /\ IF NeedsFamily(call[p].plan)
       THEN Update(p, [WithResult(p) EXCEPT !.pc = "family"]) /\ UNCHANGED reports
       ELSE Report(p, WithResult(p), LocalVerdict(call[p].plan, files["result"]))
    /\ UNCHANGED <<source, files, calls, edits, bound>>

\* A failure does, if one is declared.
ReadFailure(p) ==
    /\ call[p].pc = "read"
    /\ Planned(files["result"], call[p].plan)
    /\ files["result"].verdict = "FAIL"
    /\ LET r == call[p].request
       IN  \/ ~r.debug /\ Report(p, WithResult(p), "FAIL")
           \/ /\ r.debug /\ r.mode = "consume"
              /\ Update(p, [WithResult(p) EXCEPT !.pc = "handoff"]) /\ UNCHANGED reports
           \/ /\ r.debug /\ r.mode = "invoke"
              /\ Update(p, [WithResult(p) EXCEPT !.pc = "debug", !.todo = Queries(r, {})])
              /\ UNCHANGED reports
    /\ UNCHANGED <<source, files, calls, edits, bound>>

\* Actions has left a witness, and may have left answers about it.  The digests
\* of these are compared in one step.
Handoff(p) ==
    /\ call[p].pc = "handoff"
    /\ IF HandedOver
       THEN /\ Update(p, [call[p] EXCEPT !.pc = "debug", !.found = Reusable,
                                         !.todo = Queries(call[p].request, Reusable)])
            /\ UNCHANGED reports
       ELSE Report(p, call[p], "FAIL")
    /\ UNCHANGED <<source, files, calls, edits, bound>>

\* No result, a malformed one, or one of tests that were not planned.
ReadInvalid(p) ==
    /\ call[p].pc = "read"
    /\ ~Planned(files["result"], call[p].plan)
    /\ Raise(p)
    /\ UNCHANGED <<source, files, calls, edits, bound>>

-----------------------------------------------------------------------------
(* The debugger *)

\* import-test reproduces the failure of the result that is in the file.  An
\* observation of another execution is one that is malformed for the loop.
Witnesses(c) ==
    IF files["result"] = Nil THEN {}
    ELSE {[id |-> <<c.id, v>>, run |-> files["result"].run, valid |-> v, observation |-> o] :
            v \in BOOLEAN, o \in Observations}

\* The other operations speak of the witness that is in the file.  An answer
\* without the form of one is refused with the diagnosis.
Answers(l) ==
    LET w == files["witness"]
    IN  IF w = Nil THEN {}
        ELSE CASE l = "validation" -> [witness : {w.id}, valid : {w.valid}]
               [] l = "diagnosis"  -> [witness : {w.id},
                                       status : {"sufficient", "unknown", "malformed"}]
               [] OTHER            -> [witness : {w.id}]

\* What is there after its query is taken for the answer.
Debug(p) ==
    /\ call[p].pc = "debug"
    /\ call[p].todo # <<>>
    /\ LET l == Head(call[p].todo)
           next == [call[p] EXCEPT !.todo = Tail(@),
                                   !.found = @ \cup {k \in {l} \ {"import"} : files'[k] # Nil}]
       IN  IF l = "import" THEN Provide(p, "witness", Witnesses(call[p]), next)
           ELSE Provide(p, l, Answers(l), next)

\* Fault: a witness is taken for one of the test that failed.
ReproducesAny(w, result) == TRUE

\* integration.run_id, integration.test_id
Reproduces(w, result) == w.run = result.run

\* _validate_native_observation: it is one of the execution of the witness.
ObservationValid(w) == w.observation # "foreign"

\* _validate_debug_diagnosis: it is one of this witness.
DiagnosisValid(d, w) == d # Nil /\ d.witness = w.id /\ d.status # "malformed"

\* Everything that was asked for is there, and it suffices.
Established(c, d) == Asked(c.request) \subseteq c.found /\ d.status = "sufficient"

\* _native_diagnosis: what the diagnosis rests on.
Confidence(w) ==
    CASE w.observation = "complete" -> "native_runtime_observation"
      [] w.observation = "partial"  -> "partial_native_observation"
      [] OTHER                      -> "bounded_provider_evidence"

\* Whatever is missing from here on, a test that failed has failed.
ReadWitness(p) ==
    /\ call[p].pc = "debug"
    /\ call[p].todo = <<>>
    /\ IF files["witness"] = Nil THEN Report(p, call[p], "FAIL")
       ELSE /\ Update(p, [call[p] EXCEPT !.pc = "validate", !.witness = files["witness"],
                                         !.confidence = Confidence(files["witness"])])
            /\ UNCHANGED reports
    /\ UNCHANGED <<source, files, calls, edits, bound>>

\* The validation has to say that a witness is valid; of which it says so is not
\* looked at.  Then the witness has to be one of the failure.
ReadValidation(p) ==
    /\ call[p].pc = "validate"
    /\ LET c == [call[p] EXCEPT !.pc = "conclude", !.validation = files["validation"]]
           valid == c.validation # Nil /\ c.validation.valid
       IN  \/ ~valid /\ Report(p, c, "FAIL")
           \/ valid /\ ~ObservationValid(c.witness) /\ Raise(p)
           \/ /\ valid /\ ObservationValid(c.witness)
              /\ IF Reproduces(c.witness, c.result) THEN Update(p, c) /\ UNCHANGED reports
                 ELSE Report(p, c, "FAIL")
    /\ UNCHANGED <<source, files, calls, edits, bound>>

\* A diagnosis that was found is read, and what to do about the failure is
\* decided.
ReadDiagnosis(p) ==
    /\ call[p].pc = "conclude"
    /\ LET c == call[p]
           d == files["diagnosis"]
       IN  \/ "diagnosis" \notin c.found /\ Report(p, c, "FAIL")
           \/ "diagnosis" \in c.found /\ ~DiagnosisValid(d, c.witness) /\ Raise(p)
           \/ /\ "diagnosis" \in c.found /\ DiagnosisValid(d, c.witness)
              /\ IF Established(c, d) /\ c.request.repair # "none"
                 THEN Update(p, [c EXCEPT !.pc = "repair", !.diagnosis = d]) /\ UNCHANGED reports
                 ELSE Report(p, [c EXCEPT !.diagnosis = d], "FAIL")
    /\ UNCHANGED <<source, files, calls, edits, bound>>

-----------------------------------------------------------------------------
(* The repair *)

\* post-repair verification plan is not bound to the proposed source result
Bound(post, after) == post = Nil \/ post.source = after

\* _source_change: the source is read and the change is checked.
Prepare(p) ==
    /\ call[p].pc = "repair"
    /\ LET c == call[p]
       IN  IF /\ c.request.repair = "full" /\ c.request.permitted
              /\ source \in DOMAIN Repair
              /\ c.plan # Nil => Bound(c.post, Repair[source])
           THEN Update(p, [c EXCEPT !.pc = "write", !.written = Repair[source]])
                /\ UNCHANGED reports
           ELSE Raise(p)
    /\ UNCHANGED <<source, files, calls, edits, bound>>

\* What was read is replaced, whatever is in the file by now.  The code writes the
\* path that it was asked to repair, which need not be the one that the plan names.
Write(p) ==
    /\ call[p].pc = "write"
    /\ source' = call[p].written
    /\ LET c == call[p]
       IN  IF c.plan = Nil THEN Update(p, [c EXCEPT !.pc = "retest"])
           ELSE IF c.post # Nil THEN Update(p, [c EXCEPT !.pc = "retest", !.after = c.post])
           ELSE Update(p, [c EXCEPT !.pc = "replan"])
    /\ UNCHANGED <<files, calls, reports, edits, bound>>

\* RAVEL makes a plan of the source that it finds.
Plans == {q \in PlanSet : q.source = source}

\* _regenerate_verification_plan
Regenerate(p) ==
    /\ call[p].pc = "replan"
    /\ Provide(p, "plan.after", Plans, [call[p] EXCEPT !.pc = "replanned"])

ReadPlan(p) ==
    /\ call[p].pc = "replanned"
    /\ IF files["plan.after"] = Nil THEN Raise(p)
       ELSE /\ Update(p, [call[p] EXCEPT !.pc = "retest", !.after = files["plan.after"]])
            /\ UNCHANGED reports
    /\ UNCHANGED <<source, files, calls, edits, bound>>

Retest(p) ==
    /\ call[p].pc = "retest"
    /\ Provide(p, "result.after", Results(call[p], "after", call[p].after),
               [call[p] EXCEPT !.pc = "reread"])

\* The repair is reported with the verdict of the second test.
Verify(p) ==
    /\ call[p].pc = "reread"
    /\ LET c == [call[p] EXCEPT !.retested = files["result.after"]]
       IN  IF ~Planned(files["result.after"], c.after) THEN Raise(p)
           ELSE IF NeedsFamily(c.after)
           THEN Update(p, [c EXCEPT !.pc = "family"]) /\ UNCHANGED reports
           ELSE Report(p, c, LocalVerdict(c.after, files["result.after"]))
    /\ UNCHANGED <<source, files, calls, edits, bound>>

-----------------------------------------------------------------------------
(* The family *)

\* Fault: only a failure of the family counts.
FamilyVerdictLenient(family, test) == IF family = "FAIL" THEN family ELSE test.verdict

FamilyVerdict(family, test) == IF family \in {"FAIL", "UNKNOWN"} THEN family ELSE test.verdict

\* _validate_selected_family_proof
ProofOf(proof, plan) == proof.plan = plan

\* _run_selected_family_proof: the Actions adapter proves the repositories that
\* the plan selects.  What it cannot be asked, or does not answer, is UNKNOWN;
\* a proof of another plan is refused.
FamilyProof(p) ==
    /\ call[p].pc = "family"
    /\ LET f == Final(call[p])
       IN  \/ Report(p, call[p], FamilyVerdict("UNKNOWN", f.test))
          \/ /\ call[p].request.family
             /\ \E proof \in [plan : PlanSet, status : Verdicts] :
                  IF ProofOf(proof, f.plan)
                  THEN Report(p, [call[p] EXCEPT !.family = proof],
                              FamilyVerdict(proof.status, f.test))
                  ELSE Raise(p)
    /\ UNCHANGED <<source, files, calls, edits, bound>>

-----------------------------------------------------------------------------
(* The project *)

\* Somebody edits the source.
Edit ==
    /\ edits < bound.edits
    /\ edits' = edits + 1
    /\ source' \in Versions \ {source}
    /\ UNCHANGED <<files, call, calls, reports, bound>>

\* Somebody asks RAVEL for a plan of the source.
Replan ==
    /\ edits < bound.edits
    /\ edits' = edits + 1
    /\ \E q \in Plans : files' = [files EXCEPT !["plan"] = q]
    /\ UNCHANGED <<source, call, calls, reports, bound>>

Next ==
    \/ Edit \/ Replan
    \/ \E p \in Procs :
         \/ \E r \in bound.requests : Begin(p, r)
         \/ Bind(p) \/ Test(p) \/ Consume(p)
         \/ ReadNoFailure(p) \/ ReadFailure(p) \/ ReadInvalid(p) \/ Handoff(p)
         \/ Debug(p) \/ ReadWitness(p) \/ ReadValidation(p) \/ ReadDiagnosis(p)
         \/ Prepare(p) \/ Write(p) \/ Regenerate(p) \/ ReadPlan(p) \/ Retest(p) \/ Verify(p)
         \/ FamilyProof(p)

Spec == Init /\ [][Next]_vars
-----------------------------------------------------------------------------
(* Properties *)

\* Whatever answers of earlier or concurrent calls lie in the files, a source is
\* written only after a result that says FAIL, of the tests of the plan; with a
\* witness of the run of that very result, and of its execution; with a diagnosis
\* that says it suffices and speaks of that very witness, after all that was
\* asked for has been found; and, of a plan that was given for the repaired
\* source, only what that plan is about.  Nothing says that the result is one of
\* this call or of this version.  The witness is valid if the validation that was
\* read is one of it, which the loop does not look at.
RepairsEarned ==
    \A p \in Procs :
        LET c == call[p]
        IN  c.pc = "write" =>
              /\ c.result.verdict = "FAIL"
              /\ Planned(c.result, c.plan)
              /\ c.witness.run = c.result.run
              /\ c.witness.observation # "foreign"
              /\ c.validation.witness = c.witness.id => c.witness.valid
              /\ c.diagnosis = [witness |-> c.witness.id, status |-> "sufficient"]
              /\ Asked(c.request) \subseteq c.found
              /\ c.plan # Nil /\ c.post # Nil => c.post.source = c.written

\* A failure that nothing was written for is reported as one, and a FAIL is that
\* of the test or of the family.  A PASS is that of the tests of its plan, of a
\* second test if something was written, and goes as far as the plan wants: by
\* itself, or with a proof of the selected repositories.  After a repair a test
\* that failed again may be reported as UNKNOWN, if the plan is not sufficient
\* or the family is not established.
ReportsEarned ==
    \A m \in reports :
        /\ m.failed /\ m.written = Nil => m.verdict = "FAIL"
        /\ m.verdict = "FAIL" =>
             m.test.verdict = "FAIL" \/ m.family = [plan |-> m.plan, status |-> "FAIL"]
        /\ m.test.verdict # "PASS" => m.verdict # "PASS"
        /\ m.verdict = "PASS" =>
             /\ m.written # Nil => m.test.run[2] = "after"
             /\ m.plan # Nil =>
                  /\ m.test.tests = m.plan.tests
                  /\ m.plan.sufficient \/ NeedsFamily(m.plan)
                  /\ NeedsFamily(m.plan) => m.family = [plan |-> m.plan, status |-> "PASS"]
=============================================================================
