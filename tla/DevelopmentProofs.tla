------------------------- MODULE DevelopmentProofs -------------------------
(***************************************************************************)
(* What the development loop promises, for every number of processes and   *)
(* calls, every plan and every answer that providers leave in the files.   *)
(*                                                                         *)
(* Neither promise is inductive: each speaks of the end of a call, and     *)
(* rests on what the call has read on its way there.  The invariant says,  *)
(* phase by phase, what a call has in hand; of the files it says only what *)
(* form their answers have, since other calls overwrite them between any   *)
(* two steps.                                                              *)
(***************************************************************************)
EXTENDS Development, TLAPS

Fields ==
    {"pc", "id", "request", "plan", "post", "result", "todo", "found", "witness", "validation",
     "confidence", "diagnosis", "written", "after", "retested", "family"}

\* Until a repair is decided on, and after.
Early == {"bind", "test", "read", "handoff", "debug", "validate", "conclude"}
Late == {"write", "replan", "replanned", "retest", "reread"}
Phases == Early \cup Late \cup {"repair", "family"}

\* What has gone to the debugger.
Failed(c) == c.result.verdict = "FAIL" /\ Planned(c.result, c.plan)

\* Validity is part of the identity of a witness.
Known(w) == w.valid = w.id[2]

\* The witness is one of the failure, and valid if the validation is one of it.
Witnessed(c) ==
    /\ c.witness.run = c.result.run
    /\ c.witness.observation # "foreign"
    /\ c.validation.witness = c.witness.id => c.witness.valid

\* The test that failed, and what was found out about it.
Diagnosed(c) ==
    /\ Failed(c)
    /\ Witnessed(c)
    /\ c.diagnosis = [witness |-> c.witness.id, status |-> "sufficient"]
    /\ Asked(c.request) \subseteq c.found

\* A call that comes to the family has passed no test that it repaired nothing
\* for, and needs what it comes for.
Tested(c) ==
    /\ \/ c.written = Nil /\ c.retested = Nil /\ c.result.verdict # "FAIL"
       \/ c.written # Nil /\ c.retested # Nil /\ c.retested.run[2] = "after"
    /\ Planned(Final(c).test, Final(c).plan)
    /\ NeedsFamily(Final(c).plan)

\* What a call has in hand in each of its phases.
InHand(c) ==
    /\ DOMAIN c = Fields
    /\ c.pc \in Phases
    /\ c.pc \in Early => c.written = Nil /\ c.retested = Nil
    /\ c.pc \in {"handoff", "debug", "validate", "conclude"} => Failed(c)
    /\ c.pc = "debug" => c.todo \in Seq(Labels \cup {"import"})
    /\ c.pc = "validate" => Known(c.witness)
    /\ c.pc = "conclude" => Witnessed(c)
    /\ c.pc \in {"repair", "write"} => Diagnosed(c)
    /\ c.pc = "write" => (c.plan # Nil /\ c.post # Nil => c.post.source = c.written)
    /\ c.pc \in Late => c.written # Nil
    /\ c.pc = "family" => Tested(c)

CallsInv ==
    /\ DOMAIN call = Procs
    /\ \A p \in Procs : call[p] = Idle \/ InHand(call[p])

\* The form of the answers that the promises quote.
Formed(name, a) ==
    /\ name = "diagnosis" => a = [witness |-> a.witness, status |-> a.status]
    /\ name = "witness" => Known(a)
    /\ name = "validation" => a.valid = a.witness[2]
    /\ name = "result.after" => a.run[2] = "after"

FilesInv ==
    /\ DOMAIN files = Names
    /\ \A n \in Names : files[n] # Nil => Formed(n, files[n])

\* What ReportsEarned says of one report.
Earned(m) ==
    /\ m.failed /\ m.written = Nil => m.verdict = "FAIL"
    /\ m.verdict = "FAIL" =>
         m.test.verdict = "FAIL" \/ m.family = [plan |-> m.plan, status |-> "FAIL"]
    /\ m.test.verdict # "PASS" => m.verdict # "PASS"
    /\ m.verdict = "PASS" =>
         /\ m.written # Nil => m.test.run[2] = "after"
         /\ m.plan # Nil =>
              /\ m.test.tests = m.plan.tests
              /\ m.plan.sufficient \/ NeedsFamily(m.plan)
              /\ NeedsFamily(m.plan) => m.family = [plan |-> m.plan, status |-> "PASS"]

DInv == CallsInv /\ FilesInv /\ ReportsEarned

-----------------------------------------------------------------------------
(* The queries of a call *)

\* The debugger is asked for answers that have a label, and to import the test:
\* _debug_commands names nothing else, and the diagnosis last of all, unless it
\* is known.
LEMMA QueriesEnd ==
    ASSUME NEW r, NEW known
    PROVE  \E s \in Seq(Labels \cup {"import"}) :
               Queries(r, known)
                 = s \o (IF "diagnosis" \notin known THEN <<"diagnosis">> ELSE <<>>)
<1> DEFINE S == Seq(Labels \cup {"import"})
           When(b, l) == IF b /\ l \notin known THEN <<l>> ELSE <<>>
           depth == IF r.minimize THEN "deep" ELSE r.depth
<1>1. ASSUME NEW b, NEW l \in Labels \cup {"import"}
      PROVE  When(b, l) \in S
  BY <<>> \in S, <<l>> \in S
<1>2. /\ When(depth = "deep", "capabilities") \in S
      /\ When(r.mode = "invoke", "import") \in S
      /\ When(TRUE, "validation") \in S
      /\ When(depth = "deep", "open") \in S
      /\ When(TRUE, "inspection") \in S
      /\ When(depth # "minimal", "trace") \in S
      /\ When(depth # "minimal", "provenance") \in S
      /\ When(depth = "deep", "replay") \in S
      /\ When(r.minimize, "minimization") \in S
  BY <1>1 DEF Labels
<1>3. \A s, t \in S : s \o t \in S
  OBVIOUS
<1> DEFINE front ==
        When(depth = "deep", "capabilities") \o When(r.mode = "invoke", "import")
          \o When(TRUE, "validation") \o When(depth = "deep", "open")
          \o When(TRUE, "inspection")
          \o When(depth # "minimal", "trace") \o When(depth # "minimal", "provenance")
          \o When(depth = "deep", "replay") \o When(r.minimize, "minimization")
<1>4. Queries(r, known) = front \o When(TRUE, "diagnosis")
  BY DEF Queries
<1>5. front \in S
  <2> HIDE DEF When, depth, S
  <2> QED
    BY <1>2, <1>3
<1>6. When(TRUE, "diagnosis") = IF "diagnosis" \notin known THEN <<"diagnosis">> ELSE <<>>
  OBVIOUS
<1> HIDE DEF front, When
<1> QED
  BY <1>4, <1>5, <1>6

\* Whatever is known already, what remains to be asked has a label.
LEMMA QueriesAreLabels ==
    ASSUME NEW r, NEW known
    PROVE  Queries(r, known) \in Seq(Labels \cup {"import"})
<1>1. "diagnosis" \in Labels \cup {"import"}
  BY DEF Labels
<1> DEFINE L == Labels \cup {"import"}
<1>2. PICK s \in Seq(L) :
        Queries(r, known) = s \o (IF "diagnosis" \notin known THEN <<"diagnosis">> ELSE <<>>)
  BY QueriesEnd
<1>3. <<"diagnosis">> \in Seq(L) /\ <<>> \in Seq(L)
  BY <1>1
<1> HIDE DEF L
<1>4. Queries(r, known) \in Seq(L)
  <2>1. CASE "diagnosis" \notin known
    BY <1>2, <1>3, <2>1
  <2>2. CASE "diagnosis" \in known
    BY <1>2, <1>3, <2>2
  <2> QED
    BY <2>1, <2>2
<1> QED
  BY <1>4 DEF L

\* A diagnosis is among the answers that a call has to have, at every depth.
LEMMA DiagnosisAsked ==
    ASSUME NEW r
    PROVE  "diagnosis" \in Asked(r)
<1>1. PICK s \in Seq(Labels \cup {"import"}) : Queries(r, {}) = s \o <<"diagnosis">>
  BY QueriesEnd
<1>2. /\ Len(Queries(r, {})) \in 1..Len(Queries(r, {}))
      /\ Queries(r, {})[Len(Queries(r, {}))] = "diagnosis"
  BY <1>1
<1> QED
  BY <1>2 DEF Asked

-----------------------------------------------------------------------------
(* The steps *)

\* Update: only the call in hand changes, and it has in hand what it may.
LEMMA CallsStay ==
    ASSUME CallsInv, NEW p \in Procs, NEW c, Update(p, c), c = Idle \/ InHand(c)
    PROVE  CallsInv'
BY DEF CallsInv, Update

\* A call that is not idle has in hand what its phase says.
LEMMA Busy ==
    ASSUME CallsInv, NEW p \in Procs, call[p].pc # "idle"
    PROVE  InHand(call[p])
BY DEF CallsInv, Idle

\* A ForgeError leaves nothing in hand and no report.
LEMMA Raised ==
    ASSUME CallsInv, ReportsEarned, NEW p \in Procs, Raise(p)
    PROVE  CallsInv' /\ ReportsEarned'
<1>1. CallsInv'
  BY CallsStay DEF Raise
<1>2. ReportsEarned'
  BY DEF Raise, ReportsEarned
<1> QED
  BY <1>1, <1>2

\* _persist adds one report, and ends the call.
LEMMA Reported ==
    ASSUME CallsInv, ReportsEarned, NEW p \in Procs, NEW c, NEW verdict,
           Report(p, c, verdict), Earned(ReportOf(c, verdict))
    PROVE  CallsInv' /\ ReportsEarned'
<1>1. CallsInv'
  BY CallsStay DEF Report
<1>2. \A m \in reports : Earned(m)
  BY DEF ReportsEarned, Earned
<1>3. \A m \in reports' : Earned(m)
  BY <1>2 DEF Report
<1>4. ReportsEarned'
  BY <1>3 DEF ReportsEarned, Earned
<1> QED
  BY <1>1, <1>4

\* What a report says, of a call and a verdict.
LEMMA ReportSays ==
    ASSUME NEW c, NEW v
    PROVE  LET m == ReportOf(c, v)
           IN  /\ m.verdict = v
               /\ m.failed <=> (c.result.verdict = "FAIL")
               /\ m.written = c.written
               /\ m.plan = Final(c).plan
               /\ m.test = Final(c).test
               /\ m.family = c.family
<1> DEFINE m == ReportOf(c, v)
<1>1. m.verdict = v /\ m.written = c.written /\ m.family = c.family
  BY DEF ReportOf
<1>2. m.failed = (c.result.verdict = "FAIL")
  BY DEF ReportOf
<1>3. m.plan = Final(c).plan /\ m.test = Final(c).test
  BY DEF ReportOf
<1> QED
  BY <1>1, <1>2, <1>3

\* A failure that is not repaired is reported as one.
LEMMA FailureEarned ==
    ASSUME NEW c, c.result.verdict = "FAIL", c.retested = Nil
    PROVE  Earned(ReportOf(c, "FAIL"))
<1> DEFINE m == ReportOf(c, "FAIL")
<1>1. m.verdict = "FAIL" /\ m.test = c.result
  BY ReportSays DEF Final
<1> HIDE DEF m
<1> QED
  BY <1>1 DEF Earned, m

\* _run: a provider writes the file that it is asked to write, or nothing; the
\* call goes on or ends.
LEMMA Provided ==
    ASSUME DInv, NEW p \in Procs, NEW name \in Names, NEW answers, NEW next,
           Provide(p, name, answers, next), InHand(next),
           \A a \in answers : Formed(name, a)
    PROVE  DInv'
<1>1. CallsInv' /\ ReportsEarned'
  <2>1. CASE Raise(p)
    BY <2>1, Raised DEF DInv
  <2>2. CASE Update(p, next) /\ UNCHANGED reports
    BY <2>2, CallsStay DEF DInv, ReportsEarned
  <2> QED
    BY <2>1, <2>2 DEF Provide
<1>2. FilesInv'
  <2>1. CASE files' = files
    BY <2>1 DEF DInv, FilesInv
  <2>2. ASSUME NEW a \in answers, files' = [files EXCEPT ![name] = a]
        PROVE  FilesInv'
    BY <2>2 DEF DInv, FilesInv
  <2> QED
    BY <2>1, <2>2 DEF Provide
<1> QED
  BY <1>1, <1>2 DEF DInv

\* Nothing is in hand of a call that begins but what it was asked and the plans.
LEMMA BeginStep ==
    ASSUME DInv, NEW p \in Procs, NEW r, Begin(p, r)
    PROVE  DInv'
<1> DEFINE c == [pc |-> IF r.plan THEN "bind" ELSE "test", id |-> calls + 1, request |-> r,
                 plan |-> IF r.plan THEN files["plan"] ELSE Nil,
                 post |-> IF r.post THEN files["post-plan"] ELSE Nil,
                 result |-> Nil, todo |-> <<>>, found |-> {}, witness |-> Nil,
                 validation |-> Nil, confidence |-> Nil, diagnosis |-> Nil, written |-> Nil,
                 after |-> Nil, retested |-> Nil, family |-> Nil]
<1>1. Update(p, c)
  BY DEF Begin
<1>2. /\ DOMAIN c = Fields /\ c.pc \in {"bind", "test"}
      /\ c.written = Nil /\ c.retested = Nil
  BY DEF Fields
<1>3. InHand(c)
  <2> HIDE DEF c
  <2> QED
    BY <1>2 DEF InHand, Early, Late, Phases
<1>4. CallsInv'
  BY <1>1, <1>3, CallsStay DEF DInv
<1>5. FilesInv' /\ ReportsEarned'
  BY DEF Begin, DInv, FilesInv, ReportsEarned
<1> QED
  BY <1>4, <1>5 DEF DInv

\* A plan of another source ends the call.
LEMMA BindStep ==
    ASSUME DInv, NEW p \in Procs, Bind(p)
    PROVE  DInv'
<1>1. InHand(call[p]) /\ call[p].pc = "bind"
  BY Busy DEF Bind, DInv
<1>2. InHand([call[p] EXCEPT !.pc = "test"])
  BY <1>1 DEF InHand, Fields, Early, Late, Phases
<1>3. FilesInv'
  BY DEF Bind, DInv, FilesInv
<1>4. CASE Raise(p)
  BY <1>3, <1>4, Raised DEF DInv
<1>5. CASE Update(p, [call[p] EXCEPT !.pc = "test"]) /\ UNCHANGED reports
  BY <1>2, <1>3, <1>5, CallsStay DEF DInv, ReportsEarned
<1> QED
  BY <1>4, <1>5 DEF Bind

\* The test provider leaves a result, or an earlier one stays.
LEMMA TestStep ==
    ASSUME DInv, NEW p \in Procs, Test(p)
    PROVE  DInv'
<1>1. InHand(call[p]) /\ call[p].pc = "test"
  BY Busy DEF Test, DInv
<1>2. InHand([call[p] EXCEPT !.pc = "read"])
  BY <1>1 DEF InHand, Fields, Early, Late, Phases
<1>3. "result" \in Names
  BY DEF Names
<1> QED
  BY <1>2, <1>3, Provided DEF Test, Formed

\* In a handoff the results are there already.
LEMMA ConsumeStep ==
    ASSUME DInv, NEW p \in Procs, Consume(p)
    PROVE  DInv'
<1>1. InHand(call[p]) /\ call[p].pc = "test"
  BY Busy DEF Consume, DInv
<1>2. InHand([call[p] EXCEPT !.pc = "read"])
  BY <1>1 DEF InHand, Fields, Early, Late, Phases
<1>3. CallsInv'
  BY <1>2, CallsStay DEF Consume, DInv
<1>4. FilesInv' /\ ReportsEarned'
  BY DEF Consume, DInv, FilesInv, ReportsEarned
<1> QED
  BY <1>3, <1>4 DEF DInv

\* What is not a failure is reported as far as the plan lets it, or goes to the
\* family.
LEMMA ReadNoFailureStep ==
    ASSUME DInv, NEW p \in Procs, ReadNoFailure(p)
    PROVE  DInv'
<1> DEFINE c == WithResult(p)
           test == files["result"]
           verdict == LocalVerdict(call[p].plan, test)
<1>1. InHand(call[p]) /\ call[p].pc = "read"
  BY Busy DEF ReadNoFailure, DInv
<1>2. /\ Planned(test, call[p].plan)
      /\ test.verdict # "FAIL"
  BY DEF ReadNoFailure
<1>3. /\ DOMAIN c = Fields
      /\ c.plan = call[p].plan
      /\ c.result = test
      /\ c.written = Nil
      /\ c.retested = Nil
      /\ c.family = call[p].family
  BY <1>1 DEF WithResult, InHand, Fields, Early
<1>4. Final(c) = [plan |-> call[p].plan, test |-> test]
  BY <1>3 DEF Final
<1>5. FilesInv'
  BY DEF ReadNoFailure, DInv, FilesInv
<1>6. CASE NeedsFamily(call[p].plan)
  <2> DEFINE d == [c EXCEPT !.pc = "family"]
  <2>1. /\ DOMAIN d = Fields /\ d.pc = "family"
        /\ d.plan = c.plan /\ d.result = c.result /\ d.written = Nil /\ d.retested = Nil
    BY <1>3 DEF Fields
  <2>2. Final(d) = [plan |-> call[p].plan, test |-> test]
    BY <1>3, <2>1 DEF Final
  <2>3. Tested(d)
    BY <1>2, <1>3, <1>6, <2>1, <2>2 DEF Tested
  <2>4. InHand(d)
    BY <2>1, <2>3 DEF InHand, Early, Late, Phases
  <2>5. Update(p, d) /\ UNCHANGED reports
    BY <1>6 DEF ReadNoFailure
  <2>6. CallsInv'
    BY <2>4, <2>5, CallsStay DEF DInv
  <2> QED
    BY <1>5, <2>5, <2>6 DEF DInv, ReportsEarned
<1>7. CASE ~NeedsFamily(call[p].plan)
  <2>1. Report(p, c, verdict)
    BY <1>7 DEF ReadNoFailure
  <2> DEFINE m == ReportOf(c, verdict)
  <2>2. /\ ~m.failed /\ m.verdict = verdict /\ m.written = Nil
        /\ m.plan = call[p].plan /\ m.test = test
    <3> HIDE DEF c, verdict, test
    <3> QED
      BY <1>2, <1>3, <1>4, ReportSays
  <2> HIDE DEF m
  <2>3. m.plan # Nil => m.test.tests = m.plan.tests
    BY <1>2, <2>2 DEF Planned
  <2>4. m.verdict = "PASS" =>
          m.test.verdict = "PASS" /\ (m.plan # Nil => m.plan.sufficient)
    BY <2>2 DEF LocalVerdict
  <2>0. m.verdict = "FAIL" => m.test.verdict = "FAIL"
    BY <2>2 DEF LocalVerdict
  <2>5. Earned(m)
    BY <1>7, <2>2, <2>3, <2>4, <2>0 DEF Earned
  <2>6. CallsInv' /\ ReportsEarned'
    BY <2>1, <2>5, Reported DEF DInv, m
  <2> QED
    BY <1>5, <2>6 DEF DInv
<1> QED
  BY <1>6, <1>7

\* A failure goes to the debugger, or is reported as one.
LEMMA ReadFailureStep ==
    ASSUME DInv, NEW p \in Procs, ReadFailure(p)
    PROVE  DInv'
<1> DEFINE r == call[p].request
           c == WithResult(p)
           d == [c EXCEPT !.pc = "debug", !.todo = Queries(r, {})]
           e == [c EXCEPT !.pc = "handoff"]
<1>1. InHand(call[p]) /\ call[p].pc = "read"
  BY Busy DEF ReadFailure, DInv
<1>2. FilesInv'
  BY DEF ReadFailure, DInv, FilesInv
<1>3. /\ DOMAIN c = Fields
      /\ c.result = files["result"] /\ c.plan = call[p].plan
      /\ c.written = Nil /\ c.retested = Nil
  BY <1>1 DEF WithResult, InHand, Fields, Early
<1>4. Failed(c)
  <2> HIDE DEF c
  <2> QED
    BY <1>3 DEF ReadFailure, Failed
<1>5. InHand(d)
  <2>1. Queries(r, {}) \in Seq(Labels \cup {"import"})
    BY QueriesAreLabels
  <2>2. /\ DOMAIN d = Fields /\ d.pc = "debug" /\ d.todo = Queries(r, {})
        /\ d.result = c.result /\ d.plan = c.plan
        /\ d.written = Nil /\ d.retested = Nil
    BY <1>3 DEF Fields
  <2> HIDE DEF d, c
  <2> QED
    BY <1>4, <2>1, <2>2 DEF InHand, Failed, Early, Late, Phases
<1>6. InHand(e)
  <2>1. /\ DOMAIN e = Fields /\ e.pc = "handoff"
        /\ e.result = c.result /\ e.plan = c.plan
        /\ e.written = Nil /\ e.retested = Nil
    BY <1>3 DEF Fields
  <2> HIDE DEF e, c
  <2> QED
    BY <1>4, <2>1 DEF InHand, Failed, Early, Late, Phases
<1>7. CASE Report(p, c, "FAIL")
  <2>1. c.result.verdict = "FAIL" /\ c.retested = Nil
    BY <1>3, <1>4 DEF Failed
  <2> HIDE DEF c
  <2>2. CallsInv' /\ ReportsEarned'
    BY <1>7, <2>1, FailureEarned, Reported DEF DInv
  <2> QED
    BY <1>2, <2>2 DEF DInv
<1>8. CASE (Update(p, d) \/ Update(p, e)) /\ UNCHANGED reports
  <2> HIDE DEF d, e
  <2>1. CallsInv'
    BY <1>5, <1>6, <1>8, CallsStay DEF DInv
  <2> QED
    BY <1>2, <1>8, <2>1 DEF DInv, ReportsEarned
<1> QED
  <2> HIDE DEF c
  <2>1. Report(p, c, "FAIL") \/ ((Update(p, d) \/ Update(p, e)) /\ UNCHANGED reports)
    BY DEF ReadFailure, c
  <2> QED
    BY <1>7, <1>8, <2>1

\* A handoff goes to the debugger with the answers that Actions has left, or is
\* reported as a failure.
LEMMA HandoffStep ==
    ASSUME DInv, NEW p \in Procs, Handoff(p)
    PROVE  DInv'
<1> DEFINE c == call[p]
           d == [c EXCEPT !.pc = "debug", !.found = Reusable,
                          !.todo = Queries(c.request, Reusable)]
<1>1. /\ InHand(c) /\ c.pc = "handoff"
      /\ c.result.verdict = "FAIL" /\ c.retested = Nil
  BY Busy DEF Handoff, DInv, InHand, Failed, Early
<1>2. FilesInv'
  BY DEF Handoff, DInv, FilesInv
<1>3. InHand(d)
  <2>1. Queries(c.request, Reusable) \in Seq(Labels \cup {"import"})
    BY QueriesAreLabels
  <2>2. /\ DOMAIN d = Fields /\ d.pc = "debug" /\ d.todo = Queries(c.request, Reusable)
        /\ d.result = c.result /\ d.plan = c.plan
        /\ d.written = c.written /\ d.retested = c.retested
    BY <1>1 DEF InHand, Fields
  <2> HIDE DEF d, c
  <2> QED
    BY <1>1, <2>1, <2>2 DEF InHand, Failed, Early, Late, Phases
<1>4. CASE Report(p, c, "FAIL")
  <2>1. CallsInv' /\ ReportsEarned'
    BY <1>1, <1>4, FailureEarned, Reported DEF DInv
  <2> QED
    BY <1>2, <2>1 DEF DInv
<1>5. CASE Update(p, d) /\ UNCHANGED reports
  <2> HIDE DEF d
  <2>1. CallsInv'
    BY <1>3, <1>5, CallsStay DEF DInv
  <2> QED
    BY <1>2, <1>5, <2>1 DEF DInv, ReportsEarned
<1> QED
  BY <1>4, <1>5 DEF Handoff

\* What is malformed, or of other tests, ends the call.
LEMMA ReadInvalidStep ==
    ASSUME DInv, NEW p \in Procs, ReadInvalid(p)
    PROVE  DInv'
<1>1. CallsInv' /\ ReportsEarned'
  BY Raised DEF ReadInvalid, DInv
<1>2. FilesInv'
  BY DEF ReadInvalid, DInv, FilesInv
<1> QED
  BY <1>1, <1>2 DEF DInv

\* What a query leaves has the form of its answer.
LEMMA AnswersFormed ==
    ASSUME DInv, NEW l, l \notin {"witness", "result.after"}
    PROVE  \A a \in Answers(l) : Formed(l, a)
<1> DEFINE w == files["witness"]
<1>1. w # Nil => Known(w)
  BY DEF DInv, FilesInv, Formed, Names
<1>2. CASE w = Nil
  BY <1>2 DEF Answers
<1>3. CASE w # Nil /\ l = "validation"
  <2>1. \A a \in Answers(l) : a.witness = w.id /\ a.valid = w.valid
    BY <1>3 DEF Answers
  <2> QED
    BY <1>1, <1>3, <2>1 DEF Formed, Known
<1>4. CASE w # Nil /\ l = "diagnosis"
  <2>1. \A a \in Answers(l) : a = [witness |-> a.witness, status |-> a.status]
    BY <1>4 DEF Answers
  <2> QED
    BY <1>4, <2>1 DEF Formed
<1>5. CASE w # Nil /\ l \notin {"validation", "diagnosis"}
  BY <1>5 DEF Formed
<1> QED
  BY <1>2, <1>3, <1>4, <1>5

\* A query leaves its answer under its own label.
LEMMA DebugStep ==
    ASSUME DInv, NEW p \in Procs, Debug(p)
    PROVE  DInv'
<1> DEFINE l == Head(call[p].todo)
           F == {k \in {l} \ {"import"} : files'[k] # Nil}
           next == [call[p] EXCEPT !.todo = Tail(call[p].todo), !.found = call[p].found \cup F]
<1>1. /\ InHand(call[p]) /\ call[p].pc = "debug"
      /\ call[p].todo \in Seq(Labels \cup {"import"}) /\ call[p].todo # <<>>
  BY Busy DEF Debug, DInv, InHand
<1>2. /\ l \in Labels \cup {"import"}
      /\ Tail(call[p].todo) \in Seq(Labels \cup {"import"})
  <2> HIDE DEF Labels
  <2> QED
    BY <1>1
<1>3. InHand(next)
  <2>1. /\ DOMAIN next = Fields /\ next.pc = "debug"
        /\ next.result = call[p].result /\ next.plan = call[p].plan
        /\ next.written = call[p].written /\ next.retested = call[p].retested
        /\ next.todo = Tail(call[p].todo)
    <3> HIDE DEF F
    <3> QED
      BY <1>1 DEF InHand, Fields
  <2> HIDE DEF next
  <2> QED
    BY <1>1, <1>2, <2>1 DEF InHand, Failed, Early, Late, Phases
<1>4. CASE l = "import"
  <2>1. Provide(p, "witness", Witnesses(call[p]), next)
    BY <1>4 DEF Debug
  <2>2. "witness" \in Names
    BY DEF Names
  <2>3. \A a \in Witnesses(call[p]) : Formed("witness", a)
    BY DEF Witnesses, Formed, Known
  <2> HIDE DEF next
  <2> QED
    BY <1>3, <2>1, <2>2, <2>3, Provided
<1>5. CASE l # "import"
  <2>1. Provide(p, l, Answers(l), next)
    BY <1>5 DEF Debug
  <2>2. l \in Names /\ l \notin {"witness", "result.after"}
    BY <1>2, <1>5 DEF Labels, Names
  <2>3. \A a \in Answers(l) : Formed(l, a)
    BY <2>2, AnswersFormed
  <2> HIDE DEF next, l
  <2> QED
    BY <1>3, <2>1, <2>2, <2>3, Provided
<1> QED
  BY <1>4, <1>5

\* The witness that is in the file has an identity that tells its validity.
LEMMA ReadWitnessStep ==
    ASSUME DInv, NEW p \in Procs, ReadWitness(p)
    PROVE  DInv'
<1> DEFINE c == call[p]
           w == files["witness"]
           d == [c EXCEPT !.pc = "validate", !.witness = w, !.confidence = Confidence(w)]
<1>1. /\ InHand(c) /\ c.pc = "debug"
      /\ c.result.verdict = "FAIL" /\ c.retested = Nil
  BY Busy DEF ReadWitness, DInv, InHand, Failed, Early
<1>2. FilesInv'
  BY DEF ReadWitness, DInv, FilesInv
<1>3. CASE Report(p, c, "FAIL")
  <2>1. CallsInv' /\ ReportsEarned'
    BY <1>1, <1>3, FailureEarned, Reported DEF DInv
  <2> QED
    BY <1>2, <2>1 DEF DInv
<1>4. CASE w # Nil /\ Update(p, d) /\ UNCHANGED reports
  <2>1. Known(w)
    BY <1>4 DEF DInv, FilesInv, Formed, Names
  <2>2. /\ DOMAIN d = Fields /\ d.pc = "validate" /\ d.witness = w
        /\ d.result = c.result /\ d.plan = c.plan
        /\ d.written = c.written /\ d.retested = c.retested
    BY <1>1 DEF InHand, Fields
  <2> HIDE DEF d, c, w
  <2>3. InHand(d)
    BY <1>1, <2>1, <2>2 DEF InHand, Failed, Early, Late, Phases
  <2>4. CallsInv'
    BY <1>4, <2>3, CallsStay DEF DInv
  <2> QED
    BY <1>2, <1>4, <2>4 DEF DInv, ReportsEarned
<1> QED
  BY <1>3, <1>4 DEF ReadWitness

\* A witness that goes on is one of the failure; it is valid if the validation
\* that says so is one of it.
LEMMA ReadValidationStep ==
    ASSUME DInv, NEW p \in Procs, ReadValidation(p)
    PROVE  DInv'
<1> DEFINE c == call[p]
           v == files["validation"]
           d == [c EXCEPT !.pc = "conclude", !.validation = v]
<1>1. InHand(c) /\ c.pc = "validate" /\ Known(c.witness) /\ Failed(c)
  BY Busy DEF ReadValidation, DInv, InHand
<1>2. FilesInv'
  BY DEF ReadValidation, DInv, FilesInv
<1>3. /\ DOMAIN d = Fields /\ d.pc = "conclude" /\ d.validation = v
      /\ d.witness = c.witness /\ d.result = c.result /\ d.plan = c.plan
      /\ d.written = Nil /\ d.retested = Nil
  BY <1>1 DEF InHand, Fields, Early
<1>4. CASE Report(p, d, "FAIL")
  <2>1. d.result.verdict = "FAIL" /\ d.retested = Nil
    BY <1>1, <1>3 DEF Failed
  <2> HIDE DEF d
  <2>2. CallsInv' /\ ReportsEarned'
    BY <1>4, <2>1, FailureEarned, Reported DEF DInv
  <2> QED
    BY <1>2, <2>2 DEF DInv
<1>5. CASE Raise(p)
  BY <1>2, <1>5, Raised DEF DInv
<1>6. CASE /\ v # Nil /\ v.valid /\ ObservationValid(d.witness)
           /\ Reproduces(d.witness, d.result)
           /\ Update(p, d) /\ UNCHANGED reports
  <2>1. v.valid = v.witness[2]
    BY <1>6 DEF DInv, FilesInv, Formed, Names, Labels
  <2> HIDE DEF d, c, v
  <2>2. d.validation.witness = d.witness.id => d.witness.valid
    BY <1>1, <1>3, <1>6, <2>1 DEF Known
  <2>3. Witnessed(d)
    BY <1>6, <2>2 DEF Witnessed, Reproduces, ObservationValid
  <2>4. InHand(d)
    BY <1>1, <1>3, <2>3 DEF InHand, Failed, Early, Late, Phases
  <2>5. CallsInv'
    BY <1>6, <2>4, CallsStay DEF DInv
  <2> QED
    BY <1>2, <1>6, <2>5 DEF DInv, ReportsEarned
<1>7. /\ d.validation = v
      /\ \/ Report(p, d, "FAIL")
         \/ Raise(p)
         \/ /\ d.validation # Nil /\ d.validation.valid /\ ObservationValid(d.witness)
            /\ Reproduces(d.witness, d.result)
            /\ Update(p, d) /\ UNCHANGED reports
  BY <1>3 DEF ReadValidation
<1> QED
  <2> HIDE DEF d, v
  <2> QED
    BY <1>4, <1>5, <1>6, <1>7

\* The call goes on to a repair with a failure, a witness of the run that failed,
\* and a sufficient diagnosis of that witness; it reports a failure otherwise.
LEMMA ReadDiagnosisStep ==
    ASSUME DInv, NEW p \in Procs, ReadDiagnosis(p)
    PROVE  DInv'
<1> DEFINE c == call[p]
           d == files["diagnosis"]
           e == [c EXCEPT !.pc = "repair", !.diagnosis = d]
           f == [c EXCEPT !.diagnosis = d]
<1>1. /\ InHand(c) /\ c.pc = "conclude" /\ Failed(c) /\ Witnessed(c)
      /\ c.result.verdict = "FAIL" /\ c.retested = Nil
  BY Busy DEF ReadDiagnosis, DInv, InHand, Failed, Early
<1>2. FilesInv'
  BY DEF ReadDiagnosis, DInv, FilesInv
<1>3. CASE Report(p, c, "FAIL") \/ Report(p, f, "FAIL")
  <2>1. f.result.verdict = "FAIL" /\ f.retested = Nil
    BY <1>1 DEF InHand, Fields
  <2> HIDE DEF f, c
  <2>2. CallsInv' /\ ReportsEarned'
    BY <1>1, <1>3, <2>1, FailureEarned, Reported DEF DInv
  <2> QED
    BY <1>2, <2>2 DEF DInv
<1>4. CASE Raise(p)
  BY <1>2, <1>4, Raised DEF DInv
<1>5. CASE /\ DiagnosisValid(d, c.witness) /\ Established(c, d)
           /\ Update(p, e) /\ UNCHANGED reports
  <2>1. /\ d.witness = c.witness.id /\ d.status = "sufficient"
        /\ Asked(c.request) \subseteq c.found
    BY <1>5 DEF DiagnosisValid, Established
  <2>2. "diagnosis" \in c.found
    BY <2>1, DiagnosisAsked
  <2>3. /\ DOMAIN e = Fields /\ e.pc = "repair" /\ e.diagnosis = d
        /\ e.result = c.result /\ e.plan = c.plan /\ e.witness = c.witness
        /\ e.validation = c.validation /\ e.request = c.request /\ e.found = c.found
    BY <1>1 DEF InHand, Fields
  <2>4. d = [witness |-> d.witness, status |-> d.status]
    <3>1. d # Nil /\ "diagnosis" \in Names
      BY <1>5 DEF DiagnosisValid, Names, Labels
    <3>2. Formed("diagnosis", d)
      BY <3>1 DEF DInv, FilesInv
    <3> HIDE DEF d
    <3> QED
      BY <3>2 DEF Formed
  <2> HIDE DEF e, d, c
  <2>5. Diagnosed(e)
    BY <1>1, <2>1, <2>3, <2>4 DEF Diagnosed, Failed, Witnessed
  <2>6. InHand(e)
    BY <2>3, <2>5 DEF InHand, Early, Late, Phases
  <2>7. CallsInv'
    BY <1>5, <2>6, CallsStay DEF DInv
  <2> QED
    BY <1>2, <1>5, <2>7 DEF DInv, ReportsEarned
<1> QED
  BY <1>3, <1>4, <1>5 DEF ReadDiagnosis

\* The change is one that the plan of the repaired source is about.
LEMMA PrepareStep ==
    ASSUME DInv, NEW p \in Procs, Prepare(p)
    PROVE  DInv'
<1> DEFINE c == call[p]
           d == [c EXCEPT !.pc = "write", !.written = Repair[source]]
<1>1. InHand(c) /\ c.pc = "repair" /\ Diagnosed(c)
  BY Busy DEF Prepare, DInv, InHand
<1>2. FilesInv'
  BY DEF Prepare, DInv, FilesInv
<1>3. CASE Raise(p)
  <2>1. CallsInv' /\ ReportsEarned'
    BY <1>3, Raised DEF DInv
  <2> QED
    BY <1>2, <2>1 DEF DInv
<1>4. CASE /\ source \in DOMAIN Repair
           /\ c.plan # Nil => Bound(c.post, Repair[source])
           /\ Update(p, d) /\ UNCHANGED reports
  <2>1. Repair[source] # Nil
    BY <1>4, DevelopmentAssumption, AnswersAssumption
  <2>2. /\ DOMAIN d = Fields /\ d.pc = "write" /\ d.written = Repair[source]
        /\ d.result = c.result /\ d.witness = c.witness /\ d.diagnosis = c.diagnosis
        /\ d.plan = c.plan /\ d.post = c.post
        /\ d.validation = c.validation /\ d.request = c.request /\ d.found = c.found
    BY <1>1 DEF InHand, Fields
  <2>3. d.plan # Nil /\ d.post # Nil => d.post.source = d.written
    BY <1>4, <2>2 DEF Bound
  <2>4. Diagnosed(d)
    BY <1>1, <2>2 DEF Diagnosed, Failed, Witnessed
  <2>5. InHand(d)
    <3> HIDE DEF d
    <3> QED
      BY <2>1, <2>2, <2>3, <2>4 DEF InHand, Early, Late, Phases
  <2>6. CallsInv'
    BY <1>4, <2>5, CallsStay DEF DInv
  <2> QED
    BY <1>2, <1>4, <2>6 DEF DInv, ReportsEarned
<1> QED
  BY <1>3, <1>4 DEF Prepare

\* A call that has written goes on to plan and to test what it wrote.
LEMMA WriteStep ==
    ASSUME DInv, NEW p \in Procs, Write(p)
    PROVE  DInv'
<1> DEFINE c == call[p]
<1>1. InHand(c) /\ c.pc = "write" /\ c.written # Nil
  BY Busy DEF Write, DInv, InHand, Late
<1>2. FilesInv' /\ ReportsEarned'
  BY DEF Write, DInv, FilesInv, ReportsEarned
<1>3. /\ InHand([c EXCEPT !.pc = "retest"])
      /\ InHand([c EXCEPT !.pc = "retest", !.after = c.post])
      /\ InHand([c EXCEPT !.pc = "replan"])
  BY <1>1 DEF InHand, Fields, Early, Late, Phases
<1>4. \E d : Update(p, d) /\ InHand(d)
  BY <1>3 DEF Write
<1>5. CallsInv'
  BY <1>4, CallsStay DEF DInv
<1> QED
  BY <1>2, <1>5 DEF DInv

\* RAVEL leaves a plan, or an earlier one stays.
LEMMA RegenerateStep ==
    ASSUME DInv, NEW p \in Procs, Regenerate(p)
    PROVE  DInv'
<1>1. InHand(call[p]) /\ call[p].pc = "replan"
  BY Busy DEF Regenerate, DInv
<1>2. InHand([call[p] EXCEPT !.pc = "replanned"])
  BY <1>1 DEF InHand, Fields, Early, Late, Phases
<1>3. "plan.after" \in Names
  BY DEF Names
<1> QED
  BY <1>2, <1>3, Provided DEF Regenerate, Formed

\* The plan that is in the file is the plan of the second test.
LEMMA ReadPlanStep ==
    ASSUME DInv, NEW p \in Procs, ReadPlan(p)
    PROVE  DInv'
<1> DEFINE d == [call[p] EXCEPT !.pc = "retest", !.after = files["plan.after"]]
<1>1. InHand(call[p]) /\ call[p].pc = "replanned"
  BY Busy DEF ReadPlan, DInv
<1>2. FilesInv'
  BY DEF ReadPlan, DInv, FilesInv
<1>3. CASE Raise(p)
  <2>1. CallsInv' /\ ReportsEarned'
    BY <1>3, Raised DEF DInv
  <2> QED
    BY <1>2, <2>1 DEF DInv
<1>4. CASE Update(p, d) /\ UNCHANGED reports
  <2>1. InHand(d)
    BY <1>1 DEF InHand, Fields, Early, Late, Phases
  <2>2. CallsInv'
    BY <1>4, <2>1, CallsStay DEF DInv
  <2> QED
    BY <1>2, <1>4, <2>2 DEF DInv, ReportsEarned
<1> QED
  BY <1>3, <1>4 DEF ReadPlan

\* What the second test leaves is the result of a second test.
LEMMA RetestStep ==
    ASSUME DInv, NEW p \in Procs, Retest(p)
    PROVE  DInv'
<1>1. InHand(call[p]) /\ call[p].pc = "retest"
  BY Busy DEF Retest, DInv
<1>2. InHand([call[p] EXCEPT !.pc = "reread"])
  BY <1>1 DEF InHand, Fields, Early, Late, Phases
<1>3. "result.after" \in Names
  BY DEF Names
<1>4. \A a \in Results(call[p], "after", call[p].after) : a.run[2] = "after"
  BY DEF Results
<1> QED
  BY <1>2, <1>3, <1>4, Provided DEF Retest, Formed

\* A repair is reported with the verdict of the second test, as far as its plan
\* lets it, or goes to the family.
LEMMA VerifyStep ==
    ASSUME DInv, NEW p \in Procs, Verify(p)
    PROVE  DInv'
<1> DEFINE test == files["result.after"]
           c == [call[p] EXCEPT !.retested = test]
           verdict == LocalVerdict(c.after, test)
<1>1. InHand(call[p]) /\ call[p].pc = "reread" /\ call[p].written # Nil
  BY Busy DEF Verify, DInv, InHand, Late
<1>2. FilesInv'
  BY DEF Verify, DInv, FilesInv
<1>3. /\ DOMAIN c = Fields
      /\ c.after = call[p].after
      /\ c.retested = test
      /\ c.written # Nil
  BY <1>1 DEF InHand, Fields
<1>4. CASE ~Planned(test, c.after) /\ Raise(p)
  <2>1. CallsInv' /\ ReportsEarned'
    BY <1>4, Raised DEF DInv
  <2> QED
    BY <1>2, <2>1 DEF DInv
<1>5. ASSUME Planned(test, c.after)
      PROVE  /\ test # Nil
             /\ test.run[2] = "after"
             /\ Final(c) = [plan |-> c.after, test |-> test]
  <2>1. test # Nil /\ "result.after" \in Names
    BY <1>5 DEF Planned, Wellformed, Names
  <2>2. Formed("result.after", test)
    BY <2>1 DEF DInv, FilesInv
  <2> HIDE DEF c, test
  <2> QED
    BY <1>3, <2>1, <2>2 DEF Formed, Final
<1>6. CASE Planned(test, c.after) /\ NeedsFamily(c.after)
  <2> DEFINE d == [c EXCEPT !.pc = "family"]
  <2>1. Update(p, d) /\ UNCHANGED reports
    BY <1>6 DEF Verify
  <2>2. /\ DOMAIN d = Fields /\ d.pc = "family"
        /\ d.after = c.after /\ d.retested = test /\ d.written # Nil
    BY <1>3 DEF Fields
  <2>3. Final(d) = [plan |-> c.after, test |-> test]
    BY <1>5, <1>6, <2>2 DEF Final
  <2>4. Tested(d)
    <3> HIDE DEF d, c, test
    <3> QED
      BY <1>5, <1>6, <2>2, <2>3 DEF Tested
  <2>5. InHand(d)
    <3> HIDE DEF d
    <3> QED
      BY <2>2, <2>4 DEF InHand, Early, Late, Phases
  <2>6. CallsInv'
    BY <2>1, <2>5, CallsStay DEF DInv
  <2> QED
    BY <1>2, <2>1, <2>6 DEF DInv, ReportsEarned
<1>7. CASE Planned(test, c.after) /\ ~NeedsFamily(c.after)
  <2>1. Report(p, c, verdict)
    BY <1>7 DEF Verify
  <2> DEFINE m == ReportOf(c, verdict)
  <2>2. /\ m.verdict = verdict /\ m.written # Nil /\ m.plan = c.after /\ m.test = test
    <3> HIDE DEF c, verdict, test
    <3> QED
      BY <1>3, <1>5, <1>7, ReportSays
  <2> HIDE DEF m
  <2>3. m.plan # Nil => m.test.tests = m.plan.tests
    BY <1>7, <2>2 DEF Planned
  <2>4. m.verdict = "PASS" =>
          m.test.verdict = "PASS" /\ (m.plan # Nil => m.plan.sufficient)
    BY <2>2 DEF LocalVerdict
  <2>0. m.verdict = "FAIL" => m.test.verdict = "FAIL"
    BY <2>2 DEF LocalVerdict
  <2>5. m.test.run[2] = "after"
    BY <1>5, <1>7, <2>2
  <2>6. Earned(m)
    BY <1>7, <2>2, <2>3, <2>4, <2>5, <2>0 DEF Earned
  <2>7. CallsInv' /\ ReportsEarned'
    BY <2>1, <2>6, Reported DEF DInv, m
  <2> QED
    BY <1>2, <2>7 DEF DInv
<1> QED
  BY <1>4, <1>6, <1>7 DEF Verify

\* A family that passes is one that is proved, of this very plan.
LEMMA FamilyStep ==
    ASSUME DInv, NEW p \in Procs, FamilyProof(p)
    PROVE  DInv'
<1> DEFINE c == call[p]
           f == Final(c)
<1>1. InHand(c) /\ c.pc = "family" /\ Tested(c)
  BY Busy DEF FamilyProof, DInv, InHand
<1>2. FilesInv'
  BY DEF FamilyProof, DInv, FilesInv
<1>3. CASE Raise(p)
  <2>1. CallsInv' /\ ReportsEarned'
    BY <1>3, Raised DEF DInv
  <2> QED
    BY <1>2, <2>1 DEF DInv
\* What is reported of it: an answer of the family, and what it makes of the test.
<1>4. ASSUME NEW e, NEW status \in Verdicts,
             Report(p, e, FamilyVerdict(status, f.test)),
             /\ e.written = c.written /\ e.result = c.result /\ Final(e) = f
             /\ status # "UNKNOWN" => e.family = [plan |-> f.plan, status |-> status]
      PROVE  DInv'
  <2> DEFINE v == FamilyVerdict(status, f.test)
             m == ReportOf(e, v)
  <2>1. /\ m.verdict = v /\ m.written = c.written /\ m.family = e.family
        /\ m.plan = f.plan /\ m.test = f.test
        /\ m.failed <=> (c.result.verdict = "FAIL")
    <3> HIDE DEF v, f, c
    <3> QED
      BY <1>4, ReportSays
  <2>2. m.failed => m.written # Nil
    BY <1>1, <2>1 DEF Tested
  <2>3. m.written # Nil => m.test.run[2] = "after"
    BY <1>1, <2>1 DEF Tested, Final
  <2>4. m.verdict = "PASS" => m.test.verdict = "PASS" /\ status = "PASS"
    BY <1>4, <2>1 DEF FamilyVerdict, Verdicts
  <2>5. /\ m.plan # Nil => m.test.tests = m.plan.tests
        /\ NeedsFamily(m.plan)
    BY <1>1, <2>1 DEF Tested, Planned
  <2>6. m.verdict = "PASS" => m.family = [plan |-> m.plan, status |-> "PASS"]
    BY <1>4, <2>1, <2>4
  <2>9. m.verdict = "FAIL" =>
          m.test.verdict = "FAIL" \/ m.family = [plan |-> m.plan, status |-> "FAIL"]
    BY <1>4, <2>1 DEF FamilyVerdict, Verdicts
  <2>7. Earned(m)
    <3> HIDE DEF m
    <3> QED
      BY <2>2, <2>3, <2>4, <2>5, <2>6, <2>9 DEF Earned
  <2>8. CallsInv' /\ ReportsEarned'
    BY <1>4, <2>7, Reported DEF DInv
  <2> QED
    BY <1>2, <2>8 DEF DInv
<1>5. CASE Report(p, c, FamilyVerdict("UNKNOWN", f.test))
  <2>1. "UNKNOWN" \in Verdicts /\ "UNKNOWN" # "PASS"
    BY DEF Verdicts
  <2> QED
    BY <1>4, <1>5, <2>1
<1>6. ASSUME NEW proof \in [plan : PlanSet, status : Verdicts], ProofOf(proof, f.plan),
             Report(p, [c EXCEPT !.family = proof], FamilyVerdict(proof.status, f.test))
      PROVE  DInv'
  <2> DEFINE e == [c EXCEPT !.family = proof]
  <2>1. /\ e.family = proof /\ e.written = c.written /\ e.result = c.result
        /\ e.plan = c.plan /\ e.after = c.after /\ e.retested = c.retested
    BY <1>1 DEF InHand, Fields
  <2>2. Final(e) = f
    BY <2>1 DEF Final
  <2>3. proof = [plan |-> f.plan, status |-> proof.status]
    BY <1>6 DEF ProofOf
  <2>4. proof.status \in Verdicts
    OBVIOUS
  <2> HIDE DEF e, f, c
  <2>5. e.family = [plan |-> f.plan, status |-> proof.status]
    BY <2>1, <2>3
  <2> QED
    BY <1>4, <1>6, <2>1, <2>2, <2>4, <2>5 DEF e
<1> QED
  BY <1>3, <1>5, <1>6 DEF FamilyProof

\* Others edit the source, and leave a plan of it.
LEMMA ProjectStep ==
    ASSUME DInv, Edit \/ Replan
    PROVE  DInv'
<1>1. CallsInv' /\ ReportsEarned'
  BY DEF Edit, Replan, DInv, CallsInv, ReportsEarned
<1>2. FilesInv'
  BY DEF Edit, Replan, DInv, FilesInv, Formed, Names, Labels
<1> QED
  BY <1>1, <1>2 DEF DInv

-----------------------------------------------------------------------------
(* The theorems *)

\* Before any call nothing is in hand and nothing is reported; the files are
\* what providers have left.
LEMMA InitDInv == Init => DInv
<1> SUFFICES ASSUME Init PROVE DInv
  OBVIOUS
<1>1. CallsInv /\ ReportsEarned
  BY DEF Init, CallsInv, ReportsEarned
<1>2. FilesInv
  BY DevelopmentAssumption, AnswersAssumption DEF Init, FilesInv, Formed, Known
<1> QED
  BY <1>1, <1>2 DEF DInv

\* Every step of a call, and of the others, keeps it.
LEMMA NextDInv == DInv /\ [Next]_vars => DInv'
<1> SUFFICES ASSUME DInv, [Next]_vars PROVE DInv'
  OBVIOUS
<1>1. CASE UNCHANGED vars
  BY <1>1 DEF vars, DInv, CallsInv, FilesInv, ReportsEarned
<1>2. CASE Edit \/ Replan
  BY <1>2, ProjectStep
<1>3. ASSUME NEW p \in Procs,
             \/ \E r \in bound.requests : Begin(p, r)
             \/ Bind(p) \/ Test(p) \/ Consume(p)
             \/ ReadNoFailure(p) \/ ReadFailure(p) \/ ReadInvalid(p) \/ Handoff(p)
             \/ Debug(p) \/ ReadWitness(p) \/ ReadValidation(p) \/ ReadDiagnosis(p)
             \/ Prepare(p) \/ Write(p) \/ Regenerate(p) \/ ReadPlan(p) \/ Retest(p) \/ Verify(p)
             \/ FamilyProof(p)
      PROVE  DInv'
  <2>1. CASE \E r \in bound.requests : Begin(p, r)
    BY <2>1, BeginStep
  <2>2. CASE \/ Bind(p) \/ Test(p) \/ Consume(p)
             \/ ReadNoFailure(p) \/ ReadFailure(p) \/ ReadInvalid(p) \/ Handoff(p)
    BY <2>2, BindStep, TestStep, ConsumeStep, ReadNoFailureStep, ReadFailureStep,
       ReadInvalidStep, HandoffStep
  <2>3. CASE \/ Debug(p) \/ ReadWitness(p) \/ ReadValidation(p) \/ ReadDiagnosis(p)
             \/ Prepare(p) \/ Write(p)
    BY <2>3, DebugStep, ReadWitnessStep, ReadValidationStep, ReadDiagnosisStep, PrepareStep,
       WriteStep
  <2>4. CASE Regenerate(p) \/ ReadPlan(p) \/ Retest(p) \/ Verify(p) \/ FamilyProof(p)
    BY <2>4, RegenerateStep, ReadPlanStep, RetestStep, VerifyStep, FamilyStep
  <2> QED
    BY <1>3, <2>1, <2>2, <2>3, <2>4
<1> QED
  BY <1>1, <1>2, <1>3 DEF Next

\* Whatever lies in the files, every call has in hand what its phase rests on.
THEOREM LoopInvariance == Spec => []DInv
BY InitDInv, NextDInv, PTL DEF Spec

\* A source is written only after a result that says FAIL, with a witness of the
\* run of that result and a sufficient diagnosis of that witness, and as the plan
\* wants it; the witness is valid if the validation that was read is one of it:
\* with any number of calls that overwrite each other's answers, and of edits
\* between their steps.
THEOREM RepairsAreEarned == Spec => []RepairsEarned
<1>1. DInv => RepairsEarned
  BY Busy DEF DInv, RepairsEarned, InHand, Diagnosed, Failed, Witnessed
<1> QED
  BY <1>1, LoopInvariance, PTL

\* A failure that nothing was written for is reported as one, and a FAIL is that
\* of the test or of the family; a PASS is that of the tests of its plan, of a
\* second test if something was written, and goes as far as the plan wants.
THEOREM ReportsAreEarned == Spec => []ReportsEarned
<1>1. DInv => ReportsEarned
  BY DEF DInv
<1> QED
  BY <1>1, LoopInvariance, PTL

=============================================================================
