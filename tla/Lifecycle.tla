----------------------------- MODULE Lifecycle ------------------------------
(***************************************************************************)
(* The Forge lifecycle: ForgeStateMachine projects the ledger and          *)
(* authorizes the next transition; the application services observe the    *)
(* project's files, authorize, build a record and commit it.  Nothing is   *)
(* locked between the authorization and the commit, so that several        *)
(* processes work from snapshots that may be old, while somebody edits     *)
(* the files.                                                              *)
(*                                                                         *)
(* A commit is one step (module RecordStore).  The identity of a candidate *)
(* is the content it was observed with.  Every other identity hashes a     *)
(* timestamp, so that it is unique and nobody can name it before its       *)
(* record is stored: it is modelled by the position of the record in the   *)
(* ledger.  Evidence is the results of candidate workflows.                *)
(*                                                                         *)
(* A process that has the native spine selected (Native) lets the kernel   *)
(* of module NativeKernel project the history too, refuses what the kernel *)
(* does not accept, and takes the stage from it.                           *)
(***************************************************************************)
EXTENDS NativeKernel, FiniteSets

CONSTANTS
    Procs,        \* processes that have the project open
    Mode,         \* development or evaluator, for each process
    Contents,     \* identities of the candidate files
    Authorities,  \* identities of the protected authority files
    Policies,     \* identities of the selection policy, which is the plan too
    Workflows,    \* candidate workflows
    Required,     \* the workflows a policy requires; none if it is malformed
    Statuses,     \* statuses that executions yield
    MaxRecords,   \* bound on the ledger: a call is made while there are fewer
    Native,       \* processes that have the native spine selected
    RootAnywhere  \* whether the kernel accepts a root where something is current

ASSUME ConstantsAssumption ==
    /\ Mode \in [Procs -> {"development", "evaluator"}]
    /\ Required \in [Policies -> SUBSET Workflows]
    /\ "PASS" \in Statuses /\ Statuses \subseteq {"PASS", "FAIL", "UNKNOWN"}
    /\ MaxRecords \in [{"epoch", "candidate", "result", "evaluation", "bundle",
                       "disposition", "freeze"} -> Nat]
    /\ Nil \notin Contents \cup Nat
    /\ Native \subseteq Procs
    /\ RootAnywhere \in BOOLEAN

VARIABLES
    history,   \* the ledger
    world,     \* what is on disk: candidate content, authority, policy
    pc,        \* where each process is
    call,      \* the call it executes
    seen,      \* the files as it observed them, and what it read them to require
    subject,   \* candidate and freeze it was authorized for
    draft,     \* the record it is about to commit
    grounds    \* what each record's call had read to be required; not in the record

files == <<history, grounds, world>>
locals == <<call, seen, subject, draft>>
vars == <<files, pc, locals>>

World == [content : Contents, authority : Authorities, policy : Policies]
Seen ==
    [content : Contents, authority : Authorities, policy : Policies,
     required : SUBSET Workflows, planned : SUBSET Workflows]

EpochRecord ==
    [type : {"epoch"}, parent : Nat \cup {Nil}, authority : Authorities]
CandidateRecord ==
    [type : {"candidate"}, id : Contents, parent : Contents \cup {Nil}, epoch : Nat]
ResultRecord ==
    [type : {"result"}, candidate : Contents, workflow : Workflows, status : Statuses]
\* Evaluations and bundles have a workflow and a status too, which nothing in
\* the lifecycle reads.
EvaluationRecord == [type : {"evaluation"}, candidate : Contents]
BundleRecord == [type : {"bundle"}, candidate : Contents]
DispositionRecord ==
    [type : {"disposition"}, candidate : Contents,
     disposition : {"selected", "rejected"}, policy : Policies,
     evidence : {"PASS", "FAIL", "UNKNOWN"}]
FreezeRecord ==
    [type : {"freeze"}, candidate : Contents, authority : Authorities,
     plan : Policies, selection : Nat]
Record ==
    EpochRecord \cup CandidateRecord \cup ResultRecord \cup EvaluationRecord
      \cup BundleRecord \cup DispositionRecord \cup FreezeRecord

Grounds == [policy : SUBSET Workflows, plan : SUBSET Workflows]

NoCall == [op |-> "none", parent |-> Nil]
NoSubject == [candidate |-> Nil, freeze |-> Nil]

Calls ==
    [op : {"epoch"}, parent : Nat \cup {Nil}]
      \cup [op : {"register", "refresh"}, parent : Contents \cup {Nil}]
      \cup [op : {"work", "selected", "rejected", "freeze",
                  "evaluate", "bundle", "none"}, parent : {Nil}]

Init ==
    /\ history = <<>>
    /\ world \in World
    /\ pc = [p \in Procs |-> "idle"]
    /\ call = [p \in Procs |-> NoCall]
    /\ seen = [p \in Procs |-> Nil]
    /\ subject = [p \in Procs |-> NoSubject]
    /\ draft = [p \in Procs |-> Nil]
    /\ grounds = <<>>

-----------------------------------------------------------------------------
(* ForgeStateMachine: the projection of a history *)

Indices(h, t) == {n \in 1..Len(h) : h[n].type = t}
Of(h, t, c) == {n \in Indices(h, t) : h[n].candidate = c}
Last(S) == CHOOSE n \in S : \A m \in S : m <= n
Before(S, n) == {m \in S : m < n}

HasEpoch(h) == Indices(h, "epoch") # {}
ActiveEpoch(h) == Last(Indices(h, "epoch"))

\* Every epoch names the one before it as its parent, the first none.
EpochChain(h) ==
    \A n \in Indices(h, "epoch") :
        LET earlier == Before(Indices(h, "epoch"), n)
        IN  h[n].parent = IF earlier = {} THEN Nil ELSE Last(earlier)

ActiveCandidates(h) ==
    {n \in Indices(h, "candidate") : HasEpoch(h) /\ h[n].epoch = ActiveEpoch(h)}
HasCandidate(h) == ActiveCandidates(h) # {}
CurrentCandidate(h) == h[Last(ActiveCandidates(h))].id

\* So do the candidates of the active epoch.
CandidateChain(h) ==
    \A n \in ActiveCandidates(h) :
        LET earlier == Before(ActiveCandidates(h), n)
        IN  h[n].parent = IF earlier = {} THEN Nil ELSE h[Last(earlier)].id

\* A candidate was recorded for an epoch that was superseded already.
SupersededCandidate(h) ==
    /\ HasEpoch(h)
    /\ \E n \in Indices(h, "candidate") : n > ActiveEpoch(h) /\ h[n].epoch # ActiveEpoch(h)

AtMostOne(S) == \A m, n \in S : m = n

Ambiguous(h) ==
    \/ ~EpochChain(h)
    \/ SupersededCandidate(h)
    \/ ~CandidateChain(h)
    \/ /\ HasCandidate(h)
       /\ \/ ~AtMostOne(Of(h, "disposition", CurrentCandidate(h)))
          \/ ~AtMostOne(Of(h, "freeze", CurrentCandidate(h)))

Frozen(h) == HasCandidate(h) /\ Of(h, "freeze", CurrentCandidate(h)) # {}
Freeze(h) == IF Frozen(h) THEN Last(Of(h, "freeze", CurrentCandidate(h))) ELSE Nil
Disposed(h) == Of(h, "disposition", CurrentCandidate(h)) # {}
Disposition(h) == Last(Of(h, "disposition", CurrentCandidate(h)))

\* _require_candidate: the current candidate is what is on disk.
Fresh(h, content) == HasCandidate(h) /\ CurrentCandidate(h) = content

\* The statuses of the evidence for a requirement; FAIL > UNKNOWN > PASS.
Evidence(h, c, w) == {h[n].status : n \in {m \in Of(h, "result", c) : h[m].workflow = w}}

\* EvidenceReadiness of the current candidate for the requirements R: every
\* one has evidence, all of it PASS, for the content and the authority that are
\* on disk.
Ready(h, o, R) ==
    /\ R # {}
    /\ \A w \in R : Evidence(h, CurrentCandidate(h), w) = {"PASS"}
    /\ CurrentCandidate(h) = o.content
    /\ h[ActiveEpoch(h)].authority = o.authority

ReadinessStatus(h, o) ==
    IF \E w \in o.required : "FAIL" \in Evidence(h, CurrentCandidate(h), w)
    THEN "FAIL" ELSE IF Ready(h, o, o.required) THEN "PASS" ELSE "UNKNOWN"

-----------------------------------------------------------------------------
(* ForgeStateMachine: the authorization of a call, from the history h and   *)
(* the files o as they were observed                                        *)

MayBegin(h, parent) ==
    parent = IF HasEpoch(h) THEN ActiveEpoch(h) ELSE Nil

\* Fault: a frozen epoch accepts another candidate.
MayRegisterFrozen(h, o, parent) ==
    /\ HasEpoch(h)
    /\ h[ActiveEpoch(h)].authority = o.authority
    /\ parent = IF HasCandidate(h) THEN CurrentCandidate(h) ELSE Nil
    /\ parent # o.content

\* Fault: the parent need not be the current candidate.
MayRegisterAnyParent(h, o, parent) ==
    /\ HasEpoch(h)
    /\ h[ActiveEpoch(h)].authority = o.authority
    /\ ~Frozen(h)
    /\ parent # o.content

MayRegister(h, o, parent) ==
    /\ HasEpoch(h)
    /\ h[ActiveEpoch(h)].authority = o.authority
    /\ ~Frozen(h)
    /\ parent = IF HasCandidate(h) THEN CurrentCandidate(h) ELSE Nil
    /\ parent # o.content

\* Fault: checks continue after the freeze.
MayWorkFrozen(h, o) == Fresh(h, o.content)

MayWork(h, o) == ~Frozen(h) /\ Fresh(h, o.content)

MayDispose(h, o, disposition) ==
    /\ Fresh(h, o.content)
    /\ ~Disposed(h)
    /\ disposition = "selected" => Ready(h, o, o.required)

\* Fault: the requirements of the evidence plan are not checked.
MayFreezeUnplanned(h, o) ==
    /\ Fresh(h, o.content)
    /\ h[ActiveEpoch(h)].authority = o.authority
    /\ Disposed(h)
    /\ h[Disposition(h)].disposition = "selected"
    /\ ~Frozen(h)
    /\ Ready(h, o, o.required)
    /\ h[Disposition(h)].policy = o.policy
    /\ h[Disposition(h)].evidence = "PASS"

\* The evidence plan was read before the policy was identified.
MayFreeze(h, o) ==
    /\ Fresh(h, o.content)
    /\ h[ActiveEpoch(h)].authority = o.authority
    /\ Disposed(h)
    /\ h[Disposition(h)].disposition = "selected"
    /\ ~Frozen(h)
    /\ Ready(h, o, o.required)
    /\ h[Disposition(h)].policy = o.policy
    /\ h[Disposition(h)].evidence = "PASS"
    /\ Ready(h, o, o.planned)

\* Fault: an evaluator accepts a selected candidate.
MayEvaluateSelected(h, o) ==
    /\ Fresh(h, o.content)
    /\ Disposed(h)
    /\ h[Disposition(h)].disposition = "selected"

MayEvaluate(h, o) ==
    /\ Frozen(h)
    /\ h[Freeze(h)].candidate = o.content
    /\ h[Freeze(h)].authority = o.authority
    /\ h[Freeze(h)].plan = o.policy
    /\ Fresh(h, o.content)
    /\ Disposed(h)
    /\ h[Disposition(h)].disposition = "selected"
    /\ h[Freeze(h)].selection = Disposition(h)

MayBundle(h, o, mode) ==
    IF mode = "evaluator" THEN MayEvaluate(h, o) ELSE Fresh(h, o.content)

\* What p has observed: candidate and selection policy before it read the
\* history, authority and the plan that a freeze binds after.
Observed(p) ==
    [seen[p] EXCEPT !.authority = world.authority,
                    !.policy = IF call[p].op \in {"evaluate", "bundle"}
                               THEN world.policy ELSE @]

\* The workflows that p read the policy to require.
RequiredBy(p) ==
    IF call[p].op \in {"selected", "rejected", "freeze"}
    THEN seen[p].required ELSE Required[seen[p].policy]

\* _native_history_events: the records that the kernel is told of, as events.
Event(h, n, R) ==
    LET r == h[n]
        Of1(kind) == [kind |-> kind, candidate |-> r.candidate]
    IN  CASE r.type = "epoch" -> [kind |-> "EpochStarted", epoch |-> n, parent |-> r.parent]
          [] r.type = "candidate" ->
               [kind |-> "CandidateRegistered", candidate |-> r.id,
                epoch |-> r.epoch, parent |-> r.parent]
          [] r.type = "result" ->
               IF r.workflow \in R
               THEN [kind |-> "EvidenceObserved", candidate |-> r.candidate,
                     status |-> r.status]
               ELSE NoEvent
          [] r.type = "disposition" ->
               Of1(IF r.disposition = "selected" THEN "CandidateSelected"
                   ELSE "CandidateRejected")
          [] r.type = "freeze" -> Of1("CandidateFrozen")
          [] r.type = "evaluation" -> Of1("EvaluationRecorded")
          [] OTHER -> NoEvent

Events(h, R) == [n \in 1..Len(h) |-> Event(h, n, R)]

Bundled(h) == HasCandidate(h) /\ Of(h, "bundle", CurrentCandidate(h)) # {}

\* _apply_native_projection: the kernel knows the same epoch and candidate and
\* finds no conflict.  Its stage replaces that of the host, unless there is a
\* bundle: then the host's own conflicts count.
NativeUnambiguous(roots, h, R) ==
    LET native == LifecycleProjection(roots, Events(h, R), Cardinality(R))
        s == native.state
    IN  /\ native.bounded
        /\ HasEpoch(h) => s.epoch = ActiveEpoch(h)
        /\ HasCandidate(h) => s.candidate = CurrentCandidate(h)
        /\ HasEpoch(h) /\ s.parentEpoch # Nil => s.parentEpoch = h[ActiveEpoch(h)].parent
        /\ HasCandidate(h) /\ s.parentCandidate # Nil =>
             s.parentCandidate = h[Last(ActiveCandidates(h))].parent
        /\ s.lineage
        /\ Bundled(h) => ~Ambiguous(h)

\* _require_unambiguous
Unambiguous(p, h, R) ==
    IF p \in Native THEN NativeUnambiguous(RootAnywhere, h, R) ELSE ~Ambiguous(h)

\* _native_transition: the kernel takes the step that the host is about to take.
Preflight(roots, h, R, op) ==
    LET stage == LifecycleProjection(roots, Events(h, R), Cardinality(R)).stage
        Step(operation, evidence, next, status, reason) ==
            LifecyclePreflight(stage, operation, evidence,
                               [stage |-> next, status |-> status, reason |-> reason])
    IN  Bundled(h) \/
        CASE op = "epoch" /\ ~HasEpoch(h) ->
               Step("BeginEpoch", "UNKNOWN", "EpochActive", "PASS", 0)
          [] op \in {"register", "refresh"} /\ ~HasCandidate(h) ->
               Step("RegisterCandidate", "UNKNOWN", "CandidateRegistered", "UNKNOWN", 0)
          [] op = "selected" ->
               Step("SelectCandidate", "PASS", "CandidateSelected", "PASS", 0)
          [] op = "rejected" ->
               Step("RejectCandidate", "UNKNOWN", "CandidateRejected", "FAIL", 9)
          [] op = "freeze" ->
               Step("FreezeCandidate", "PASS", "CandidateFrozen", "PASS", 0)
          [] OTHER -> TRUE

\* _authorize_bundle_native: what the kernel is told of a bundle.
NativeBundle(h, o, mode) ==
    BundlePreconditionProjection(
      [valid |-> TRUE, mode |-> mode,
       candidate |-> IF HasCandidate(h) THEN CurrentCandidate(h) ELSE Nil,
       requested |-> IF HasCandidate(h) THEN CurrentCandidate(h) ELSE Nil,
       current |-> Fresh(h, o.content),
       selected |-> /\ HasCandidate(h) /\ Disposed(h)
                    /\ h[Disposition(h)].disposition = "selected",
       frozen |-> Frozen(h),
       freezeCurrent |-> /\ Frozen(h)
                         /\ h[Freeze(h)].candidate = o.content
                         /\ h[Freeze(h)].authority = o.authority
                         /\ h[Freeze(h)].plan = o.policy])

Allowed(p) ==
    /\ Unambiguous(p, history, RequiredBy(p))
    /\ CASE call[p].op = "epoch"    -> MayBegin(history, call[p].parent)
         [] call[p].op \in {"register", "refresh"}
                                    -> MayRegister(history, Observed(p), call[p].parent)
         [] call[p].op = "work"     -> MayWork(history, Observed(p))
         [] call[p].op \in {"selected", "rejected"}
                                    -> MayDispose(history, Observed(p), call[p].op)
         [] call[p].op = "freeze"   -> MayFreeze(history, Observed(p))
         [] call[p].op = "evaluate" -> MayEvaluate(history, Observed(p))
         [] OTHER                   -> IF p \in Native
                                       THEN NativeBundle(history, Observed(p), Mode[p])
                                       ELSE MayBundle(history, Observed(p), Mode[p])
    /\ p \in Native => Preflight(RootAnywhere, history, RequiredBy(p), call[p].op)

-----------------------------------------------------------------------------
(* The application services *)

Goto(p, from, to) == pc[p] = from /\ pc' = [pc EXCEPT ![p] = to]

End(p) ==
    /\ pc' = [pc EXCEPT ![p] = "idle"]
    /\ call' = [call EXCEPT ![p] = NoCall]
    /\ seen' = [seen EXCEPT ![p] = Nil]
    /\ subject' = [subject EXCEPT ![p] = NoSubject]
    /\ draft' = [draft EXCEPT ![p] = Nil]

Prepare(p, r) == draft' = [draft EXCEPT ![p] = r]

TypeOf(op) ==
    CASE op \in {"register", "refresh"} -> "candidate"
      [] op = "work" -> "result"
      [] op \in {"selected", "rejected"} -> "disposition"
      [] op = "evaluate" -> "evaluation"
      [] OTHER -> op

\* The bound on the ledger.
Room(op) == Cardinality(Indices(history, TypeOf(op))) < MaxRecords[TypeOf(op)]

\* Somebody edits the project; contents may come back.
Edit ==
    /\ world' \in World
    /\ \E f \in DOMAIN world : \A g \in DOMAIN world \ {f} : world'[g] = world[g]
    /\ UNCHANGED <<history, grounds, pc, locals>>

Operations(p) ==
    IF Mode[p] = "evaluator" THEN {"evaluate", "bundle"}
    ELSE {"epoch", "register", "refresh", "work", "selected", "rejected",
          "freeze", "bundle"}

Look == [content |-> world.content, authority |-> world.authority,
         policy |-> world.policy, required |-> {}, planned |-> {}]

\* A call observes the files before it reads the history.  One that names a
\* candidate names the current one: all others are refused.  A freeze reads its
\* evidence plan first, which is the file of the policy.
Call(p, c) ==
    /\ c.op \in Operations(p)
    /\ Room(c.op)
    /\ Goto(p, "idle", CASE c.op \in {"selected", "rejected"} -> "parse"
                         [] c.op = "freeze" -> "identify"
                         [] OTHER -> "authorize")
    /\ call' = [call EXCEPT ![p] = c]
    /\ seen' = [seen EXCEPT ![p] =
                  [Look EXCEPT !.planned = IF c.op = "freeze"
                                           THEN Required[world.policy] ELSE {}]]
    /\ UNCHANGED <<files, subject, draft>>

\* It identifies the policy after that.
Identify(p) ==
    /\ Goto(p, "identify", "parse")
    /\ seen' = [seen EXCEPT ![p] = [Look EXCEPT !.planned = seen[p].planned]]
    /\ UNCHANGED <<files, call, subject, draft>>

\* When the policy is identified its requirements are read, and the candidate is
\* identified.
Parse(p) ==
    /\ Goto(p, "parse", "authorize")
    /\ seen' = [seen EXCEPT ![p].required = Required[world.policy],
                            ![p].content = world.content]
    /\ UNCHANGED <<files, call, subject, draft>>

\* CandidateService.refresh: a candidate that is not what is on disk gets a
\* successor, by a call of register ...
Refresh(p) ==
    /\ "refresh" \in Operations(p)
    /\ Room("refresh")
    /\ HasCandidate(history)
    /\ ~Fresh(history, world.content)
    /\ Goto(p, "idle", "refresh")
    /\ call' = [call EXCEPT ![p] =
                  [op |-> "refresh", parent |-> CurrentCandidate(history)]]
    /\ UNCHANGED <<files, seen, subject, draft>>

\* ... which observes the files again.
RefreshCall(p) ==
    /\ Goto(p, "refresh", "authorize")
    /\ seen' = [seen EXCEPT ![p] = Look]
    /\ UNCHANGED <<files, call, subject, draft>>

Refuse(p) ==
    /\ pc[p] = "authorize"
    /\ ~Allowed(p)
    /\ End(p)
    /\ UNCHANGED files

\* The record of a candidate or a disposition follows from the snapshot.
AuthorizeRecord(p) ==
    /\ call[p].op \in {"register", "refresh", "selected", "rejected"}
    /\ Goto(p, "authorize", "commit")
    /\ Allowed(p)
    /\ IF call[p].op \in {"register", "refresh"}
       THEN Prepare(p, [type |-> "candidate", id |-> seen[p].content,
                        parent |-> call[p].parent, epoch |-> ActiveEpoch(history)])
       ELSE Prepare(p, [type |-> "disposition", candidate |-> CurrentCandidate(history),
                        disposition |-> call[p].op, policy |-> seen[p].policy,
                        evidence |-> ReadinessStatus(history, Observed(p))])
    /\ UNCHANGED <<files, call, seen, subject>>

\* Work and bundle are authorized for a candidate, an evaluation for a freeze
\* too; a freeze binds a candidate and its selection; epochs have no subject.
AuthorizeSubject(p) ==
    /\ call[p].op \in {"epoch", "freeze", "work", "evaluate", "bundle"}
    /\ Goto(p, "authorize",
            CASE call[p].op \in {"epoch", "freeze"} -> "build"
              [] call[p].op = "evaluate" -> "before"
              [] OTHER -> "execute")
    /\ Allowed(p)
    /\ subject' = [subject EXCEPT ![p] =
         IF call[p].op = "epoch" THEN NoSubject
         ELSE [candidate |-> CurrentCandidate(history),
               freeze |-> CASE call[p].op = "freeze" -> Disposition(history)
                            [] call[p].op = "evaluate" -> Freeze(history)
                            [] OTHER -> Nil]]
    /\ UNCHANGED <<files, call, seen, draft>>

\* Authority and plan are observed again for the record of an epoch or a
\* freeze.
Build(p) ==
    /\ Goto(p, "build", "commit")
    /\ Prepare(p,
         IF call[p].op = "epoch"
         THEN [type |-> "epoch", parent |-> call[p].parent,
               authority |-> world.authority]
         ELSE [type |-> "freeze", candidate |-> subject[p].candidate,
               authority |-> world.authority, plan |-> world.policy,
               selection |-> subject[p].freeze])
    /\ UNCHANGED <<files, call, seen, subject>>

\* An evaluation observes the files before each workflow, to detect drift.
LookBefore(p) ==
    /\ Goto(p, "before", "execute")
    /\ seen' = [seen EXCEPT ![p] = Look]
    /\ UNCHANGED <<files, call, subject, draft>>

Outcome(p, w, s) ==
    LET c == subject[p].candidate
    IN  CASE call[p].op = "work"
               -> [type |-> "result", candidate |-> c, workflow |-> w, status |-> s]
          [] call[p].op = "evaluate"
               -> [type |-> "evaluation", candidate |-> c]
          [] OTHER -> [type |-> "bundle", candidate |-> c]

\* Fault: the termination of the process becomes the status.
ExecuteRaw(p) ==
    /\ Goto(p, "execute", "commit")
    /\ \E w \in Workflows : Prepare(p, Outcome(p, w, "TIMEOUT"))
    /\ UNCHANGED <<files, call, seen, subject>>

\* A workflow is executed on the files as they are now.
Execute(p) ==
    /\ Goto(p, "execute", "commit")
    /\ Room(call[p].op)
    /\ \E w \in Workflows, s \in Statuses : Prepare(p, Outcome(p, w, s))
    /\ UNCHANGED <<files, call, seen, subject>>

\* The store refuses another record of a candidate that is registered.
RecordExists(p) ==
    /\ pc[p] = "commit"
    /\ draft[p].type = "candidate"
    /\ \E n \in Indices(history, "candidate") : history[n].id = draft[p].id
    /\ End(p)
    /\ UNCHANGED files

\* What the call of a disposition or a freeze read to be required.
GroundsOf(s, r) ==
    IF r.type \in {"disposition", "freeze"}
    THEN [policy |-> s.required, plan |-> s.planned]
    ELSE [policy |-> {}, plan |-> {}]

Store(p) ==
    /\ pc[p] = "commit"
    /\ draft[p].type = "candidate" =>
         \A n \in Indices(history, "candidate") : history[n].id # draft[p].id
    /\ history' = Append(history, draft[p])
    /\ grounds' = Append(grounds, GroundsOf(seen[p], draft[p]))

\* A call that stores one record ends with it.
Commit(p) ==
    /\ call[p].op \notin {"work", "evaluate"}
    /\ Store(p)
    /\ End(p)
    /\ UNCHANGED world

\* A list of workflows goes on with the next one, under the authorization of
\* the call; an evaluation looks for drift first.
CommitResult(p) ==
    /\ call[p].op \in {"work", "evaluate"}
    /\ Store(p)
    /\ \/ /\ pc' = [pc EXCEPT ![p] =
                      IF call[p].op = "evaluate" THEN "check" ELSE "execute"]
          /\ draft' = [draft EXCEPT ![p] = Nil]
          /\ UNCHANGED <<call, seen, subject>>
       \/ /\ call[p].op = "work"
          /\ End(p)
    /\ UNCHANGED world

\* The evaluation is in the ledger when drift, or another freeze, is found.
\* The observations that are compared here are one step.
Check(p) ==
    /\ pc[p] = "check"
    /\ IF /\ world.content = seen[p].content
          /\ world.authority = seen[p].authority
          /\ Unambiguous(p, history, Required[world.policy])
          /\ MayEvaluate(history, world)
          /\ Freeze(history) = subject[p].freeze
       THEN \/ /\ pc' = [pc EXCEPT ![p] = "before"]
               /\ UNCHANGED locals
            \/ End(p)
       ELSE End(p)
    /\ UNCHANGED files

\* The process dies, its provider fails or the store raises.
Abandon(p) ==
    /\ pc[p] # "idle"
    /\ End(p)
    /\ UNCHANGED files

-----------------------------------------------------------------------------

Next ==
    \/ Edit
    \/ \E p \in Procs :
         \/ \E parent \in Indices(history, "epoch") \cup {Nil} :
               Call(p, [op |-> "epoch", parent |-> parent])
         \/ \E parent \in Contents \cup {Nil} : Call(p, [op |-> "register", parent |-> parent])
         \/ \E op \in Operations(p) \ {"epoch", "register", "refresh"} :
               Call(p, [op |-> op, parent |-> Nil])
         \/ Refresh(p) \/ RefreshCall(p) \/ Identify(p) \/ Parse(p) \/ Refuse(p) \/ AuthorizeRecord(p)
         \/ AuthorizeSubject(p) \/ Build(p) \/ LookBefore(p) \/ Execute(p)
         \/ RecordExists(p) \/ Commit(p) \/ CommitResult(p) \/ Check(p) \/ Abandon(p)

Spec == Init /\ [][Next]_vars

-----------------------------------------------------------------------------
(* Properties *)

\* Every variable has its type.
TypeOK ==
    /\ history \in Seq(Record)
    /\ world \in World
    /\ pc \in [Procs -> {"idle", "refresh", "identify", "parse", "authorize", "build",
                         "before", "execute", "commit", "check"}]
    /\ call \in [Procs -> Calls]
    /\ seen \in [Procs -> Seen \cup {Nil}]
    /\ subject \in [Procs -> [candidate : Contents \cup {Nil}, freeze : Nat \cup {Nil}]]
    /\ draft \in [Procs -> Record \cup {Nil}]
    /\ grounds \in Seq(Grounds)
    /\ Len(grounds) = Len(history)

\* The workflows R, at least one, had passed for candidate c when record n of
\* history h was stored.
Passed(h, R, c, n) ==
    /\ R # {}
    /\ \A w \in R :
          \E j \in Of(h, "result", c) :
              j < n /\ h[j].workflow = w /\ h[j].status = "PASS"

\* A freeze m of history h binds an earlier selection of the same candidate, and
\* each has PASS for what its own call read to be required (b): the selection by
\* the policy, the freeze by the policy and by the evidence plan.  What was read
\* is not what the identities in the two records stand for, if the policy was
\* edited between its identification and its reading.
Justified(h, b, m) ==
    LET k == h[m].selection
        c == h[m].candidate
    IN  /\ k \in Of(h, "disposition", c)
        /\ k < m
        /\ h[k].disposition = "selected"
        /\ Passed(h, b[k].policy, c, k)
        /\ Passed(h, b[m].policy, c, m)
        /\ Passed(h, b[m].plan, c, m)

\* A freeze observes the policy three times (plan, identity, requirements) and
\* commits after it was authorized, the selection before it twice; between any
\* two somebody edits, or the process dies.  A freeze in the ledger is justified.
FreezeJustified ==
    \A m \in Indices(history, "freeze") : Justified(history, grounds, m)

\* The gates of the lifecycle hold across processes, although each authorizes
\* on its own snapshot and commits later: an evaluation in the ledger comes
\* after a freeze of its candidate that is justified.
EvaluationJustified ==
    \A n \in Indices(history, "evaluation") :
        \E m \in Of(history, "freeze", history[n].candidate) :
            m < n /\ Justified(history, grounds, m)

\* One development process never produces a history that blocks every later
\* mutation, whatever is edited and wherever it dies.
NeverAmbiguous == ~Ambiguous(history)

\* docs/lifecycle.md: a frozen epoch requires a successor epoch before more
\* candidate registration.  In a history that is not reported as ambiguous,
\* no candidate of an epoch follows a freeze of that epoch.
FrozenEpochClosed ==
    ~Ambiguous(history) =>
      \A m \in Indices(history, "freeze"), n \in Indices(history, "candidate") :
          m < n => \A k \in Indices(history, "candidate") :
                     history[k].id = history[m].candidate => history[k].epoch # history[n].epoch

\* A candidate that is frozen has no evidence against it in the whole ledger:
\* every result of a workflow that the freeze read policy and plan to require is
\* PASS, also one that was stored after the selection or after the freeze.
FrozenEvidenceClean ==
    \A m \in Indices(history, "freeze") :
      \A w \in grounds[m].policy \cup grounds[m].plan :
        Evidence(history, history[m].candidate, w) = {"PASS"}

\* The kernel and the host project one lifecycle: on every history that the
\* kernel accepts, whichever policy selects the evidence, the two know the same
\* epoch, candidate, disposition, freeze and evaluation, so that none of the
\* checks of _apply_native_projection raises, and a candidate that the host
\* finds ready is at a stage from which the kernel selects it.  A kernel that
\* accepts no second root accepts no history that the host calls ambiguous.
KernelAgrees ==
    \A roots \in BOOLEAN, q \in Policies :
      LET R == Required[q]
          s == ProjectEvents(roots, Events(history, R))
          c == CurrentCandidate(history)
      IN  s.lineage =>
            /\ s.epoch = IF HasEpoch(history) THEN ActiveEpoch(history) ELSE Nil
            /\ s.candidate = IF HasCandidate(history) THEN c ELSE Nil
            /\ HasCandidate(history) =>
                 /\ s.disposition = "Undisposed" <=> ~Disposed(history)
                 /\ s.disposition = "Selected" =>
                      history[Disposition(history)].disposition = "selected"
                 /\ s.frozen = Frozen(history)
                 /\ s.evaluated = (Of(history, "evaluation", c) # {})
                 /\ /\ R # {} /\ ~Disposed(history)
                    /\ \A w \in R : Evidence(history, c, w) = {"PASS"}
                    => ProjectStage(s, Cardinality(R)) = "CandidateReady"
            /\ ~roots => ~Ambiguous(history)

\* Whatever the files are, a bundle that the kernel finds ready is one that the
\* host alone would have authorized, although the kernel does not compare the
\* selection that the freeze binds; or the kernel accepts the history under no
\* policy.
BundleAgrees ==
    \A mode \in {"development", "evaluator"} :
        NativeBundle(history, world, mode) =>
            \/ ~Ambiguous(history) /\ MayBundle(history, world, mode)
            \/ \A q \in Policies : ~NativeUnambiguous(FALSE, history, Required[q])
=============================================================================
