------------------------------ MODULE Receipts ------------------------------
(***************************************************************************)
(* Declared workflows are executed by a runner, and what it observed is    *)
(* bound to the ledger: persist_workflow_execution commits the action, the *)
(* receipt binding and the result one after the other, nothing recovers a  *)
(* process that dies in between, and assess_execution_receipt judges the   *)
(* bindings later.  Verifiers add their results to the same ledger (module *)
(* VerifierActions has their protocol; here one is a single step).         *)
(*                                                                         *)
(* Three runners exist: the local process, a rootless Podman container and *)
(* a Fabric worker, whose execution records FabricExecutionAdapter takes   *)
(* on trust.  The bytes of an execution are abstracted (module             *)
(* BoundedExecution): an observation says how it ended, whether everything *)
(* about it was measured and what the runner enforced.                     *)
(***************************************************************************)
EXTENDS Naturals, Sequences, FiniteSets

CONSTANTS
    Procs,           \* processes that have the project open
    Candidates,      \* identities of the candidate files
    Authorities,     \* identities of the protected authority files
    Environments,    \* what a workflow may read of its environment
    Policies,        \* identities of the verifier policy
    Workflows, Verifiers,
    Protocol,        \* workflows that speak the provider protocol
    ProjectScoped,   \* workflows whose subject is the project
    FabricRecords,   \* execution records that a Fabric worker may deliver
    Replies,         \* statuses that workflows and verifiers declare, or none
    Endings,         \* how executions end
    Requests,        \* sets of properties that assessments ask for
    Bounds           \* bounds of the behaviours explored: the runners that the
                     \* project is configured with, and how many executions,
                     \* results of verifiers, assessments and edits there are

Statuses == {"PASS", "FAIL", "UNKNOWN"}
Kinds == {"local-process", "podman-rootless", "fabric-backed"}
Capability == {"enforced", "not-provided", "unknown"}
Codes == {"none", "zero", "nonzero"}
Project == "project"

\* _INCOMPLETE_TERMINATIONS
Incomplete ==
    {"timeout", "output-limit", "crash", "cancelled", "internal-runner-error",
     "policy-rejected", "resource-limit"}
Ended == {"completed", "nonzero-exit", "signal"}

\* ASSURANCE_REQUEST_PROPERTIES, and those of them that a container gives
Vocabulary ==
    {"runner_capability", "filesystem_isolation", "network_isolation",
     "containerization", "same_operator_execution"}
ContainerProperties == {"filesystem_isolation", "network_isolation", "containerization"}

\* What Fabric reports: why the job ended, its exit code, whether there is a
\* duration, whether the streams are measured, whether identities have their
\* form, an error code, and what it says of the worker.
FabricRecord ==
    [reason : STRING, code : Codes, duration : BOOLEAN, streams : BOOLEAN,
     named : BOOLEAN, error : BOOLEAN, filesystem : Capability, network : Capability,
     image : BOOLEAN, same : {"yes", "no", "unknown"}]

ASSUME ReceiptsAssumption ==
    /\ Protocol \subseteq Workflows /\ ProjectScoped \subseteq Workflows
    /\ Workflows \cap Verifiers = {}
    /\ Project \notin Candidates
    /\ \A r \in FabricRecords : r \in FabricRecord
    /\ Bounds \subseteq [runners : SUBSET Kinds, started : Nat, verified : Nat,
                       assessed : Nat, edits : Nat]
    /\ Endings \subseteq Ended \cup {"timeout", "output-limit", "internal-runner-error"}
    /\ Replies \subseteq Statuses \cup {"none"}

VARIABLES
    ledger,    \* the records
    world,     \* what is on disk: candidate content, authority, environment, policy
    task,      \* the execution that each process has in hand
    started,   \* executions that were begun; their number names action and result
    edits,     \* edits so far
    bound      \* the bounds of this behaviour

vars == <<ledger, world, task, started, edits, bound>>

World ==
    [content : Candidates, authority : Authorities, environment : Environments,
     policy : Policies]

Idle == [pc |-> "idle"]

Init ==
    /\ ledger = <<>>
    /\ world \in World
    /\ task = [p \in Procs |-> Idle]
    /\ started = 0
    /\ edits = 0
    /\ bound \in Bounds

-----------------------------------------------------------------------------
(* Runners: the session that an execution ends with *)

\* ExecutionObservationBuilder: one that ends by itself is measured in full,
\* one that raises is not and has no result.
Sessions(observation) ==
    {[observation EXCEPT !.termination = t, !.result = IF t = "completed" THEN "zero" ELSE "nonzero"]
        : t \in Endings \cap Ended}
    \cup
    {[observation EXCEPT !.termination = t, !.measured = FALSE, !.error = TRUE]
        : t \in Endings \ Ended}

LocalSessions ==
    Sessions([kind |-> "local-process", termination |-> "completed", result |-> "none",
              error |-> FALSE, measured |-> TRUE, named |-> TRUE,
              filesystem |-> "not-provided", network |-> "not-provided",
              image |-> FALSE, same |-> "yes"])

\* The runtime identity contains the output of podman --version, blanks and
\* all, which is not an identifier.  An image that has only a tag has no
\* identity.
PodmanSessions ==
    UNION {Sessions([kind |-> "podman-rootless", termination |-> "completed", result |-> "none",
                     error |-> FALSE, measured |-> TRUE, named |-> FALSE,
                     filesystem |-> "enforced", network |-> "enforced",
                     image |-> image, same |-> "yes"]) : image \in BOOLEAN}

FabricTermination(reason) ==
    CASE reason = "exit-zero" -> "completed"
      [] reason \in Ended \cup {"timeout", "output-limit", "crash", "cancelled"} -> reason
      [] OTHER -> "internal-runner-error"

\* FabricExecutionAdapter: there is a result when there is an exit code and a
\* duration, whatever the termination.
FabricSession(r) ==
    [kind |-> "fabric-backed", termination |-> FabricTermination(r.reason),
     result |-> IF r.duration THEN r.code ELSE "none",
     error |-> r.error, measured |-> r.duration /\ r.streams, named |-> r.named,
     filesystem |-> r.filesystem, network |-> r.network, image |-> r.image, same |-> r.same]

SessionsOf(kind) ==
    CASE kind = "local-process"   -> LocalSessions
      [] kind = "podman-rootless" -> PodmanSessions
      [] kind = "fabric-backed"   -> {FabricSession(r) : r \in FabricRecords}

\* WorkflowExecutor.execute: the status of the result, or none when there is an
\* error instead.  reply is the status that the standard output declares.
Verdict(w, s, reply) ==
    IF s.error \/ s.result = "none" THEN "none"
    ELSE IF w \in Protocol THEN IF s.result = "zero" THEN reply ELSE "none"
    ELSE IF s.result = "nonzero" THEN "FAIL"
    ELSE IF reply = "none" THEN "UNKNOWN" ELSE reply

-----------------------------------------------------------------------------
(* Receipts: what an observation establishes *)

State(capability) ==
    CASE capability = "enforced"     -> "established"
      [] capability = "not-provided" -> "not-established"
      [] capability = "unknown"      -> "unknown"

\* established_properties, of those that can be requested.  Every runner says
\* that it enforces its limits.
EstablishedProperties(s) ==
    [q \in Vocabulary |->
        CASE q = "runner_capability"       -> "established"
          [] q = "filesystem_isolation"    -> State(s.filesystem)
          [] q = "network_isolation"       -> State(s.network)
          [] q = "containerization"        -> IF s.image THEN "established" ELSE "not-established"
          [] q = "same_operator_execution" ->
               IF s.same = "yes" THEN "established"
               ELSE IF s.same = "no" THEN "not-established" ELSE "unknown"]

\* Fault: how the execution ended does not count.
CompletenessMeasured(s) == IF s.measured THEN "complete" ELSE "incomplete"

\* _completeness: an execution that was cut short or not measured is not.
Completeness(s) ==
    IF s.termination \notin Incomplete /\ s.measured THEN "complete" ELSE "incomplete"

\* build_mncs_execution_receipt raises RECEIPT_OBSERVATION for what was not
\* measured and RECEIPT_CONTEXT when an identity has no form.
BuildReceipt(s) ==
    IF ~s.measured THEN "incomplete" ELSE IF ~s.named THEN "malformed" ELSE "complete"

\* _envelope: the upstream receipt is only built of a complete execution.
Envelope(s) == IF Completeness(s) = "complete" THEN BuildReceipt(s) ELSE Completeness(s)

\* The field truth is not in the code: it keeps what happened, for the
\* properties.
Bind(t) ==
    [type |-> "binding", action |-> t.id, result |-> IF t.status = "none" THEN 0 ELSE t.id,
     candidate |-> t.candidate, workflow |-> t.workflow, kind |-> t.session.kind,
     termination |-> t.session.termination, completeness |-> Envelope(t.session),
     properties |-> EstablishedProperties(t.session), truth |-> t.session]

Indices(type) == {n \in 1..Len(ledger) : ledger[n].type = type}

\* binding_for_action
BindingsOf(action) == {n \in Indices("binding") : ledger[n].action = action}

-----------------------------------------------------------------------------
(* Assurance *)

\* A local process cannot isolate: a claim that it did is a contradiction.
Laundering(b) ==
    b.kind = "local-process" /\ \E q \in ContainerProperties : b.properties[q] = "established"

Unmet(b, requested) ==
    IF b.completeness # "complete" THEN requested
    ELSE {q \in requested : b.properties[q] # "established"}

AssuranceStatus(b, requested) ==
    IF Laundering(b) THEN "FAIL" ELSE IF Unmet(b, requested) # {} THEN "UNKNOWN" ELSE "PASS"

-----------------------------------------------------------------------------
(* Operations *)

Store(r) == ledger' = Append(ledger, r)

Current ==
    LET S == Indices("candidate")
    IN  IF S = {} THEN "none" ELSE ledger[CHOOSE n \in S : \A m \in S : m <= n].id

\* Somebody edits the project.
Edit ==
    /\ edits < bound.edits
    /\ edits' = edits + 1
    /\ world' \in World \ {world}
    /\ \E f \in DOMAIN world : \A g \in DOMAIN world \ {f} : world'[g] = world[g]
    /\ UNCHANGED <<ledger, task, started, bound>>

\* A candidate of an epoch that was begun under the authority of now (module
\* Lifecycle).
Register ==
    /\ \A n \in Indices("candidate") : ledger[n].id # world.content
    /\ Store([type |-> "candidate", id |-> world.content, authority |-> world.authority])
    /\ UNCHANGED <<world, task, started, edits, bound>>

\* A workflow is authorized for the current candidate, which is on disk, or for
\* the project; its action is built.
Begin(p, w) ==
    /\ task[p] = Idle
    /\ started < bound.started
    /\ w \in ProjectScoped \/ Current = world.content
    /\ started' = started + 1
    /\ task' = [task EXCEPT ![p] =
                 [pc |-> "run", id |-> started + 1, workflow |-> w,
                  candidate |-> IF w \in ProjectScoped THEN Project ELSE Current]]
    /\ UNCHANGED <<ledger, world, edits, bound>>

\* The runner returns a session, and the result is built from it.
Run(p) ==
    /\ task[p].pc = "run"
    /\ \E k \in bound.runners : \E s \in SessionsOf(k), reply \in Replies :
         /\ task' = [task EXCEPT ![p] =
               [pc |-> "action", id |-> task[p].id, candidate |-> task[p].candidate,
                workflow |-> task[p].workflow, session |-> s, environment |-> world.environment,
                status |-> Verdict(task[p].workflow, s, reply)]]
    /\ UNCHANGED <<ledger, world, started, edits, bound>>

\* The runner raises (Podman is not available, or an execution record of Fabric
\* is malformed), the process dies, or a commit fails: the call ends where it is.
Fail(p) ==
    /\ task[p] # Idle
    /\ task' = [task EXCEPT ![p] = Idle]
    /\ UNCHANGED <<ledger, world, started, edits, bound>>

PersistAction(p) ==
    /\ task[p].pc = "action"
    /\ BindingsOf(task[p].id) = {}
    /\ Store([type |-> "action", id |-> task[p].id, candidate |-> task[p].candidate,
              workflow |-> task[p].workflow])
    /\ task' = [task EXCEPT ![p].pc = "binding"]
    /\ UNCHANGED <<world, started, edits, bound>>

ResultOf(t) ==
    [type |-> "result", id |-> t.id, candidate |-> t.candidate, workflow |-> t.workflow,
     status |-> t.status, environment |-> t.environment]

\* Fault: the result is committed before its binding.
PersistResultFirst(p) ==
    /\ task[p].pc = "binding"
    /\ IF task[p].status = "none"
       THEN Store(Bind(task[p])) /\ task' = [task EXCEPT ![p] = Idle]
       ELSE Store(ResultOf(task[p])) /\ task' = [task EXCEPT ![p] = Idle]
    /\ UNCHANGED <<world, started, edits, bound>>

\* The binding names the result that is yet to come.
PersistBinding(p) ==
    /\ task[p].pc = "binding"
    /\ Store(Bind(task[p]))
    /\ task' = [task EXCEPT ![p] =
                  IF task[p].status = "none" THEN Idle ELSE [@ EXCEPT !.pc = "result"]]
    /\ UNCHANGED <<world, started, edits, bound>>

PersistResult(p) ==
    /\ task[p].pc = "result"
    /\ Store(ResultOf(task[p]))
    /\ task' = [task EXCEPT ![p] = Idle]
    /\ UNCHANGED <<world, started, edits, bound>>

\* The result of a verifier, as one step; what it examined was on disk when it
\* was prepared.
Verify(v, status, input) ==
    /\ Cardinality(Indices("verifier")) < bound.verified
    /\ Current \in Candidates
    /\ Store([type |-> "verifier", verifier |-> v, candidate |-> Current, input |-> input,
              status |-> status, environment |-> world.environment, policy |-> world.policy])
    /\ UNCHANGED <<world, task, started, edits, bound>>

\* assess_execution_receipt: requests outside the vocabulary, or empty ones,
\* are refused.
Assess(n, requested) ==
    /\ Cardinality(Indices("assurance")) < bound.assessed
    /\ requested # {} /\ requested \subseteq Vocabulary
    /\ n \in Indices("binding")
    /\ Store([type |-> "assurance", binding |-> n, requested |-> requested,
              unmet |-> Unmet(ledger[n], requested),
              status |-> AssuranceStatus(ledger[n], requested)])
    /\ UNCHANGED <<world, task, started, edits, bound>>

Next ==
    \/ Edit \/ Register
    \/ \E p \in Procs :
         \/ \E w \in Workflows : Begin(p, w)
         \/ Run(p) \/ Fail(p) \/ PersistAction(p) \/ PersistBinding(p) \/ PersistResult(p)
    \/ \E v \in Verifiers, s \in Replies \cap Statuses, c \in Candidates : Verify(v, s, c)
    \/ \E n \in Indices("binding"), requested \in Requests : Assess(n, requested)

Spec == Init /\ [][Next]_vars

-----------------------------------------------------------------------------
(* Properties *)

\* Although only the binding is read, an assessment that passes rests on an
\* execution that ended by itself and was measured in full, and its runner did
\* enforce, or report, every property that was requested: never isolation by a
\* local process.
AssuranceEarned ==
    \A n \in Indices("assurance") :
        ledger[n].status = "PASS" =>
          LET s == ledger[ledger[n].binding].truth
          IN  /\ s.termination \in Ended /\ s.measured /\ s.named
              /\ "filesystem_isolation" \in ledger[n].requested => s.filesystem = "enforced"
              /\ "network_isolation" \in ledger[n].requested => s.network = "enforced"
              /\ "containerization" \in ledger[n].requested => s.image
              /\ "same_operator_execution" \in ledger[n].requested => s.same = "yes"
              /\ ledger[n].requested \cap ContainerProperties # {} => s.kind # "local-process"

\* Wherever a process dies between the three commits, a result in the ledger is
\* preceded by the one binding of its execution, which names it, and that by
\* the action, all for one subject; and the execution ended by itself, unless a
\* Fabric worker reported it.
ResultsReceipted ==
    \A n \in Indices("result") :
        \E b \in Indices("binding"), a \in Indices("action") :
            /\ a < b /\ b < n
            /\ BindingsOf(ledger[n].id) = {b}
            /\ ledger[b].result = ledger[n].id /\ ledger[a].id = ledger[b].action
            /\ ledger[n].candidate = ledger[b].candidate
            /\ ledger[n].workflow = ledger[a].workflow
            /\ ledger[b].kind # "fabric-backed" => ledger[b].termination \in Ended
=============================================================================
