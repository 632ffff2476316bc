-------------------------- MODULE VerifierActions ---------------------------
(***************************************************************************)
(* Durable verifier actions: MicroVerifierService.run and batch, the       *)
(* per-action execution locks, and RecoveryService, which gives an action  *)
(* stranded by a dead process its terminal UNKNOWN when Forge is opened.   *)
(*                                                                         *)
(* A commit to the record store is one step here; module RecordStore shows *)
(* that it is.  The project's files are known by their contents, which are *)
(* numbered; an edit may bring back contents that were there before.       *)
(***************************************************************************)
EXTENDS Naturals, FiniteSets

CONSTANTS
    Procs,       \* processes that open the state directory
    Actions,     \* verifier action identities
    MaxVersion,  \* the contents of each of the two file sets are 0..MaxVersion
    Evaluator,   \* evaluator mode (a freeze is current), else development mode
    Faults,      \* which of "crash", "ledgerTimeout", "raise", "sameTick" happen
    Nil

ASSUME ConstantsAssumption ==
    /\ MaxVersion \in Nat
    /\ Evaluator \in BOOLEAN
    /\ Faults \subseteq {"crash", "ledgerTimeout", "raise", "sameTick"}
    /\ Nil \notin Procs \cup Actions
    /\ Nil \notin Nat

VARIABLES
    world,      \* current candidate and authority identities
    recorded,   \* verifier_action records: the candidate of each action
    results,    \* verifier_result records
    bindings,   \* execution_receipt_binding records
    alock,      \* holder of each action's execution lock
    pc, act, cand, prior, before, ran, todo,   \* locals of the processes
    report      \* what the last call of a process told its caller

durable == <<recorded, results, bindings>>
locals == <<act, cand, prior, before, ran, todo>>
vars == <<world, durable, alock, pc, locals, report>>

Statuses == {"PASS", "FAIL", "UNKNOWN"}
Worlds == [candidate : 0..MaxVersion, authority : 0..MaxVersion]
Frozen == [candidate |-> 0, authority |-> 0]

\* A verifier_result: who wrote it and what it says.  The rest is not in the
\* record: the candidate observed before the provider ran, the candidate that
\* its workspace was copied from (Nil when there was none), and whether the
\* candidate was edited between the observations before and after the run.
Result == [action : Actions, by : Procs, recovered : BOOLEAN,
           status : Statuses, observed : 0..MaxVersion \cup {Nil},
           saw : 0..MaxVersion \cup {Nil}, touched : BOOLEAN]

\* What an execution yields before drift checks; session is FALSE when the
\* provider could not be started at all.
NotRun == [status |-> "UNKNOWN", saw |-> Nil, session |-> FALSE, touched |-> FALSE]
Runs == [status : Statuses, saw : 0..MaxVersion \cup {Nil}, session : BOOLEAN,
         touched : BOOLEAN]

Terminal == {r.action : r \in results}
RecordedActions == {a \in Actions : recorded[a] # Nil}

Init ==
    /\ world = Frozen
    /\ recorded = [a \in Actions |-> Nil]
    /\ results = {}
    /\ bindings = {}
    /\ alock = [a \in Actions |-> Nil]
    /\ pc = [p \in Procs |-> "down"]
    /\ act = [p \in Procs |-> Nil]
    /\ cand = [p \in Procs |-> Nil]
    /\ prior = [p \in Procs |-> {}]
    /\ before = [p \in Procs |-> Frozen]
    /\ ran = [p \in Procs |-> NotRun]
    /\ todo = [p \in Procs |-> {}]
    /\ report = [p \in Procs |-> "NONE"]

-----------------------------------------------------------------------------

Goto(p, from, to) == pc[p] = from /\ pc' = [pc EXCEPT ![p] = to]

Released(p) == [a \in Actions |-> IF alock[a] = p THEN Nil ELSE alock[a]]

\* The call of p ends: the lock is released and its locals are gone.
End(p, to, r) ==
    /\ pc' = [pc EXCEPT ![p] = to]
    /\ report' = [report EXCEPT ![p] = r]
    /\ alock' = Released(p)
    /\ act' = [act EXCEPT ![p] = Nil]
    /\ cand' = [cand EXCEPT ![p] = Nil]
    /\ prior' = [prior EXCEPT ![p] = {}]
    /\ before' = [before EXCEPT ![p] = Frozen]
    /\ ran' = [ran EXCEPT ![p] = NotRun]
    /\ todo' = [todo EXCEPT ![p] = {}]

\* Between the two observations of _execute.
Executing == {"provider", "driftCheck"}

\* Somebody edits candidate or authority files, or puts them back.
Edit ==
    /\ \E f \in {"candidate", "authority"} : \E v \in 0..MaxVersion \ {world[f]} :
          /\ world' = [world EXCEPT ![f] = v]
          /\ ran' = [p \in Procs |->
                       IF f = "candidate" /\ pc[p] \in Executing
                       THEN [ran[p] EXCEPT !.touched = TRUE] ELSE ran[p]]
    /\ UNCHANGED <<durable, alock, pc, act, cand, prior, before, todo, report>>

-----------------------------------------------------------------------------
(* MicroVerifierService.run *)

\* The lifecycle snapshot: the candidate is the current content, and an
\* evaluator's freeze binds what is on disk.
Authorize(p) ==
    /\ Evaluator => world = Frozen
    /\ Goto(p, "idle", "snapshot")
    /\ cand' = [cand EXCEPT ![p] = world.candidate]
    /\ report' = [report EXCEPT ![p] = "NONE"]
    /\ UNCHANGED <<world, durable, alock, act, prior, before, ran, todo>>

\* An action identity hashes the request and the time of it.  Another run of
\* the same verifier gets the same identity only in the same clock tick.
Unused(a) == recorded[a] = Nil /\ \A q \in Procs : act[q] # a
SameTick(p, a) ==
    /\ "sameTick" \in Faults
    /\ \E q \in Procs \ {p} :
          act[q] = a /\ cand[q] = cand[p] /\ pc[q] = "lockAction"

\* Prior results are read once, before the action exists.
Snapshot(p, a) ==
    /\ Unused(a) \/ SameTick(p, a)
    /\ Goto(p, "snapshot", "lockAction")
    /\ prior' = [prior EXCEPT ![p] = Terminal]
    /\ act' = [act EXCEPT ![p] = a]
    /\ UNCHANGED <<world, durable, alock, cand, before, ran, todo, report>>

LockAction(p) ==
    /\ Goto(p, "lockAction", "recordAction")
    /\ alock[act[p]] = Nil
    /\ alock' = [alock EXCEPT ![act[p]] = p]
    /\ UNCHANGED <<world, durable, locals, report>>

LockBusy(p) ==
    /\ pc[p] = "lockAction"
    /\ alock[act[p]] # Nil
    /\ End(p, "idle", "ACTION_EXECUTION_BUSY")
    /\ UNCHANGED <<world, durable>>

RecordAction(p) ==
    /\ Goto(p, "recordAction", "observe")
    /\ recorded' = [recorded EXCEPT ![act[p]] = cand[p]]
    /\ UNCHANGED <<world, results, bindings, alock, locals, report>>

\* _execute observes authority and candidate identities ...
Observe(p) ==
    /\ Goto(p, "observe", "provider")
    /\ before' = [before EXCEPT ![p] = world]
    /\ ran' = [ran EXCEPT ![p] = NotRun]
    /\ UNCHANGED <<world, durable, alock, act, cand, prior, todo, report>>

\* Fault: an operational failure keeps the status of the process.
ProviderExitStatus(p) ==
    /\ Goto(p, "provider", "driftCheck")
    /\ ran' = [ran EXCEPT ![p] =
                 [status |-> "TIMEOUT", saw |-> world.candidate, session |-> TRUE,
                  touched |-> ran[p].touched]]
    /\ UNCHANGED <<world, durable, alock, act, cand, prior, before, todo, report>>

\* ... runs the provider on a copy of the files.  Every operational failure
\* (start, timeout, exit status, malformed answer, identity drift) is UNKNOWN.
Provider(p) ==
    /\ Goto(p, "provider", "driftCheck")
    /\ \/ UNCHANGED ran
       \/ \E s \in Statuses :
            ran' = [ran EXCEPT ![p] =
                      [status |-> s, saw |-> world.candidate, session |-> TRUE,
                       touched |-> ran[p].touched]]
    /\ UNCHANGED <<world, durable, alock, act, cand, prior, before, todo, report>>

\* Fault: the freeze is not verified after the run.
DriftedInRun(p) == before[p] # world

\* ... and observes again.  Drift, or a freeze that no longer binds, raises:
\* run() then keeps no session and ends the action with UNKNOWN.
Drifted(p) == before[p] # world \/ (Evaluator /\ world # Frozen)

DriftCheck(p) ==
    /\ Goto(p, "driftCheck", "bind")
    /\ IF Drifted(p)
       THEN /\ ran' = [ran EXCEPT ![p] = NotRun]
            /\ before' = [before EXCEPT ![p] = Frozen]
       ELSE UNCHANGED <<ran, before>>
    /\ UNCHANGED <<world, durable, alock, act, cand, prior, todo, report>>

\* What a verdict rests on; nothing is kept of it for UNKNOWN.
OwnResult(p) ==
    LET verdict == ran[p].status # "UNKNOWN"
    IN  [action |-> act[p], by |-> p, recovered |-> FALSE, status |-> ran[p].status,
         observed |-> IF verdict THEN before[p].candidate ELSE Nil,
         saw |-> IF verdict THEN ran[p].saw ELSE Nil,
         touched |-> verdict /\ ran[p].touched]

\* Fault: the receipt names a result that is rewritten before it is stored.
BindDraft(p) ==
    /\ Goto(p, "bind", "finish")
    /\ bindings' = IF ran[p].session
                   THEN bindings \cup {[OwnResult(p) EXCEPT !.status = "UNKNOWN"]}
                   ELSE bindings
    /\ UNCHANGED <<world, recorded, results, alock, locals, report>>

\* The receipt of a session is bound to the identity of the coming result.
Bind(p) ==
    /\ ran[p].session => \A b \in bindings : b.action # act[p]
    /\ Goto(p, "bind", "finish")
    /\ bindings' = IF ran[p].session THEN bindings \cup {OwnResult(p)} ELSE bindings
    /\ UNCHANGED <<world, recorded, results, alock, locals, report>>

ReceiptDuplicate(p) ==
    /\ pc[p] = "bind"
    /\ ran[p].session
    /\ \E b \in bindings : b.action = act[p]
    /\ End(p, "idle", "RECEIPT_DUPLICATE")
    /\ UNCHANGED <<world, durable>>

\* The terminal result is authorized against the snapshot of prior results.
Finish(p) ==
    /\ pc[p] = "finish"
    /\ act[p] \notin prior[p]
    /\ results' = results \cup {OwnResult(p)}
    /\ End(p, "idle", "DONE")
    /\ UNCHANGED <<world, recorded, bindings>>

\* The record of the commit that p is about to make becomes history.
Decide(p) ==
    /\ recorded' = IF pc[p] = "recordAction"
                   THEN [recorded EXCEPT ![act[p]] = cand[p]] ELSE recorded
    /\ bindings' = IF /\ pc[p] = "bind" /\ ran[p].session
                      /\ \A b \in bindings : b.action # act[p]
                   THEN bindings \cup {OwnResult(p)} ELSE bindings
    /\ results' = IF pc[p] = "finish" THEN results \cup {OwnResult(p)} ELSE results

\* A commit inside the action lock raises: ledger.lock times out, which the
\* lock's own handler reports as ACTION_EXECUTION_BUSY, or the store fails.
\* A store that fails may have decided the record already.
CommitRaises(p) ==
    /\ pc[p] \in {"recordAction", "bind", "finish"}
    /\ \/ /\ "ledgerTimeout" \in Faults
          /\ End(p, "idle", "ACTION_EXECUTION_BUSY")
          /\ UNCHANGED durable
       \/ /\ "raise" \in Faults
          /\ End(p, "idle", "STORAGE_ERROR")
          /\ \/ UNCHANGED durable
             \/ Decide(p)
    /\ UNCHANGED world

-----------------------------------------------------------------------------
(* Process death, and RecoveryService when Forge is opened *)

Crash(p) ==
    /\ "crash" \in Faults
    /\ pc[p] # "down"
    /\ End(p, "down", "NONE")
    /\ UNCHANGED <<world, durable>>

\* recover() reads the recorded actions, ...
Open(p) ==
    /\ Goto(p, "down", "readResults")
    /\ todo' = [todo EXCEPT ![p] = RecordedActions]
    /\ report' = [report EXCEPT ![p] = "NONE"]
    /\ UNCHANGED <<world, durable, alock, act, cand, prior, before, ran>>

\* Fault: recovery visits the actions that are terminal already.
ReadResultsReversed(p) ==
    /\ Goto(p, "readResults", "recover")
    /\ todo' = [todo EXCEPT ![p] = @ \cap Terminal]
    /\ UNCHANGED <<world, durable, alock, act, cand, prior, before, ran, report>>

\* ... then the results that exist, and visits the others.
ReadResults(p) ==
    /\ Goto(p, "readResults", "recover")
    /\ todo' = [todo EXCEPT ![p] = @ \ Terminal]
    /\ UNCHANGED <<world, durable, alock, act, cand, prior, before, ran, report>>

\* An action whose lock is held is executing and is left alone.
SkipBusy(p, a) ==
    /\ pc[p] = "recover"
    /\ a \in todo[p]
    /\ alock[a] # Nil
    /\ todo' = [todo EXCEPT ![p] = @ \ {a}]
    /\ UNCHANGED <<world, durable, alock, pc, act, cand, prior, before, ran, report>>

\* Fault: recovery takes an action whose executor is alive.
TakeAny(p, a) ==
    /\ Goto(p, "recover", "terminate")
    /\ a \in todo[p]
    /\ alock' = [alock EXCEPT ![a] = p]
    /\ act' = [act EXCEPT ![p] = a]
    /\ UNCHANGED <<world, durable, cand, prior, before, ran, todo, report>>

TakeStranded(p, a) ==
    /\ Goto(p, "recover", "terminate")
    /\ a \in todo[p]
    /\ alock[a] = Nil
    /\ alock' = [alock EXCEPT ![a] = p]
    /\ act' = [act EXCEPT ![p] = a]
    /\ UNCHANGED <<world, durable, cand, prior, before, ran, todo, report>>

LeaveStranded(p) ==
    /\ pc' = [pc EXCEPT ![p] = "recover"]
    /\ alock' = [alock EXCEPT ![act[p]] = Nil]
    /\ act' = [act EXCEPT ![p] = Nil]
    /\ todo' = [todo EXCEPT ![p] = @ \ {act[p]}]
    /\ UNCHANGED <<world, recorded, bindings, cand, prior, before, ran, report>>

\* Fault: the results read before the lock was taken are trusted.
TerminateUnchecked(p) ==
    /\ pc[p] = "terminate"
    /\ results' = results \cup
         {[action |-> act[p], by |-> p, recovered |-> TRUE,
           status |-> "UNKNOWN", observed |-> Nil, saw |-> Nil, touched |-> FALSE]}
    /\ LeaveStranded(p)

\* Results are read again under the lock; without one, UNKNOWN is committed.
Terminate(p) ==
    /\ pc[p] = "terminate"
    /\ act[p] \notin Terminal
    /\ results' = results \cup
         {[action |-> act[p], by |-> p, recovered |-> TRUE,
           status |-> "UNKNOWN", observed |-> Nil, saw |-> Nil, touched |-> FALSE]}
    /\ LeaveStranded(p)

\* A result appeared after the snapshot: the error leaves the constructor.
AlreadyTerminated(p) ==
    /\ pc[p] = "terminate"
    /\ act[p] \in Terminal
    /\ End(p, "down", "ACTION_ALREADY_TERMINATED")
    /\ UNCHANGED <<world, durable>>

\* ledger.lock times out inside the action lock: the error is renamed to
\* ACTION_EXECUTION_BUSY and taken for a live executor.
TerminateTimeout(p) ==
    /\ "ledgerTimeout" \in Faults
    /\ pc[p] = "terminate"
    /\ LeaveStranded(p)
    /\ UNCHANGED results

Opened(p) ==
    /\ todo[p] = {}
    /\ Goto(p, "recover", "idle")
    /\ report' = [report EXCEPT ![p] = "OPENED"]
    /\ UNCHANGED <<world, durable, alock, locals>>

-----------------------------------------------------------------------------

Run(p) ==
    \/ \E a \in Actions : Snapshot(p, a)
    \/ LockAction(p) \/ LockBusy(p) \/ RecordAction(p) \/ Observe(p)
    \/ Provider(p) \/ DriftCheck(p) \/ Bind(p) \/ ReceiptDuplicate(p)
    \/ Finish(p)

Recovery(p) ==
    \/ ReadResults(p) \/ Opened(p)
    \/ \E a \in Actions : SkipBusy(p, a) \/ TakeStranded(p, a)
    \/ Terminate(p) \/ AlreadyTerminated(p)

Next ==
    \/ Edit
    \/ \E p \in Procs : \/ Authorize(p) \/ Run(p) \/ CommitRaises(p)
                        \/ Open(p) \/ Recovery(p) \/ TerminateTimeout(p) \/ Crash(p)

Spec == Init /\ [][Next]_vars

\* Processes that are in a call keep running, and a process that died is
\* started again.
FairSpec ==
    Spec /\ \A p \in Procs : WF_vars(Run(p) \/ Recovery(p)) /\ WF_vars(Open(p))

-----------------------------------------------------------------------------
(* Properties *)

Locations ==
    {"down", "idle", "snapshot", "lockAction", "recordAction", "observe",
     "provider", "driftCheck", "bind", "finish", "readResults", "recover",
     "terminate"}

Reports ==
    {"NONE", "DONE", "OPENED", "ACTION_EXECUTION_BUSY", "STORAGE_ERROR",
     "RECEIPT_DUPLICATE", "ACTION_ALREADY_TERMINATED"}

\* Every variable has its type.
TypeOK ==
    /\ world \in Worlds
    /\ recorded \in [Actions -> 0..MaxVersion \cup {Nil}]
    /\ results \subseteq Result
    /\ bindings \subseteq Result
    /\ alock \in [Actions -> Procs \cup {Nil}]
    /\ pc \in [Procs -> Locations]
    /\ act \in [Procs -> Actions \cup {Nil}]
    /\ cand \in [Procs -> 0..MaxVersion \cup {Nil}]
    /\ prior \in [Procs -> SUBSET Actions]
    /\ before \in [Procs -> Worlds]
    /\ ran \in [Procs -> Runs]
    /\ todo \in [Procs -> SUBSET Actions]
    /\ report \in [Procs -> Reports]

\* A verifier action has at most one terminal result, although run()
\* authorizes it against results read before the action was recorded, and
\* although any number of processes recover it.
AtMostOneTerminal ==
    \A r, s \in results : r.action = s.action => r = s

\* docs/storage.md: per-action locks distinguish a live executor from a
\* stranded action.  While the process that recorded an action is still on
\* its way to a result, nobody has terminated the action.
LiveExecutorNotPreempted ==
    \A p \in Procs :
        pc[p] \in {"observe", "provider", "driftCheck", "bind", "finish"} =>
            act[p] \notin Terminal

\* A receipt binding is of a session whose action is recorded, and if the
\* action's result was written by its executor it is the bound one.
ReceiptsAgree ==
    \A b \in bindings :
        /\ recorded[b.action] # Nil
        /\ \A r \in results : r.action = b.action /\ ~r.recovered => r = b

\* docs/architecture.md: evaluator mode "checks identity drift before and
\* after each run".  A PASS or FAIL of an evaluator run is recorded for a
\* candidate that was on disk before and after the provider ran, and was
\* computed from it unless the candidate was edited during the run and put
\* back: the checks compare contents, so they do not see that.
EvidenceBound ==
    \A r \in results :
        r.status \in {"PASS", "FAIL"} =>
            /\ r.observed = recorded[r.action]
            /\ r.saw = recorded[r.action] \/ r.touched

\* An action that was recorded is eventually terminated, once processes stop
\* dying: by its executor, or by the recovery of the next open.  A run that
\* shares its identity with another one may end with an error at its receipt;
\* then the action waits for a process that has yet to be opened.
EventuallyTerminal ==
    /\ [](\A p \in Procs : report[p] # "RECEIPT_DUPLICATE")
    /\ <>[][\A p \in Procs : ~Crash(p)]_vars
    => \A a \in Actions : recorded[a] # Nil ~> a \in Terminal
=============================================================================
