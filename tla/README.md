# TLA+ models of MNCS Forge

MNCS Forge keeps a *durable, append-only record* of how code is developed,
checked, selected, frozen and evaluated. Agents call it through a CLI or an MCP
server; several processes may have the same state directory open, they are
killed, they time out on locks, and the files they judge are edited while they
judge them. This directory models the parts that have to be right for that
record to be worth anything: the journalled store, the verifier actions that
survive their executor, the lifecycle gates by Python and by the native kernel,
the bounded execution that receipts are made of, the receipts and the evidence
that is weighed, the development loop that repairs sources, and the compiler
candidates that are selected. All paths below are relative
to `src/src/mncs_forge/` of the repository unless they begin with `docs/`.

## 1. Inventory

| Part | State | Operations | What makes it correct |
|---|---|---|---|
| **Record store and ledger** (`record_store.py`, `ledger.py`) | `ledger.jsonl` (hash chain), immutable record files, `ledger-index.json`, `transactions/<uuid>/{record.stage,ledger.stage,journal.json}`, the `ledger.lock` file lock | `commit`, recovery on open and at the start of every commit, duplicate resolution, `records`, `records_for`, `verify`, low-level `append` | old-or-new after any crash, append-only, no answer that a crash takes back, never wedged by crashes alone, never rebased onto a foreign head |
| **Verifier actions and recovery** (`micro_verifiers.py`, `application/recovery.py`, `verifier_support.py`, `record_store.action_execution`) | `verifier_action`, `verifier_result`, `execution_receipt_binding` records; one execution lock per action | `run`, `batch`, `recover` when Forge is opened | one terminal result per action, never two, never none; no live executor preempted; evidence about the content it names |
| **Lifecycle** (`state_machine.py`, `application/{lifecycle,candidates,evaluation,workflows,evidence}.py`) | nothing but the ledger: every call projects it again | `begin_epoch`, `register`, `refresh`, `check`, `reject`/`select`, `freeze`, `evaluate`, `bundle` | evaluation only behind a justified freeze; a frozen epoch stays closed; a history that never blocks itself |
| **Evidence, claims, reconciliation** (`application/evidence.py`, `state_machine.py`) | – | readiness, `reconcile`, `build_bundle`, `claim_blockers` | native and compatible answers agree, whatever was edited since the evidence was recorded |
| **Bounded execution** (`execution.py`, `execution_windows.py`, `adapters.py`, `execution_observations.py`) | a child, two pipes, a deadline, caps | `run_bounded` | always ends, leaves no process behind, never reports truncated output as whole |
| **Execution receipts and assurance** (`application/execution_receipts.py`, `assurance.py`, `mncs_execution_receipt.py`) | actions, receipt bindings, results, assessments | `persist_workflow_execution`, `assess_execution_receipt` | a binding establishes only what was observed; no result without its binding; assurance only for executions that deserve it |
| **Fabric boundary, Podman runner** (`fabric_execution.py`, `podman_runner.py`) | – | translate a foreign execution record, run in a container | an execution that was cut short never looks whole |
| **Native MNCS bridge** (`mncs_native.py`, `resources/native/forge/*.mncs`) | a loaded artifact | lifecycle, transition, readiness, reconciliation, bundle | equals the Python projection, or the host refuses |
| **MNCS development toolchain** (`application/mncs_development.py`) | the source, the answer files of the providers, reports | `failure_loop` | a source is rewritten only after a result that says FAIL and a diagnosis of it, and the verdict agrees with the test and the plan that the report names |
| **Compiler candidates**, studies (`application/compiler_candidates.py`, `compiler_studies.py`, `compiler_evolution.py`) | successor records | register, attach validation or benchmark, tournament, select | selection only on a PASS of that artifact |
| Providers (`application/providers.py`) | – | probe, resolve | identity of the executable that ran |
| Rights and licences (`application/rights_provenance.py`) | records | declare, gate | a second gate of selection |
| Learned specialists, forge cell, concept experiments | declared documents | validate, append | – |
| Records and identities (`records.py`, `identity.py`, `serialization.py`) | – | validate, hash, migrate | – |
| Registry, CLI, server, configuration (`operations.py`, `cli.py`, `server.py`, `engine.py`, `config.py`) | – | dispatch one call at a time | – |

How they interact. `engine.Forge` opens the store (which recovers unresolved
transactions) and then runs `RecoveryService` (which terminates stranded
actions). Every service call observes files through `adapters.py`, reads a
snapshot of the ledger, asks `ForgeStateMachine` for an authorization, perhaps
runs a child process, and commits. The only locks are `ledger.lock`, held
inside one store call, and the per-action execution lock: **nothing is locked
between an authorization and the commit it justifies**, and nothing keeps the
files from changing in between.

Where the difficulty is: crashes between any two file operations of a commit
and of recovery itself; removal of a directory that is not atomic; retries of a
commit that was decided after all; a lock timeout that is reported as something
else; results read before a lock and used after it; authorizations that are old
when they are used; files observed twice; answer files with one name for every
call; two implementations of one decision. `PROJECT.json` lists each of these at
the line where it bites.

## 2. Modules

```
AtomicLedger  <--refines--  RecordStore  <--extends--  ForeignWriters
                               |  RecordStoreProofs  <--extends--  ForeignWritersProofs
     (a commit is one step in)
            VerifierActions  -- VerifierActionsProofs
            Lifecycle        -- LifecycleProofs
               |  extends NativeKernel
            Receipts  <--extends--  Evidence  (instantiates NativeKernel)
                                             |  ReceiptsProofs
            Compiler         -- CompilerProofs

BoundedExecution -- BoundedExecutionProofs   (below every workflow and verifier)
Development      -- DevelopmentProofs        (providers beside the store)
```

`VerifierActions`, `Lifecycle`, `Receipts` and `Compiler` treat a commit as one atomic step. That is
what `RecordStore` is shown to provide (`ImplementsAtomicLedger`), with the one
qualification that a commit that *raises* may have been decided all the same;
`VerifierActions.Decide` and `Lifecycle.Abandon` after `Commit` account for it.
`BoundedExecution` is one step of `Receipts` (`Run`), which keeps of it how the
execution ended and whether it was measured; `VerifierActions` is one step too
(`Verify`).

### RecordStore (and AtomicLedger, ForeignWriters)

| Model | Code |
|---|---|
| `ledger`, `records`, `index` | `ledger.jsonl`, the record files, `ledger-index.json` |
| `txdirs`, `recordStage`, `ledgerStage`, `journal` | `transactions/<txid>/...` |
| `lock` | `FileLock(ledger.lock)` |
| `pc`, `cur`, `op`, `reply` | a process inside `LocalRecordStore`, and what its caller got |
| `Acquire`, `LockTimeout` | `with self.lock`, filelock's `Timeout` |
| `ScanDone`, `Abandon`, `RecoverRefuse`, `RecoverRecord`, `RecoverLedger`, `RecoverPublished`, `RecoverMark`, `RecoverIndex`, `RecoverRmdir` | `_recover_unlocked`, `_recover_transaction_unlocked` |
| `Opened`, `OpenRefused` | the rest of `recover()` |
| `Duplicate` | `_resolve_duplicate` |
| `Mkdir` … `CommitRmdir` | the body of `commit()`, one action per file operation |
| `Unlink` | `shutil.rmtree`, one file at a time in any order |
| `Interrupt` | SIGKILL, a failing system call or a failpoint, at every step under the lock; the stage being written may be torn |
| `Read`, `Verify` | `Ledger.records`, `records_for`, `verify` |
| `LowLevelAppend`, `SubstituteRecord`, `SubstituteLedger` (ForeignWriters) | `Ledger.append`; stages replaced between crash and recovery |

Abstractions: a digest is the value it digests, so the hash chain of a ledger is
the sequence itself; a journal appears whole because the code renames it into
place; canonical JSON and field validation are data. fsync is taken to work:
power failure that reorders renames is not modelled. A journal or ledger line
that no process writes (malformed bytes) is not modelled.

### VerifierActions

`run()` is `Authorize`, `Snapshot`, `LockAction`/`LockBusy`, `RecordAction`,
`Observe`, `Provider`, `DriftCheck`, `Bind`/`ReceiptDuplicate`, `Finish`;
`recover()` is `Open`, `ReadResults`, `SkipBusy`, `TakeStranded`, `Terminate`,
`AlreadyTerminated`, `TerminateTimeout`, `Opened`. `recorded`, `results` and
`bindings` are the three record kinds; `alock` is the set of execution locks;
`prior`, `before`, `ran` and `todo` are the locals that go stale. The files of
candidate and authority are numbers for their contents, which is what the code's
hashes tell apart; an edit gives other contents, those of before included, so
that files which are changed and put back between two observations go unnoticed.
The fields `observed`, `saw` and `touched` of a result are not in the record; they
are what `EvidenceBound` compares with. The workspace of a provider is copied in
one step; in the code the copy takes time, and what is edited meanwhile and put
back before the second observation is `touched` here. `Faults` names which of death, a timeout of `ledger.lock`, a raising
store and two requests in one clock tick (which give one action identity) may
happen in a run. Not modelled: request validation, the choice of a verifier, the
content of results, and the read-only queries.

### NativeKernel and Lifecycle

`history` is the ledger, `world` the files. A call is `Call` (files observed; a
freeze reads its evidence plan, and `Identify` hashes the policy after that),
`Parse` (requirements of the policy read after the policy was hashed), then
`Refuse`, `AuthorizeRecord` or `AuthorizeSubject` (the history is read and the
state machine asked), `Build`, `LookBefore` and `Execute` (files observed again,
workflow run), and `Commit`, `CommitResult` or `RecordExists`; `Check` is the
drift check after an evaluation; `Refresh` and `RefreshCall` are
`CandidateService.refresh`. `Abandon` is death, a failing provider or a raising
store. The projection (`ActiveEpoch`, `CurrentCandidate`, `Ambiguous`, `Frozen`,
`Ready`, …) and one `May...` operator per transition are the state machine.

Assumptions of this module:

* `Native` is the set of processes with the native spine. `NativeKernel` has the
  programs `lifecycle.mncs` and `bundle.mncs` as operators (`ProjectEvent`,
  `ProjectStage`, `Apply`, `BundlePreconditions`) and what the host asks of them
  and checks of the answer (`LifecycleProjection`, `LifecyclePreflight`,
  `BundlePreconditionProjection`; `mncs_native.py`). Whether the library function
  `linelib.valid_root_or_successor`, which is not in the repository, accepts a
  second root is the constant `RootAnywhere`; `KernelAgrees` is about both.
  Encoding, loading and calling the artifact are left out: an adapter that is not
  available refuses.
* The evidence plan is the selection policy file, as in the repository's tests
  (tests/test_engine.py:289). A freeze reads it (evaluation.py:38-55), hashes it
  as policy (adapters.py:219), reads it again as policy (221) and hashes it as plan
  for its record (evaluation.py:77), in four steps with edits between them.
* `grounds` is an auxiliary variable: for each record of the ledger, the
  requirements that its call had read, from the policy and from the plan. It is not
  in the record and no action reads it; the properties compare with it, because the
  identities in the records do not say what was read (the note in section 3).
* The observation of one set of files is one step. The observations that
  `Check` compares are one step together.
* Rights enforcement is off, the default. Verifier results do not count as
  evidence, only results of candidate workflows do. Environment envelopes are
  left out.
* The status and workflow of an evaluation and of a bundle are left out: no
  lifecycle rule reads them.
* The identity of a candidate is its content; other identities contain a
  timestamp and are modelled by the position in the ledger.

### BoundedExecution

One run of a declared command. The parent is `pc`, with `stage` for the call
site of `_terminate` and `error` for the exception under way; the command (the
leader of its process group) and one descendant that inherits its pipes are
`alive`, `open`, `signals`; bytes are counted in `pipe`, `buf`, `chunks` and in
the `capture` of each stream. `platform` is `os.name`.

| Model | Code |
|---|---|
| `StartFails`, `Popen`, `WriteStdin`, `Collect` | `run_bounded` up to the collection |
| `LoopEnd`, `LoopDeadline`, `Select`, `Poll`, `ReadEof`, `ReadData` | the selector loop; `Poll` is the forced read of every pipe once the leader has exited, and `ReadData`/`ReadEof` are disabled while `os.read` would block |
| `ReaderFill`, `ReaderDeliver`, `ReaderRetain`, `ReaderLimit`, `ReaderEof`, `ReaderOverflow`, `NtOverflow`, `NtJoin`, `NtDeadline` | `collect_windows_pipes`: a buffered read returns only whole chunks or the end, and a reader feeds what it has in the three assignments of `feed`, each a step of its own |
| `TermPoll`, `TermSignal`, `TermWaited`, `TermKill`, `TermExpired` | `_terminate`; `TermExpired` is `TimeoutExpired` of its second wait, which the handler and the finally clause of `run_bounded` meet in turn |
| `Wait`, `WaitExpired`, `Finally`, `Escape` | the end of `run_bounded`; an exception that is no `ForgeError` passes the runner |
| `Count`, `Retain`, `Limit`, `Feed`, `MarkLimit` | `_StreamCapture`: `feed`, one assignment after the other, and `mark_limit` |
| `Snapshot`, `Report`, `Session` | `snapshot` and `ExecutionObservationBuilder`, where nobody feeds the captures any more (`Quiet`: on posix, and on nt without an error) |
| `ReadRetained`, `ReadTruncated`, `ReadObserved` | `snapshot` on nt after an error, while a reader may be anywhere in `feed`: the retained length, then `limit_hit`, then the count, of stdout and then of stderr |
| `Completed`, `Complete` | `established_properties`, `_completeness` of a receipt |

The clock is one flag, `late`. A pipe has one reader and keeps its order, so
bytes need no names. Of the command nothing is assumed: it writes, closes, forks
once, ignores SIGTERM, exits or hangs. Left out: a descendant that leaves the
process group, `OSError` from a signal, and the container that the podman runner
removes after a failure.

### Receipts and Evidence

A workflow is `Begin` (authorized, action built), `Run` (a session of one of the
three runners), `PersistAction`, `PersistBinding`, `PersistResult`: three
commits, with `Fail` possible before each. `LocalSessions`, `PodmanSessions` and
`FabricSession` say what each runner can report; `Verdict` is the status of the
result, `EstablishedProperties`, `Completeness`, `BuildReceipt` and `Envelope`
what the binding says; `Assess` judges a binding later. The field `truth` of a
binding is not in the record; it is what `AssuranceEarned` compares with.

`Evidence` adds no steps. `CompatReadiness` and `CompatReconciliation` are the
Python functions; `Normalize`, `RequirementValue` and `CategoryValue` are the
host reducing records to what the ABI holds; `ReadinessKernel` and
`ReconciliationKernel` are `readiness.mncs` and `reconciliation.mncs`; the
`...Consistent` operators are the host's recount of the answer.
`ReadinessBounded` and `ReconciliationBounded` say when the ABI holds the request
at all: 16 requirements or categories (`NameBound`) and 8 records of each
(`RecordBound`) in the code, 2 and 2 in the run. Beyond that the adapter refuses,
while Python answers, so that the two agree on what the ABI holds only. The identity of a candidate
contains its authority in the code; here it is kept beside it.

### Development

`failure_loop` by several processes on one project. `files` are the answer files
of mncs-test, mncs-debug and RAVEL, which have one name for all calls; `call` is
what a process has read so far. `Provide` is one provider: it writes its answer
or does not, and the call goes on or raises, because the exit status is not
looked at. `Begin`, `Bind`, `Test`/`Consume`,
`ReadNoFailure`/`ReadFailure`/`ReadInvalid`, `Handoff`, `Debug`, `ReadWitness`,
`ReadValidation`, `ReadDiagnosis`, `Prepare`, `Write`, `Regenerate`, `ReadPlan`,
`Retest`, `Verify` and `FamilyProof` are the stretches of the method between two
reads of answers or of the source that the loop decides on; `Edit` and `Replan`
are the others. What is merged or left out:

* A provider is one step: it finds what it reads and leaves what it writes at one
  instant. The query that found its answer, and the test that it is there
  (`is_file`), are one step too, since answers are never removed.
* The documents of the debugger are read one after the other; the loop decides on
  the content of the diagnosis only, the last of them, and on which were found.
  The digests of the answers that a handoff refers to are compared in one step.
* A report contains digests of the answers, which are taken from the files after
  the reads (`_ref`, `mncs_development.py:1312`, `1412`, `1782`): another call may
  have written in between, and the digest be one of an answer that was not judged.
  The digests are not modelled.
* There is one source. The code does not compare the path to repair with the
  source of the plan (`mncs_development.py:1164`, `1941`), so that the repaired and
  the planned file may differ; what `RepairsEarned` says of a plan that was given
  is then said of content that the plan names, in another file.
* The identity of a witness stands for its content, as far as it is valid: a
  validation that names it says what it says. That is assumed of mncs-debug.
* Result and check of a test are one file. The wording of the report, the capture
  limits and the contents of traces are left out.

### Compiler

`log` has the candidate records, `call` what a process is about to commit,
`made` the judgements that callers reported, each with the artifact that the
caller declared or, where it declared none, that of the candidate it named (the
code compares the two only if one is declared, `compiler_candidates.py:141`; that
a judgement without a declaration is of the candidate it is attached to rests on
the caller); only the property reads it. A
record is its own identity: `_get` finds what was named and nothing newer.
`Copy` is another program that commits a successor with a validation of another
artifact, as `tests/test_compiler_candidates.py:165` does.

## 3. Runs

Passing runs:

| Run | Instance | Shows |
|---|---|---|
| `store_safety` | 2 processes, 2 identities, 2 contents, 2 transaction directories; 27 k states | `TypeOK`; `OldOrNew`: with no transaction left, files and ledger agree; `CrashesNeverWedge`: no interruption makes recovery, duplicate resolution or verification refuse; `RepliesDurable`: what a caller was told stays true; `PublishExtends`: what replaces the ledger extends it; `AppendOnly`; `ImplementsAtomicLedger` |
| `store_liveness` | 2 processes, 1 identity, 2 contents, 1 directory; 9 k states | `EveryCallReturns` |
| `store_foreign` | 1 process, 2 identities of one kind, low-level appends up to length 3; 144 k states | `CommittedAsPrepared`, `OnlyPreparedBytes`, `ContradictionKept`, `ReadsWholeHistory`, `AppendOnly` beside low-level appends and substituted stages |
| `actions_safety` | 2 processes, 2 actions, death, lock timeout, raising store; 35 k states | `TypeOK`, `AtMostOneTerminal`, `LiveExecutorNotPreempted`, `ReceiptsAgree` |
| `actions_evaluator` | 2 processes, 1 action, two contents of each file set and any number of edits, death, shared identity; 696 k states | `EvidenceBound` in evaluator mode: the recorded content was on disk before and after the run, and the verdict was computed from it unless it was edited and put back meanwhile; `EventuallyTerminal` |
| `lifecycle_single` | 1 developer with the native spine, 2 contents, 2 policies, one of them malformed; 320 k states | `FreezeJustified`: a freeze and the selection it binds have PASS for what each call read to be required, with edits between the reads; `NeverAmbiguous`, `FrozenEpochClosed`, `FrozenEvidenceClean`; `BundleAgrees`: the kernel's bundle is one the host would authorize |
| `lifecycle_races` | 2 developers (one native) and 1 evaluator, one policy, one record of each type before races; 369 k states | `TypeOK`, `EvaluationJustified` (who overtakes whom; edits of the policy are the business of `lifecycle_single`); `KernelAgrees`: on every history that the kernel accepts it knows the epoch, candidate, disposition, freeze and evaluation of the host |
| `execution` | both platforms, a request that fits its pipe and one that does not, output up to one byte above caps of 2 and 1, chunks and pipes of 2; 288 k states | `TypeOK`; `CompleteMeansWhole`; `TruncationHonest`; `LeaderNeverOutlives`; `SessionAgrees`; `EveryRunEnds` |
| `evidence` | 1 process, 2 workflows, 1 verifier, all three runners with an assessment, or a local one with edits of content, authority, environment or policy; 247 k states | `AssuranceEarned`: a passed assessment rests on an execution that ended by itself, was measured, and whose runner did what was requested; `ResultsReceipted`: no result without its action and its one binding, wherever the process dies; `ReadinessAgrees`, `ReconciliationAgrees`: the kernel and Python agree |
| `development` | 2 processes, 2 calls, 2 versions, local and routed plans, an Actions handoff, edits; 3.7 M states | `RepairsEarned`: a source is written only after a result that says FAIL, of this call or an earlier one, with a witness of the run of that result and a sufficient diagnosis of that witness, and is what a given plan is about; `ReportsEarned`: a failure that nothing was written for is reported as FAIL, a FAIL is that of the test or of the family, a PASS is of the tests of its plan and goes as far as the plan wants |
| `compiler` | 2 processes, 2 artifacts, up to 5 records; 471 k states | `SelectionEarned`: what is selectable carries a PASS that was reported of that artifact |

One run ends in a counterexample to something the repository says of itself (the
lines are in `PROJECT.json`, "findings"):

| Run | What happens |
|---|---|
| `lifecycle_frozen` | A registration authorized before another process froze the epoch is committed after it; the projection calls the history sound and the epoch unfrozen. |

Met while modelling, and not given a run of their own:

* `ledger.lock` times out while recovery holds the action lock (action
  `TerminateTimeout`). `action_execution` renames every `Timeout` of its body to
  `ACTION_EXECUTION_BUSY` (`record_store.py:514`); recovery takes that for a live
  executor (`application/recovery.py:62`), opens, and the action stays stranded
  until the next open. docs/storage.md:59 says that opening recovers it.
* An evaluation of content that has drifted is in the ledger before the drift is
  looked for (`application/evaluation.py:110`; docs/architecture.md:115).
* A second FINAL_EVALUATION, or a result that is stored after a disposition,
  makes the kernel report that the lineage is broken; from then on the native
  spine refuses with `NATIVE_LINEAGE_CONFLICT` what Python would still do. The
  same happens for ever once a history has more than 32 events, a requirement or
  category more than 8 records, or a policy more than 16 requirements. docs/mncs-native-spine.md:12 knows no such difference.
* When the authority has drifted, Python marks the requirements that have
  evidence as not comparable, the kernel all of them. Readiness and blocker agree.
* A Fabric job that timed out and yet reports exit code 0 yields a PASS result
  (`fabric_execution.py:259`), with a binding that is incomplete.
  docs/architecture.md:105 and docs/adr/0011:72 say that an execution that was
  cut short is no evidence. Therefore `ResultsReceipted` excepts Fabric.
* The runtime identity of the Podman runner contains the output of
  `podman --version` with its blanks (`podman_runner.py:268`), which is no
  identifier: the binding of every container execution is malformed and no
  isolation is ever assured. Exit code 125, with which podman itself reports that
  the container did not start, is taken for that of the program, and the image
  whose digest was resolved is run by its tag.
* The development loop reads what lies in the answer files. If mncs-test writes
  nothing, the result of an earlier call is judged. If mncs-debug does not
  validate, an earlier `validation.json` vouches for a new witness: the validation
  is not compared with the witness (`application/mncs_development.py:1710-1721`),
  and a source may be rewritten with an invalid one, although
  docs/mncs-development-loop.md:62 says "only after a valid debugger witness has been
  established". `RepairsEarned` says what remains: witness, result and diagnosis
  are of one run, and the witness is valid if the validation is one of it. That
  the run is one of the present call, or of the version that the plan is for, does
  not hold. Neither does that of the second test: a `.after` result of an
  earlier call can be the PASS of this one.
* After a repair a second test that fails is reported as UNKNOWN when the new plan
  is not sufficient or the family is not established
  (`application/mncs_development.py:2082`, `2098`).
* A plan that RAVEL should have made anew is not compared with the source
  (`application/mncs_development.py:1192`): the `.after` plan of an earlier call is
  accepted. docs/mncs-development-loop.md says that "stale plans cannot be
  reused after the source digest changes".
* The source may be edited between the check of the plan and the test, and
  between `read_text` and `write_text`, which loses the edit; whatever raises
  after `write_text` leaves the repaired source without a report.
* A compiler candidate that was judged PASS and later FAIL is still selectable by
  the identity of its PASS record, and a benchmark of that record makes a newer
  PASS record than the FAIL (`application/compiler_candidates.py:161`).
  docs/adr/0015 says "A FAIL candidate loses even if a benchmark says it is
  faster". And a judgement that returns to an earlier one (FAIL, PASS, FAIL) is
  refused with `RECORD_EXISTS`. A validation without `validated_artifact_identity`
  can be copied to any artifact; `SelectionEarned` says less about those.

* A request larger than its pipe is written before any deadline counts
  (`execution.py:100`): a command that does not read it blocks Forge for ever.
  After the leader has exited, a round without events reads every pipe, ready or
  not (`execution.py:132`): a descendant that keeps a pipe open blocks the read
  past the deadline. These are the two premises of `EveryRunEnds`; without either
  one TLC finds the run that never ends.
* `_terminate` returns at once when the leader has exited (`execution.py:41`) and
  sends no SIGKILL when it obeys SIGTERM: a run may end with `TIMEOUT` or
  `OUTPUT_LIMIT` and a descendant that was never signalled.
  docs/provider-protocol.md:10 says "Timeouts terminate the provider process
  group where practical".
* A leader that outlives SIGKILL by two seconds turns an `OUTPUT_LIMIT` into a
  `TIMEOUT` (with a truncated stream in its observation), and in the end
  `TimeoutExpired` leaves the runner (`execution.py:58`).
* On nt a reader thread may feed its capture between `failed()` and `session()`
  (`execution_observations.py:291`), and even while `failed()` makes its
  snapshots (74-94): the bytes handed over after an error may be more than those
  that were counted, the digest may be of other bytes than the length beside it,
  and a stream that goes above its cap between two reads of its snapshot is
  called truncated with less than the cap retained. `SessionAgrees` and
  `TruncationHonest` say what holds there nevertheless. And since a buffered read
  returns whole chunks only, a run that times out there may have observed nothing
  of an output above its cap.
* Candidate content that returns to an earlier version of its lineage cannot be
  registered again: `refresh` registers it and the store refuses the identity
  (`application/candidates.py:159`; action `RecordExists`), although the
  docstring of `refresh` says that callers can always rebind.
* Two processes open Forge after a crash, or one opens while an executor is
  about to finish, and both read that an action has no result. One terminates
  it; the other finds the result under the lock and its constructor fails with
  `ACTION_ALREADY_TERMINATED` (`application/recovery.py:38`; action
  `AlreadyTerminated`). Opening once more succeeds.
* The policy identity in a selection or a freeze is not that of what was read. The
  policy is hashed (`adapters.py:219`) and read at another moment (221), the plan of
  a freeze before both (`evaluation.py:40`). Hash the policy q2, put back q1, read:
  the selection names q2 with the evidence that q1 requires. Then let the freeze
  read q1 as plan, put q2 in place, let it be hashed (it is the policy of the
  selection), put back q1 and let it be read: the freeze is written although
  nothing that q2 requires has ever passed, or q2 is malformed. TLC finds this trace
  against `FreezeJustified` with `Required` of the policy in place of `grounds`.
  What does hold is that all that was *read* to be required has passed.
* Two requests for one verifier with equal timestamps have one action identity.
  The second is accepted as a duplicate and both store a result, each checked
  against results read before the action existed (`micro_verifiers.py:457`).
  `AtMostOneTerminal` therefore holds, and is proved, without `"sameTick"` in
  `Faults` only. If instead the second run meets the receipt of a first one that
  died, it ends with `RECEIPT_DUPLICATE` and the action waits for the next open.
* Drift is a comparison of two hashes (`micro_verifiers.py:951`, `1041`): files that
  are edited while a verifier runs and put back before the second observation
  leave a PASS, in evaluator mode too, for content that the provider did not
  read. `EvidenceBound` says what remains.
* A crash between the two commits of `micro_verifiers.py:454` and `457` leaves a
  receipt binding of a result that is never stored; recovery stores another.
  `ReceiptsAgree` is about the results that executors store.
* In development mode an edit between the lifecycle snapshot and the first
  observation gives a PASS for content that nobody examined
  (`micro_verifiers.py:952`): `EvidenceBound` holds with `Evaluator = TRUE` only.
* A verifier of a batch that raises after its action was committed is reported
  with "no verifier_action or verifier_result was created"
  (`micro_verifiers.py:552`, `verifier_support.py:240`; action `CommitRaises`
  at `bind` or `finish`).

`NeverAmbiguous` and `FrozenEvidenceClean` are stated for one development
process because two break them (a second disposition or freeze from the same
snapshot, a late FAIL); the repository does not promise otherwise, so this is
said here and is not a run. The proofs have it as the hypothesis `OneDeveloper`,
and any number of evaluators.

**Bounds, and why they are enough.** The store serializes everything under one
lock, so two processes give every pair of "who died" and "who recovers", and two
directories would show a second unresolved transaction if one could exist (the
proof shows that there is never one, for any number). Two identities distinguish
a retry from another record; two contents distinguish the same bytes from
others. One process suffices for foreign writers: the foreign writer is the
second. In `VerifierActions` two processes are an executor and a recoverer, or
two recoverers, and the locks of different actions do not interact. In
`Lifecycle` a bound limits when a call may *begin*, so that racing calls still
exceed it: two dispositions of one candidate happen although the bound is one.
In `BoundedExecution` caps of one and two bytes with chunks of two make output
end below, at and above a cap, also within a chunk, on one stream or on both;
the proofs show that nothing depends on the numbers. `MaxVersion`, `MaxLedger`,
`MaxRecords`, `MaxOutput`, `RecordBound`, `NameBound` and the situations named below are the only bounds.
`Receipts.Bounds` and `Development.Situations` are sets of alternatives, of which a
behaviour has one: runs with every runner and runs with edits would be too many
together, and do not interact. In `Development` two calls are enough for one to
find the answers of another, at once or earlier; two versions are the wrong and
the repaired source. In `Compiler` four records are two candidates, a validation
of one and its copy to the other; with three the copy cannot happen.

**Symmetry** is used for processes of one mode, transaction directories,
contents, artifacts, actions, authorities, environments and policies in runs that check safety only; the liveness
runs use none.

**Deadlock** is checked in every run but `evidence`, `development` and `compiler`,
where calls end when their bounds are reached.

**Fairness.** `RecordStore.FairSpec` is weak fairness of `Step(p)`: a process
inside a call is scheduled; nobody has to call and nobody has to stop dying. A
waiting process either gets the lock or times out, which is the code's
`timeout=`. `VerifierActions.FairSpec` adds weak fairness of `Open`: the MCP
client, or the user, starts Forge again. `EventuallyTerminal` assumes further
that crashes stop at some time (an executor that dies for ever terminates
nothing) and that no run ended with `RECEIPT_DUPLICATE`, after which nobody has
to open Forge again. `BoundedExecution.FairSpec` is weak fairness of the parent,
of its reader threads, of the clock and of the death of a killed process: all of
them the operating system's work. The command gets none.

## 4. Proofs

TLAPS checks these for every number of processes, identities, transactions,
actions, candidates, policies, versions and edits.

**RecordStoreProofs.** `TypeCorrect`, `Convergence` (`OldOrNew`),
`PublicationSafe` (`PublishExtends`), `NeverWedged` (`CrashesNeverWedge`),
`HistoryAppendOnly` (`AppendOnly`), `CommitReturnsItsOwn`, `AnswersDurable`
(`RepliesDurable`) and `Refinement` (`ImplementsAtomicLedger`). None is
inductive. The invariant `IInv` has
seven parts: `TypeOK`; `LockInv`, a process past the lock holds it; `OpInv`,
what a process works on fits where it is; `DirInv`, there is at most one
transaction directory and its owner is the only one to hold it; `TxInv`, a
directory with a journal is either *pending* (ledger is `before`, both stages
are still there or published) or *published* (ledger is `after`, record file
there); `LedgerInv`, files and ledger agree except for the record of a pending
transaction; `PhaseInv`, what has been done on disk when a process is at a given
step. The argument: a new directory is made only after recovery has emptied
`transactions/` under the same lock, so there is only ever one transaction to
decide about, and its journal determines which half of `TxInv` it is in.

`OwnEntry` says that a call which is about to succeed has the entry of the
record it was asked for, and not that of a transaction it recovered on the way;
with `IInv` it gives `AnswersDurable`, since what a caller is told of is in the
ledger and `AppendOnly` keeps it there. The refinement maps the ledger of
`AtomicLedger` to the ledger *as decided*: with the entry of a pending journal,
although neither record nor ledger file have been replaced yet. So the one step
that commits is `WriteJournal`; `NextStutters` shows that every other action,
recovery by another process included, changes nothing of what has been decided,
and `ToldAnswers` that an answer is one that the atomic store gives.

**ForeignWritersProofs.** `NeverRebased` (`CommittedAsPrepared`), `NoForeignBytes`
(`OnlyPreparedBytes`), `ForeignHistoryAppendOnly` (`AppendOnly`),
`ContradictionStays` (`ContradictionKept`) and `ReadsComplete`
(`ReadsWholeHistory`). The store's `IInv` does not hold here: a foreign append
leaves an entry without its file, and a pending transaction no longer extends
the ledger. `FInv` keeps `TypeOK`, `LockInv`, `OpInv` and `DirInv`, and is
otherwise about the journal: `JournalInv`, a journal describes one extension of
the ledger that it was written for; `CommittedAsPrepared`; `JournalledBytes`,
a record file holds what a journal names or the ledger has; and `HeldPhases`,
what the checks under the lock have established when a process replaces a file.
A foreign append takes the same lock, and stages are replaced while nobody holds
it, so that what recovery checks under the lock still holds when it uses it; that
is all the safety there is.

**VerifierActionsProofs.** `OneTerminal`, `NoPreemption` and `ReceiptsNameResults`
under the assumption that no two runs share an action identity (`"sameTick"` is
not in `Faults`; section 3 says why it is needed). `TypeCorrect` needs no
assumption on the faults, and `EvaluatorEvidence` only `Evaluator = TRUE`: what a
verdict rests on does not depend on the identity of the action. The invariant: whoever is
between `RecordAction` and `Finish` holds the action's lock (`LockInv`,
`OwnerInv`), what recovery intends to visit was recorded (`TodoInv`), results
and bindings are of recorded actions (`HistoryInv`, `BindingInv`), so recovery,
which needs the lock, never meets a live executor, and an executor, whose
identity is its own, never meets a result. `EvidenceInv` ties what was observed
around a run, and what its provider read unless it was touched, to the frozen files.

**LifecycleProofs.** `TypeCorrect`, `GatesHold` (`EvaluationJustified`) and
`FreezesHold` (`FreezeJustified`), with any processes on the native spine.
`IInv` is `TypeOK`, `LocalInv` (what each process relies on between its steps:
the evidence for a disposition it is about to write, the selection and evidence
of a freeze, the freeze of an evaluation) and `LedgerInv` (every selection was
supported when it was written, every freeze is justified, every evaluation has a
freeze). The argument is that everything a process relies on is an *existence*
fact about the ledger, and the ledger only grows: the stability lemmas
(`PassedStable`, `SelectionStable`, `JustifiedStable`, `LocalStable`) turn an
old snapshot into a fact about the present. That is exactly why this property
survives races, and why `FrozenEpochClosed`, which says that something is
*absent*, does not. What was read to be required is `grounds`; nothing is proved
of the identity of the policy in the record, which an edit between hashing and
reading separates from it (the note in section 3).

What says that something is absent holds for one process of development mode, with
any number of evaluators: `HistoryStaysUnambiguous` (`NeverAmbiguous`),
`FrozenEpochsStayClosed` (`FrozenEpochClosed`) and `FrozenEvidenceStaysClean`
(`FrozenEvidenceClean`) assume `OneDeveloper`. It is what `Lifecycle_frozen`
shows to be necessary, and the one assumption they have: which processes use the native
spine, and what the kernel says of a second root, do not matter. The invariant `SInv`
is `Serial`, of the history (it is not ambiguous, what is said of candidates is
said of registered ones, a frozen candidate is current, frozen epochs are closed);
`Clean`, of the history and the grounds of its freezes (the evidence of what they
require is PASS and nothing else); and `EntitledInv`, of the calls: what a call was
authorized to do it may still do (`Entitled`), because the others only append what
`Neutral` names, evaluations and bundles, which nothing in `Entitled` reads.
`Admits` is what may follow a history without spoiling it, and each service's
record is shown to be of that kind. TLC has checked `SInv` and `LedgerInv` on the
320 k states of `lifecycle_single`.

`KernelFollows` (`KernelAgrees`) needs no `OneDeveloper`: any number of processes
of both modes may race. The kernel folds the events of the history and the host
looks the history up, so the argument is in two parts. The first makes the fold
tractable: `RunOf` says what the kernel's states along the events are, `RunExists` and
`RunsAgree` that there is one such sequence of states (each by the least number of
events at which it would fail), and `ProjectMore`, `KernelSteps` that one record more is
one kernel step more. The second is about one step: `Follows` says what a state of the
kernel knows of a history (`Knows`: epoch, candidate, disposition, freeze,
evaluation, and how many results it was told of), as long as it found no conflict.
`FollowsEpoch`, `FollowsCandidate`, `FollowsEvidence` and the rest show that each kind of
record moves the two alike, or that the kernel finds the conflict. The
inductive invariant `KInv` is `Rooted` (every candidate of the ledger belongs to
an epoch of the ledger), `Projected` (the kernel follows the history, under every policy
and whether or not it takes a second root) and `Names` (what a call is about to
write is said of something in the ledger). It is needed because the host looks up the last epoch
and candidate, whatever came between, and the kernel's state survives only
if everything that is said later is about what was registered before. Without a
second root the kernel has seen one chain (`Chained`), so that it accepts nothing that the
host calls ambiguous (`FollowsAgrees`).

`BundlesAuthorized` compares the two bundle decisions: on a history that is not
ambiguous the host would authorize what the kernel grants. With `KernelFollows`,
which excludes the ambiguous ones, this is `BundlesAgree` (`BundleAgrees`), for any
processes again.

**BoundedExecutionProofs.** `Types`, `CompleteReceipts`, `HonestTruncation`,
`NoLeaderLeft` and `SessionObserved` (`SessionAgrees`), for every cap, chunk, pipe size, request and output. The
invariant: `Conserved`, a byte written is in a pipe, in a reader's buffer or
collected, and the capture counts what was collected; `Collecting`, a stream
leaves the selector, and a reader ends, only at an end of file or above the cap;
`Ending`, no error is under way while collecting, one is while terminating, and
without an error both streams are whole and the leader is gone; `Observation`,
what was reported of each stream, also while the snapshots are being made
(`Modest`: nothing is reported that is not so; `Named`: after an OUTPUT_LIMIT some
stream above its cap is reported as such by whatever has been read of it). The
capture of a stream that is being fed is described assignment by assignment
(`Captured`). `Conserved` is what makes the end of file
mean that nothing is missing; `Collecting` is what survives the race of a reader
thread above its cap with the join of the last thread. For the session,
`Handed` follows the capture from the snapshot of the report to the session: on
posix nobody feeds it any more, and on nt without an error every reader thread
has ended; on nt after an error the capture only grows, up to the cap.

**CompilerProofs.** `StatusesInvariant` and `SelectionCorrect` (`SelectionEarned`),
for any number of processes, artifacts and records. `StatusesEarned` is the
invariant: the status of every stored or prepared record is PASS only with a PASS
validation, and a PASS validation is bound to an artifact that a validator
passed, even on a record of another artifact; `Freshness` closes that gap.

**ReceiptsProofs.** `EveryResultReceipted` (`ResultsReceipted`),
`EveryAssuranceEarned` (`AssuranceEarned`) and `ReadinessSound`
(`ReadinessAgrees`, of module `Evidence`), for any number of processes,
workflows, candidates, executions and records, from `ReceiptsInvariant`. Its
invariant: `IdInv`, an execution has a number of its own, which no binding has
before it; `PhaseInv`, how far an execution has come is in the ledger (no binding
before its second commit, the action before the binding, the one binding before
the result); `BindingInv` and `AssuranceInv`, a binding says what its observation
establishes and an assessment is computed from its binding; `ResultInv`.
`PhaseInv` is what makes the order of the three commits count: a process may die
after each, and no later step repairs what it left. The one fact about the
runners is that they declare a status only of a session without an error, and
that a session that did not end by itself has one, but for Fabric's.

`ReadinessSound` needs of the invariant that every record that counts has a
status. `CountsAddUp` then shows that the three counts the ABI carries are all of
the records, `RequirementClassed` and `RequirementLists` that the kernel's class
of a requirement says what the host reads off its records, and `ReadingsAgree`
that the lists, the decision and the blocker come out the same, for any number of
requirements and records that the ABI holds and any edits. `RecountAccepts` is the
host's own check of the answer.

`ReconciliationSound` (`ReconciliationAgrees`) is about folds over sets: the statuses
of a category, the categories of a ledger, and the total of their records.
`FoldsAgree` says that two functions on the subsets of a finite set agree when
they do so from each subset to the next (by a least cardinality at which they
would not); `KindsFold`, `CategoriesFold` and `TotalFold` give what each fold
comes to (`Joined`, which does not depend on the order, and the records
`Within` the categories). `CategoryReads` and `Reconciles` compare that with the
host's lists and its recount, for any ledger that the ABI holds.

**DevelopmentProofs.** `RepairsAreEarned` (`RepairsEarned`) and `ReportsAreEarned`
(`ReportsEarned`), for any number of processes, versions and plans, whatever lies
in the answer files. The invariant `DInv`: `InHand`, what a call has
established when it is in a given phase (a diagnosis that is sufficient and of
its witness, witness and result of one run, before it repairs; a second test if it
wrote, a plan that wants a proof, before its family proof);
`FilesInv`, the form of the answers that are quoted; and `ReportsEarned`. The
argument is that each answer that the loop decides on is read once
into the call, checked against what the call already holds, and only the call's
copy is used, so that overwritten files never make it combine a witness of one run
with a diagnosis or a result of another. That the combination is of this call is not
proved, and is not so. `QueriesEnd` says that the diagnosis is the last query, which is why no call
repairs before it has read one.

Assumptions on the constants are the `...Assumption` of each module:
distinguished values are distinct from data, functions have their types, what a
policy requires is finite, and (`AnswersAssumption`) the answer files that lie
about when a behaviour begins have the form that their provider writes.

Only model-checked:

* liveness (`EveryCallReturns`, `EventuallyTerminal`, `EveryRunEnds`) and anything
  with ENABLED, which the prover does not do. `EveryCallReturns`
  needs an argument about who holds a lock next, `EventuallyTerminal` one about
  a recovery that always comes again, `EveryRunEnds` one about a timeout that is
  not postponed; each is under the fairness of its module and checked in its run.

Every other property of the passing runs is a theorem. Where the code folds, in
the packaged programs, the library's induction theorems cannot be used (they
take an operator as a parameter); the proofs argue from a least counterexample
instead, which is first-order, once for each fold.

## 5. What could follow

1. Proofs: the safety half of the liveness properties, that in every state that is not
   final some step can be taken whose guard is a state predicate (ENABLED itself is
   out of reach).
2. Providers, the rights gate and the Podman runner's container as steps around
   `BoundedExecution`.

## 6. What is not modelled, and why

`PROJECT.json`, "components", has the status of each part. Left out:

* finding, loading and running the native artifact, and the encoding of values
  for it (foreign code); container and process isolation as such;
* claim blockers: a report over files that nothing else reads;
* compiler studies and experiments: one observation is parsed, stored once and
  compared stage by stage, and nothing is decided by it;
* providers: a probe is one bounded command and one record; the rights gate: a
  pure function of licence records, off by default;
* parsing of configuration and tool output, formatting, validation and migration
  of records, the CLI's and server's argument handling and the table of
  operations, which dispatch one call at a time;
* the documents of learned specialists, forge cell, edgestream and concept
  experiments, which validate and append and have no control of their own.
