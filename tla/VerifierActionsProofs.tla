------------------------ MODULE VerifierActionsProofs -----------------------
(***************************************************************************)
(* The execution-lock protocol of VerifierActions, proved for any number   *)
(* of processes and actions and any mix of faults.  The theorems on        *)
(* terminal results assume that action identities are unique, that is that *)
(* no two runs of one verifier start in the same clock tick.               *)
(***************************************************************************)
EXTENDS VerifierActions, TLAPS

-----------------------------------------------------------------------------
(* The inductive invariant *)

Before == {"lockAction", "recordAction"}
After == {"observe", "provider", "driftCheck", "bind", "finish"}
Owning == Before \cup After
Locking == {"recordAction", "terminate"} \cup After

\* Who executes or terminates an action holds its lock.
LockInv ==
    \A p \in Procs : pc[p] \in Locking =>
        act[p] \in Actions /\ alock[act[p]] = p

\* An action in the hands of run() is in the hands of one process, and is
\* recorded exactly when that process has passed RecordAction.
OwnerInv ==
    \A p \in Procs :
        /\ pc[p] \in Owning =>
             /\ act[p] \in Actions
             /\ \A q \in Procs : pc[q] \in Owning /\ act[q] = act[p] => q = p
        /\ pc[p] \in {"snapshot"} \cup Before => cand[p] # Nil
        /\ pc[p] \in Before => recorded[act[p]] = Nil
        /\ pc[p] \in After => recorded[act[p]] # Nil

\* Recovery visits recorded actions only.
TodoInv ==
    \A p \in Procs :
        /\ \A a \in todo[p] : recorded[a] # Nil
        /\ pc[p] = "terminate" => recorded[act[p]] # Nil

\* Results and bindings are of recorded actions.
HistoryInv ==
    /\ \A r \in results : recorded[r.action] # Nil
    /\ \A b \in bindings : recorded[b.action] # Nil

\* An action has no binding until its executor binds one, and then the one
\* of the result that the executor will store.
BindingInv ==
    /\ \A p \in Procs : pc[p] \in After => \A b \in bindings : b.action = act[p] =>
          pc[p] = "finish" /\ b = OwnResult(p)
    /\ \A b \in bindings : \A r \in results :
          r.action = b.action /\ ~r.recovered => r = b

IInv ==
    /\ TypeOK /\ LockInv /\ OwnerInv /\ TodoInv /\ HistoryInv
    /\ LiveExecutorNotPreempted /\ AtMostOneTerminal /\ BindingInv

-----------------------------------------------------------------------------

\* The locals of a process that is in no run.
LEMMA RestTypes == NotRun \in Runs /\ Frozen \in Worlds
  BY ConstantsAssumption DEF NotRun, Runs, Statuses, Frozen, Worlds

\* A result of a run is a result.
LEMMA OwnResultType ==
  ASSUME TypeOK, NEW p \in Procs, act[p] \in Actions
  PROVE  OwnResult(p) \in Result /\ OwnResult(p).action = act[p]
<1> DEFINE verdict == ran[p].status # "UNKNOWN"
           o == IF verdict THEN before[p].candidate ELSE Nil
           w == IF verdict THEN ran[p].saw ELSE Nil
           t == verdict /\ ran[p].touched
<1>1. o \in 0..MaxVersion \cup {Nil} /\ w \in 0..MaxVersion \cup {Nil} /\ t \in BOOLEAN
      /\ ran[p].status \in Statuses
  BY DEF TypeOK, Worlds, Runs
<1>2. OwnResult(p) = [action |-> act[p], by |-> p, recovered |-> FALSE,
                      status |-> ran[p].status, observed |-> o, saw |-> w, touched |-> t]
  BY DEF OwnResult
<1> HIDE DEF o, w, t
<1> QED
  BY <1>1, <1>2 DEF Result

\* Nothing is recorded, locked or running at first.
LEMMA InitIInv == Init => IInv
<1> SUFFICES ASSUME Init PROVE IInv
  OBVIOUS
<1> USE DEF Init
<1>1. TypeOK
  BY ConstantsAssumption DEF TypeOK, Frozen, Worlds, NotRun, Runs, Statuses, Locations, Reports
<1>2. LockInv /\ OwnerInv /\ TodoInv
  BY DEF LockInv, OwnerInv, TodoInv, Owning, Before, After, Locking
<1>3. HistoryInv /\ LiveExecutorNotPreempted /\ AtMostOneTerminal /\ BindingInv
  BY DEF HistoryInv, LiveExecutorNotPreempted, AtMostOneTerminal, BindingInv, Terminal, After
<1> QED
  BY <1>1, <1>2, <1>3 DEF IInv

-----------------------------------------------------------------------------
(* Steps that leave history and locks alone *)

\* The lifecycle snapshot of a run.
LEMMA AuthorizeStep ==
  ASSUME IInv, NEW p \in Procs, Authorize(p)
  PROVE  IInv'
<1> USE DEF IInv, Authorize, Goto, durable
<1>1. TypeOK'
  BY DEF TypeOK, Locations, Reports, Worlds
<1>2. LockInv'
  BY DEF LockInv, TypeOK, Owning, Before, After, Locking
<1>3. OwnerInv'
  BY ConstantsAssumption DEF OwnerInv, TypeOK, Worlds, Owning, Before, After, Locking
<1>4. TodoInv'
  BY DEF TodoInv, TypeOK
<1>5. HistoryInv'
  BY DEF HistoryInv
<1>6. LiveExecutorNotPreempted'
  BY DEF LiveExecutorNotPreempted, TypeOK, Terminal
<1>7. AtMostOneTerminal'
  BY DEF AtMostOneTerminal
<1>8. BindingInv'
  BY DEF BindingInv, OwnResult, TypeOK, After
<1> QED
  BY <1>1, <1>2, <1>3, <1>4, <1>5, <1>6, <1>7, <1>8

\* A fresh action identity is taken, and prior results are read.
LEMMA SnapshotStep ==
  ASSUME IInv, NEW p \in Procs, NEW a \in Actions, "sameTick" \notin Faults, Snapshot(p, a)
  PROVE  IInv'
<1> USE DEF IInv, Snapshot, Goto, durable, Unused, SameTick
<1>1. TypeOK'
  BY DEF TypeOK, Locations, Reports, Terminal, Result
<1>2. LockInv'
  BY DEF LockInv, TypeOK, Owning, Before, After, Locking
<1>3. OwnerInv'
  BY DEF OwnerInv, TypeOK, Owning, Before, After, Locking
<1>4. TodoInv'
  BY DEF TodoInv, TypeOK
<1>5. HistoryInv'
  BY DEF HistoryInv
<1>6. LiveExecutorNotPreempted'
  BY DEF LiveExecutorNotPreempted, TypeOK, Terminal
<1>7. AtMostOneTerminal'
  BY DEF AtMostOneTerminal
<1>8. BindingInv'
  BY DEF BindingInv, OwnResult, TypeOK, After
<1> QED
  BY <1>1, <1>2, <1>3, <1>4, <1>5, <1>6, <1>7, <1>8

\* Identities are observed before the provider runs.
LEMMA ObserveStep ==
  ASSUME IInv, NEW p \in Procs, Observe(p)
  PROVE  IInv'
<1> USE DEF IInv, Observe, Goto, durable
<1>1. TypeOK'
  BY RestTypes DEF TypeOK, Locations, Reports
<1>2. LockInv'
  BY DEF LockInv, TypeOK, Owning, Before, After, Locking
<1>3. OwnerInv'
  BY DEF OwnerInv, TypeOK, Owning, Before, After, Locking
<1>4. TodoInv'
  BY DEF TodoInv, TypeOK
<1>5. HistoryInv'
  BY DEF HistoryInv
<1>6. LiveExecutorNotPreempted'
  BY DEF LiveExecutorNotPreempted, TypeOK, Terminal
<1>7. AtMostOneTerminal'
  BY DEF AtMostOneTerminal
<1>8. BindingInv'
  BY DEF BindingInv, OwnResult, TypeOK, After
<1> QED
  BY <1>1, <1>2, <1>3, <1>4, <1>5, <1>6, <1>7, <1>8

\* The provider runs, and drift is checked.
LEMMA ProviderStep ==
  ASSUME IInv, NEW p \in Procs, Provider(p) \/ DriftCheck(p)
  PROVE  IInv'
<1> USE DEF IInv, Provider, DriftCheck, Goto, durable
<1>1. TypeOK'
  <2>1. NotRun \in Runs /\ \A st \in Statuses :
           [status |-> st, saw |-> world.candidate, session |-> TRUE,
            touched |-> ran[p].touched] \in Runs
    BY DEF TypeOK, Runs, NotRun, Statuses, Worlds
  <2>2. ran' \in [Procs -> Runs] /\ before' \in [Procs -> Worlds]
    BY <2>1, RestTypes DEF TypeOK
  <2> QED
    BY <2>2 DEF TypeOK, Locations
<1>2. LockInv'
  BY DEF LockInv, TypeOK, Owning, Before, After, Locking
<1>3. OwnerInv'
  BY DEF OwnerInv, TypeOK, Owning, Before, After, Locking
<1>4. TodoInv'
  BY DEF TodoInv, TypeOK
<1>5. HistoryInv'
  BY DEF HistoryInv
<1>6. LiveExecutorNotPreempted'
  BY DEF LiveExecutorNotPreempted, TypeOK, Terminal
<1>7. AtMostOneTerminal'
  BY DEF AtMostOneTerminal
<1>8. BindingInv'
  BY DEF BindingInv, OwnResult, TypeOK, After
<1> QED
  BY <1>1, <1>2, <1>3, <1>4, <1>5, <1>6, <1>7, <1>8

\* Recovery reads actions and results, passes over live ones, and ends.
LEMMA RecoverySetupStep ==
  ASSUME IInv, NEW p \in Procs, Open(p) \/ ReadResults(p) \/ Opened(p) \/ \E a \in Actions : SkipBusy(p, a)
  PROVE  IInv'
<1> USE DEF IInv, Open, ReadResults, Opened, SkipBusy, Goto, durable, locals
<1>1. TypeOK'
  BY DEF TypeOK, Locations, Reports, RecordedActions
<1>2. LockInv'
  BY DEF LockInv, TypeOK, Owning, Before, After, Locking
<1>3. OwnerInv'
  BY DEF OwnerInv, TypeOK, Owning, Before, After, Locking
<1>4. TodoInv'
  BY DEF TodoInv, TypeOK, RecordedActions
<1>5. HistoryInv'
  BY DEF HistoryInv
<1>6. LiveExecutorNotPreempted'
  BY DEF LiveExecutorNotPreempted, TypeOK, Terminal
<1>7. AtMostOneTerminal'
  BY DEF AtMostOneTerminal
<1>8. BindingInv'
  BY DEF BindingInv, OwnResult, TypeOK, After
<1> QED
  BY <1>1, <1>2, <1>3, <1>4, <1>5, <1>6, <1>7, <1>8

-----------------------------------------------------------------------------
(* Steps that take or release locks, or write history *)

\* A call that ends without writing history.
LEMMA EndStep ==
  ASSUME IInv, NEW p \in Procs, NEW to \in {"idle", "down"}, NEW r \in Reports,
         End(p, to, r), UNCHANGED <<world, durable>>
  PROVE  IInv'
<1> USE DEF IInv, End, Released, durable
<1>1. TypeOK'
  BY ConstantsAssumption DEF TypeOK, Locations, Frozen, Worlds, NotRun, Runs, Statuses
<1>2. LockInv'
  BY DEF LockInv, TypeOK, Owning, Before, After, Locking
<1>3. OwnerInv'
  BY DEF OwnerInv, TypeOK, Owning, Before, After, Locking
<1>4. TodoInv'
  BY DEF TodoInv, TypeOK
<1>5. HistoryInv'
  BY DEF HistoryInv
<1>6. LiveExecutorNotPreempted'
  BY DEF LiveExecutorNotPreempted, TypeOK, Terminal
<1>7. AtMostOneTerminal'
  BY DEF AtMostOneTerminal
<1>8. BindingInv'
  BY DEF BindingInv, OwnResult, TypeOK, After
<1> QED
  BY <1>1, <1>2, <1>3, <1>4, <1>5, <1>6, <1>7, <1>8

\* The execution lock of the new action is taken.
LEMMA LockActionStep ==
  ASSUME IInv, NEW p \in Procs, LockAction(p)
  PROVE  IInv'
<1> USE DEF IInv, LockAction, Goto, durable, locals
<1>1. TypeOK'
  BY DEF TypeOK, Locations, Reports
<1>2. LockInv'
  BY ConstantsAssumption DEF LockInv, OwnerInv, TypeOK, Owning, Before, After, Locking
<1>3. OwnerInv'
  BY DEF OwnerInv, TypeOK, Owning, Before, After, Locking
<1>4. TodoInv'
  BY DEF TodoInv, TypeOK
<1>5. HistoryInv'
  BY DEF HistoryInv
<1>6. LiveExecutorNotPreempted'
  BY DEF LiveExecutorNotPreempted, TypeOK, Terminal
<1>7. AtMostOneTerminal'
  BY DEF AtMostOneTerminal
<1>8. BindingInv'
  BY DEF BindingInv, OwnResult, TypeOK, After
<1> QED
  BY <1>1, <1>2, <1>3, <1>4, <1>5, <1>6, <1>7, <1>8

\* The action becomes history, under its lock.
LEMMA RecordActionStep ==
  ASSUME IInv, NEW p \in Procs, RecordAction(p)
  PROVE  IInv'
<1> USE DEF IInv, RecordAction, Goto, locals
<1>1. TypeOK'
  BY DEF TypeOK, Locations, Reports
<1>2. LockInv'
  BY DEF LockInv, TypeOK, Owning, Before, After, Locking
<1>3. OwnerInv'
  BY DEF OwnerInv, LockInv, TypeOK, Owning, Before, After, Locking
<1>4. TodoInv'
  BY DEF TodoInv, OwnerInv, TypeOK, Before
<1>5. HistoryInv'
  BY DEF HistoryInv, OwnerInv, TypeOK, Before
<1>6. LiveExecutorNotPreempted'
  BY DEF LiveExecutorNotPreempted, HistoryInv, OwnerInv, TypeOK, Terminal, Before
<1>7. AtMostOneTerminal'
  BY DEF AtMostOneTerminal
<1>8. BindingInv'
  BY DEF BindingInv, HistoryInv, OwnerInv, OwnResult, TypeOK, Owning, Before, After, Locking
<1> QED
  BY <1>1, <1>2, <1>3, <1>4, <1>5, <1>6, <1>7, <1>8

\* The receipt is bound to the result to come.
LEMMA BindStep ==
  ASSUME IInv, NEW p \in Procs, Bind(p)
  PROVE  IInv'
<1> USE DEF IInv, Bind, Goto, locals
<1>0. OwnResult(p) \in Result /\ pc[p] = "bind" /\ act[p] \in Actions
  BY OwnResultType DEF LockInv, Locking, After
<1>1. TypeOK'
  BY <1>0 DEF TypeOK, Locations
<1>2. LockInv'
  BY DEF LockInv, TypeOK, Owning, Before, After, Locking
<1>3. OwnerInv'
  BY DEF OwnerInv, TypeOK, Owning, Before, After, Locking
<1>4. TodoInv'
  BY DEF TodoInv, TypeOK
<1>5. HistoryInv'
  BY <1>0 DEF HistoryInv, OwnerInv, TypeOK, After, OwnResult
<1>6. LiveExecutorNotPreempted'
  BY DEF LiveExecutorNotPreempted, TypeOK, Terminal
<1>7. AtMostOneTerminal'
  BY DEF AtMostOneTerminal
<1>8. BindingInv'
  BY <1>0 DEF BindingInv, LiveExecutorNotPreempted, Terminal, OwnerInv, OwnResult, TypeOK, Owning, Before, After, Locking
<1> QED
  BY <1>1, <1>2, <1>3, <1>4, <1>5, <1>6, <1>7, <1>8

\* Recovery takes the lock of a stranded action.
LEMMA TakeStep ==
  ASSUME IInv, NEW p \in Procs, NEW a \in Actions, TakeStranded(p, a)
  PROVE  IInv'
<1> USE DEF IInv, TakeStranded, Goto, durable
<1>1. TypeOK'
  BY DEF TypeOK, Locations, Reports
<1>2. LockInv'
  BY ConstantsAssumption DEF LockInv, TypeOK, Owning, Before, After, Locking
<1>3. OwnerInv'
  BY DEF OwnerInv, TypeOK, Owning, Before, After, Locking
<1>4. TodoInv'
  BY DEF TodoInv, TypeOK
<1>5. HistoryInv'
  BY DEF HistoryInv
<1>6. LiveExecutorNotPreempted'
  BY DEF LiveExecutorNotPreempted, TypeOK, Terminal
<1>7. AtMostOneTerminal'
  BY DEF AtMostOneTerminal
<1>8. BindingInv'
  BY DEF BindingInv, OwnResult, TypeOK, After
<1> QED
  BY <1>1, <1>2, <1>3, <1>4, <1>5, <1>6, <1>7, <1>8

\* A call that ends after its record was decided: Finish, and a commit that
\* raises too late.
LEMMA DecideStep ==
  ASSUME IInv, NEW p \in Procs, NEW r \in Reports,
         pc[p] \in {"recordAction", "bind", "finish"},
         Decide(p), End(p, "idle", r), UNCHANGED world
  PROVE  IInv'
<1> USE DEF IInv, End, Released
<1>0. OwnResult(p) \in Result /\ act[p] \in Actions /\ alock[act[p]] = p
  BY OwnResultType DEF LockInv, Locking, After
<1>a. /\ recorded' \in [Actions -> 0..MaxVersion \cup {Nil}]
      /\ \A a \in Actions : recorded[a] # Nil => recorded'[a] # Nil
      /\ \A a \in Actions \ {act[p]} : recorded'[a] = recorded[a]
  BY <1>0, ConstantsAssumption DEF Decide, TypeOK, OwnerInv, Before
<1>b. \/ results' = results
      \/ /\ pc[p] = "finish" /\ results' = results \cup {OwnResult(p)}
         /\ act[p] \notin Terminal /\ recorded[act[p]] # Nil
  BY DEF Decide, LiveExecutorNotPreempted, OwnerInv, After
<1>c. \/ bindings' = bindings
      \/ /\ pc[p] = "bind" /\ bindings' = bindings \cup {OwnResult(p)}
         /\ act[p] \notin Terminal /\ recorded[act[p]] # Nil /\ results' = results
  BY DEF Decide, LiveExecutorNotPreempted, OwnerInv, After
<1>d. \A q \in Procs \ {p} :
         /\ pc'[q] = pc[q] /\ act'[q] = act[q] /\ cand'[q] = cand[q]
         /\ ran'[q] = ran[q] /\ todo'[q] = todo[q]
         /\ pc[q] \in Owning => act[q] # act[p]
  BY DEF TypeOK, OwnerInv, Owning, Before, After
<1>e. OwnResult(p).action = act[p] /\ ~OwnResult(p).recovered
  BY DEF OwnResult
<1>1. TypeOK'
  BY <1>0, <1>a, <1>b, <1>c, ConstantsAssumption DEF TypeOK, Locations, Frozen, Worlds, NotRun, Runs, Statuses
<1>2. LockInv'
  BY DEF LockInv, TypeOK, Locking, After
<1>3. OwnerInv'
  BY <1>a, <1>d DEF OwnerInv, TypeOK, Owning, Before, After
<1>4. TodoInv'
  BY <1>a DEF TodoInv, TypeOK, LockInv, Locking
<1>5. HistoryInv'
  BY <1>0, <1>a, <1>b, <1>c, <1>e DEF HistoryInv, TypeOK, Result
<1>6. LiveExecutorNotPreempted'
  BY <1>b, <1>d, <1>e DEF LiveExecutorNotPreempted, TypeOK, Terminal, Owning, After
<1>7. AtMostOneTerminal'
  BY <1>b, <1>e DEF AtMostOneTerminal, Terminal
<1>8. BindingInv'
  <2>1. ASSUME NEW q \in Procs, pc'[q] \in After, NEW b \in bindings', b.action = act'[q]
        PROVE  pc'[q] = "finish" /\ b = OwnResult(q)'
    <3>1. q # p
      BY <2>1 DEF TypeOK, After
    <3>2. b \in bindings
      BY <2>1, <3>1, <1>c, <1>d, <1>e DEF Owning
    <3> QED
      BY <2>1, <3>1, <3>2, <1>d DEF BindingInv, OwnResult
  <2>2. ASSUME NEW b \in bindings', NEW x \in results', x.action = b.action, ~x.recovered
        PROVE  x = b
    BY <2>2, <1>b, <1>c, <1>e DEF BindingInv, Terminal, After
  <2> QED
    BY <2>1, <2>2 DEF BindingInv
<1> QED
  BY <1>1, <1>2, <1>3, <1>4, <1>5, <1>6, <1>7, <1>8

\* Recovery gives a stranded action its result, or a ledger timeout does not.
LEMMA TerminateStep ==
  ASSUME IInv, NEW p \in Procs, Terminate(p) \/ TerminateTimeout(p)
  PROVE  IInv'
<1> DEFINE res == [action |-> act[p], by |-> p, recovered |-> TRUE,
                   status |-> "UNKNOWN", observed |-> Nil, saw |-> Nil, touched |-> FALSE]
<1> USE DEF IInv, Terminate, TerminateTimeout, LeaveStranded
<1>0. /\ res \in Result /\ act[p] \in Actions /\ alock[act[p]] = p
      /\ recorded[act[p]] # Nil /\ res.action = act[p] /\ res.recovered
  BY DEF Result, Statuses, TypeOK, LockInv, Locking, TodoInv
<1>a. \/ results' = results
      \/ results' = results \cup {res} /\ act[p] \notin Terminal
  OBVIOUS
<1> HIDE DEF res
<1>b. \A q \in Procs : pc'[q] \in After =>
         pc'[q] = pc[q] /\ act'[q] = act[q] /\ act[q] # act[p]
  BY <1>0 DEF TypeOK, LockInv, Locking, After
<1>1. TypeOK'
  <2>1. results' \subseteq Result
    BY <1>0, <1>a DEF TypeOK
  <2> QED
    BY <2>1, <1>0, ConstantsAssumption DEF TypeOK, Locations
<1>2. LockInv'
  BY <1>0 DEF LockInv, TypeOK, Locking, After
<1>3. OwnerInv'
  BY DEF OwnerInv, TypeOK, Owning, Before, After
<1>4. TodoInv'
  BY DEF TodoInv, TypeOK
<1>5. HistoryInv'
  BY <1>0, <1>a DEF HistoryInv
<1>6. LiveExecutorNotPreempted'
  BY <1>0, <1>a, <1>b DEF LiveExecutorNotPreempted, Terminal, After
<1>7. AtMostOneTerminal'
  BY <1>0, <1>a DEF AtMostOneTerminal, Terminal
<1>8. BindingInv'
  BY <1>0, <1>a, <1>b DEF BindingInv, OwnResult, TypeOK, After
<1> QED
  BY <1>1, <1>2, <1>3, <1>4, <1>5, <1>6, <1>7, <1>8

\* An edit touches only runs that have no binding or result yet.
LEMMA EditFrame ==
  ASSUME TypeOK, Edit
  PROVE  /\ world' \in Worlds /\ ran' \in [Procs -> Runs]
         /\ \A p \in Procs : pc[p] \notin Executing => ran'[p] = ran[p]
         /\ UNCHANGED <<durable, alock, pc, act, cand, prior, before, todo, report>>
<1>1. PICK f \in {"candidate", "authority"}, v \in 0..MaxVersion :
        /\ world' = [world EXCEPT ![f] = v]
        /\ ran' = [p \in Procs |->
                     IF f = "candidate" /\ pc[p] \in Executing
                     THEN [ran[p] EXCEPT !.touched = TRUE] ELSE ran[p]]
  BY DEF Edit
<1>2. world' \in Worlds
  BY <1>1 DEF TypeOK, Worlds
<1>3. \A p \in Procs : [ran[p] EXCEPT !.touched = TRUE] \in Runs /\ ran[p] \in Runs
  BY DEF TypeOK, Runs
<1> QED
  BY <1>1, <1>2, <1>3 DEF Edit

\* Editing the project, and stuttering.
LEMMA EditStep ==
  ASSUME IInv, Edit \/ UNCHANGED vars
  PROVE  IInv'
<1>1. CASE UNCHANGED vars
  <2> USE <1>1 DEF IInv, vars, durable, locals
  <2>1. TypeOK' /\ LockInv' /\ OwnerInv' /\ TodoInv' /\ HistoryInv'
    BY DEF TypeOK, LockInv, OwnerInv, TodoInv, HistoryInv
  <2>2. LiveExecutorNotPreempted' /\ AtMostOneTerminal' /\ BindingInv'
    BY DEF LiveExecutorNotPreempted, AtMostOneTerminal, BindingInv, OwnResult, Terminal
  <2> QED
    BY <2>1, <2>2
<1>2. CASE Edit
  <2> USE DEF IInv, durable
  <2>1. /\ world' \in Worlds /\ ran' \in [Procs -> Runs]
        /\ \A p \in Procs : pc[p] \notin Executing => ran'[p] = ran[p]
        /\ UNCHANGED <<durable, alock, pc, act, cand, prior, before, todo, report>>
    BY <1>2, EditFrame
  <2>2. TypeOK'
    BY <2>1 DEF TypeOK
  <2>3. LockInv' /\ OwnerInv' /\ TodoInv' /\ HistoryInv'
    BY <2>1 DEF LockInv, OwnerInv, TodoInv, HistoryInv
  <2>4. LiveExecutorNotPreempted' /\ AtMostOneTerminal'
    BY <2>1 DEF LiveExecutorNotPreempted, AtMostOneTerminal, Terminal
  <2>5. BindingInv'
    BY <2>1 DEF BindingInv, OwnResult, Executing
  <2> QED
    BY <2>2, <2>3, <2>4, <2>5
<1> QED
  BY <1>1, <1>2

-----------------------------------------------------------------------------
(* The theorems *)

\* Every step of every process preserves the invariant.
LEMMA NextIInv ==
  ASSUME "sameTick" \notin Faults
  PROVE  IInv /\ [Next]_vars => IInv'
<1> SUFFICES ASSUME IInv, [Next]_vars PROVE IInv'
  OBVIOUS
<1>1. CASE Edit \/ UNCHANGED vars
  BY <1>1, EditStep
<1>2. ASSUME NEW p \in Procs, Run(p) PROVE IInv'
  <2>1. CASE Finish(p)
    <3>1. Decide(p)
      BY <2>1 DEF Finish, Decide
    <3> QED
      BY <2>1, <3>1, DecideStep DEF Finish, Reports
  <2>2. CASE LockBusy(p) \/ ReceiptDuplicate(p)
    BY <2>2, EndStep DEF LockBusy, ReceiptDuplicate, Reports
  <2> QED
    BY <1>2, <2>1, <2>2, SnapshotStep, LockActionStep, RecordActionStep, ObserveStep,
       ProviderStep, BindStep DEF Run
<1>3. ASSUME NEW p \in Procs, Recovery(p) \/ Open(p) \/ TerminateTimeout(p) PROVE IInv'
  <2>1. CASE AlreadyTerminated(p)
    BY <2>1, EndStep DEF AlreadyTerminated, Reports
  <2> QED
    BY <1>3, <2>1, RecoverySetupStep, TakeStep, TerminateStep DEF Recovery
<1>4. ASSUME NEW p \in Procs, Crash(p) \/ CommitRaises(p) PROVE IInv'
  BY <1>4, EndStep, DecideStep DEF Crash, CommitRaises, Reports
<1> QED
  BY <1>1, <1>2, <1>3, <1>4, AuthorizeStep DEF Next

\* The invariant holds in every reachable state.
THEOREM Invariance ==
  ASSUME "sameTick" \notin Faults
  PROVE  Spec => []IInv
  BY InitIInv, NextIInv, PTL DEF Spec

\* A verifier action has at most one terminal result, however many processes
\* execute, die and recover (AtMostOneTerminal).
THEOREM OneTerminal ==
  ASSUME "sameTick" \notin Faults
  PROVE  Spec => []AtMostOneTerminal
<1>1. IInv => AtMostOneTerminal
  BY DEF IInv
<1> QED
  BY <1>1, Invariance, PTL

\* Recovery never terminates an action whose executor is alive
\* (LiveExecutorNotPreempted).
THEOREM NoPreemption ==
  ASSUME "sameTick" \notin Faults
  PROVE  Spec => []LiveExecutorNotPreempted
<1>1. IInv => LiveExecutorNotPreempted
  BY DEF IInv
<1> QED
  BY <1>1, Invariance, PTL

\* A receipt binding names the result its executor stored, if it stored one
\* (ReceiptsAgree).
THEOREM ReceiptsNameResults ==
  ASSUME "sameTick" \notin Faults
  PROVE  Spec => []ReceiptsAgree
<1>1. IInv => ReceiptsAgree
  BY DEF IInv, HistoryInv, BindingInv, ReceiptsAgree
<1> QED
  BY <1>1, Invariance, PTL

-----------------------------------------------------------------------------
(* What does not depend on unique action identities *)

\* A run that has taken an action knows its candidate, and what is executed,
\* recovered, bound or terminated has been recorded.
RecordedInv ==
    /\ \A p \in Procs :
         /\ pc[p] \in Owning => act[p] \in Actions
         /\ pc[p] \in {"snapshot"} \cup Before => cand[p] # Nil
         /\ pc[p] \in After \cup {"terminate"} => act[p] \in Actions /\ recorded[act[p]] # Nil
         /\ \A a \in todo[p] : recorded[a] # Nil
    /\ HistoryInv

\* What a step of p makes of the record of an action.
RecordsMore(p) ==
    \/ UNCHANGED recorded
    \/ pc[p] = "recordAction" /\ recorded' = [recorded EXCEPT ![act[p]] = cand[p]]

\* A record, once there, stays one.
LEMMA RecordsStay ==
  ASSUME TypeOK, RecordedInv, NEW p \in Procs, RecordsMore(p)
  PROVE  /\ recorded' \in [Actions -> 0..MaxVersion \cup {Nil}]
         /\ \A a \in Actions : recorded[a] # Nil => recorded'[a] # Nil
         /\ pc[p] = "recordAction" /\ recorded' # recorded => recorded'[act[p]] # Nil
  BY DEF TypeOK, RecordedInv, RecordsMore, Owning, Before

\* A call that ends, perhaps after its record was decided.
LEMMA EndKeepsRecords ==
  ASSUME TypeOK, RecordedInv, NEW p \in Procs, NEW to \in {"idle", "down"}, NEW r \in Reports,
         End(p, to, r), UNCHANGED world,
         UNCHANGED durable \/ (pc[p] \in {"recordAction", "bind", "finish"} /\ Decide(p))
  PROVE  TypeOK' /\ RecordedInv'
<1>1. RecordsMore(p)
  BY DEF Decide, durable, RecordsMore
<1>2. /\ results' = results \/ results' = results \cup {OwnResult(p)}
      /\ bindings' = bindings \/ bindings' = bindings \cup {OwnResult(p)}
      /\ results' # results \/ bindings' # bindings => pc[p] \in After
  BY DEF Decide, durable, After
<1>3. pc[p] \in After => /\ OwnResult(p) \in Result /\ OwnResult(p).action = act[p]
                         /\ act[p] \in Actions /\ recorded[act[p]] # Nil
  BY OwnResultType DEF RecordedInv
<1>4. /\ recorded' \in [Actions -> 0..MaxVersion \cup {Nil}]
      /\ \A a \in Actions : recorded[a] # Nil => recorded'[a] # Nil
  BY <1>1, RecordsStay
<1>5. results' \subseteq Result /\ bindings' \subseteq Result
  BY <1>2, <1>3 DEF TypeOK
<1>6. TypeOK'
  BY <1>4, <1>5, ConstantsAssumption DEF End, Released, TypeOK, Locations, Frozen, Worlds, NotRun,
     Runs, Statuses
<1>7. HistoryInv'
  BY <1>2, <1>3, <1>4 DEF RecordedInv, HistoryInv, TypeOK, Result
<1>8. RecordedInv'
  BY <1>4, <1>7 DEF End, RecordedInv, TypeOK, Owning, Before, After
<1> QED
  BY <1>6, <1>8

\* Every step keeps types and records, whatever faults happen.
LEMMA NextRecorded == TypeOK /\ RecordedInv /\ [Next]_vars => TypeOK' /\ RecordedInv'
<1> SUFFICES ASSUME TypeOK, RecordedInv, [Next]_vars PROVE TypeOK' /\ RecordedInv'
  OBVIOUS
<1>1. CASE Edit \/ UNCHANGED vars
  <2>1. CASE Edit
    BY <2>1, EditFrame DEF durable, TypeOK, RecordedInv, HistoryInv
  <2> QED
    BY <1>1, <2>1 DEF vars, durable, locals, TypeOK, RecordedInv, HistoryInv
<1>2. ASSUME NEW p \in Procs,
             \/ Authorize(p) \/ LockAction(p) \/ Observe(p) \/ Provider(p) \/ DriftCheck(p)
             \/ Open(p) \/ ReadResults(p) \/ Opened(p)
             \/ \E a \in Actions : Snapshot(p, a) \/ SkipBusy(p, a) \/ TakeStranded(p, a)
      PROVE  TypeOK' /\ RecordedInv'
  <2>1. CASE Authorize(p) \/ LockAction(p) \/ Observe(p)
    <3>1. TypeOK'
      <4>1. CASE Authorize(p)
        BY <4>1 DEF Authorize, Goto, durable, TypeOK, Locations, Reports, Worlds
      <4>2. CASE LockAction(p)
        BY <4>2 DEF LockAction, Goto, durable, locals, TypeOK, Locations
      <4>3. CASE Observe(p)
        BY <4>3, RestTypes DEF Observe, Goto, durable, TypeOK, Locations
      <4> QED
        BY <2>1, <4>1, <4>2, <4>3
    <3>2. world.candidate # Nil
      BY ConstantsAssumption DEF TypeOK, Worlds
    <3>3. RecordedInv'
      <4>1. CASE Authorize(p)
        BY <3>2, <4>1 DEF Authorize, Goto, durable, TypeOK, RecordedInv, HistoryInv, Owning,
           Before, After
      <4>2. CASE LockAction(p)
        BY <4>2 DEF LockAction, Goto, durable, locals, TypeOK, RecordedInv, HistoryInv, Owning,
           Before, After
      <4>3. CASE Observe(p)
        BY <4>3 DEF Observe, Goto, durable, TypeOK, RecordedInv, HistoryInv, Owning, Before, After
      <4> QED
        BY <2>1, <4>1, <4>2, <4>3
    <3> QED
      BY <3>1, <3>3
  <2>2. CASE Provider(p) \/ DriftCheck(p)
    <3>1. /\ ran' \in [Procs -> Runs] /\ before' \in [Procs -> Worlds]
          /\ \/ Goto(p, "provider", "driftCheck")
             \/ Goto(p, "driftCheck", "bind")
          /\ UNCHANGED <<world, durable, alock, act, cand, prior, todo, report>>
      <4>1. NotRun \in Runs /\ Frozen \in Worlds
        BY RestTypes
      <4>2. \A s \in Statuses : [status |-> s, saw |-> world.candidate, session |-> TRUE,
                                  touched |-> ran[p].touched] \in Runs
        BY DEF Runs, TypeOK, Worlds
      <4>3. CASE Provider(p)
        BY <4>1, <4>2, <4>3 DEF Provider, TypeOK
      <4>4. CASE DriftCheck(p)
        BY <4>1, <4>4 DEF DriftCheck, TypeOK
      <4> QED
        BY <2>2, <4>3, <4>4 DEF Provider, DriftCheck
    <3>2. TypeOK'
      BY <3>1 DEF Goto, durable, TypeOK, Locations
    <3>3. RecordedInv'
      BY <3>1 DEF Goto, durable, TypeOK, RecordedInv, HistoryInv, Owning, Before, After
    <3> QED
      BY <3>2, <3>3
  <2>3. CASE Open(p) \/ ReadResults(p) \/ Opened(p)
    BY <1>2, <2>3 DEF Open, ReadResults, Opened, RecordedActions, Goto, durable, locals,
       TypeOK, Locations, Reports, RecordedInv, HistoryInv, Owning, Before, After
  <2>4. ASSUME NEW a \in Actions, Snapshot(p, a) PROVE TypeOK' /\ RecordedInv'
    BY <1>2, <2>4 DEF Snapshot, Terminal, Result, Goto, durable, TypeOK, Locations,
       RecordedInv, HistoryInv, Owning, Before, After
  <2>5. ASSUME NEW a \in Actions, SkipBusy(p, a) \/ TakeStranded(p, a)
        PROVE  TypeOK' /\ RecordedInv'
    <3>1. CASE SkipBusy(p, a)
      BY <3>1 DEF SkipBusy, durable, TypeOK, RecordedInv, HistoryInv
    <3>2. CASE TakeStranded(p, a)
      <4>1. TypeOK'
        BY <3>2 DEF TakeStranded, Goto, durable, TypeOK, Locations
      <4>2. recorded[a] # Nil
        BY <3>2 DEF TakeStranded, RecordedInv
      <4> QED
        BY <3>2, <4>1, <4>2 DEF TakeStranded, Goto, durable, TypeOK, RecordedInv, HistoryInv,
           Owning, Before, After
    <3> QED
      BY <2>5, <3>1, <3>2
  <2> QED
    BY <1>2, <2>1, <2>2, <2>3, <2>4, <2>5
<1>3. ASSUME NEW p \in Procs, RecordAction(p) PROVE TypeOK' /\ RecordedInv'
  <2>1. /\ recorded' \in [Actions -> 0..MaxVersion \cup {Nil}]
        /\ \A a \in Actions : recorded[a] # Nil => recorded'[a] # Nil
        /\ act[p] \in Actions /\ recorded'[act[p]] # Nil
    BY <1>3 DEF RecordAction, Goto, TypeOK, RecordedInv, Owning, Before
  <2>2. TypeOK'
    BY <1>3, <2>1 DEF RecordAction, Goto, locals, TypeOK, Locations
  <2> QED
    BY <1>3, <2>1, <2>2 DEF RecordAction, Goto, locals, TypeOK, Result, RecordedInv, HistoryInv,
       Owning, Before, After
<1>4. ASSUME NEW p \in Procs, Bind(p) PROVE TypeOK' /\ RecordedInv'
  <2>1. /\ OwnResult(p) \in Result /\ OwnResult(p).action = act[p]
        /\ act[p] \in Actions /\ recorded[act[p]] # Nil
    BY <1>4, OwnResultType DEF Bind, Goto, RecordedInv, After
  <2>2. TypeOK'
    BY <1>4, <2>1 DEF Bind, Goto, locals, TypeOK, Locations
  <2> QED
    BY <1>4, <2>1, <2>2 DEF Bind, Goto, locals, TypeOK, RecordedInv, HistoryInv,
       Owning, Before, After
<1>5. ASSUME NEW p \in Procs, Terminate(p) \/ TerminateTimeout(p) PROVE TypeOK' /\ RecordedInv'
  <2> DEFINE res == [action |-> act[p], by |-> p, recovered |-> TRUE,
                     status |-> "UNKNOWN", observed |-> Nil, saw |-> Nil, touched |-> FALSE]
  <2>1. /\ res \in Result /\ res.action = act[p] /\ act[p] \in Actions
        /\ recorded[act[p]] # Nil
    BY <1>5 DEF Terminate, TerminateTimeout, Result, Statuses, TypeOK, RecordedInv
  <2>2. results' = results \/ results' = results \cup {res}
    BY <1>5 DEF Terminate, TerminateTimeout
  <2>3. LeaveStranded(p)
    BY <1>5 DEF Terminate, TerminateTimeout
  <2> HIDE DEF res
  <2>4. TypeOK'
    BY <2>1, <2>2, <2>3 DEF LeaveStranded, TypeOK, Locations
  <2> QED
    BY <2>1, <2>2, <2>3, <2>4 DEF LeaveStranded, TypeOK, RecordedInv, HistoryInv, Owning, Before,
       After
<1>6. ASSUME NEW p \in Procs,
             \/ LockBusy(p) \/ ReceiptDuplicate(p) \/ Finish(p) \/ CommitRaises(p)
             \/ Crash(p) \/ AlreadyTerminated(p)
      PROVE  TypeOK' /\ RecordedInv'
  <2>1. CASE Finish(p)
    <3>1. Decide(p)
      BY <2>1 DEF Finish, Decide
    <3> QED
      BY <2>1, <3>1, EndKeepsRecords DEF Finish, Reports
  <2> QED
    BY <1>6, <2>1, EndKeepsRecords DEF LockBusy, ReceiptDuplicate, CommitRaises, Crash,
       AlreadyTerminated, Reports
<1> QED
  BY <1>1, <1>2, <1>3, <1>4, <1>5, <1>6 DEF Next, Run, Recovery

\* Results are of recorded actions, whatever faults happen.
THEOREM AlwaysRecorded == Spec => [](TypeOK /\ RecordedInv)
<1>1. Init => TypeOK /\ RecordedInv
  BY InitIInv DEF IInv, RecordedInv, OwnerInv, LockInv, TodoInv, Locking, Owning, Init, Before, After
<1> QED
  BY <1>1, NextRecorded, PTL DEF Spec

\* Every variable keeps its type, whatever faults happen (TypeOK).
THEOREM TypeCorrect == Spec => []TypeOK
<1>1. TypeOK /\ RecordedInv => TypeOK
  OBVIOUS
<1> QED
  BY <1>1, AlwaysRecorded, PTL

-----------------------------------------------------------------------------
(* Evaluator evidence *)

Verdict == {"PASS", "FAIL"}

\* In evaluator mode every action is of the frozen candidate, contents 0.  While
\* nobody edits it, the provider sees the candidate that was observed first; a
\* run that passed the drift check observed contents 0 first.
EvidenceInv ==
    /\ \A a \in Actions : recorded[a] \in {0, Nil}
    /\ \A p \in Procs :
         /\ pc[p] \in {"snapshot"} \cup Owning => cand[p] = 0
         /\ pc[p] \in Executing /\ ~ran[p].touched =>
              /\ world.candidate = before[p].candidate
              /\ ran[p].status \in Verdict => ran[p].saw = before[p].candidate
         /\ pc[p] \in {"bind", "finish"} /\ ran[p].status \in Verdict =>
              /\ before[p].candidate = 0
              /\ ran[p].saw = 0 \/ ran[p].touched
    /\ \A r \in results : r.status \in Verdict => r.observed = 0 /\ (r.saw = 0 \/ r.touched)

\* Every step keeps it: the drift check is what a verdict has to pass.
LEMMA NextEvidence ==
  ASSUME Evaluator = TRUE
  PROVE  TypeOK /\ RecordedInv /\ EvidenceInv /\ [Next]_vars => EvidenceInv'
<1> SUFFICES ASSUME TypeOK, RecordedInv, EvidenceInv, [Next]_vars PROVE EvidenceInv'
  OBVIOUS
<1>1. CASE UNCHANGED vars
  BY <1>1 DEF vars, durable, locals, EvidenceInv
<1>2. CASE Edit
  <2>1. PICK f \in {"candidate", "authority"}, v \in 0..MaxVersion :
          /\ world' = [world EXCEPT ![f] = v]
          /\ ran' = [p \in Procs |->
                       IF f = "candidate" /\ pc[p] \in Executing
                       THEN [ran[p] EXCEPT !.touched = TRUE] ELSE ran[p]]
    BY <1>2 DEF Edit
  <2>2. CASE f = "candidate"
    <3>1. ASSUME NEW p \in Procs
          PROVE  /\ pc[p] \in Executing => ran'[p].touched
                 /\ pc[p] \notin Executing => ran'[p] = ran[p]
      BY <2>1, <2>2 DEF TypeOK, Runs
    <3> QED
      BY <1>2, <3>1 DEF Edit, durable, EvidenceInv, Executing
  <2>3. CASE f = "authority"
    <3>1. ran' = ran /\ world'.candidate = world.candidate
      BY <2>1, <2>3 DEF TypeOK, Worlds
    <3> QED
      BY <1>2, <3>1 DEF Edit, durable, EvidenceInv
  <2> QED
    BY <2>2, <2>3
<1>3. ASSUME NEW p \in Procs, Authorize(p) PROVE EvidenceInv'
  BY <1>3 DEF Authorize, Goto, durable, Frozen, Executing, EvidenceInv, TypeOK, Owning, Before, After
<1>4. ASSUME NEW p \in Procs, NEW a \in Actions,
             Snapshot(p, a) \/ SkipBusy(p, a) \/ TakeStranded(p, a) PROVE EvidenceInv'
  BY <1>4 DEF Snapshot, SkipBusy, TakeStranded, Goto, durable, Executing, EvidenceInv, TypeOK,
     Owning, Before, After
<1>5. ASSUME NEW p \in Procs,
             LockAction(p) \/ Observe(p) \/ Open(p) \/ ReadResults(p) \/ Opened(p)
      PROVE  EvidenceInv'
  <2>1. CASE Observe(p)
    BY <2>1 DEF Observe, Goto, durable, NotRun, Verdict, Executing, EvidenceInv, TypeOK,
       Owning, Before, After
  <2> QED
    BY <1>5, <2>1 DEF LockAction, Open, ReadResults, Opened, Goto, durable, locals,
       Executing, EvidenceInv, TypeOK, Owning, Before, After
<1>6. ASSUME NEW p \in Procs, RecordAction(p) PROVE EvidenceInv'
  BY <1>6 DEF RecordAction, Goto, locals, Executing, EvidenceInv, TypeOK, Owning, Before, After
<1>7. ASSUME NEW p \in Procs, Provider(p) PROVE EvidenceInv'
  <2>1. /\ pc[p] = "provider" /\ pc' = [pc EXCEPT ![p] = "driftCheck"]
        /\ UNCHANGED <<world, durable, cand, before>>
        /\ \A q \in Procs \ {p} : ran'[q] = ran[q]
        /\ ran'[p].touched = ran[p].touched
        /\ \/ ran'[p] = ran[p]
           \/ ran'[p].saw = world.candidate
    BY <1>7 DEF Provider, Goto, TypeOK, Runs
  <2> QED
    BY <2>1 DEF durable, EvidenceInv, Executing, TypeOK, Owning, Before, After
<1>8. ASSUME NEW p \in Procs, DriftCheck(p) PROVE EvidenceInv'
  <2>1. /\ pc[p] = "driftCheck" /\ pc' = [pc EXCEPT ![p] = "bind"]
        /\ UNCHANGED <<world, durable, cand>>
        /\ \A q \in Procs \ {p} : ran'[q] = ran[q] /\ before'[q] = before[q]
    BY <1>8 DEF DriftCheck, Goto, TypeOK
  <2>2. CASE Drifted(p)
    <3>1. ran'[p].status \notin Verdict
      BY <1>8, <2>2 DEF DriftCheck, NotRun, Verdict, TypeOK
    <3> QED
      BY <2>1, <3>1 DEF durable, EvidenceInv, Executing, TypeOK, Owning, Before, After
  <2>3. CASE ~Drifted(p)
    <3>1. /\ ran' = ran /\ before' = before
          /\ world.candidate = 0 /\ before[p].candidate = 0
      BY <1>8, <2>3 DEF DriftCheck, Drifted, Frozen
    <3> QED
      BY <2>1, <3>1 DEF durable, EvidenceInv, Executing, TypeOK, Owning, Before, After
  <2> QED
    BY <2>2, <2>3
<1>9. ASSUME NEW p \in Procs, Bind(p) PROVE EvidenceInv'
  BY <1>9 DEF Bind, Goto, locals, Executing, EvidenceInv, TypeOK, Owning, Before, After
<1>10. ASSUME NEW p \in Procs, NEW to \in {"idle", "down"}, NEW r, End(p, to, r),
              Decide(p) \/ UNCHANGED durable, UNCHANGED world
       PROVE  EvidenceInv'
  <2>1. \A q \in Procs : \/ pc'[q] = pc[q] /\ ran'[q] = ran[q] /\ before'[q] = before[q]
                             /\ cand'[q] = cand[q]
                         \/ pc'[q] \notin {"snapshot"} \cup Owning \cup Executing
    BY <1>10 DEF End, TypeOK, Owning, Before, After, Executing
  <2>2. \A a \in Actions : recorded'[a] \in {0, Nil}
    BY <1>10 DEF Decide, durable, EvidenceInv, TypeOK, Owning, Before
  <2>3. ASSUME pc[p] = "finish"
        PROVE  OwnResult(p).status \in Verdict =>
                 /\ OwnResult(p).observed = 0
                 /\ OwnResult(p).saw = 0 \/ OwnResult(p).touched
    BY <2>3 DEF OwnResult, EvidenceInv, Verdict
  <2>4. \A r2 \in results' : r2.status \in Verdict => r2.observed = 0 /\ (r2.saw = 0 \/ r2.touched)
    BY <1>10, <2>3 DEF Decide, durable, EvidenceInv
  <2> QED
    BY <1>10, <2>1, <2>2, <2>4 DEF EvidenceInv, Owning, Before, After, Executing
<1>11. ASSUME NEW p \in Procs, Terminate(p) \/ TerminateTimeout(p) PROVE EvidenceInv'
  BY <1>11 DEF Terminate, TerminateTimeout, LeaveStranded, Verdict, Executing, EvidenceInv, TypeOK,
     Owning, Before, After
<1>12. ASSUME NEW p \in Procs,
              \/ LockBusy(p) \/ ReceiptDuplicate(p) \/ Finish(p) \/ CommitRaises(p)
              \/ Crash(p) \/ AlreadyTerminated(p)
       PROVE  EvidenceInv'
  <2>1. CASE Finish(p)
    <3>1. Decide(p)
      BY <2>1 DEF Finish, Decide
    <3> QED
      BY <2>1, <3>1, <1>10 DEF Finish
  <2> QED
    BY <1>12, <1>10, <2>1 DEF LockBusy, ReceiptDuplicate, CommitRaises, Crash,
       AlreadyTerminated, durable
<1> QED
  BY <1>1, <1>2, <1>3, <1>4, <1>5, <1>6, <1>7, <1>8, <1>9, <1>11, <1>12
     DEF Next, Run, Recovery

\* A PASS or FAIL of an evaluator run is of a candidate that was on disk before
\* and after the run, and was computed from it unless the candidate was edited and
\* put back in between, even when two runs share an action identity
\* (EvidenceBound).
THEOREM EvaluatorEvidence ==
  ASSUME Evaluator = TRUE
  PROVE  Spec => []EvidenceBound
<1>1. Init => EvidenceInv
  BY DEF Init, EvidenceInv, Executing, Owning, Before, After
<1>2. TypeOK /\ RecordedInv /\ EvidenceInv => EvidenceBound
  BY DEF RecordedInv, HistoryInv, EvidenceInv, EvidenceBound, Verdict, TypeOK, Result
<1> QED
  BY <1>1, <1>2, NextEvidence, AlwaysRecorded, PTL DEF Spec
=============================================================================
