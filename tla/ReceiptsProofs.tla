--------------------------- MODULE ReceiptsProofs ---------------------------
(***************************************************************************)
(* For any number of processes, workflows, candidates, executions and      *)
(* records: a result in the ledger has its receipt, and assurance rests on *)
(* an execution that deserves it, wherever processes die between commits;  *)
(* and host and packaged programs agree on what that evidence amounts to   *)
(* for a policy, and on how the results of a candidate reconcile.          *)
(***************************************************************************)
EXTENDS Evidence, FiniteSetTheorems, WellFoundedInduction, TLAPS

-----------------------------------------------------------------------------
(* Types *)

Subjects == Candidates \cup {Project}

Session ==
    [kind : Kinds, termination : Ended \cup Incomplete, result : Codes, error : BOOLEAN,
     measured : BOOLEAN, named : BOOLEAN, filesystem : Capability, network : Capability,
     image : BOOLEAN, same : {"yes", "no", "unknown"}]

Running == [pc : {"run"}, id : Nat \ {0}, workflow : Workflows, candidate : Subjects]

Persisting ==
    [pc : {"action", "binding", "result"}, id : Nat \ {0}, candidate : Subjects,
     workflow : Workflows, session : Session, environment : Environments,
     status : Statuses \cup {"none"}]

Record ==
    [type : {"candidate"}, id : Candidates, authority : Authorities]
      \cup [type : {"action"}, id : Nat, candidate : Subjects, workflow : Workflows]
      \cup [type : {"binding"}, action : Nat, result : Nat, candidate : Subjects,
            workflow : Workflows, kind : Kinds, termination : Ended \cup Incomplete,
            completeness : {"complete", "incomplete", "malformed"},
            properties : [Vocabulary -> {"established", "not-established", "unknown"}],
            truth : Session]
      \cup [type : {"result"}, id : Nat, candidate : Subjects, workflow : Workflows,
            status : Statuses, environment : Environments]
      \cup [type : {"verifier"}, verifier : Verifiers, candidate : Candidates,
            input : Candidates, status : Statuses, environment : Environments,
            policy : Policies]
      \cup [type : {"assurance"}, binding : Nat, requested : SUBSET Vocabulary,
            unmet : SUBSET Vocabulary, status : Statuses]

TypeInv ==
    /\ ledger \in Seq(Record)
    /\ world \in World
    /\ task \in [Procs -> {Idle} \cup Running \cup Persisting]
    /\ started \in Nat
    /\ bound \in Bounds

-----------------------------------------------------------------------------
(* The inductive invariant *)

\* An execution has a number of its own, which bindings have from it.
IdInv ==
    /\ \A p \in Procs : task[p] # Idle => task[p].id \in 1..started
    /\ \A p, q \in Procs : task[p] # Idle /\ task[q] # Idle /\ task[p].id = task[q].id => p = q
    /\ \A n \in Indices("binding") : ledger[n].action \in 1..started

\* The action of an execution is in the ledger.
HasAction(t, k) ==
    \E a \in Indices("action") : a < k /\ ledger[a].id = t.id /\ ledger[a].workflow = t.workflow

\* The binding of an execution is in the ledger, the only one, after the action.
HasBinding(t) ==
    \E b \in Indices("binding") :
        /\ BindingsOf(t.id) = {b}
        /\ ledger[b].result = t.id
        /\ ledger[b].candidate = t.candidate
        /\ ledger[b].kind # "fabric-backed" => ledger[b].termination \in Ended
        /\ HasAction(t, b)

\* How far an execution has come.
PhaseOf(t) ==
    /\ t.pc \in {"run", "action", "binding"} => BindingsOf(t.id) = {}
    /\ t.pc = "binding" => HasAction(t, Len(ledger) + 1)
    /\ t.pc = "result" => HasBinding(t) /\ t.status # "none"
    /\ t.pc \in {"action", "binding", "result"} /\ t.status # "none" =>
         (t.session.kind # "fabric-backed" => t.session.termination \in Ended)

PhaseInv == \A p \in Procs : PhaseOf(task[p])

\* A binding says what its observation establishes.
Faithful(b) ==
    /\ b.truth \in Session
    /\ b.kind = b.truth.kind
    /\ b.completeness = Envelope(b.truth)
    /\ b.properties = EstablishedProperties(b.truth)

BindingInv == \A n \in Indices("binding") : Faithful(ledger[n])

\* An assessment is one of its binding.
Assessed(m) ==
    /\ m.binding \in Indices("binding")
    /\ m.requested # {}
    /\ m.requested \subseteq Vocabulary
    /\ m.status = AssuranceStatus(ledger[m.binding], m.requested)

AssuranceInv == \A n \in Indices("assurance") : Assessed(ledger[n])

\* A result has its binding.
Receipted(n) ==
    \E b \in Indices("binding"), a \in Indices("action") :
        /\ a < b /\ b < n
        /\ BindingsOf(ledger[n].id) = {b}
        /\ ledger[b].result = ledger[n].id /\ ledger[a].id = ledger[n].id
        /\ ledger[n].candidate = ledger[b].candidate
        /\ ledger[n].workflow = ledger[a].workflow
        /\ ledger[b].kind # "fabric-backed" => ledger[b].termination \in Ended

ResultInv == \A n \in Indices("result") : Receipted(n)

IInv == TypeInv /\ IdInv /\ PhaseInv /\ BindingInv /\ AssuranceInv /\ ResultInv

-----------------------------------------------------------------------------
(* What a commit does to the ledger *)

\* A commit appends one record.
LEMMA StoreGrows ==
    ASSUME TypeInv, NEW r \in Record, Store(r)
    PROVE  /\ ledger' \in Seq(Record)
           /\ Len(ledger) \in Nat /\ Len(ledger') = Len(ledger) + 1
           /\ \A n \in 1..Len(ledger) : ledger'[n] = ledger[n]
           /\ ledger'[Len(ledger) + 1] = r
  BY DEF TypeInv, Store

\* The records of a kind are those from before, and perhaps the new one.
LEMMA StoreIndices ==
    ASSUME TypeInv, NEW r \in Record, Store(r), NEW type
    PROVE  /\ Indices(type) \subseteq 1..Len(ledger)
           /\ Indices(type)' =
                Indices(type) \cup (IF r.type = type THEN {Len(ledger) + 1} ELSE {})
           /\ \A n \in Indices(type) : ledger'[n] = ledger[n]
  BY StoreGrows DEF Indices

\* An action has the bindings from before, and perhaps the new one.
LEMMA StoreBindings ==
    ASSUME TypeInv, NEW r \in Record, Store(r), NEW action
    PROVE  BindingsOf(action)' =
             BindingsOf(action) \cup
               (IF r.type = "binding" /\ r.action = action THEN {Len(ledger) + 1} ELSE {})
<1>1. /\ Indices("binding") \subseteq 1..Len(ledger)
      /\ Indices("binding")' =
           Indices("binding") \cup (IF r.type = "binding" THEN {Len(ledger) + 1} ELSE {})
      /\ \A n \in Indices("binding") : ledger'[n] = ledger[n]
  BY StoreIndices
<1>2. ledger'[Len(ledger) + 1] = r
  BY StoreGrows
<1> QED
  BY <1>1, <1>2 DEF BindingsOf

\* A new record leaves alone what earlier records say of one another, unless it
\* is a second binding.
LEMMA LedgerStable ==
    ASSUME IInv, NEW r \in Record, Store(r),
           r.type = "binding" => BindingsOf(r.action) = {}
    PROVE  /\ \A n \in Indices("binding") : n \in Indices("binding")' /\ ledger'[n] = ledger[n]
           /\ \A n \in Indices("action") : n \in Indices("action")' /\ ledger'[n] = ledger[n]
           /\ \A x, b : BindingsOf(x) = {b} => BindingsOf(x)' = {b}
           /\ \A n \in Indices("result") : Receipted(n)'
<1>0. TypeInv
  BY DEF IInv
<1>1. \A n \in Indices("binding") : n \in Indices("binding")' /\ ledger'[n] = ledger[n]
  BY <1>0, StoreIndices
<1>2. \A n \in Indices("action") : n \in Indices("action")' /\ ledger'[n] = ledger[n]
  BY <1>0, StoreIndices
<1>3. ASSUME NEW x, NEW b, BindingsOf(x) = {b} PROVE BindingsOf(x)' = {b}
  <2>1. ~(r.type = "binding" /\ r.action = x)
    BY <1>3
  <2> QED
    BY <1>0, <1>3, <2>1, StoreBindings
<1>4. ASSUME NEW n \in Indices("result") PROVE Receipted(n)'
  <2>1. PICK b \in Indices("binding"), a \in Indices("action") :
                  /\ a < b /\ b < n
                  /\ BindingsOf(ledger[n].id) = {b}
                  /\ ledger[b].result = ledger[n].id /\ ledger[a].id = ledger[n].id
                  /\ ledger[n].candidate = ledger[b].candidate
                  /\ ledger[n].workflow = ledger[a].workflow
                  /\ ledger[b].kind # "fabric-backed" => ledger[b].termination \in Ended
    BY DEF IInv, ResultInv, Receipted
  <2>2. ledger'[n] = ledger[n]
    BY <1>0, StoreIndices
  <2>3. PICK x : x = ledger[n].id
    OBVIOUS
  <2>4. BindingsOf(x)' = {b}
    BY <2>1, <2>3, <1>3
  <2>5. b \in Indices("binding")' /\ a \in Indices("action")' /\ ledger'[b] = ledger[b]
        /\ ledger'[a] = ledger[a]
    BY <2>1, <1>1, <1>2
  <2>6. BindingsOf(ledger[n].id)' = {b}
    BY <2>2, <2>3, <2>4 DEF BindingsOf
  <2> QED
    BY <2>1, <2>2, <2>5, <2>6 DEF Receipted
<1> QED
  BY <1>1, <1>2, <1>3, <1>4

\* What an execution has in the ledger stays there.
LEMMA PhaseStable ==
    ASSUME IInv, NEW r \in Record, Store(r),
           r.type = "binding" => BindingsOf(r.action) = {},
           NEW t
    PROVE  /\ HasAction(t, Len(ledger) + 1) => HasAction(t, Len(ledger) + 1)'
           /\ HasBinding(t) => HasBinding(t)'
<1>1. /\ Indices("action") \subseteq 1..Len(ledger) /\ Len(ledger) \in Nat
      /\ Len(ledger') = Len(ledger) + 1
  BY StoreGrows, StoreIndices DEF IInv
<1>2. ASSUME HasAction(t, Len(ledger) + 1) PROVE HasAction(t, Len(ledger) + 1)'
  BY <1>1, <1>2, LedgerStable DEF HasAction
<1>3. ASSUME HasBinding(t) PROVE HasBinding(t)'
  <2>1. PICK b \in Indices("binding") :
          /\ BindingsOf(t.id) = {b}
          /\ ledger[b].result = t.id
          /\ ledger[b].candidate = t.candidate
          /\ ledger[b].kind # "fabric-backed" => ledger[b].termination \in Ended
          /\ HasAction(t, b)
    BY <1>3 DEF HasBinding
  <2>2. BindingsOf(t.id)' = {b} /\ b \in Indices("binding")' /\ ledger'[b] = ledger[b]
    BY <2>1, LedgerStable
  <2>3. HasAction(t, b)'
    BY <2>1, LedgerStable DEF HasAction
  <2> QED
    BY <2>1, <2>2, <2>3 DEF HasBinding
<1> QED
  BY <1>2, <1>3

\* A record that keeps the rules keeps the ledger.
LEMMA LedgerKept ==
    ASSUME IInv, NEW r \in Record, Store(r), started' = started,
           r.type = "binding" =>
             BindingsOf(r.action) = {} /\ r.action \in 1..started /\ Faithful(r),
           r.type = "assurance" => Assessed(r),
           NEW k, k = Len(ledger) + 1, r.type = "result" => Receipted(k)'
    PROVE  /\ \A n \in Indices("binding")' : ledger'[n].action \in 1..started'
           /\ BindingInv' /\ AssuranceInv' /\ ResultInv'
<1>0. TypeInv /\ ledger'[Len(ledger) + 1] = r
  BY StoreGrows DEF IInv
<1>1. \A n \in Indices("binding")' : ledger'[n].action \in 1..started' /\ Faithful(ledger'[n])
  BY <1>0, StoreIndices DEF IInv, IdInv, BindingInv
<1>2. BindingInv'
  BY <1>1 DEF BindingInv, Faithful
<1>3. ASSUME NEW n \in Indices("assurance")' PROVE Assessed(ledger[n])'
  <2>1. PICK m : m = ledger'[n]
    OBVIOUS
  <2>2. Assessed(m)
    BY <1>0, <2>1, StoreIndices DEF IInv, AssuranceInv
  <2>3. Assessed(m)'
    BY <2>2, LedgerStable DEF Assessed, AssuranceStatus, Laundering, Unmet
  <2> QED
    BY <2>1, <2>3 DEF Assessed
<1>4. ASSUME NEW n \in Indices("result")' PROVE Receipted(n)'
  <2>1. CASE n \in Indices("result")
    BY <2>1, LedgerStable
  <2>2. CASE n \notin Indices("result")
    <3>1. r.type = "result" /\ n = k
      BY <1>0, <2>2, StoreIndices
    <3> QED
      BY <3>1
  <2> QED
    BY <2>1, <2>2
<1> QED
  BY <1>1, <1>2, <1>3, <1>4 DEF AssuranceInv, ResultInv

\* An execution keeps its place while another one commits.
LEMMA PhaseKept ==
    ASSUME IInv, NEW r \in Record, Store(r), NEW t, PhaseOf(t),
           r.type = "binding" => BindingsOf(r.action) = {} /\ r.action # t.id
    PROVE  PhaseOf(t)'
<1>1. t.pc \in {"run", "action", "binding"} => BindingsOf(t.id)' = {}
  BY StoreBindings DEF PhaseOf, IInv
<1>2. t.pc = "binding" => HasAction(t, Len(ledger) + 1)'
  BY PhaseStable DEF PhaseOf
<1>3. t.pc = "result" => HasBinding(t)'
  BY PhaseStable DEF PhaseOf
<1> QED
  BY <1>1, <1>2, <1>3 DEF PhaseOf

\* A step that commits a record of no execution.
LEMMA AsideKept ==
    ASSUME IInv, NEW r \in Record, Store(r), UNCHANGED <<task, started, bound>>, world' \in World,
           r.type \notin {"binding", "result"},
           r.type = "assurance" => Assessed(r)
    PROVE  IInv'
<1>1. TypeInv'
  BY StoreGrows DEF IInv, TypeInv
<1>2. /\ \A n \in Indices("binding")' : ledger'[n].action \in 1..started'
      /\ BindingInv' /\ AssuranceInv' /\ ResultInv'
  BY LedgerKept
<1>3. IdInv'
  BY <1>2 DEF IInv, IdInv
<1>4. ASSUME NEW p \in Procs PROVE PhaseOf(task[p])'
  <2>1. PICK t : t = task[p]
    OBVIOUS
  <2>2. PhaseOf(t)
    BY <2>1 DEF IInv, PhaseInv
  <2>3. PhaseOf(t)'
    BY <2>2, PhaseKept
  <2> QED
    BY <2>1, <2>3 DEF PhaseOf, HasAction, HasBinding, BindingsOf
<1> QED
  BY <1>1, <1>2, <1>3, <1>4 DEF IInv, PhaseInv

\* A step that leaves the ledger alone and moves one execution.
LEMMA TaskKept ==
    ASSUME IInv, UNCHANGED <<ledger, bound>>, world' \in World, started' \in Nat,
           started' >= started,
           NEW p \in Procs, NEW t \in {Idle} \cup Running \cup Persisting,
           task' = [task EXCEPT ![p] = t],
           t # Idle => /\ t.id \in 1..started'
                       /\ \A q \in Procs \ {p} : task[q] # Idle => task[q].id # t.id,
           PhaseOf(t)
    PROVE  IInv'
<1>1. TypeInv'
  BY DEF IInv, TypeInv
<1>2. \A q \in Procs : task'[q] = IF q = p THEN t ELSE task[q]
  BY DEF IInv, TypeInv
<1>3. \A type : Indices(type)' = Indices(type)
  BY DEF Indices
<1>4. started \in Nat
  BY DEF IInv, TypeInv
<1>5. IdInv'
  BY <1>2, <1>3, <1>4 DEF IInv, IdInv
<1>6. BindingInv' /\ AssuranceInv' /\ ResultInv'
  BY <1>3 DEF IInv, BindingInv, AssuranceInv, ResultInv, Assessed, Receipted, BindingsOf
<1>7. ASSUME NEW q \in Procs PROVE PhaseOf(task[q])'
  <2>1. PICK u : u = task'[q]
    OBVIOUS
  <2>2. PhaseOf(u)
    BY <1>2, <2>1 DEF IInv, PhaseInv
  <2>3. PhaseOf(u)'
    BY <2>2, <1>3 DEF PhaseOf, HasAction, HasBinding, BindingsOf
  <2> QED
    BY <2>1, <2>3 DEF PhaseOf, HasAction, HasBinding, BindingsOf
<1> QED
  BY <1>1, <1>5, <1>6, <1>7 DEF IInv, PhaseInv

\* A step by which an execution commits one of its records.
LEMMA CommitKept ==
    ASSUME IInv, NEW r \in Record, Store(r), UNCHANGED <<world, started, bound>>,
           NEW p \in Procs, task[p] # Idle,
           NEW t \in {Idle} \cup Persisting, task' = [task EXCEPT ![p] = t],
           t # Idle => t.id = task[p].id,
           r.type # "assurance",
           r.type = "binding" =>
             r.action = task[p].id /\ BindingsOf(r.action) = {} /\ Faithful(r),
           NEW k, k = Len(ledger) + 1, r.type = "result" => Receipted(k)',
           PhaseOf(t)'
    PROVE  IInv'
<1>1. TypeInv'
  BY StoreGrows DEF IInv, TypeInv
<1>2. \A q \in Procs : task'[q] = IF q = p THEN t ELSE task[q]
  BY DEF IInv, TypeInv
<1>3. task[p].id \in 1..started
  BY DEF IInv, IdInv
<1>4. /\ \A n \in Indices("binding")' : ledger'[n].action \in 1..started'
      /\ BindingInv' /\ AssuranceInv' /\ ResultInv'
  BY <1>3, LedgerKept
<1>5. IdInv'
  BY <1>2, <1>3, <1>4 DEF IInv, IdInv
<1>6. ASSUME NEW q \in Procs PROVE PhaseOf(task[q])'
  <2>1. PICK u : u = task'[q]
    OBVIOUS
  <2>2. CASE q = p
    <3>1. u = t
      BY <1>2, <2>1, <2>2
    <3> QED
      BY <2>1, <3>1 DEF PhaseOf, HasAction, HasBinding, BindingsOf
  <2>3. CASE q # p /\ task[q] # Idle
    <3>1. u = task[q] /\ u.id # task[p].id /\ PhaseOf(u)
      BY <1>2, <2>1, <2>3 DEF IInv, IdInv, PhaseInv
    <3>2. PhaseOf(u)'
      BY <3>1, PhaseKept
    <3> QED
      BY <2>1, <3>2 DEF PhaseOf, HasAction, HasBinding, BindingsOf
  <2>4. CASE q # p /\ task[q] = Idle
    BY <1>2, <2>4 DEF PhaseOf, Idle
  <2> QED
    BY <2>2, <2>3, <2>4
<1> QED
  BY <1>1, <1>4, <1>5, <1>6 DEF IInv, PhaseInv

-----------------------------------------------------------------------------
(* What the runners return *)

\* The sessions of a runner that measures by itself: there is a result only of
\* an execution that ended by itself.
LEMMA OwnSessions ==
    ASSUME NEW o \in Session, o.result = "none", NEW s \in Sessions(o)
    PROVE  s \in Session /\ (s.error \/ s.termination \in Ended)
<1>1. CASE \E t \in Endings \cap Ended :
             s = [o EXCEPT !.termination = t,
                           !.result = IF t = "completed" THEN "zero" ELSE "nonzero"]
  <2>1. PICK t \in Ended, c \in Codes : s = [o EXCEPT !.termination = t, !.result = c]
    BY <1>1 DEF Codes
  <2> QED
    BY <2>1 DEF Session
<1>2. CASE \E t \in Endings \ Ended :
             s = [o EXCEPT !.termination = t, !.measured = FALSE, !.error = TRUE]
  <2>1. PICK t \in Incomplete : s = [o EXCEPT !.termination = t, !.measured = FALSE, !.error = TRUE]
    BY <1>2, ReceiptsAssumption DEF Incomplete
  <2> QED
    BY <2>1 DEF Session
<1> QED
  BY <1>1, <1>2 DEF Sessions

\* Fabric's records are translated into sessions, whatever their reason is.
LEMMA FabricSessions ==
    ASSUME NEW r \in FabricRecord
    PROVE  FabricSession(r) \in Session /\ FabricSession(r).kind = "fabric-backed"
<1>1. FabricTermination(r.reason) \in Ended \cup Incomplete
  BY DEF FabricTermination, Ended, Incomplete
<1> QED
  BY <1>1 DEF FabricSession, FabricRecord, Session, Kinds, Codes

\* Every runner returns a session; one that has a result has ended by itself, but
\* for Fabric's.
LEMMA RunnerSessions ==
    ASSUME NEW k \in Kinds, NEW s \in SessionsOf(k)
    PROVE  /\ s \in Session
           /\ s.error \/ s.kind = "fabric-backed" \/ s.termination \in Ended
<1>1. CASE k = "local-process"
  <2>1. PICK o \in Session : o.result = "none" /\ s \in Sessions(o)
    BY <1>1 DEF SessionsOf, LocalSessions, Session, Kinds, Ended, Incomplete, Codes, Capability
  <2> QED
    BY <2>1, OwnSessions
<1>2. CASE k = "podman-rootless"
  <2>1. PICK o \in Session : o.result = "none" /\ s \in Sessions(o)
    BY <1>2 DEF SessionsOf, PodmanSessions, Session, Kinds, Ended, Incomplete, Codes, Capability
  <2> QED
    BY <2>1, OwnSessions
<1>3. CASE k = "fabric-backed"
  <2>1. PICK r \in FabricRecords : s = FabricSession(r)
    BY <1>3 DEF SessionsOf
  <2> QED
    BY <2>1, FabricSessions, ReceiptsAssumption
<1> QED
  BY <1>1, <1>2, <1>3 DEF Kinds

\* A status is only declared of a session without an error.
LEMMA Verdicts ==
    ASSUME NEW w, NEW s \in Session, NEW reply \in Replies
    PROVE  /\ Verdict(w, s, reply) \in Statuses \cup {"none"}
           /\ Verdict(w, s, reply) # "none" => ~s.error
  BY ReceiptsAssumption DEF Verdict, Statuses, Session

-----------------------------------------------------------------------------
(* Every step keeps the invariant *)

\* A step that touches neither ledger nor executions keeps the invariant.
LEMMA Untouched ==
    ASSUME IInv, UNCHANGED <<ledger, task, started, bound>>, world' \in World
    PROVE  IInv'
<1>1. TypeInv'
  BY DEF IInv, TypeInv
<1>2. IdInv' /\ PhaseInv'
  BY DEF IInv, IdInv, PhaseInv, PhaseOf, HasAction, HasBinding, BindingsOf, Indices
<1>3. BindingInv' /\ AssuranceInv' /\ ResultInv'
  BY DEF IInv, BindingInv, AssuranceInv, ResultInv, Assessed, Receipted, BindingsOf, Indices
<1> QED
  BY <1>1, <1>2, <1>3 DEF IInv

\* Edits are nothing that the ledger or an execution sees.
LEMMA EditKeeps ==
    ASSUME IInv, Edit
    PROVE  IInv'
  BY Untouched DEF Edit

\* A candidate belongs to no execution.
LEMMA RegisterKeeps ==
    ASSUME IInv, Register
    PROVE  IInv'
<1>1. world \in World
  BY DEF IInv, TypeInv
<1>2. PICK r : r = [type |-> "candidate", id |-> world.content, authority |-> world.authority]
  OBVIOUS
<1>3. r \in Record /\ r.type = "candidate" /\ Store(r)
  BY <1>1, <1>2 DEF Record, World, Register, Store
<1> QED
  BY <1>1, <1>3, AsideKept DEF Register

\* Neither does the result of a verifier.
LEMMA VerifyKeeps ==
    ASSUME IInv, NEW v \in Verifiers, NEW s \in Replies \cap Statuses, NEW c \in Candidates,
           Verify(v, s, c)
    PROVE  IInv'
<1>1. world \in World
  BY DEF IInv, TypeInv
<1>2. PICK r : r = [type |-> "verifier", verifier |-> v, candidate |-> Current, input |-> c,
                    status |-> s, environment |-> world.environment, policy |-> world.policy]
  OBVIOUS
<1>3. r \in Record /\ r.type = "verifier" /\ Store(r)
  BY <1>1, <1>2 DEF Record, World, Verify, Store
<1> QED
  BY <1>1, <1>3, AsideKept DEF Verify

\* An assessment is computed from the binding that it names.
LEMMA AssessKeeps ==
    ASSUME IInv, NEW n \in Indices("binding"), NEW requested \in Requests,
           Assess(n, requested)
    PROVE  IInv'
<1>1. world \in World /\ n \in Nat
  BY DEF IInv, TypeInv, Indices
<1>2. PICK r : r = [type |-> "assurance", binding |-> n, requested |-> requested,
                    unmet |-> Unmet(ledger[n], requested),
                    status |-> AssuranceStatus(ledger[n], requested)]
  OBVIOUS
<1>3. requested # {} /\ requested \subseteq Vocabulary /\ Store(r)
  BY <1>2 DEF Assess, Store
<1>4. Unmet(ledger[n], requested) \subseteq Vocabulary
  BY <1>3 DEF Unmet
<1>5. AssuranceStatus(ledger[n], requested) \in Statuses
  BY DEF AssuranceStatus, Statuses
<1>6. r \in Record /\ r.type = "assurance"
  BY <1>1, <1>2, <1>3, <1>4, <1>5 DEF Record
<1>7. Assessed(r)
  BY <1>2, <1>3 DEF Assessed
<1> QED
  BY <1>1, <1>3, <1>6, <1>7, AsideKept DEF Assess

\* A new execution has a number that no binding has.
LEMMA BeginKeeps ==
    ASSUME IInv, NEW p \in Procs, NEW w \in Workflows, Begin(p, w)
    PROVE  IInv'
<1>1. /\ world \in World /\ started \in Nat /\ world' = world /\ started' = started + 1
      /\ task \in [Procs -> {Idle} \cup Running \cup Persisting]
  BY DEF IInv, TypeInv, Begin
<1>2. PICK t : t = [pc |-> "run", id |-> started + 1, workflow |-> w,
                    candidate |-> IF w \in ProjectScoped THEN Project ELSE Current]
  OBVIOUS
<1>3. task' = [task EXCEPT ![p] = t]
  BY <1>2 DEF Begin
<1>4. t \in Running
  <2>1. w \notin ProjectScoped => Current \in Candidates
    BY <1>1 DEF Begin, World
  <2> QED
    BY <1>1, <1>2, <2>1 DEF Running, Subjects
<1>5. /\ t.id \in 1..started'
      /\ \A q \in Procs \ {p} : task[q] # Idle => task[q].id # t.id
  BY <1>1, <1>2 DEF IInv, IdInv
<1>6. PhaseOf(t)
  <2>1. BindingsOf(t.id) = {}
    BY <1>1, <1>2 DEF IInv, IdInv, BindingsOf
  <2> QED
    BY <1>2, <2>1 DEF PhaseOf
<1>7. /\ UNCHANGED <<ledger, bound>> /\ world' \in World
      /\ started' \in Nat /\ started' >= started
  BY <1>1 DEF Begin
<1>8. t \in {Idle} \cup Running \cup Persisting
  BY <1>4
<1> QED
  BY <1>3, <1>5, <1>6, <1>7, <1>8, TaskKept

\* What the runner returned agrees with the status built from it.
LEMMA RunKeeps ==
    ASSUME IInv, NEW p \in Procs, Run(p)
    PROVE  IInv'
<1>1. /\ world \in World /\ started \in Nat /\ bound \in Bounds
      /\ task[p] \in {Idle} \cup Running \cup Persisting
  BY DEF IInv, TypeInv
<1>2. task[p] \in Running
  BY <1>1 DEF Run, Idle, Running, Persisting
<1>3. bound.runners \subseteq Kinds
  BY <1>1, ReceiptsAssumption
<1>4. PICK s \in Session, reply \in Replies :
        /\ s.error \/ s.kind = "fabric-backed" \/ s.termination \in Ended
        /\ task' = [task EXCEPT ![p] =
               [pc |-> "action", id |-> task[p].id, candidate |-> task[p].candidate,
                workflow |-> task[p].workflow, session |-> s, environment |-> world.environment,
                status |-> Verdict(task[p].workflow, s, reply)]]
  BY <1>3, RunnerSessions DEF Run
<1>5. PICK t : t = [pc |-> "action", id |-> task[p].id, candidate |-> task[p].candidate,
                    workflow |-> task[p].workflow, session |-> s,
                    environment |-> world.environment,
                    status |-> Verdict(task[p].workflow, s, reply)]
  OBVIOUS
<1>6. /\ Verdict(task[p].workflow, s, reply) \in Statuses \cup {"none"}
      /\ Verdict(task[p].workflow, s, reply) # "none" => ~s.error
  BY Verdicts
<1>7. t \in Persisting /\ task' = [task EXCEPT ![p] = t]
  BY <1>1, <1>2, <1>4, <1>5, <1>6 DEF Running, Persisting, World
<1>8. /\ t.id \in 1..started
      /\ \A q \in Procs \ {p} : task[q] # Idle => task[q].id # t.id
  BY <1>2, <1>5 DEF IInv, IdInv, Idle, Running
<1>9. PhaseOf(t)
  <2>1. BindingsOf(t.id) = {}
    BY <1>5 DEF IInv, PhaseInv, PhaseOf, Run
  <2> QED
    BY <1>4, <1>5, <1>6, <2>1 DEF PhaseOf
<1>10. /\ UNCHANGED <<ledger, bound>> /\ world' \in World
      /\ started' \in Nat /\ started' >= started
  BY <1>1 DEF Run
<1>11. t \in {Idle} \cup Running \cup Persisting
  BY <1>7
<1>12. t.id \in 1..started'
  BY <1>8 DEF Run
<1> QED
  BY <1>7, <1>8, <1>9, <1>10, <1>11, <1>12, TaskKept

\* A process that gives up leaves what it has committed.
LEMMA FailKeeps ==
    ASSUME IInv, NEW p \in Procs, Fail(p)
    PROVE  IInv'
<1>1. PhaseOf(Idle)
  BY DEF PhaseOf, Idle
<1>2. started \in Nat /\ world \in World
  BY DEF IInv, TypeInv
<1>3. /\ UNCHANGED <<ledger, bound>> /\ world' \in World
      /\ started' \in Nat /\ started' >= started
  BY <1>2 DEF Fail
<1>4. PICK t \in {Idle} \cup Running \cup Persisting : t = Idle
  OBVIOUS
<1>5. task' = [task EXCEPT ![p] = t] /\ PhaseOf(t)
  BY <1>1, <1>4 DEF Fail
<1> QED
  BY <1>3, <1>4, <1>5, TaskKept

\* An execution that has something to commit.
LEMMA Committing ==
    ASSUME IInv, NEW p \in Procs, task[p].pc \in {"action", "binding", "result"}
    PROVE  task[p] \in Persisting /\ task[p] # Idle
  BY DEF IInv, TypeInv, Idle, Running, Persisting

\* The first commit: the action.
LEMMA PersistActionKeeps ==
    ASSUME IInv, NEW p \in Procs, PersistAction(p)
    PROVE  IInv'
<1>1. task[p] \in Persisting /\ task[p] # Idle /\ TypeInv
  BY Committing DEF PersistAction, IInv
<1>2. PICK t : t = [task[p] EXCEPT !.pc = "binding"]
  OBVIOUS
<1>3. PICK r : r = [type |-> "action", id |-> task[p].id, candidate |-> task[p].candidate,
                    workflow |-> task[p].workflow]
  OBVIOUS
<1>4. r \in Record /\ r.type = "action" /\ Store(r)
  BY <1>1, <1>3 DEF Persisting, Record, PersistAction, Store
<1>5. t \in Persisting /\ t.id = task[p].id /\ task' = [task EXCEPT ![p] = t]
  BY <1>1, <1>2 DEF Persisting, PersistAction
<1>6. PhaseOf(t)'
  <2>1. BindingsOf(t.id) = {}
    BY <1>5 DEF PersistAction
  <2>2. BindingsOf(t.id)' = {}
    BY <1>1, <1>4, <2>1, StoreBindings
  <2>3. /\ Len(ledger) \in Nat /\ Len(ledger') = Len(ledger) + 1
        /\ ledger'[Len(ledger) + 1] = r /\ Len(ledger) + 1 \in Indices("action")'
    BY <1>1, <1>4, StoreGrows, StoreIndices
  <2>4. HasAction(t, Len(ledger) + 1)'
    BY <1>2, <1>3, <1>1, <2>3 DEF HasAction, Persisting
  <2>5. t.status # "none" => (t.session.kind # "fabric-backed" => t.session.termination \in Ended)
    BY <1>1, <1>2 DEF IInv, PhaseInv, PhaseOf, Persisting
  <2> QED
    BY <1>1, <1>2, <2>2, <2>4, <2>5 DEF PhaseOf, Persisting
<1> QED
  BY <1>1, <1>4, <1>5, <1>6, CommitKept DEF PersistAction

\* The second commit: the binding, after the action and before any result.
LEMMA PersistBindingKeeps ==
    ASSUME IInv, NEW p \in Procs, PersistBinding(p)
    PROVE  IInv'
<1>1. task[p] \in Persisting /\ task[p] # Idle /\ TypeInv /\ task[p].pc = "binding"
  BY Committing DEF PersistBinding, IInv
<1>2. PICK r : r = Bind(task[p])
  OBVIOUS
<1>3. task[p].session \in Session
  BY <1>1 DEF Persisting
<1>4. /\ Envelope(task[p].session) \in {"complete", "incomplete", "malformed"}
      /\ EstablishedProperties(task[p].session)
           \in [Vocabulary -> {"established", "not-established", "unknown"}]
  <2>1. Envelope(task[p].session) \in {"complete", "incomplete", "malformed"}
    BY DEF Envelope, Completeness, BuildReceipt
  <2>2. \A c \in Capability : State(c) \in {"established", "not-established", "unknown"}
    BY DEF State, Capability
  <2>3. State(task[p].session.filesystem) \in {"established", "not-established", "unknown"}
        /\ State(task[p].session.network) \in {"established", "not-established", "unknown"}
    BY <1>3, <2>2 DEF Session
  <2> QED
    BY <2>1, <2>3 DEF EstablishedProperties, Vocabulary
<1>5. r \in Record /\ r.type = "binding" /\ r.action = task[p].id /\ Store(r) /\ Faithful(r)
  BY <1>1, <1>2, <1>3, <1>4 DEF Bind, Record, Persisting, Session, Faithful, PersistBinding, Store
<1>6. BindingsOf(task[p].id) = {} /\ HasAction(task[p], Len(ledger) + 1)
  BY <1>1 DEF IInv, PhaseInv, PhaseOf
<1>7. CASE task[p].status = "none"
  <2>1. task' = [task EXCEPT ![p] = Idle] /\ PhaseOf(Idle)'
    BY <1>7 DEF PersistBinding, PhaseOf, Idle
  <2> QED
    BY <1>1, <1>5, <1>6, <2>1, CommitKept DEF PersistBinding
<1>8. CASE task[p].status # "none"
  <2>1. PICK t : t = [task[p] EXCEPT !.pc = "result"]
    OBVIOUS
  <2>2. /\ t \in Persisting /\ t.id = task[p].id /\ t.workflow = task[p].workflow
        /\ t.pc = "result" /\ t.session = task[p].session /\ t.candidate = task[p].candidate
        /\ t.status = task[p].status /\ task' = [task EXCEPT ![p] = t]
    BY <1>1, <1>8, <2>1 DEF Persisting, PersistBinding
  <2>3. t.session.kind # "fabric-backed" => t.session.termination \in Ended
    BY <1>1, <1>8, <2>2 DEF IInv, PhaseInv, PhaseOf
  <2>4. PICK b : b = Len(ledger) + 1
    OBVIOUS
  <2>5. /\ Len(ledger) \in Nat /\ ledger'[b] = r /\ b \in Indices("binding")'
    BY <1>1, <1>5, <2>4, StoreGrows, StoreIndices
  <2>6. BindingsOf(t.id)' = {b}
    <3>1. PICK x : x = t.id
      OBVIOUS
    <3>2. BindingsOf(x) = {} /\ r.action = x
      BY <1>5, <1>6, <2>2, <3>1
    <3>3. BindingsOf(x)' = {b}
      BY <1>1, <1>5, <2>4, <3>2, StoreBindings
    <3> QED
      BY <3>1, <3>3
  <2>7. HasAction(t, b)'
    <3>1. PICK a \in Indices("action") :
            a < b /\ ledger[a].id = t.id /\ ledger[a].workflow = t.workflow
      BY <1>6, <2>2, <2>4 DEF HasAction
    <3>2. a \in Indices("action")' /\ ledger'[a] = ledger[a]
      BY <1>1, <1>5, StoreIndices
    <3> QED
      BY <3>1, <3>2 DEF HasAction
  <2>8. /\ r.result = t.id /\ r.candidate = t.candidate /\ r.kind = t.session.kind
        /\ r.termination = t.session.termination
    BY <1>2, <1>8, <2>2 DEF Bind
  <2>9. HasBinding(t)'
    BY <2>3, <2>5, <2>6, <2>7, <2>8 DEF HasBinding
  <2>10. PhaseOf(t)'
    BY <1>8, <2>2, <2>3, <2>9 DEF PhaseOf
  <2> QED
    BY <1>1, <1>5, <1>6, <2>2, <2>10, CommitKept DEF PersistBinding
<1> QED
  BY <1>7, <1>8

\* The third commit: the result, which the binding already names.
LEMMA PersistResultKeeps ==
    ASSUME IInv, NEW p \in Procs, PersistResult(p)
    PROVE  IInv'
<1>1. /\ task[p] \in Persisting /\ task[p] # Idle /\ TypeInv
      /\ HasBinding(task[p]) /\ task[p].status # "none"
  BY Committing DEF PersistResult, IInv, PhaseInv, PhaseOf
<1>2. PICK r : r = ResultOf(task[p])
  OBVIOUS
<1>3. /\ r \in Record /\ r.type = "result" /\ Store(r) /\ r.id = task[p].id
      /\ r.candidate = task[p].candidate /\ r.workflow = task[p].workflow
  BY <1>1, <1>2 DEF ResultOf, Record, Persisting, PersistResult, Store
<1>4. PICK k : k = Len(ledger) + 1
  OBVIOUS
<1>5. Receipted(k)'
  <2>1. PICK b \in Indices("binding") :
          /\ BindingsOf(r.id) = {b}
          /\ ledger[b].result = r.id
          /\ ledger[b].candidate = r.candidate
          /\ ledger[b].kind # "fabric-backed" => ledger[b].termination \in Ended
          /\ HasAction(task[p], b)
    BY <1>1, <1>3 DEF HasBinding
  <2>2. PICK a \in Indices("action") :
          a < b /\ ledger[a].id = r.id /\ ledger[a].workflow = r.workflow
    BY <1>3, <2>1 DEF HasAction
  <2>3. PICK x : x = r.id
    OBVIOUS
  <2>4. BindingsOf(x)' = {b}
    BY <1>3, <2>1, <2>3, LedgerStable
  <2>5. /\ b \in Indices("binding")' /\ ledger'[b] = ledger[b] /\ a \in Indices("action")'
        /\ ledger'[a] = ledger[a]
    BY <1>3, LedgerStable
  <2>6. ledger'[k] = r /\ b < k
    BY <1>1, <1>3, <1>4, StoreGrows, StoreIndices
  <2>7. BindingsOf(ledger[k].id)' = {b}
    BY <2>3, <2>4, <2>6 DEF BindingsOf
  <2> QED
    BY <2>1, <2>2, <2>5, <2>6, <2>7 DEF Receipted
<1>6. task' = [task EXCEPT ![p] = Idle] /\ PhaseOf(Idle)'
  BY DEF PersistResult, PhaseOf, Idle
<1> QED
  BY <1>1, <1>3, <1>4, <1>5, <1>6, CommitKept DEF PersistResult

-----------------------------------------------------------------------------
(* Theorems *)

\* An empty ledger keeps every rule.
LEMMA InitIInv ==
    ASSUME Init
    PROVE  IInv
<1>1. \A type : Indices(type) = {}
  BY DEF Init, Indices
<1>2. TypeInv
  BY DEF Init, TypeInv
<1>3. \A p \in Procs : task[p] = Idle
  BY DEF Init
<1> QED
  BY <1>1, <1>2, <1>3
     DEF IInv, IdInv, PhaseInv, PhaseOf, Idle, BindingInv, AssuranceInv, ResultInv

\* So does every step.
LEMMA NextIInv ==
    ASSUME IInv, [Next]_vars
    PROVE  IInv'
<1>1. CASE Edit
  BY <1>1, EditKeeps
<1>2. CASE Register
  BY <1>2, RegisterKeeps
<1>3. CASE \E p \in Procs :
             \/ \E w \in Workflows : Begin(p, w)
             \/ Run(p) \/ Fail(p) \/ PersistAction(p) \/ PersistBinding(p) \/ PersistResult(p)
  BY <1>3, BeginKeeps, RunKeeps, FailKeeps, PersistActionKeeps, PersistBindingKeeps,
     PersistResultKeeps
<1>4. CASE \E v \in Verifiers, s \in Replies \cap Statuses, c \in Candidates : Verify(v, s, c)
  BY <1>4, VerifyKeeps
<1>5. CASE \E n \in Indices("binding"), requested \in Requests : Assess(n, requested)
  BY <1>5, AssessKeeps
<1>6. CASE UNCHANGED vars
  <2>1. UNCHANGED <<ledger, task, started, bound>> /\ world' = world /\ world \in World
    BY <1>6 DEF vars, IInv, TypeInv
  <2> QED
    BY <2>1, Untouched
<1> QED
  BY <1>1, <1>2, <1>3, <1>4, <1>5, <1>6 DEF Next

\* Wherever executions have come and whichever processes died, every record in
\* the ledger keeps the rules of persist_workflow_execution.
THEOREM ReceiptsInvariant == Spec => []IInv
<1>1. Init => IInv
  BY InitIInv
<1>2. IInv /\ [Next]_vars => IInv'
  BY NextIInv
<1> QED
  BY <1>1, <1>2, PTL DEF Spec

\* A result that persist_workflow_execution committed is preceded by its one
\* binding and its action, although the three are commits of their own and
\* nothing recovers a process that dies between them.
THEOREM EveryResultReceipted == Spec => []ResultsReceipted
<1>1. IInv => ResultsReceipted
  <2> SUFFICES ASSUME IInv, NEW n \in Indices("result")
               PROVE  \E b \in Indices("binding"), a \in Indices("action") :
                        /\ a < b /\ b < n
                        /\ BindingsOf(ledger[n].id) = {b}
                        /\ ledger[b].result = ledger[n].id /\ ledger[a].id = ledger[b].action
                        /\ ledger[n].candidate = ledger[b].candidate
                        /\ ledger[n].workflow = ledger[a].workflow
                        /\ ledger[b].kind # "fabric-backed" => ledger[b].termination \in Ended
    BY DEF ResultsReceipted
  <2>1. Receipted(n)
    BY DEF IInv, ResultInv
  <2>2. \A b : BindingsOf(ledger[n].id) = {b} => ledger[b].action = ledger[n].id
    BY DEF BindingsOf
  <2> QED
    BY <2>1, <2>2 DEF Receipted
<1> QED
  BY <1>1, ReceiptsInvariant, PTL

\* assess_execution_receipt reads a binding and nothing else, and yet says PASS
\* only of an execution that ended by itself, was measured in full and had every
\* property that was asked for.
THEOREM EveryAssuranceEarned == Spec => []AssuranceEarned
<1>1. IInv => AssuranceEarned
  <2> SUFFICES ASSUME IInv, NEW n \in Indices("assurance"), ledger[n].status = "PASS"
               PROVE  LET s == ledger[ledger[n].binding].truth
                      IN  /\ s.termination \in Ended /\ s.measured /\ s.named
                          /\ "filesystem_isolation" \in ledger[n].requested => s.filesystem = "enforced"
                          /\ "network_isolation" \in ledger[n].requested => s.network = "enforced"
                          /\ "containerization" \in ledger[n].requested => s.image
                          /\ "same_operator_execution" \in ledger[n].requested => s.same = "yes"
                          /\ ledger[n].requested \cap ContainerProperties # {} => s.kind # "local-process"
    BY DEF AssuranceEarned
  <2> DEFINE m == ledger[n]
             b == ledger[m.binding]
             s == b.truth
  <2>1. Assessed(m)
    BY DEF IInv, AssuranceInv
  <2>2. Faithful(b)
    BY <2>1 DEF IInv, BindingInv, Assessed
  <2>3. ~Laundering(b) /\ Unmet(b, m.requested) = {}
    BY <2>1 DEF Assessed, AssuranceStatus
  <2>4. b.completeness = "complete" /\ \A q \in m.requested : b.properties[q] = "established"
    BY <2>1, <2>3 DEF Unmet, Assessed
  <2>5. s.termination \in Ended /\ s.measured /\ s.named
    <3>1. Envelope(s) = "complete" /\ s \in Session
      BY <2>2, <2>4 DEF Faithful
    <3>2. Completeness(s) = "complete" /\ BuildReceipt(s) = "complete"
      BY <3>1 DEF Envelope
    <3> QED
      BY <3>1, <3>2 DEF Completeness, BuildReceipt, Session
  <2>6. \A q \in m.requested : q \in Vocabulary /\ EstablishedProperties(s)[q] = "established"
    BY <2>1, <2>2, <2>4 DEF Faithful, Assessed
  <2>7. \A c \in Capability : State(c) = "established" => c = "enforced"
    BY DEF State, Capability
  <2>8. /\ "filesystem_isolation" \in m.requested => s.filesystem = "enforced"
        /\ "network_isolation" \in m.requested => s.network = "enforced"
    <3>1. s.filesystem \in Capability /\ s.network \in Capability
      BY <2>2 DEF Faithful, Session
    <3>2. /\ EstablishedProperties(s)["filesystem_isolation"] = State(s.filesystem)
          /\ EstablishedProperties(s)["network_isolation"] = State(s.network)
      BY DEF EstablishedProperties, Vocabulary
    <3> QED
      BY <2>6, <2>7, <3>1, <3>2
  <2>9. /\ "containerization" \in m.requested => s.image
        /\ "same_operator_execution" \in m.requested => s.same = "yes"
    BY <2>6 DEF EstablishedProperties, Vocabulary
  <2>10. m.requested \cap ContainerProperties # {} => s.kind # "local-process"
    BY <2>2, <2>3, <2>4 DEF Laundering, Faithful
  <2> QED
    BY <2>5, <2>8, <2>9, <2>10
<1> QED
  BY <1>1, ReceiptsInvariant, PTL

-----------------------------------------------------------------------------
(* Readiness (module Evidence) *)

\* What makes a requirement not comparable: its candidate was begun under
\* another authority, or one of its records is of other content, environment or
\* policy.
Odd(c, r) ==
    \/ ~AuthorityMatch(c)
    \/ \E n \in Matches(c, r) : ~(IsCurrent(n) /\ EnvironmentMatch(n) /\ PolicyMatch(n))

\* The records of a requirement are finitely many, and each has a status.
LEMMA MatchesTyped ==
    ASSUME IInv, NEW c, NEW r
    PROVE  /\ IsFiniteSet(Matches(c, r))
           /\ \A n \in Matches(c, r) : ledger[n].status \in Statuses
<1>1. ledger \in Seq(Record) /\ Len(ledger) \in Nat
  BY DEF IInv, TypeInv
<1>2. IsFiniteSet(1..Len(ledger))
  BY <1>1, FS_Interval
<1>3. Matches(c, r) \in SUBSET (1..Len(ledger))
  BY DEF Matches, Indices
<1>4. ASSUME NEW n \in Matches(c, r) PROVE ledger[n].status \in Statuses
  <2>1. n \in 1..Len(ledger) /\ ledger[n] \in Record
    BY <1>1, <1>3
  <2>2. ledger[n].type = "result" \/ ledger[n].type = "verifier"
    BY DEF Matches, Indices
  <2> QED
    BY <2>1, <2>2 DEF Record
<1> QED
  BY <1>2, <1>3, <1>4, FS_Subset

\* The records of S that have status k
Having(S, k) == {n \in S : ledger[n].status = k}

\* A count is positive when one of the records has the status.
LEMMA CountsWhole ==
    ASSUME NEW S, IsFiniteSet(S), NEW k
    PROVE  /\ IsFiniteSet(Having(S, k)) /\ Count(S, k) = Cardinality(Having(S, k))
           /\ Count(S, k) \in Nat
           /\ Count(S, k) > 0 <=> k \in StatusesOf(S)
<1>1. Having(S, k) \in SUBSET S
  BY DEF Having
<1>2. IsFiniteSet(Having(S, k))
  BY <1>1, FS_Subset
<1>3. Count(S, k) = Cardinality(Having(S, k))
  BY DEF Count, Having
<1>4. Count(S, k) \in Nat /\ (Count(S, k) = 0 <=> Having(S, k) = {})
  BY <1>2, <1>3, FS_CardinalityType, FS_EmptySet
<1>5. Having(S, k) # {} <=> k \in StatusesOf(S)
  BY DEF Having, StatusesOf
<1> QED
  BY <1>2, <1>3, <1>4, <1>5

\* The three counts add up to the records.
LEMMA CountsAddUp ==
    ASSUME NEW S, IsFiniteSet(S), \A n \in S : ledger[n].status \in Statuses
    PROVE  /\ Count(S, "PASS") + Count(S, "FAIL") + Count(S, "UNKNOWN") = Cardinality(S)
           /\ Cardinality(S) \in Nat /\ (Cardinality(S) = 0 <=> S = {})
<1>1. PICK P, F, U : P = Having(S, "PASS") /\ F = Having(S, "FAIL") /\ U = Having(S, "UNKNOWN")
  OBVIOUS
<1>2. S = (P \cup F) \cup U /\ P \cap F = {} /\ (P \cup F) \cap U = {}
  BY <1>1 DEF Having, Statuses
<1>3. /\ IsFiniteSet(P) /\ IsFiniteSet(F) /\ IsFiniteSet(U)
      /\ Count(S, "PASS") = Cardinality(P) /\ Count(S, "FAIL") = Cardinality(F)
      /\ Count(S, "UNKNOWN") = Cardinality(U)
      /\ Cardinality(P) \in Nat /\ Cardinality(F) \in Nat /\ Cardinality(U) \in Nat
  BY <1>1, CountsWhole
<1>4. Cardinality({}) = 0
  BY FS_EmptySet
<1>5. /\ IsFiniteSet(P \cup F)
      /\ Cardinality(P \cup F) = Cardinality(P) + Cardinality(F) - Cardinality(P \cap F)
  BY <1>3, FS_Union
<1>6. Cardinality(S) = Cardinality(P \cup F) + Cardinality(U) - Cardinality((P \cup F) \cap U)
  BY <1>2, <1>3, <1>5, FS_Union
<1>7. Cardinality(S) \in Nat /\ (Cardinality(S) = 0 <=> S = {})
  BY FS_CardinalityType, FS_EmptySet
<1>8. Cardinality(P \cap F) = 0 /\ Cardinality((P \cup F) \cap U) = 0
  BY <1>2, <1>4
<1>9. Cardinality(S) = Cardinality(P) + Cardinality(F) + Cardinality(U)
  BY <1>3, <1>5, <1>6, <1>8
<1> QED
  BY <1>3, <1>7, <1>9

\* What readiness.requirement answers of a requirement says what the host knows
\* of its records.
LEMMA RequirementClassed ==
    ASSUME IInv, NEW c, NEW r, NEW x, x = Requirement(RequirementValue(r, Normalize(c, r)))
    PROVE  /\ x.identity = r
           /\ x.pass = Count(Matches(c, r), "PASS") /\ x.fail = Count(Matches(c, r), "FAIL")
           /\ x.unknown = Count(Matches(c, r), "UNKNOWN")
           /\ x.observed = Cardinality(Matches(c, r))
           /\ x.observed > 0 <=> Matches(c, r) # {}
           /\ x.noncomparable <=> Odd(c, r)
           /\ x.class = IF Matches(c, r) = {} THEN "Missing"
                        ELSE IF "FAIL" \in StatusesOf(Matches(c, r)) THEN "Failed"
                        ELSE IF "UNKNOWN" \in StatusesOf(Matches(c, r)) THEN "Unknown"
                        ELSE IF Odd(c, r) THEN "NonComparable" ELSE "Present"
<1> DEFINE S == Matches(c, r)
           i == Normalize(c, r)
           v == RequirementValue(r, i)
<1>1. /\ \A k \in Statuses : Count(S, k) \in Nat /\ (Count(S, k) > 0 <=> k \in StatusesOf(S))
      /\ Count(S, "PASS") + Count(S, "FAIL") + Count(S, "UNKNOWN") = Cardinality(S)
      /\ Cardinality(S) \in Nat /\ (Cardinality(S) = 0 <=> S = {})
  BY MatchesTyped, CountsWhole, CountsAddUp
<1>2. /\ i.records = S
      /\ i.freshness = IF \A n \in S : IsCurrent(n) THEN "Current" ELSE "Unknown"
      /\ i.environment = (\A n \in S : EnvironmentMatch(n))
      /\ i.policy = (\A n \in S : PolicyMatch(n))
      /\ i.authority = AuthorityMatch(c)
  BY DEF Normalize
<1>3. /\ v.identity = r /\ v.pass = Count(S, "PASS") /\ v.fail = Count(S, "FAIL")
      /\ v.unknown = Count(S, "UNKNOWN") /\ v.freshness = i.freshness
      /\ v.environment = i.environment /\ v.policy = i.policy /\ v.authority = i.authority
  BY <1>2 DEF RequirementValue
<1>4. (v.freshness # "Current" \/ ~(v.environment /\ v.policy /\ v.authority)) <=> Odd(c, r)
  BY <1>2, <1>3 DEF Odd
<1> QED
  <2> HIDE DEF S, i, v
  <2>1. /\ x.identity = v.identity /\ x.pass = v.pass /\ x.fail = v.fail /\ x.unknown = v.unknown
        /\ x.observed = v.pass + v.fail + v.unknown
        /\ x.noncomparable <=> (v.freshness # "Current" \/ ~(v.environment /\ v.policy /\ v.authority))
        /\ x.class = IF v.pass + v.fail + v.unknown = 0 THEN "Missing"
                     ELSE IF v.fail > 0 THEN "Failed" ELSE IF v.unknown > 0 THEN "Unknown"
                     ELSE IF v.freshness # "Current" \/ ~(v.environment /\ v.policy /\ v.authority)
                     THEN "NonComparable" ELSE "Present"
    BY DEF Requirement, i, v, S
  <2> QED
    BY <1>1, <1>3, <1>4, <2>1 DEF S, Statuses

\* The kernel's answer for requirement r of candidate c
AnswerOf(c, r) == Requirement(RequirementValue(r, Normalize(c, r)))
Answers(c, R) == {AnswerOf(c, r) : r \in R}

\* The lists that the host makes of the kernel's answers are its own.
LEMMA RequirementLists ==
    ASSUME IInv, NEW c, NEW R, NEW q, q = Answers(c, R)
    PROVE  /\ {x.identity : x \in q} = R
           /\ Observed(q) = {r \in R : Matches(c, r) # {}}
           /\ Classed(q, "Missing") = {r \in R : Matches(c, r) = {}}
           /\ Classed(q, "Failed") = {r \in R : "FAIL" \in StatusesOf(Matches(c, r))}
           /\ Classed(q, "Unknown") = {r \in R : /\ "UNKNOWN" \in StatusesOf(Matches(c, r))
                                                /\ "FAIL" \notin StatusesOf(Matches(c, r))}
           /\ Classed(q, "Stale") = {}
           /\ NonComparable(q) = {r \in R : Odd(c, r)}
           /\ Classed(q, "NonComparable") \subseteq NonComparable(q)
<1>1. ASSUME NEW r
      PROVE  /\ AnswerOf(c, r).identity = r
             /\ AnswerOf(c, r).observed > 0 <=> Matches(c, r) # {}
             /\ AnswerOf(c, r).noncomparable <=> Odd(c, r)
             /\ AnswerOf(c, r).class = "Missing" <=> Matches(c, r) = {}
             /\ AnswerOf(c, r).class = "Failed" <=> "FAIL" \in StatusesOf(Matches(c, r))
             /\ AnswerOf(c, r).class = "Unknown" <=>
                  /\ "UNKNOWN" \in StatusesOf(Matches(c, r))
                  /\ "FAIL" \notin StatusesOf(Matches(c, r))
             /\ AnswerOf(c, r).class # "Stale"
             /\ AnswerOf(c, r).class = "NonComparable" => Odd(c, r)
  <2>1. PICK x : x = AnswerOf(c, r)
    OBVIOUS
  <2>2. x = Requirement(RequirementValue(r, Normalize(c, r)))
    BY <2>1 DEF AnswerOf
  <2>3. Matches(c, r) = {} => StatusesOf(Matches(c, r)) = {}
    BY DEF StatusesOf
  <2>4. /\ x.identity = r
        /\ x.observed > 0 <=> Matches(c, r) # {}
        /\ x.noncomparable <=> Odd(c, r)
        /\ x.class = IF Matches(c, r) = {} THEN "Missing"
                     ELSE IF "FAIL" \in StatusesOf(Matches(c, r)) THEN "Failed"
                     ELSE IF "UNKNOWN" \in StatusesOf(Matches(c, r)) THEN "Unknown"
                     ELSE IF Odd(c, r) THEN "NonComparable" ELSE "Present"
    BY <2>2, RequirementClassed
  <2> QED
    BY <2>1, <2>3, <2>4
<1>q. q = {AnswerOf(c, r) : r \in R}
  BY DEF Answers
<1>2. {x.identity : x \in q} = R
  BY <1>1, <1>q
<1>3. Observed(q) = {r \in R : AnswerOf(c, r).observed > 0}
  BY <1>1, <1>q DEF Observed
<1>4. NonComparable(q) = {r \in R : AnswerOf(c, r).noncomparable}
  BY <1>1, <1>q DEF NonComparable
<1>5. ASSUME NEW k PROVE Classed(q, k) = {r \in R : AnswerOf(c, r).class = k}
  BY <1>1, <1>q DEF Classed
<1> QED
  BY <1>1, <1>2, <1>3, <1>4, <1>5

\* The host's recount of the kernel's answer finds no mismatch.
LEMMA RecountAccepts ==
    ASSUME IInv, NEW c, NEW R, NEW valid
    PROVE  ReadinessConsistent(c, R, ReadinessProjection(c, R, valid))
<1> DEFINE q == Answers(c, R)
           answer == ReadinessProjection(c, R, valid)
<1>1. answer.requirements = q /\ answer.state = ReadinessKernel(q, c \in Candidates, valid)
  BY DEF ReadinessProjection, Answers, AnswerOf
<1>2. /\ answer.state.present = Cardinality(Observed(q))
      /\ answer.state.missing = Cardinality(Classed(q, "Missing"))
      /\ answer.state.failed = Cardinality(Classed(q, "Failed"))
      /\ answer.state.unknown = Cardinality(Classed(q, "Unknown"))
      /\ answer.state.noncomparable = Cardinality(NonComparable(q))
  BY <1>1 DEF ReadinessKernel
<1>3. {x.identity : x \in q} = R
  BY RequirementLists
<1>4. ASSUME NEW x \in q
      PROVE  LET i == Normalize(c, x.identity)
             IN  /\ x.observed = Cardinality(i.records)
                 /\ x.pass = Count(i.records, "PASS") /\ x.fail = Count(i.records, "FAIL")
                 /\ x.unknown = Count(i.records, "UNKNOWN")
                 /\ x.noncomparable = (\/ i.freshness \in {"NotApplicable", "Unknown"}
                                       \/ ~i.environment \/ ~i.policy \/ ~i.authority)
  <2>1. PICK r \in R : x = Requirement(RequirementValue(r, Normalize(c, r)))
    BY DEF Answers, AnswerOf
  <2>2. /\ x.identity = r /\ x.observed = Cardinality(Matches(c, r))
        /\ x.pass = Count(Matches(c, r), "PASS") /\ x.fail = Count(Matches(c, r), "FAIL")
        /\ x.unknown = Count(Matches(c, r), "UNKNOWN")
    BY <2>1, RequirementClassed
  <2>3. Normalize(c, r).records = Matches(c, r)
    BY DEF Normalize
  <2>4. Normalize(c, r).freshness \in {"Current", "Unknown"}
    BY DEF Normalize
  <2>5. x.noncomparable = (\/ Normalize(c, r).freshness # "Current"
                           \/ ~(/\ Normalize(c, r).environment /\ Normalize(c, r).policy
                                /\ Normalize(c, r).authority))
    BY <2>1, Zenon DEF Requirement, RequirementValue
  <2> QED
    BY <2>2, <2>3, <2>4, <2>5
<1> HIDE DEF q, answer
<1> QED
  BY <1>1, <1>2, <1>3, <1>4 DEF ReadinessConsistent, answer

\* The two readings of a requirement's records come to the same lists and to the
\* same decision.
LEMMA ReadingsAgree ==
    ASSUME IInv, NEW c, NEW R, IsFiniteSet(R), NEW valid,
           NEW x, NEW y, x = CompatReadiness(c, R, valid), y = NativeReadiness(c, R, valid)
    PROVE  /\ x.present = y.present /\ x.missing = y.missing
           /\ x.failed = y.failed /\ x.unknown = y.unknown
           /\ x.stale = {} /\ y.stale = {}
           /\ x.noncomparable = y.noncomparable \cap y.present
           /\ x.missing = {} => y.noncomparable \subseteq y.present
           /\ x.ready = y.ready
           /\ x.status = y.status
<1> DEFINE compat == CompatReadiness(c, R, valid)
           native == NativeReadiness(c, R, valid)
           q == Answers(c, R)
           state == ReadinessKernel(q, c \in Candidates, valid)
<1>1. /\ Observed(q) = {r \in R : Matches(c, r) # {}}
      /\ Classed(q, "Missing") = {r \in R : Matches(c, r) = {}}
      /\ Classed(q, "Failed") = {r \in R : "FAIL" \in StatusesOf(Matches(c, r))}
      /\ Classed(q, "Unknown") = {r \in R : /\ "UNKNOWN" \in StatusesOf(Matches(c, r))
                                           /\ "FAIL" \notin StatusesOf(Matches(c, r))}
      /\ Classed(q, "Stale") = {}
      /\ NonComparable(q) = {r \in R : Odd(c, r)}
      /\ Classed(q, "NonComparable") \subseteq NonComparable(q)
  BY RequirementLists
<1>2. \A r : Matches(c, r) = {} => StatusesOf(Matches(c, r)) = {}
  BY DEF StatusesOf
<1>3. /\ compat.present = Observed(q) /\ compat.missing = Classed(q, "Missing")
      /\ compat.failed = Classed(q, "Failed") /\ compat.unknown = Classed(q, "Unknown")
      /\ compat.noncomparable = NonComparable(q) \cap Observed(q)
      /\ compat.stale = {}
  BY <1>1, <1>2 DEF CompatReadiness, Odd
<1>4. /\ native.present = Observed(q) /\ native.missing = Classed(q, "Missing")
      /\ native.failed = Classed(q, "Failed") /\ native.unknown = Classed(q, "Unknown")
      /\ native.stale = {} /\ native.noncomparable = NonComparable(q)
      /\ native.ready = state.ready /\ native.status = state.status
  BY <1>1 DEF NativeReadiness, ReadinessProjection, Answers, AnswerOf
<1>5. ASSUME NEW S, S \subseteq R PROVE Cardinality(S) \in Nat /\ (Cardinality(S) = 0 <=> S = {})
  <2>1. S \in SUBSET R
    BY <1>5
  <2>2. IsFiniteSet(S)
    BY <2>1, FS_Subset
  <2> QED
    BY <2>2, FS_CardinalityType, FS_EmptySet
<1>6. /\ Classed(q, "Failed") \subseteq R /\ Classed(q, "Missing") \subseteq R
      /\ Classed(q, "Unknown") \subseteq R /\ NonComparable(q) \subseteq R
  BY <1>1
<1>7. /\ state.ready <=>
           /\ c \in Candidates /\ valid
           /\ Classed(q, "Failed") = {} /\ Classed(q, "Missing") = {}
           /\ Classed(q, "Unknown") = {} /\ NonComparable(q) = {}
      /\ state.status = IF state.ready THEN "PASS"
                        ELSE IF Classed(q, "Failed") # {} THEN "FAIL" ELSE "UNKNOWN"
  <2> HIDE DEF q
  <2>1. PICK f, m, u, n : /\ f = Cardinality(Classed(q, "Failed"))
                          /\ m = Cardinality(Classed(q, "Missing"))
                          /\ u = Cardinality(Classed(q, "Unknown"))
                          /\ n = Cardinality(NonComparable(q))
    OBVIOUS
  <2>2. /\ f \in Nat /\ m \in Nat /\ u \in Nat /\ n \in Nat
        /\ f = 0 <=> Classed(q, "Failed") = {}
        /\ m = 0 <=> Classed(q, "Missing") = {}
        /\ u = 0 <=> Classed(q, "Unknown") = {}
        /\ n = 0 <=> NonComparable(q) = {}
    BY <2>1, <1>5, <1>6
  <2>3. /\ state.ready <=> c \in Candidates /\ valid /\ f + m + u + n = 0
        /\ state.status = IF state.ready THEN "PASS" ELSE IF f > 0 THEN "FAIL" ELSE "UNKNOWN"
    BY <2>1 DEF ReadinessKernel
  <2> HIDE DEF state
  <2>4. f + m + u + n = 0 <=> f = 0 /\ m = 0 /\ u = 0 /\ n = 0
    BY <2>2
  <2>5. f > 0 <=> Classed(q, "Failed") # {}
    BY <2>2
  <2> QED
    BY <2>2, <2>3, <2>4, <2>5
<1>8. compat.ready <=>
        /\ c \in Candidates /\ valid /\ compat.present = R
        /\ compat.failed = {} /\ compat.unknown = {} /\ compat.noncomparable = {}
  BY DEF CompatReadiness
<1>9. compat.present = R <=> Classed(q, "Missing") = {}
  BY <1>1, <1>3
<1>10. compat.present = R => compat.noncomparable = NonComparable(q)
  BY <1>3, <1>6
<1>11. compat.ready <=> state.ready
  <2> HIDE DEF compat, state, q
  <2> QED
    BY <1>3, <1>7, <1>8, <1>9, <1>10
<1>12. compat.status = IF compat.failed # {} THEN "FAIL" ELSE IF compat.ready THEN "PASS" ELSE "UNKNOWN"
  BY DEF CompatReadiness
<1>13. compat.ready \in BOOLEAN /\ state.ready \in BOOLEAN
  BY DEF CompatReadiness, ReadinessKernel
<1>14. compat.missing = {} => native.noncomparable \subseteq native.present
  BY <1>1, <1>3, <1>4
<1> HIDE DEF compat, native, state, q
<1>15. compat.status = state.status
  BY <1>3, <1>7, <1>11, <1>12
<1>16. /\ compat.present = native.present /\ compat.missing = native.missing
       /\ compat.failed = native.failed /\ compat.unknown = native.unknown
       /\ compat.stale = {} /\ native.stale = {}
       /\ compat.noncomparable = native.noncomparable \cap native.present
       /\ compat.missing = {} => native.noncomparable \subseteq native.present
       /\ compat.ready = native.ready
       /\ compat.status = native.status
  BY <1>3, <1>4, <1>11, <1>13, <1>14, <1>15
<1> QED
  BY <1>16 DEF compat, native

\* Both give the same reason for what is not ready.
LEMMA BlockersAgree ==
    ASSUME NEW compat, NEW native, NEW valid \in BOOLEAN,
           compat.missing = native.missing, compat.failed = native.failed,
           compat.unknown = native.unknown, compat.stale = {}, native.stale = {},
           compat.noncomparable = native.noncomparable \cap native.present,
           compat.missing = {} => native.noncomparable \subseteq native.present
    PROVE  Blocker(compat, valid) = Blocker(native, valid)
<1>1. compat.missing = {} => compat.noncomparable = native.noncomparable
  OBVIOUS
<1> QED
  BY <1>1 DEF Blocker

\* docs/mncs-native-spine.md: whether the current candidate is ready for a
\* policy, why not, and the lists behind that are the same by the host and by
\* the packaged program, for any policy and ledger that the ABI holds and whatever
\* was edited since the evidence was recorded; readiness_projection never raises
\* NATIVE_READINESS_MISMATCH.
THEOREM ReadinessSound == Spec => []ReadinessAgrees
<1>1. IInv => ReadinessAgrees
  <2> SUFFICES ASSUME IInv, NEW R \in RequiredSets, ReadinessBounded(Current, R)
               PROVE  /\ ReadinessConsistent(Current, R, ReadinessProjection(Current, R, TRUE))
                      /\ \A valid \in BOOLEAN :
                           LET compat == CompatReadiness(Current, R, valid)
                               native == NativeReadiness(Current, R, valid)
                           IN  /\ \A f \in {"present", "missing", "failed", "unknown",
                                             "ready", "status"} :
                                    compat[f] = native[f]
                               /\ compat.noncomparable = native.noncomparable \cap native.present
                               /\ Blocker(compat, valid) = Blocker(native, valid)
    BY DEF ReadinessAgrees
  <2>1. ReadinessConsistent(Current, R, ReadinessProjection(Current, R, TRUE))
    BY RecountAccepts
  <2>2. IsFiniteSet(R)
    BY EvidenceAssumption
  <2>3. ASSUME NEW valid \in BOOLEAN
        PROVE  LET compat == CompatReadiness(Current, R, valid)
                   native == NativeReadiness(Current, R, valid)
               IN  /\ \A f \in {"present", "missing", "failed", "unknown", "ready", "status"} :
                        compat[f] = native[f]
                   /\ compat.noncomparable = native.noncomparable \cap native.present
                   /\ Blocker(compat, valid) = Blocker(native, valid)
    <3>0. PICK c : c = Current
      OBVIOUS
    <3>1. PICK compat, native : /\ compat = CompatReadiness(c, R, valid)
                                /\ native = NativeReadiness(c, R, valid)
      OBVIOUS
    <3>2. /\ compat.present = native.present /\ compat.missing = native.missing
          /\ compat.failed = native.failed /\ compat.unknown = native.unknown
          /\ compat.stale = {} /\ native.stale = {}
          /\ compat.noncomparable = native.noncomparable \cap native.present
          /\ compat.missing = {} => native.noncomparable \subseteq native.present
          /\ compat.ready = native.ready
          /\ compat.status = native.status
      BY <2>2, <3>1, ReadingsAgree
    <3>3. Blocker(compat, valid) = Blocker(native, valid)
      BY <3>2, BlockersAgree
    <3> QED
      BY <3>0, <3>1, <3>2, <3>3
  <2> QED
    BY <2>1, <2>3
<1> QED
  BY <1>1, ReceiptsInvariant, PTL

-----------------------------------------------------------------------------
(* Reconciliation (module Evidence)                                         *)
(*                                                                          *)
(* mncs.forge.reconciliation folds the statuses of a category and the       *)
(* categories of a ledger; the host counts them.  A fold is a function on   *)
(* subsets, and is shown to be what it comes to subset by subset.           *)

\* The order in which a fold takes the elements of a set.
Taken(s) == CHOOSE x \in s : TRUE

\* Two functions on the subsets of a finite set are the same when they are the
\* same of a subset that has the same without the element that is taken.
LEMMA FoldsAgree ==
    ASSUME NEW q, IsFiniteSet(q), NEW f, NEW g, f[{}] = g[{}],
           \A s \in SUBSET q :
               s # {} /\ f[s \ {Taken(s)}] = g[s \ {Taken(s)}] => f[s] = g[s]
    PROVE  f[q] = g[q]
<1> DEFINE Bad == {s \in SUBSET q : f[s] # g[s]}
           T == {k \in Nat : \E s \in Bad : Cardinality(s) = k}
<1>1. \A s \in SUBSET q : IsFiniteSet(s) /\ Cardinality(s) \in Nat
  BY FS_Subset, FS_CardinalityType
<1>2. SUFFICES ASSUME Bad # {} PROVE FALSE
  OBVIOUS
<1>3. T # {}
  BY <1>1, <1>2
<1>4. PICK m \in T : \A k \in T : ~(<<k, m>> \in OpToRel(<, Nat))
  <2>1. T \in SUBSET Nat
    OBVIOUS
  <2> HIDE DEF T
  <2> QED
    BY <1>3, <2>1, NatLessThanWellFounded, WFMin
<1>5. PICK s \in Bad : Cardinality(s) = m
  OBVIOUS
<1>6. s # {} /\ s \in SUBSET q /\ Taken(s) \in s
  BY <1>5 DEF Taken
<1>7. /\ s \ {Taken(s)} \in SUBSET q /\ m \in Nat
      /\ Cardinality(s \ {Taken(s)}) = m - 1 /\ m - 1 \in Nat
  <2> HIDE DEF Bad, T
  <2>1. IsFiniteSet(s) /\ m \in Nat /\ s \ {Taken(s)} \in SUBSET q
    BY <1>1, <1>5, <1>6
  <2>2. Cardinality(s \ {Taken(s)}) = m - 1
    BY <1>5, <1>6, <2>1, FS_RemoveElement
  <2>3. Cardinality(s \ {Taken(s)}) \in Nat
    BY <1>1, <2>1
  <2> QED
    BY <2>1, <2>2, <2>3
<1>8. m - 1 \notin T
  <2>1. \A k \in T : k \in Nat /\ ~(k < m)
    BY <1>4, <1>7 DEF OpToRel
  <2> HIDE DEF T
  <2> QED
    BY <1>7, <2>1
<1>9. s \ {Taken(s)} \notin Bad
  <2> HIDE DEF Bad
  <2> QED
    BY <1>7, <1>8
<1> QED
  BY <1>5, <1>6, <1>7, <1>9

\* What statuses come to when they are combined one after the other.
Joined(K) == IF K = {} THEN "none" ELSE Aggregate(K)

\* One status more.
LEMMA CombineJoined ==
    ASSUME NEW K \in SUBSET Statuses, NEW x \in Statuses
    PROVE  Combine(Joined(K), x) = Joined(K \cup {x})
<1>1. Joined({}) = "none" /\ Joined({x}) = x
  BY DEF Joined, Aggregate, Statuses
<1>2. CASE K = {}
  BY <1>1, <1>2 DEF Combine
<1>3. CASE K # {}
  <2>1. Joined(K) = Aggregate(K) /\ Joined(K \cup {x}) = Aggregate(K \cup {x})
    BY <1>3 DEF Joined
  <2>2. Aggregate(K) # "none"
    BY DEF Aggregate
  <2>3. Combine(Joined(K), x) = Kernel!Dominate(Aggregate(K), x)
    BY <2>1, <2>2 DEF Combine
  <2>4. Kernel!Dominate(Aggregate(K), x) = Aggregate(K \cup {x})
    <3>1. \A a, b : Kernel!Dominate(a, b) = IF "FAIL" \in {a, b} THEN "FAIL" 
                      ELSE IF "UNKNOWN" \in {a, b} THEN "UNKNOWN" ELSE "PASS"
      BY DEF Kernel!Dominate
    <3>2. (K \cup {x} = {"PASS"}) <=> (K = {"PASS"} /\ x = "PASS")
      BY <1>3
    <3> QED
      BY <3>1, <3>2 DEF Aggregate, Statuses
  <2> QED
    BY <2>1, <2>3, <2>4
<1> QED
  BY <1>2, <1>3

\* The status of a category is that of the kinds of its records.
LEMMA KindsFold ==
    ASSUME NEW K \in SUBSET Statuses
    PROVE  Sets!FoldSet(LAMBDA x, s : Combine(s, x), "none", K) = Joined(K)
<1> DEFINE IsFold(f) == f = [s \in SUBSET K |-> IF s = {} THEN "none"
                                              ELSE Combine(f[s \ {Taken(s)}], Taken(s))]
           g == [s \in SUBSET K |-> Joined(s)]
           f == CHOOSE h : IsFold(h)
<1>1. \A s \in SUBSET K : s # {} => Taken(s) \in s /\ s \ {Taken(s)} \in SUBSET K
  BY DEF Taken
<1>2. \A s \in SUBSET K : g[s] = IF s = {} THEN "none"
                                ELSE Combine(g[s \ {Taken(s)}], Taken(s))
  <2> SUFFICES ASSUME NEW s \in SUBSET K, s # {}
               PROVE  Joined(s) = Combine(Joined(s \ {Taken(s)}), Taken(s))
    BY <1>1 DEF Joined
  <2>1. s \ {Taken(s)} \in SUBSET Statuses /\ Taken(s) \in Statuses
        /\ (s \ {Taken(s)}) \cup {Taken(s)} = s
    BY <1>1
  <2> QED
    BY <2>1, CombineJoined
<1>3. IsFold(g)
  BY <1>2
<1>4. IsFold(f)
  <2> HIDE DEF IsFold, g
  <2> QED
    BY <1>3
<1>5. Sets!FoldSet(LAMBDA x, s : Combine(s, x), "none", K) = f[K]
  BY Zenon DEF Sets!FoldSet, Sets!MapThenFoldSet, Taken
<1>6. IsFiniteSet(K)
  <2>1. Statuses = ({"PASS"} \cup {"FAIL"}) \cup {"UNKNOWN"}
    BY DEF Statuses
  <2>2. IsFiniteSet({"PASS"} \cup {"FAIL"})
    BY FS_Singleton, FS_AddElement
  <2>3. IsFiniteSet(Statuses)
    BY <2>1, <2>2, FS_AddElement
  <2> QED
    BY <2>3, FS_Subset
<1>7. \A s \in SUBSET K : f[s] = IF s = {} THEN "none"
                                ELSE Combine(f[s \ {Taken(s)}], Taken(s))
  <2> HIDE DEF f
  <2> QED
    BY <1>4
<1>8. {} \in SUBSET K /\ K \in SUBSET K
  OBVIOUS
<1> HIDE DEF IsFold, f, g
<1>9. f[K] = g[K]
  <2>1. f[{}] = g[{}]
    BY <1>2, <1>7, <1>8
  <2>2. ASSUME NEW s \in SUBSET K, s # {}, f[s \ {Taken(s)}] = g[s \ {Taken(s)}]
        PROVE  f[s] = g[s]
    BY <1>2, <1>7, <2>2
  <2> QED
    BY <1>6, <2>1, <2>2, FoldsAgree
<1>10. g[K] = Joined(K)
  BY <1>8 DEF g
<1> QED
  BY <1>5, <1>9, <1>10

\* The status of all categories is that of theirs.
LEMMA CategoriesFold ==
    ASSUME NEW q, IsFiniteSet(q), \A x \in q : x.status \in Statuses
    PROVE  Sets!FoldSet(LAMBDA x, s : Combine(s, x.status), "none", q)
             = Joined({x.status : x \in q})
<1> DEFINE IsFold(f) ==
             f = [s \in SUBSET q |-> IF s = {} THEN "none"
                                     ELSE Combine(f[s \ {Taken(s)}], Taken(s).status)]
           g == [s \in SUBSET q |-> Joined({x.status : x \in s})]
           f == CHOOSE h : IsFold(h)
<1>1. \A s \in SUBSET q : s # {} => Taken(s) \in s /\ s \ {Taken(s)} \in SUBSET q
  BY DEF Taken
<1>2. \A s \in SUBSET q : g[s] = IF s = {} THEN "none"
                                ELSE Combine(g[s \ {Taken(s)}], Taken(s).status)
  <2> SUFFICES ASSUME NEW s \in SUBSET q
               PROVE  /\ s = {} => Joined({x.status : x \in s}) = "none"
                      /\ s # {} => Joined({x.status : x \in s})
                            = Combine(Joined({x.status : x \in s \ {Taken(s)}}),
                                      Taken(s).status)
    BY <1>1
  <2>1. s = {} => Joined({x.status : x \in s}) = "none"
    BY DEF Joined
  <2>2. ASSUME s # {}
        PROVE  Joined({x.status : x \in s})
                 = Combine(Joined({x.status : x \in s \ {Taken(s)}}), Taken(s).status)
    <3> DEFINE K == {x.status : x \in s \ {Taken(s)}}
               k == Taken(s).status
    <3>1. K \in SUBSET Statuses /\ k \in Statuses /\ K \cup {k} = {x.status : x \in s}
      BY <1>1, <2>2
    <3> HIDE DEF K, k
    <3>2. Combine(Joined(K), k) = Joined(K \cup {k})
      BY <3>1, CombineJoined
    <3> QED
      BY <3>1, <3>2 DEF K, k
  <2> QED
    BY <2>1, <2>2
<1>3. IsFold(g)
  BY <1>2
<1>4. IsFold(f)
  <2> HIDE DEF IsFold, g
  <2> QED
    BY <1>3
<1>5. Sets!FoldSet(LAMBDA x, s : Combine(s, x.status), "none", q) = f[q]
  BY Zenon DEF Sets!FoldSet, Sets!MapThenFoldSet, Taken
<1>6. \A s \in SUBSET q : f[s] = IF s = {} THEN "none"
                                ELSE Combine(f[s \ {Taken(s)}], Taken(s).status)
  <2> HIDE DEF f
  <2> QED
    BY <1>4
<1>7. {} \in SUBSET q /\ q \in SUBSET q
  OBVIOUS
<1>8. g[q] = Joined({x.status : x \in q})
  BY <1>7
<1> HIDE DEF IsFold, f, g
<1>9. f[q] = g[q]
  <2>1. f[{}] = g[{}]
    BY <1>2, <1>6, <1>7
  <2>2. ASSUME NEW s \in SUBSET q, s # {}, f[s \ {Taken(s)}] = g[s \ {Taken(s)}]
        PROVE  f[s] = g[s]
    BY <1>2, <1>6, <2>2
  <2> QED
    BY <2>1, <2>2, FoldsAgree
<1> QED
  BY <1>5, <1>8, <1>9

\* The records of S that are of a category of s
Within(S, s) == {n \in S : \E x \in s : Category[ledger[n].workflow] = x.category}

\* The records of one category more.
LEMMA WithinMore ==
    ASSUME NEW S, IsFiniteSet(S), NEW s, NEW y, y \notin s,
           \A x \in s : x.category # y.category
    PROVE  /\ Cardinality(Within(S, s \cup {y}))
                = Cardinality(Within(S, s)) + Cardinality(InCategory(S, y.category))
           /\ Cardinality(Within(S, s)) \in Nat
<1>1. PICK A, B : A = Within(S, s) /\ B = InCategory(S, y.category)
  OBVIOUS
<1>2. /\ A \in SUBSET S /\ B \in SUBSET S /\ A \cap B = {}
      /\ Within(S, s \cup {y}) = A \cup B
  BY <1>1 DEF Within, InCategory
<1>3. IsFiniteSet(A) /\ IsFiniteSet(B)
  BY <1>2, FS_Subset
<1>4. Cardinality(A \cup B) = Cardinality(A) + Cardinality(B) - Cardinality(A \cap B)
  BY <1>3, FS_Union
<1>5. /\ Cardinality(A \cap B) = 0
      /\ Cardinality(A) \in Nat /\ Cardinality(B) \in Nat
  BY <1>2, <1>3, FS_EmptySet, FS_CardinalityType
<1>6. Cardinality(A \cup B) = Cardinality(A) + Cardinality(B)
  BY <1>4, <1>5
<1> QED
  BY <1>1, <1>2, <1>5, <1>6

\* The total of the categories is the number of their records.
LEMMA TotalFold ==
    ASSUME NEW S, IsFiniteSet(S), NEW q, IsFiniteSet(q),
           \A x \in q : x.observed = Cardinality(InCategory(S, x.category)),
           \A x, y \in q : x.category = y.category => x = y
    PROVE  Sets!FoldSet(LAMBDA x, n : n + x.observed, 0, q) = Cardinality(Within(S, q))
<1> DEFINE IsFold(f) ==
             f = [s \in SUBSET q |-> IF s = {} THEN 0
                                     ELSE f[s \ {Taken(s)}] + Taken(s).observed]
           g == [s \in SUBSET q |-> Cardinality(Within(S, s))]
           f == CHOOSE h : IsFold(h)
<1>1. \A s \in SUBSET q : s # {} => Taken(s) \in s /\ s \ {Taken(s)} \in SUBSET q
  BY DEF Taken
<1>2. \A s \in SUBSET q : g[s] = IF s = {} THEN 0
                                ELSE g[s \ {Taken(s)}] + Taken(s).observed
  <2> SUFFICES ASSUME NEW s \in SUBSET q
               PROVE  /\ s = {} => Cardinality(Within(S, s)) = 0
                      /\ s # {} => Cardinality(Within(S, s))
                            = Cardinality(Within(S, s \ {Taken(s)})) + Taken(s).observed
    BY <1>1
  <2>1. s = {} => Cardinality(Within(S, s)) = 0
    BY FS_EmptySet DEF Within
  <2>2. ASSUME s # {}
        PROVE  Cardinality(Within(S, s))
                 = Cardinality(Within(S, s \ {Taken(s)})) + Taken(s).observed
    <3>1. PICK t, y : t = s \ {Taken(s)} /\ y = Taken(s)
      OBVIOUS
    <3>2. /\ y \in q /\ y \notin t /\ s = t \cup {y}
          /\ \A x \in t : x \in q /\ x # y
      BY <1>1, <2>2, <3>1
    <3>3. y.observed = Cardinality(InCategory(S, y.category))
      BY <3>2
    <3>4. \A x \in t : x.category # y.category
      BY <3>2
    <3>5. Cardinality(Within(S, t \cup {y}))
            = Cardinality(Within(S, t)) + Cardinality(InCategory(S, y.category))
      BY <3>2, <3>4, WithinMore
    <3> QED
      BY <3>1, <3>2, <3>3, <3>5
  <2> QED
    BY <2>1, <2>2
<1>3. IsFold(g)
  BY <1>2
<1>4. IsFold(f)
  <2> HIDE DEF IsFold, g
  <2> QED
    BY <1>3
<1>5. Sets!FoldSet(LAMBDA x, n : n + x.observed, 0, q) = f[q]
  BY Zenon DEF Sets!FoldSet, Sets!MapThenFoldSet, Taken
<1>6. \A s \in SUBSET q : f[s] = IF s = {} THEN 0
                                ELSE f[s \ {Taken(s)}] + Taken(s).observed
  <2> HIDE DEF f
  <2> QED
    BY <1>4
<1>7. {} \in SUBSET q /\ q \in SUBSET q
  OBVIOUS
<1>8. g[q] = Cardinality(Within(S, q))
  BY <1>7
<1> HIDE DEF IsFold, f, g
<1>9. f[q] = g[q]
  <2>1. f[{}] = g[{}]
    BY <1>2, <1>6, <1>7
  <2>2. ASSUME NEW s \in SUBSET q, s # {}, f[s \ {Taken(s)}] = g[s \ {Taken(s)}]
        PROVE  f[s] = g[s]
    BY <1>2, <1>6, <2>2
  <2> QED
    BY <2>1, <2>2, FoldsAgree
<1> QED
  BY <1>5, <1>8, <1>9

\* The results of a candidate are finitely many, and each has a status.
LEMMA SelectedTyped ==
    ASSUME IInv, NEW c
    PROVE  /\ IsFiniteSet(Selected(c))
           /\ \A n \in Selected(c) : ledger[n].status \in Statuses
<1>1. ledger \in Seq(Record) /\ Len(ledger) \in Nat
  BY DEF IInv, TypeInv
<1>2. IsFiniteSet(1..Len(ledger))
  BY <1>1, FS_Interval
<1>3. Selected(c) \in SUBSET (1..Len(ledger))
  BY DEF Selected, Indices
<1>4. ASSUME NEW n \in Selected(c) PROVE ledger[n].status \in Statuses
  <2>1. n \in 1..Len(ledger) /\ ledger[n] \in Record
    BY <1>1, <1>3
  <2>2. ledger[n].type = "result"
    BY DEF Selected, Indices
  <2> QED
    BY <2>1, <2>2 DEF Record
<1> QED
  BY <1>2, <1>3, <1>4, FS_Subset

\* What reconciliation.category answers of a category says what the host reads
\* off its records.
LEMMA CategoryReads ==
    ASSUME NEW S, IsFiniteSet(S), \A n \in S : ledger[n].status \in Statuses,
           NEW k \in CategoriesOf(S)
    PROVE  LET T == InCategory(S, k)
               x == CategoryProjection(CategoryValue(k, T))
           IN  /\ x.category = k /\ x.observed = Cardinality(T)
               /\ x.status = Aggregate(StatusesOf(T)) /\ x.status \in Statuses
               /\ x.conflict = (Cardinality(StatusesOf(T)) > 1)
<1> DEFINE T == InCategory(S, k)
           v == CategoryValue(k, T)
           x == CategoryProjection(v)
           kinds == (IF v.pass > 0 THEN {"PASS"} ELSE {})
                      \cup (IF v.fail > 0 THEN {"FAIL"} ELSE {})
                      \cup (IF v.unknown > 0 THEN {"UNKNOWN"} ELSE {})
<1>1. /\ T \in SUBSET S /\ T # {} /\ IsFiniteSet(T)
      /\ \A n \in T : ledger[n].status \in Statuses
  BY FS_Subset DEF InCategory, CategoriesOf
<1>2. /\ v.category = k /\ v.pass = Count(T, "PASS") /\ v.fail = Count(T, "FAIL")
      /\ v.unknown = Count(T, "UNKNOWN")
  BY DEF CategoryValue
<1>3. /\ v.pass > 0 <=> "PASS" \in StatusesOf(T)
      /\ v.fail > 0 <=> "FAIL" \in StatusesOf(T)
      /\ v.unknown > 0 <=> "UNKNOWN" \in StatusesOf(T)
      /\ v.pass + v.fail + v.unknown = Cardinality(T)
  <2> HIDE DEF T, v
  <2> QED
    BY <1>1, <1>2, CountsWhole, CountsAddUp
<1>4. StatusesOf(T) \in SUBSET Statuses /\ StatusesOf(T) # {}
  <2> HIDE DEF T
  <2> QED
    BY <1>1 DEF StatusesOf
<1>5. kinds = StatusesOf(T)
  <2> HIDE DEF T, v
  <2> QED
    BY <1>3, <1>4 DEF Statuses
<1>6. /\ x.category = v.category /\ x.observed = v.pass + v.fail + v.unknown
      /\ x.status = Sets!FoldSet(LAMBDA y, s : Combine(s, y), "none", kinds)
      /\ x.conflict = (Cardinality(kinds) > 1)
  <2> HIDE DEF T, v
  <2> QED
    BY DEF CategoryProjection
<1>7. Sets!FoldSet(LAMBDA y, s : Combine(s, y), "none", kinds) = Joined(kinds)
  <2> HIDE DEF T, v, kinds
  <2>1. kinds \in SUBSET Statuses
    BY <1>4, <1>5
  <2> QED
    BY <2>1, KindsFold
<1>8. Joined(kinds) = Aggregate(StatusesOf(T)) /\ Aggregate(StatusesOf(T)) \in Statuses
  <2> HIDE DEF T, v, kinds
  <2> QED
    BY <1>4, <1>5 DEF Joined, Aggregate, Statuses
<1> HIDE DEF T, v, kinds, x
<1>9. /\ x.category = k /\ x.observed = Cardinality(T)
      /\ x.status = Aggregate(StatusesOf(T)) /\ x.status \in Statuses
      /\ x.conflict = (Cardinality(StatusesOf(T)) > 1)
  BY <1>2, <1>3, <1>5, <1>6, <1>7, <1>8
<1> QED
  BY <1>9 DEF T, v, x

\* What the kernel answers of the categories of S
CategoryAnswers(S) == {CategoryProjection(CategoryValue(k, InCategory(S, k))) : k \in CategoriesOf(S)}

\* It answers once of each, and of finitely many.
LEMMA AnswersFinite ==
    ASSUME NEW S, IsFiniteSet(S)
    PROVE  IsFiniteSet(CategoryAnswers(S))
<1> DEFINE C == CategoriesOf(S)
           P(k) == CategoryProjection(CategoryValue(k, InCategory(S, k)))
           f == [n \in S |-> Category[ledger[n].workflow]]
           g == [k \in C |-> P(k)]
<1>1. f \in Surjection(S, C)
  BY DEF CategoriesOf, Surjection
<1>2. IsFiniteSet(C)
  <2> HIDE DEF C, f
  <2> QED
    BY <1>1, FS_Surjection
<1>3. CategoryAnswers(S) = {P(k) : k \in C}
  BY DEF CategoryAnswers
<1> HIDE DEF C, P
<1>4. g \in Surjection(C, CategoryAnswers(S))
  BY <1>3 DEF Surjection
<1> HIDE DEF g
<1> QED
  BY <1>2, <1>4, FS_Surjection

\* Both reconcile records S to the same, and the host accepts the recount.
LEMMA Reconciles ==
    ASSUME NEW S, IsFiniteSet(S), \A n \in S : ledger[n].status \in Statuses
    PROVE  /\ CompatReconciliation(S) = NativeReconciliation(S)
           /\ ReconciliationConsistent(S, ReconciliationProjection(S))
<1> DEFINE P(k) == CategoryProjection(CategoryValue(k, InCategory(S, k)))
           A(k) == Aggregate(StatusesOf(InCategory(S, k)))
           D(k) == Cardinality(StatusesOf(InCategory(S, k))) > 1
<1>1. PICK C, q : C = CategoriesOf(S) /\ q = CategoryAnswers(S)
  OBVIOUS
<1>2. q = {P(k) : k \in C}
  BY <1>1 DEF CategoryAnswers
<1>3. \A k \in C : /\ P(k).category = k /\ P(k).observed = Cardinality(InCategory(S, k))
                   /\ P(k).status = A(k) /\ P(k).status \in Statuses
                   /\ P(k).conflict = D(k)
  BY <1>1, CategoryReads
<1>4. IsFiniteSet(q)
  BY <1>1, AnswersFinite
<1>5. PICK native, compat, state, answer :
         /\ native = NativeReconciliation(S) /\ compat = CompatReconciliation(S)
         /\ answer = ReconciliationProjection(S) /\ state = ReconciliationKernel(q)
  OBVIOUS
<1>6. answer = [categories |-> q, state |-> state]
  BY <1>1, <1>5 DEF ReconciliationProjection, CategoryAnswers
<1>7. native = [categories |-> {<<x.category, x.status>> : x \in q},
                conflicts |-> {x.category : x \in {y \in q : y.conflict}},
                aggregate |-> state.status]
  BY <1>5, <1>6 DEF NativeReconciliation
<1>8. compat = [categories |-> {<<k, A(k)>> : k \in C},
                conflicts |-> {k \in C : D(k)},
                aggregate |-> Aggregate({x[2] : x \in {<<k, A(k)>> : k \in C}})]
  BY <1>1, <1>5 DEF CompatReconciliation
<1> HIDE DEF P, A, D
<1>9. {<<k, A(k)>> : k \in C} = {<<x.category, x.status>> : x \in q}
  BY <1>2, <1>3
<1>10. {k \in C : D(k)} = {x.category : x \in {y \in q : y.conflict}}
  BY <1>2, <1>3
<1>11. PICK K : K = {x.status : x \in q}
  OBVIOUS
<1>12. {x[2] : x \in {<<k, A(k)>> : k \in C}} = K
  <2>1. \A k \in C : <<k, A(k)>>[2] = A(k)
    OBVIOUS
  <2>2. {x[2] : x \in {<<k, A(k)>> : k \in C}} = {A(k) : k \in C}
    BY <2>1
  <2>3. {A(k) : k \in C} = K
    BY <1>2, <1>3, <1>11
  <2> QED
    BY <2>2, <2>3
<1>13. state.status = Aggregate(K)
  <2>1. \A x \in q : x.status \in Statuses
    BY <1>2, <1>3
  <2>2. PICK all : all = Sets!FoldSet(LAMBDA x, s : Combine(s, x.status), "none", q)
    OBVIOUS
  <2>3. all = Joined(K)
    BY <1>4, <1>11, <2>1, <2>2, CategoriesFold
  <2>4. state.status = IF all = "none" THEN "UNKNOWN" ELSE all
    BY <1>5, <2>2 DEF ReconciliationKernel
  <2>5. Aggregate(K) # "none" /\ (K = {} => Aggregate(K) = "UNKNOWN")
    BY DEF Aggregate
  <2> QED
    BY <2>3, <2>4, <2>5 DEF Joined
<1>14. compat = native
  BY <1>7, <1>8, <1>9, <1>10, <1>12, <1>13
<1>15. \A x \in q : x.observed = Cardinality(InCategory(S, x.category))
  BY <1>2, <1>3
<1>16. \A x, y \in q : x.category = y.category => x = y
  BY <1>2, <1>3
<1>17. state.observed = Cardinality(S)
  <2>1. state.observed = Sets!FoldSet(LAMBDA x, n : n + x.observed, 0, q)
    BY <1>5 DEF ReconciliationKernel
  <2>2. Sets!FoldSet(LAMBDA x, n : n + x.observed, 0, q) = Cardinality(Within(S, q))
    BY <1>4, <1>15, <1>16, TotalFold
  <2>3. \A n \in S : \E x \in q : Category[ledger[n].workflow] = x.category
    BY <1>1, <1>2, <1>3 DEF CategoriesOf
  <2>4. Within(S, q) = S
    BY <2>3 DEF Within
  <2> QED
    BY <2>1, <2>2, <2>4
<1>18. state.conflicts = Cardinality({x \in q : x.conflict})
  BY <1>5 DEF ReconciliationKernel
<1>19. ReconciliationConsistent(S, answer)
  BY <1>6, <1>15, <1>17, <1>18 DEF ReconciliationConsistent
<1> QED
  BY <1>5, <1>14, <1>19

\* docs/mncs-native-spine.md: the results of every candidate, and those of the
\* project, come to the same statuses, conflicts and aggregate by the host and by
\* the packaged program, for any ledger that the ABI holds; _native_reconciliation never raises
\* NATIVE_RECONCILIATION_MISMATCH.
THEOREM ReconciliationSound == Spec => []ReconciliationAgrees
<1>1. IInv => ReconciliationAgrees
  BY SelectedTyped, Reconciles DEF ReconciliationAgrees
<1> QED
  BY <1>1, ReceiptsInvariant, PTL
=============================================================================
