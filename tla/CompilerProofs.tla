--------------------------- MODULE CompilerProofs ---------------------------
(***************************************************************************)
(* For any number of processes, artifacts and records: what select accepts *)
(* has been earned.  SelectionEarned is not inductive, because a benchmark *)
(* copies the status of a record and another program its validation; what  *)
(* is kept is StatusesEarned, which binds every PASS status to a PASS      *)
(* validation and every PASS validation to a judgement that was reported.  *)
(***************************************************************************)
EXTENDS Compiler, TLAPS

\* A successor is a candidate record when its parts are.
LEMMA SuccessorType ==
    ASSUME NEW r \in Candidate,
           NEW status \in Judgements \cup {"UNVALIDATED"},
           NEW benchmark \in Observations \cup {Nil},
           NEW validation \in Validation \cup {Nil}
    PROVE  /\ Successor(r, status, benchmark, validation) \in Candidate
           /\ Successor(r, status, benchmark, validation).status = status
           /\ Successor(r, status, benchmark, validation).validation = validation
           /\ Successor(r, status, benchmark, validation).artifact = r.artifact
  BY DEF Successor, Candidate, Disposition, Judgements

\* A judgement more takes nothing away from a record.
LEMMA SoundGrows ==
    ASSUME NEW r, Sound(r), made \subseteq made'
    PROVE  Sound(r)'
  BY DEF Sound

\* The proposal that is registered claims nothing.
LEMMA ProposalSound ==
    ASSUME NEW a \in Artifacts, NEW required \in Requirements
    PROVE  Proposal(a, required) \in Candidate /\ Sound(Proposal(a, required))
  BY DEF Proposal, Candidate, Sound

\* What the registry holds are candidates.
LEMMA RecordsAre ==
    ASSUME TypeOK, NEW r \in Records
    PROVE  r \in Candidate
  BY DEF TypeOK, Records

\* The effective status is a PASS only of a record that has one.
LEMMA EffectiveStatus ==
    ASSUME NEW r \in Candidate
    PROVE  /\ Effective(r) \in Judgements \cup {"UNVALIDATED"}
           /\ Effective(r) = "PASS" => r.status = "PASS"
  BY DEF Effective, Candidate, Judgements

\* Before anything is registered no status is unearned.
LEMMA InitSound == Init => StatusesEarned
<1> SUFFICES ASSUME Init PROVE StatusesEarned
  OBVIOUS
<1>1. CASE log = <<>> /\ made = {}
  BY <1>1 DEF Init, StatusesEarned, TypeOK, Records
<1>2. CASE \E r \in Legacy : log = <<r>> /\ made = {<<r.artifact, "PASS">>}
  <2>1. PICK r \in Legacy : log = <<r>> /\ made = {<<r.artifact, "PASS">>}
    BY <1>2
  <2>2. PICK a \in Artifacts, required \in Requirements :
          r = Successor(Proposal(a, required), "PASS", Nil,
                [judgement |-> "PASS", freshness |-> "current", artifact |-> Nil])
    BY <2>1 DEF Legacy
  <2>3. /\ r \in Candidate
        /\ r.artifact = a
        /\ r.validation = [judgement |-> "PASS", freshness |-> "current", artifact |-> Nil]
    <3>1. Proposal(a, required) \in Candidate /\ Proposal(a, required).artifact = a
      BY ProposalSound DEF Proposal
    <3>2. [judgement |-> "PASS", freshness |-> "current", artifact |-> Nil] \in Validation
      BY DEF Validation, Judgements
    <3> QED
      BY <2>2, <3>1, <3>2, SuccessorType DEF Judgements
  <2>4. <<a, "PASS">> \in made
    BY <2>1, <2>3
  <2>5. r.validation.judgement = "PASS" /\ r.validation.artifact = Nil
    BY <2>3
  <2>6. r.validation # Nil
    BY <2>3, CompilerAssumption DEF Validation, Judgements
  <2>7. Sound(r)
    BY <2>3, <2>4, <2>5, <2>6 DEF Sound
  <2>8. TypeOK
    BY <2>1, <2>3 DEF TypeOK, Init, Judgements
  <2>9. Records = {r}
    BY <2>1 DEF Records
  <2> QED
    BY <2>7, <2>8, <2>9 DEF StatusesEarned, Init
<1> QED
  BY <1>1, <1>2 DEF Init

\* What AttachValidation is about to commit: a PASS that has just been made.
LEMMA ValidationSound ==
    ASSUME StatusesEarned, NEW p \in Procs, NEW r \in Records, NEW about \in Artifacts,
           NEW judgement \in Judgements, NEW stale \in BOOLEAN, NEW declared \in BOOLEAN,
           AttachValidation(p, r, about, judgement, stale, declared)
    PROVE  StatusesEarned'
<1> DEFINE kept == IF stale THEN "UNKNOWN" ELSE judgement
           v == [judgement |-> kept, freshness |-> IF stale THEN "stale" ELSE "current",
                 artifact |-> r.artifact]
           next == Successor(r, kept, r.benchmark, v)
<1>1. /\ TypeOK /\ r \in Candidate
      /\ log' = log /\ Records' = Records
      /\ made \subseteq made' /\ made' \subseteq Artifacts \X Judgements
      /\ about = r.artifact => (call' = [call EXCEPT ![p] = next])
      /\ about # r.artifact => (call' = call)
  BY RecordsAre DEF StatusesEarned, AttachValidation, Prepare, Records, TypeOK
<1>2. \A s \in Records' : Sound(s)'
  BY <1>1, SoundGrows DEF StatusesEarned
<1>3. CASE about # r.artifact
  <2>1. TypeOK'
    BY <1>1, <1>3 DEF TypeOK
  <2>2. \A q \in Procs : (call[q] # Nil => Sound(call[q]))'
    BY <1>1, <1>3, SoundGrows DEF StatusesEarned
  <2> QED
    BY <1>2, <2>1, <2>2 DEF StatusesEarned
<1>4. CASE about = r.artifact
  <2>1. v \in Validation /\ v # Nil /\ kept \in Judgements
    BY <1>1, CompilerAssumption DEF Validation, Judgements, Candidate
  <2>2. /\ next \in Candidate /\ next.status = kept /\ next.validation = v
    <3>1. r.benchmark \in Observations \cup {Nil}
      BY <1>1 DEF Candidate
    <3> QED
      BY <1>1, <2>1, <3>1, SuccessorType
  <2>3. kept = "PASS" => <<r.artifact, "PASS">> \in made'
    BY <1>4 DEF AttachValidation
  <2>4. r.artifact \in Artifacts
    BY <1>1 DEF Candidate
  <2>5. Sound(next)'
    BY <2>1, <2>2, <2>3, <2>4 DEF Sound
  <2>6. TypeOK'
    BY <1>1, <1>4, <2>2 DEF TypeOK
  <2>7. ASSUME NEW q \in Procs PROVE (call[q] # Nil => Sound(call[q]))'
    <3>1. CASE q = p
      BY <1>1, <1>4, <2>5, <3>1 DEF TypeOK
    <3>2. CASE q # p
      BY <1>1, <1>4, <3>2, SoundGrows DEF StatusesEarned, TypeOK
    <3> QED
      BY <3>1, <3>2
  <2> QED
    BY <1>2, <2>6, <2>7 DEF StatusesEarned
<1> QED
  BY <1>3, <1>4

\* A step that makes no judgement and prepares a sound record.
LEMMA PrepareSound ==
    ASSUME StatusesEarned, NEW p \in Procs, NEW r, Sound(r), Prepare(p, r),
           UNCHANGED <<log, made>>
    PROVE  StatusesEarned'
<1>1. /\ TypeOK /\ Records' = Records
      /\ call' = [call EXCEPT ![p] = r] /\ r \in Candidate
  BY DEF StatusesEarned, Prepare, Records, Sound
<1>2. TypeOK'
  BY <1>1 DEF TypeOK
<1>3. \A s \in Records' : Sound(s)'
  BY <1>1, SoundGrows DEF StatusesEarned
<1>4. ASSUME NEW q \in Procs PROVE (call[q] # Nil => Sound(call[q]))'
  <2>1. CASE q = p
    BY <1>1, <2>1, SoundGrows DEF TypeOK
  <2>2. CASE q # p
    BY <1>1, <2>2, SoundGrows DEF StatusesEarned, TypeOK
  <2> QED
    BY <2>1, <2>2
<1> QED
  BY <1>2, <1>3, <1>4 DEF StatusesEarned

\* A benchmark and a copy take status and validation from sound records.
LEMMA SuccessorSound ==
    ASSUME NEW r, Sound(r), NEW from, Sound(from),
           NEW status \in Judgements \cup {"UNVALIDATED"},
           status = "PASS" => from.status = "PASS",
           NEW benchmark \in Observations \cup {Nil}
    PROVE  Sound(Successor(r, status, benchmark, from.validation))
<1>1. from.validation \in Validation \cup {Nil} /\ r \in Candidate
  BY DEF Sound, Candidate
<1> DEFINE next == Successor(r, status, benchmark, from.validation)
<1>2. next \in Candidate /\ next.status = status /\ next.validation = from.validation
  BY <1>1, SuccessorType
<1> QED
  BY <1>2 DEF Sound

\* A commit stores the record in hand, which has earned its status.
LEMMA CommitSound ==
    ASSUME StatusesEarned, NEW p \in Procs, Commit(p)
    PROVE  StatusesEarned'
<1>1. TypeOK /\ call[p] # Nil /\ Sound(call[p]) /\ call[p] \in Candidate
  BY DEF StatusesEarned, Commit, Sound
<1>2. made' = made /\ call' = [call EXCEPT ![p] = Nil]
  BY DEF Commit
<1>3. Records' \subseteq Records \cup {call[p]} /\ log' \in Seq(Candidate)
  <2>1. CASE call[p] \in Records
    BY <1>1, <2>1 DEF Commit, Records, TypeOK
  <2>2. CASE call[p] \notin Records
    BY <1>1, <2>2 DEF Commit, Records, TypeOK
  <2> QED
    BY <2>1, <2>2
<1>4. TypeOK'
  BY <1>1, <1>2, <1>3 DEF TypeOK
<1>5. \A s \in Records' : Sound(s)'
  BY <1>1, <1>2, <1>3, SoundGrows DEF StatusesEarned
<1>6. \A q \in Procs : (call[q] # Nil => Sound(call[q]))'
  BY <1>1, <1>2, SoundGrows DEF StatusesEarned, TypeOK
<1> QED
  BY <1>4, <1>5, <1>6 DEF StatusesEarned

\* Every step keeps every status earned.
LEMMA NextSound == StatusesEarned /\ [Next]_vars => StatusesEarned'
<1> SUFFICES ASSUME StatusesEarned, [Next]_vars PROVE StatusesEarned'
  OBVIOUS
<1>1. CASE UNCHANGED vars
  BY <1>1 DEF vars, StatusesEarned, TypeOK, Records, Sound
<1>2. ASSUME NEW p \in Procs, Commit(p) PROVE StatusesEarned'
  BY <1>2, CommitSound
<1>3. ASSUME NEW p \in Procs, NEW a \in Artifacts \cup {Baseline}, NEW required \in Requirements,
             Register(p, a, required)
      PROVE  StatusesEarned'
  <2>1. a \in Artifacts
    BY <1>3 DEF Register
  <2> QED
    BY <1>3, <2>1, ProposalSound, PrepareSound DEF Register
<1>4. ASSUME NEW p \in Procs, NEW r \in Records, NEW about \in Artifacts, NEW j \in Judgements,
             NEW stale \in BOOLEAN, NEW declared \in BOOLEAN,
             AttachValidation(p, r, about, j, stale, declared)
      PROVE  StatusesEarned'
  BY <1>4, ValidationSound
<1>5. ASSUME NEW p \in Procs, NEW r \in Records, NEW o \in Observations, AttachBenchmark(p, r, o)
      PROVE  StatusesEarned'
  <2>1. Sound(r) /\ r \in Candidate
    BY DEF StatusesEarned, Sound
  <2>2. Sound(Successor(r, Effective(r), o, r.validation))
    BY <2>1, EffectiveStatus, SuccessorSound
  <2> QED
    BY <1>5, <2>2, PrepareSound DEF AttachBenchmark
<1>6. ASSUME NEW p \in Procs, NEW r \in Records, NEW from \in Records, Copy(p, r, from)
      PROVE  StatusesEarned'
  <2>1. Sound(r) /\ Sound(from)
    BY DEF StatusesEarned
  <2>2. r.benchmark \in Observations \cup {Nil} /\ from.status \in Judgements \cup {"UNVALIDATED"}
    BY <2>1 DEF Sound, Candidate
  <2>3. Sound(Successor(r, from.status, r.benchmark, from.validation))
    BY <2>1, <2>2, SuccessorSound
  <2> QED
    BY <1>6, <2>3, PrepareSound DEF Copy
<1> QED
  BY <1>1, <1>2, <1>3, <1>4, <1>5, <1>6 DEF Next

\* In every reachable state, however many processes register, validate,
\* benchmark and copy, a stored or prepared record with the status PASS has a
\* PASS validation, and a PASS validation was reported of the artifact it names.
THEOREM StatusesInvariant == Spec => []StatusesEarned
  BY InitSound, NextSound, PTL DEF Spec

\* What compiler_candidate_select accepts has been earned.
THEOREM SelectionCorrect == Spec => []SelectionEarned
<1>1. StatusesEarned => SelectionEarned
  <2> SUFFICES ASSUME StatusesEarned, NEW r \in Records, Selectable(r)
               PROVE  /\ r.validation # Nil
                      /\ r.validation.judgement = "PASS"
                      /\ IF r.validation.artifact = Nil
                         THEN \E a \in Artifacts : <<a, "PASS">> \in made
                         ELSE <<r.artifact, "PASS">> \in made
    BY DEF SelectionEarned
  <2>1. Sound(r)
    BY DEF StatusesEarned
  <2>2. Effective(r) = "PASS"
    BY DEF Selectable, Disposition
  <2>3. r.status = "PASS" /\ Freshness(r) # "stale-artifact-mismatch"
    BY <2>2 DEF Effective
  <2>4. r.validation # Nil => r.validation.artifact \in {Nil, r.artifact}
    BY <2>3 DEF Freshness
  <2> QED
    BY <2>1, <2>3, <2>4 DEF Sound
<1> QED
  BY <1>1, StatusesInvariant, PTL
=============================================================================
