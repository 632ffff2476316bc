-------------------------- MODULE LifecycleProofs ---------------------------
(***************************************************************************)
(* Proofs about module Lifecycle, for every set of processes, contents,    *)
(* policies and workflows.  An evaluation is justified although every      *)
(* process authorizes on its own snapshot, because what it relies on       *)
(* (results, selections, freezes) is only ever added to the ledger: what a *)
(* process was authorized by stays true while it works.                    *)
(***************************************************************************)
EXTENDS Lifecycle, FiniteSetTheorems, WellFoundedInduction, TLAPS

\* Record k selects candidate c.
Selects(h, k, c) == k \in Of(h, "disposition", c) /\ h[k].disposition = "selected"

\* What process p is about to append.
Stores(p) ==
    /\ pc[p] = "commit"
    /\ history' = Append(history, draft[p])
    /\ grounds' = Append(grounds, GroundsOf(seen[p], draft[p]))

\* What was read to be required has passed for c.
PassedNow(h, R, c) == Passed(h, R, c, Len(h) + 1)

\* What a process relies on between the steps of a call.
Local(h, at, c, s, u, d) ==
    /\ at \in {"identify", "parse", "authorize"} => s \in Seen
    /\ at = "build" =>
         /\ c.op \in {"epoch", "freeze"}
         /\ c.op = "freeze" =>
              /\ s \in Seen /\ u.candidate \in Contents
              /\ Selects(h, u.freeze, u.candidate)
              /\ PassedNow(h, s.required, u.candidate)
              /\ PassedNow(h, s.planned, u.candidate)
    /\ at = "execute" => c.op \in {"work", "evaluate", "bundle"} /\ u.candidate \in Contents
    /\ at = "commit" /\ c.op = "work" => u.candidate \in Contents
    /\ at \in {"before", "check"} => c.op = "evaluate"
    /\ at \in {"before", "execute", "commit", "check"} /\ c.op = "evaluate" =>
         u.candidate \in Contents /\ Of(h, "freeze", u.candidate) # {}
    /\ at = "commit" =>
         /\ d \in Record
         /\ d.type \in {"disposition", "freeze"} => s \in Seen
         /\ d.type = "disposition" /\ d.disposition = "selected" =>
              PassedNow(h, s.required, d.candidate)
         /\ d.type = "freeze" =>
              /\ Selects(h, d.selection, d.candidate)
              /\ PassedNow(h, s.required, d.candidate)
              /\ PassedNow(h, s.planned, d.candidate)
         /\ d.type = "evaluation" => Of(h, "freeze", d.candidate) # {}

LocalInv ==
    \A p \in Procs : Local(history, pc[p], call[p], seen[p], subject[p], draft[p])

\* A selection has PASS for what its call read the policy to require.
SelectionsPassed(h, b) ==
    \A k \in Indices(h, "disposition") :
        h[k].disposition = "selected" => Passed(h, b[k].policy, h[k].candidate, k)

FreezesJustified(h, b) == \A m \in Indices(h, "freeze") : Justified(h, b, m)

EvaluationsJustified(h, b) ==
    \A n \in Indices(h, "evaluation") :
        \E m \in Of(h, "freeze", h[n].candidate) : m < n /\ Justified(h, b, m)

LedgerInv(h, b) ==
    /\ b \in Seq(Grounds) /\ Len(b) = Len(h)
    /\ SelectionsPassed(h, b)
    /\ FreezesJustified(h, b)
    /\ EvaluationsJustified(h, b)

IInv == TypeOK /\ LocalInv /\ LedgerInv(history, grounds)

-----------------------------------------------------------------------------
(* Lemmas about the projection *)

\* A set of positions that is not empty has a last one.
LEMMA LastIn ==
    ASSUME NEW N \in Nat, NEW S \in SUBSET (1..N), S # {}
    PROVE  Last(S) \in S
<1> DEFINE T == {N - n : n \in S}
<1>1. T \subseteq Nat /\ T # {}
  <2>1. \A n \in S : n \in 1..N
    OBVIOUS
  <2>2. \A n \in S : N - n \in Nat
    BY <2>1
  <2>3. PICK n : n \in S
    OBVIOUS
  <2>4. N - n \in T
    BY <2>3
  <2> QED
    BY <2>2, <2>4
<1>2. PICK x \in T : \A y \in T : ~(<<y, x>> \in OpToRel(<, Nat))
  <2> HIDE DEF T
  <2> QED
    BY <1>1, NatLessThanWellFounded, WFMin
<1>3. \A y \in T : ~(y < x)
  BY <1>1, <1>2 DEF OpToRel
<1>4. PICK n \in S : x = N - n
  OBVIOUS
<1>5. \A m \in S : m <= n
  <2> SUFFICES ASSUME NEW m \in S PROVE m <= n
    OBVIOUS
  <2>1. N - m \in T
    OBVIOUS
  <2>2. ~(N - m < N - n)
    BY <2>1, <1>3, <1>4
  <2> QED
    BY <2>2
<1>6. \E k \in S : \A m \in S : m <= k
  BY <1>5
<1> QED
  BY <1>6, Zenon DEF Last

\* The last record of a type, or of a type about a candidate.
LEMMA LastRecord ==
    ASSUME NEW h \in Seq(Record), NEW S \in SUBSET (1..Len(h)), S # {}
    PROVE  Last(S) \in S /\ Last(S) \in Nat
<1>1. Len(h) \in Nat
  OBVIOUS
<1>2. Last(S) \in S
  BY <1>1, LastIn, Zenon
<1>3. \A n \in S : n \in Nat
  BY <1>1
<1> QED
  BY <1>2, <1>3, Zenon

\* The current candidate is a content.
LEMMA CurrentContent ==
    ASSUME NEW h \in Seq(Record), HasCandidate(h)
    PROVE  CurrentCandidate(h) \in Contents
<1>1. ActiveCandidates(h) \in SUBSET (1..Len(h))
  BY DEF ActiveCandidates, Indices
<1>2. Last(ActiveCandidates(h)) \in ActiveCandidates(h)
  BY <1>1, LastRecord DEF HasCandidate
<1>3. PICK n \in 1..Len(h) : n = Last(ActiveCandidates(h)) /\ h[n].type = "candidate"
  BY <1>2 DEF ActiveCandidates, Indices
<1>4. h[n] \in Record
  OBVIOUS
<1>5. h[n].id \in Contents
  BY <1>3, <1>4 DEF Record, EpochRecord, CandidateRecord, ResultRecord,
     EvaluationRecord, BundleRecord, DispositionRecord, FreezeRecord
<1> QED
  BY <1>3, <1>5 DEF CurrentCandidate

\* The active epoch is a position of the ledger.
LEMMA EpochPosition ==
    ASSUME NEW h \in Seq(Record), HasEpoch(h)
    PROVE  ActiveEpoch(h) \in Nat
<1>1. Indices(h, "epoch") \in SUBSET (1..Len(h))
  BY DEF Indices
<1> QED
  BY <1>1, LastRecord DEF HasEpoch, ActiveEpoch

\* The freeze of the projection is a position of the ledger, or none.
LEMMA FreezePosition ==
    ASSUME NEW h \in Seq(Record)
    PROVE  Freeze(h) \in Nat \cup {Nil}
<1>1. Of(h, "freeze", CurrentCandidate(h)) \in SUBSET (1..Len(h))
  BY DEF Of, Indices
<1> QED
  BY <1>1, LastRecord DEF Freeze, Frozen

\* The disposition of the projection is one of the current candidate.
LEMMA DispositionPosition ==
    ASSUME NEW h \in Seq(Record), Disposed(h)
    PROVE  Disposition(h) \in Of(h, "disposition", CurrentCandidate(h)) /\ Disposition(h) \in Nat
<1>1. Of(h, "disposition", CurrentCandidate(h)) \in SUBSET (1..Len(h))
  BY DEF Of, Indices
<1> QED
  BY <1>1, LastRecord DEF Disposed, Disposition

-----------------------------------------------------------------------------
(* The ledger only grows *)

\* Appending a record leaves the others where they are.
LEMMA Grow ==
    ASSUME NEW h \in Seq(Record), NEW r \in Record
    PROVE  LET g == Append(h, r)
           IN  /\ g \in Seq(Record)
               /\ Len(g) = Len(h) + 1
               /\ g[Len(g)] = r
               /\ \A n \in 1..Len(h) : g[n] = h[n]
               /\ \A t : Indices(h, t) \subseteq Indices(g, t)
               /\ \A t : \A n \in Indices(g, t) :
                     n \in Indices(h, t) \/ (n = Len(g) /\ r.type = t)
               /\ \A t, c : Of(h, t, c) \subseteq Of(g, t, c)
<1> DEFINE g == Append(h, r)
<1>1. g \in Seq(Record) /\ Len(g) = Len(h) + 1 /\ g[Len(g)] = r
      /\ \A n \in 1..Len(h) : g[n] = h[n]
  OBVIOUS
<1> HIDE DEF g
<1>2. \A t : Indices(h, t) \subseteq Indices(g, t)
  BY <1>1 DEF Indices
<1>3. \A t : \A n \in Indices(g, t) : n \in Indices(h, t) \/ (n = Len(g) /\ r.type = t)
  BY <1>1 DEF Indices
<1>4. \A t, c : Of(h, t, c) \subseteq Of(g, t, c)
  BY <1>1, <1>2 DEF Of, Indices
<1> QED
  BY <1>1, <1>2, <1>3, <1>4 DEF g

\* What has passed for a candidate stays so.
LEMMA PassedStable ==
    ASSUME NEW h \in Seq(Record), NEW r \in Record, NEW n, NEW c, NEW R,
           Passed(h, R, c, n)
    PROVE  Passed(Append(h, r), R, c, n)
<1> DEFINE g == Append(h, r)
<1>1. Of(h, "result", c) \subseteq Of(g, "result", c)
  BY Grow
<1>2. \A j \in Of(h, "result", c) : g[j] = h[j]
  BY Grow DEF Of, Indices
<1> HIDE DEF g
<1>3. Passed(g, R, c, n)
  BY <1>1, <1>2 DEF Passed
<1> QED
  BY <1>3 DEF g

\* What has passed before a record has passed before the next too.
LEMMA PassedNowStable ==
    ASSUME NEW h \in Seq(Record), NEW r \in Record, NEW c, NEW R, PassedNow(h, R, c)
    PROVE  PassedNow(Append(h, r), R, c)
<1> DEFINE g == Append(h, r)
<1>1. Passed(g, R, c, Len(h) + 1)
  BY PassedStable DEF PassedNow
<1>2. Len(g) = Len(h) + 1 /\ Len(h) \in Nat
  BY Grow
<1>3. \A j \in Of(g, "result", c) : j \in Nat
  BY DEF Of, Indices
<1> HIDE DEF g
<1>4. PassedNow(g, R, c)
  BY <1>1, <1>2, <1>3 DEF Passed, PassedNow
<1> QED
  BY <1>4 DEF g

\* A selection stays in the ledger.
LEMMA SelectionStable ==
    ASSUME NEW h \in Seq(Record), NEW r \in Record, NEW k, NEW c, Selects(h, k, c)
    PROVE  Selects(Append(h, r), k, c)
<1> DEFINE g == Append(h, r)
<1>1. k \in Of(g, "disposition", c)
  BY Grow DEF Selects
<1>2. g[k] = h[k]
  BY Grow DEF Selects, Of, Indices
<1> HIDE DEF g
<1>3. Selects(g, k, c)
  BY <1>1, <1>2 DEF Selects
<1> QED
  BY <1>3 DEF g

\* A justified freeze stays justified.
LEMMA JustifiedStable ==
    ASSUME NEW h \in Seq(Record), NEW r \in Record, NEW b \in Seq(Grounds),
           NEW x \in Grounds, Len(b) = Len(h), NEW m \in Indices(h, "freeze"),
           Justified(h, b, m)
    PROVE  Justified(Append(h, r), Append(b, x), m)
<1> DEFINE g == Append(h, r)
           e == Append(b, x)
           k == h[m].selection
           c == h[m].candidate
<1>1. m \in 1..Len(h) /\ k \in 1..Len(h)
  BY DEF Justified, Of, Indices
<1>2. g[m] = h[m] /\ g[k] = h[k] /\ e[m] = b[m] /\ e[k] = b[k]
  BY <1>1, Grow
<1>3. k \in Of(g, "disposition", c)
  BY Grow DEF Justified
<1>4. /\ Passed(g, b[k].policy, c, k)
      /\ Passed(g, b[m].policy, c, m)
      /\ Passed(g, b[m].plan, c, m)
  BY PassedStable DEF Justified
<1> HIDE DEF g, e
<1>5. Justified(g, e, m)
  BY <1>2, <1>3, <1>4 DEF Justified
<1> QED
  BY <1>5 DEF g, e

\* What a process relies on stays true when somebody appends a record.
LEMMA LocalStable ==
    ASSUME NEW h \in Seq(Record), NEW r \in Record,
           NEW at, NEW c, NEW s, NEW u, NEW d, Local(h, at, c, s, u, d)
    PROVE  Local(Append(h, r), at, c, s, u, d)
<1> DEFINE g == Append(h, r)
<1>1. ASSUME at = "build", c.op = "freeze"
      PROVE  /\ Selects(g, u.freeze, u.candidate)
             /\ PassedNow(g, s.required, u.candidate)
             /\ PassedNow(g, s.planned, u.candidate)
  BY <1>1, SelectionStable, PassedNowStable DEF Local
<1>2. \A x : Of(h, "freeze", x) # {} => Of(g, "freeze", x) # {}
  BY Grow
<1>3. ASSUME at = "commit", d.type = "freeze"
      PROVE  /\ Selects(g, d.selection, d.candidate)
             /\ PassedNow(g, s.required, d.candidate)
             /\ PassedNow(g, s.planned, d.candidate)
  BY <1>3, SelectionStable, PassedNowStable DEF Local
<1>4. ASSUME at = "commit", d.type = "disposition", d.disposition = "selected"
      PROVE  PassedNow(g, s.required, d.candidate)
  BY <1>4, PassedNowStable DEF Local
<1> HIDE DEF g
<1>5. Local(g, at, c, s, u, d)
  BY <1>1, <1>2, <1>3, <1>4 DEF Local
<1> QED
  BY <1>5 DEF g

\* A record that its committer relies on rightly keeps the ledger justified.
LEMMA LedgerStep ==
    ASSUME NEW h \in Seq(Record), NEW b, LedgerInv(h, b),
           NEW c, NEW s, NEW u, NEW d, Local(h, "commit", c, s, u, d)
    PROVE  LedgerInv(Append(h, d), Append(b, GroundsOf(s, d)))
<1> DEFINE g == Append(h, d)
           x == GroundsOf(s, d)
           e == Append(b, x)
<1>0. d \in Record /\ x \in Grounds /\ b \in Seq(Grounds) /\ Len(b) = Len(h)
  BY DEF Local, GroundsOf, Grounds, Seen, LedgerInv
<1>1. /\ g \in Seq(Record) /\ Len(g) = Len(h) + 1 /\ Len(h) \in Nat /\ g[Len(g)] = d
      /\ \A n \in 1..Len(h) : g[n] = h[n]
      /\ \A t : \A n \in Indices(g, t) : n \in Indices(h, t) \/ (n = Len(g) /\ d.type = t)
      /\ \A t, y : Of(h, t, y) \subseteq Of(g, t, y)
      /\ \A t : Indices(h, t) \subseteq Indices(g, t)
  BY <1>0, Grow
<1>2. \A t : \A n \in Indices(h, t) : n \in 1..Len(h)
  BY DEF Indices
<1>e. /\ e \in Seq(Grounds) /\ Len(e) = Len(g) /\ e[Len(g)] = x
      /\ \A n \in 1..Len(h) : e[n] = b[n]
  <2> HIDE DEF x
  <2> QED
    BY <1>0, <1>1
<1> HIDE DEF e
<1>s. ASSUME NEW k \in Indices(g, "disposition"), g[k].disposition = "selected"
      PROVE  Passed(g, e[k].policy, g[k].candidate, k)
  <2>1. CASE k \in Indices(h, "disposition")
    <3>1. g[k] = h[k] /\ e[k] = b[k]
      BY <2>1, <1>1, <1>2, <1>e
    <3>2. Passed(h, b[k].policy, h[k].candidate, k)
      BY <2>1, <3>1, <1>s DEF LedgerInv, SelectionsPassed
    <3>3. Passed(g, b[k].policy, h[k].candidate, k)
      BY <3>2, <1>0, PassedStable
    <3> QED
      BY <3>1, <3>3
  <2>2. CASE k = Len(g) /\ d.type = "disposition"
    <3>1. g[k] = d /\ k = Len(h) + 1 /\ e[k] = x /\ x.policy = s.required
      BY <2>2, <1>1, <1>e DEF GroundsOf
    <3>2. Passed(h, s.required, d.candidate, Len(h) + 1)
      BY <2>2, <3>1, <1>s DEF Local, PassedNow
    <3>3. Passed(g, s.required, d.candidate, Len(h) + 1)
      BY <3>2, <1>0, PassedStable
    <3> HIDE DEF g, x
    <3> QED
      BY <3>1, <3>3
  <2> QED
    BY <1>1, <2>1, <2>2
<1>3. ASSUME NEW m \in Indices(g, "freeze")
      PROVE  Justified(g, e, m)
  <2>1. CASE m \in Indices(h, "freeze")
    BY <2>1, <1>0, JustifiedStable DEF LedgerInv, FreezesJustified, e
  <2>2. CASE m = Len(g) /\ d.type = "freeze"
    <3> DEFINE k == d.selection
    <3>1. /\ g[m] = d /\ m = Len(h) + 1 /\ e[m] = x
          /\ x.policy = s.required /\ x.plan = s.planned
      BY <2>2, <1>1, <1>e DEF GroundsOf
    <3>2. /\ k \in Of(h, "disposition", d.candidate) /\ h[k].disposition = "selected"
          /\ Passed(h, s.required, d.candidate, Len(h) + 1)
          /\ Passed(h, s.planned, d.candidate, Len(h) + 1)
      BY <2>2 DEF Local, Selects, PassedNow
    <3>3. k \in Indices(h, "disposition") /\ h[k].candidate = d.candidate
      BY <3>2 DEF Of
    <3>4. /\ k \in 1..Len(h) /\ k \in Indices(g, "disposition") /\ g[k] = h[k] /\ k < m
          /\ k \in Of(g, "disposition", d.candidate)
      BY <3>2, <3>3, <1>1, <1>2, <2>2
    <3>5. /\ Passed(g, s.required, d.candidate, m)
          /\ Passed(g, s.planned, d.candidate, m)
      BY <3>1, <3>2, <1>0, PassedStable
    <3>6. Passed(g, e[k].policy, d.candidate, k)
      BY <3>2, <3>3, <3>4, <1>s
    <3> HIDE DEF g, x
    <3> QED
      BY <3>1, <3>2, <3>4, <3>5, <3>6 DEF Justified
  <2> QED
    BY <1>1, <2>1, <2>2
<1>4. ASSUME NEW n \in Indices(g, "evaluation")
      PROVE  \E m \in Of(g, "freeze", g[n].candidate) : m < n /\ Justified(g, e, m)
  <2>1. CASE n \in Indices(h, "evaluation")
    <3>1. g[n] = h[n]
      BY <2>1, <1>1, <1>2
    <3>2. PICK m \in Of(h, "freeze", h[n].candidate) : m < n /\ Justified(h, b, m)
      BY <2>1 DEF LedgerInv, EvaluationsJustified
    <3>3. m \in Of(g, "freeze", g[n].candidate)
      BY <3>1, <1>1
    <3>4. m \in Indices(g, "freeze")
      BY <3>3 DEF Of
    <3> QED
      BY <3>2, <3>3, <3>4, <1>3
  <2>2. CASE n = Len(g) /\ d.type = "evaluation"
    <3>1. PICK m : m \in Of(h, "freeze", d.candidate)
      BY <2>2 DEF Local
    <3>2. m \in Of(g, "freeze", g[n].candidate)
      BY <3>1, <2>2, <1>1
    <3>3. m \in Indices(g, "freeze") /\ m \in Indices(h, "freeze")
      BY <3>1, <3>2 DEF Of
    <3>4. m < n
      BY <3>3, <2>2, <1>1, <1>2
    <3> QED
      BY <3>2, <3>3, <3>4, <1>3
  <2> QED
    BY <1>1, <2>1, <2>2
<1> HIDE DEF g
<1>5. LedgerInv(g, e)
  BY <1>1, <1>e, <1>s, <1>3, <1>4
     DEF LedgerInv, SelectionsPassed, FreezesJustified, EvaluationsJustified
<1> QED
  BY <1>5 DEF g, e, x

-----------------------------------------------------------------------------
(* The steps *)

\* A process that leaves the others alone and justifies its own next step
\* preserves the invariant.
LEMMA Frame ==
    ASSUME IInv, NEW p \in Procs,
           UNCHANGED <<history, grounds>> \/ Stores(p),
           \A q \in Procs \ {p} :
              /\ pc'[q] = pc[q] /\ call'[q] = call[q] /\ seen'[q] = seen[q]
              /\ subject'[q] = subject[q] /\ draft'[q] = draft[q],
           Local(history', pc'[p], call'[p], seen'[p], subject'[p], draft'[p]),
           TypeOK'
    PROVE  IInv'
<1>1. history \in Seq(Record)
  BY DEF IInv, TypeOK
<1>2. CASE UNCHANGED <<history, grounds>>
  <2>1. LedgerInv(history', grounds')
    BY <1>2 DEF IInv
  <2>2. LocalInv'
    BY <1>2 DEF IInv, LocalInv
  <2> QED
    BY <2>1, <2>2 DEF IInv
<1>3. CASE Stores(p)
  <2>1. Local(history, "commit", call[p], seen[p], subject[p], draft[p])
    BY <1>3 DEF IInv, LocalInv, Stores
  <2>2. draft[p] \in Record
    BY <2>1 DEF Local
  <2>3. LedgerInv(history', grounds')
    BY <1>1, <1>3, <2>1, LedgerStep DEF IInv, Stores
  <2>4. ASSUME NEW q \in Procs
        PROVE  Local(history', pc'[q], call'[q], seen'[q], subject'[q], draft'[q])
    <3>1. CASE q = p
      BY <3>1
    <3>2. CASE q # p
      <4>1. Local(history, pc[q], call[q], seen[q], subject[q], draft[q])
        BY DEF IInv, LocalInv
      <4>2. Local(history', pc[q], call[q], seen[q], subject[q], draft[q])
        BY <4>1, <1>1, <1>3, <2>2, LocalStable DEF Stores
      <4> QED
        BY <4>2, <3>2
    <3> QED
      BY <3>1, <3>2
  <2> QED
    BY <2>3, <2>4 DEF IInv, LocalInv
<1> QED
  BY <1>2, <1>3

\* What is appended has its type.
LEMMA StoreTypes ==
    ASSUME IInv, NEW p \in Procs, Stores(p)
    PROVE  /\ draft[p] \in Record /\ history' \in Seq(Record)
           /\ grounds' \in Seq(Grounds) /\ Len(grounds') = Len(history')
<1>1. Local(history, "commit", call[p], seen[p], subject[p], draft[p])
  BY DEF IInv, LocalInv, Stores
<1>2. draft[p] \in Record /\ GroundsOf(seen[p], draft[p]) \in Grounds
  BY <1>1 DEF Local, GroundsOf, Grounds, Seen
<1>3. history \in Seq(Record) /\ grounds \in Seq(Grounds) /\ Len(grounds) = Len(history)
  BY DEF IInv, TypeOK
<1> QED
  BY <1>2, <1>3 DEF Stores

\* A process that ends its call relies on nothing.
LEMMA EndStep ==
    ASSUME IInv, NEW p \in Procs, End(p),
           UNCHANGED <<history, grounds>> \/ Stores(p),
           world' \in World
    PROVE  IInv'
<1>1. /\ pc'[p] = "idle"
      /\ \A q \in Procs \ {p} :
            /\ pc'[q] = pc[q] /\ call'[q] = call[q] /\ seen'[q] = seen[q]
            /\ subject'[q] = subject[q] /\ draft'[q] = draft[q]
  BY DEF End, IInv, TypeOK
<1>2. Local(history', pc'[p], call'[p], seen'[p], subject'[p], draft'[p])
  BY <1>1 DEF Local
<1>3. /\ history' \in Seq(Record) /\ grounds' \in Seq(Grounds)
      /\ Len(grounds') = Len(history')
  <2>1. CASE UNCHANGED <<history, grounds>>
    BY <2>1 DEF IInv, TypeOK
  <2>2. CASE Stores(p)
    BY <2>2, StoreTypes
  <2> QED
    BY <2>1, <2>2
<1>4. NoCall \in Calls
  BY DEF NoCall, Calls
<1>5. NoSubject \in [candidate : Contents \cup {Nil}, freeze : Nat \cup {Nil}]
  BY DEF NoSubject
<1>6. TypeOK'
  BY <1>3, <1>4, <1>5 DEF End, IInv, TypeOK
<1> QED
  BY <1>1, <1>2, <1>6, Frame

\* An observation has the type of what is on disk.
LEMMA LookType ==
    ASSUME world \in World
    PROVE  Look \in Seen
BY DEF Look, World, Seen

\* The steps that begin a call.
LEMMA BeginSteps ==
    ASSUME IInv, NEW p \in Procs,
           \/ \E c \in Calls : Call(p, c)
           \/ Refresh(p)
           \/ RefreshCall(p)
           \/ Identify(p)
           \/ Parse(p)
           \/ LookBefore(p)
    PROVE  IInv'
<1> USE DEF IInv, TypeOK, Goto, files
<1>0. Look \in Seen
  BY LookType
<1>1. CASE \E c \in Calls : Call(p, c)
  <2>1. PICK c \in Calls : Call(p, c)
    BY <1>1
  <2> DEFINE at == CASE c.op \in {"selected", "rejected"} -> "parse"
                     [] c.op = "freeze" -> "identify"
                     [] OTHER -> "authorize"
             s == [Look EXCEPT !.planned = IF c.op = "freeze"
                                           THEN Required[world.policy] ELSE {}]
  <2>2. at \in {"parse", "identify", "authorize"}
    OBVIOUS
  <2>3. s \in Seen
    BY ConstantsAssumption DEF Look, Seen, World
  <2>4. /\ pc' = [pc EXCEPT ![p] = at] /\ call' = [call EXCEPT ![p] = c]
        /\ seen' = [seen EXCEPT ![p] = s] /\ UNCHANGED <<files, subject, draft>>
    BY <2>1 DEF Call
  <2> HIDE DEF at, s
  <2>5. TypeOK'
    BY <2>2, <2>3, <2>4
  <2>6. Local(history', pc'[p], call'[p], seen'[p], subject'[p], draft'[p])
    BY <2>2, <2>3, <2>4 DEF Local
  <2> QED
    BY <2>4, <2>5, <2>6, Frame
<1>2. CASE Refresh(p)
  <2>1. [op |-> "refresh", parent |-> CurrentCandidate(history)] \in Calls
    <3>1. CurrentCandidate(history) \in Contents
      BY <1>2, CurrentContent DEF Refresh
    <3> QED
      BY <3>1 DEF Calls
  <2>2. TypeOK'
    BY <1>2, <2>1 DEF Refresh
  <2>3. Local(history', pc'[p], call'[p], seen'[p], subject'[p], draft'[p])
    BY <1>2 DEF Refresh, Local
  <2> QED
    BY <1>2, <2>2, <2>3, Frame DEF Refresh
<1>3. CASE RefreshCall(p)
  <2>1. TypeOK'
    BY <1>0, <1>3 DEF RefreshCall
  <2>2. Local(history', pc'[p], call'[p], seen'[p], subject'[p], draft'[p])
    BY <1>0, <1>3 DEF RefreshCall, Local
  <2> QED
    BY <1>3, <2>1, <2>2, Frame DEF RefreshCall
<1>4. CASE LookBefore(p)
  <2>1. TypeOK'
    BY <1>0, <1>4 DEF LookBefore
  <2>2. Local(history, pc[p], call[p], seen[p], subject[p], draft[p])
    BY DEF LocalInv
  <2>3. Local(history', pc'[p], call'[p], seen'[p], subject'[p], draft'[p])
    BY <1>4, <2>2 DEF LookBefore, Local
  <2> QED
    BY <1>4, <2>1, <2>3, Frame DEF LookBefore
<1>5. CASE Parse(p)
  <2>1. seen[p] \in Seen
    BY <1>5 DEF Parse, LocalInv, Local
  <2>r. Required[world.policy] \in SUBSET Workflows /\ world.content \in Contents
    BY ConstantsAssumption DEF World
  <2>s. [seen[p] EXCEPT !.required = Required[world.policy], !.content = world.content] \in Seen
    BY <2>1, <2>r DEF Seen
  <2>2. seen'[p] \in Seen /\ pc'[p] = "authorize"
    BY <1>5, <2>s DEF Parse
  <2>3. TypeOK'
    BY <1>5, <2>2 DEF Parse
  <2>4. Local(history', pc'[p], call'[p], seen'[p], subject'[p], draft'[p])
    BY <2>2 DEF Local
  <2> QED
    BY <1>5, <2>3, <2>4, Frame DEF Parse
<1>6. CASE Identify(p)
  <2>1. seen[p] \in Seen
    BY <1>6 DEF Identify, LocalInv, Local
  <2>2. seen'[p] \in Seen /\ pc'[p] = "parse"
    BY <1>6, <1>0, <2>1 DEF Identify, Look, Seen
  <2>3. TypeOK'
    BY <1>6, <2>2 DEF Identify
  <2>4. Local(history', pc'[p], call'[p], seen'[p], subject'[p], draft'[p])
    BY <2>2 DEF Local
  <2> QED
    BY <1>6, <2>3, <2>4, Frame DEF Identify
<1> QED
  BY <1>1, <1>2, <1>3, <1>4, <1>5, <1>6

\* What a candidate is ready for has passed.
LEMMA ReadyPassed ==
    ASSUME NEW h \in Seq(Record), NEW o, NEW R, Ready(h, o, R)
    PROVE  PassedNow(h, R, CurrentCandidate(h))
<1> DEFINE c == CurrentCandidate(h)
<1>1. ASSUME NEW w \in R
      PROVE  \E j \in Of(h, "result", c) :
                j < Len(h) + 1 /\ h[j].workflow = w /\ h[j].status = "PASS"
  <2>1. "PASS" \in Evidence(h, c, w)
    BY <1>1 DEF Ready
  <2>2. PICK j \in Of(h, "result", c) : h[j].workflow = w /\ h[j].status = "PASS"
    BY <2>1 DEF Evidence
  <2>3. j < Len(h) + 1
    BY <2>2 DEF Of, Indices
  <2> QED
    BY <2>2, <2>3
<1> QED
  BY <1>1 DEF Passed, PassedNow, Ready

\* What is observed at the authorization does not change what was read.
LEMMA ObservedRequirements ==
    ASSUME NEW p \in Procs, seen[p] \in Seen
    PROVE  /\ Observed(p).required = seen[p].required
           /\ Observed(p).planned = seen[p].planned
BY DEF Observed, Seen

\* Candidates and dispositions are prepared with the types of their records.
LEMMA AuthorizeRecordStep ==
    ASSUME IInv, NEW p \in Procs, AuthorizeRecord(p)
    PROVE  IInv'
<1> USE DEF Goto, files
<1>1. /\ history \in Seq(Record) /\ call[p] \in Calls /\ pc[p] = "authorize" /\ Allowed(p)
      /\ call[p].op \in {"register", "refresh", "selected", "rejected"}
      /\ pc' = [pc EXCEPT ![p] = "commit"]
      /\ UNCHANGED <<history, grounds, world, call, seen, subject>>
  BY DEF AuthorizeRecord, IInv, TypeOK
<1>2. seen[p] \in Seen
  BY <1>1 DEF IInv, LocalInv, Local
<1>3. CASE call[p].op \in {"register", "refresh"}
  <2> DEFINE r == [type |-> "candidate", id |-> seen[p].content,
                   parent |-> call[p].parent, epoch |-> ActiveEpoch(history)]
  <2>1. draft' = [draft EXCEPT ![p] = r]
    BY <1>3 DEF AuthorizeRecord, Prepare
  <2>2. MayRegister(history, Observed(p), call[p].parent)
    BY <1>1, <1>3 DEF Allowed
  <2>3. ActiveEpoch(history) \in Nat
    BY <1>1, <2>2, EpochPosition DEF MayRegister
  <2>4. call[p].parent \in Contents \cup {Nil}
    BY <1>1, <1>3 DEF Calls
  <2>5. r \in CandidateRecord
    BY <1>2, <2>3, <2>4 DEF CandidateRecord, Seen
  <2>6. r \in Record /\ r.type = "candidate"
    BY <2>5 DEF Record
  <2> HIDE DEF r
  <2>7. TypeOK' /\ draft'[p] = r /\ pc'[p] = "commit"
    BY <1>1, <2>1, <2>6 DEF IInv, TypeOK
  <2>8. Local(history', pc'[p], call'[p], seen'[p], subject'[p], draft'[p])
    BY <1>1, <1>3, <2>6, <2>7 DEF Local
  <2> QED
    BY <1>1, <2>1, <2>7, <2>8, Frame DEF IInv, TypeOK
<1>4. CASE call[p].op \in {"selected", "rejected"}
  <2> DEFINE o == Observed(p)
             r == [type |-> "disposition", candidate |-> CurrentCandidate(history),
                   disposition |-> call[p].op, policy |-> seen[p].policy,
                   evidence |-> ReadinessStatus(history, o)]
  <2>1. draft' = [draft EXCEPT ![p] = r]
    BY <1>4 DEF AuthorizeRecord, Prepare
  <2>2. MayDispose(history, o, call[p].op)
    BY <1>1, <1>4 DEF Allowed
  <2>3. CurrentCandidate(history) \in Contents
    BY <1>1, <2>2, CurrentContent DEF MayDispose, Fresh
  <2>4. ReadinessStatus(history, o) \in {"PASS", "FAIL", "UNKNOWN"}
    BY DEF ReadinessStatus
  <2>5. r \in DispositionRecord
    BY <1>2, <1>4, <2>3, <2>4 DEF DispositionRecord, Seen
  <2>6. /\ r \in Record /\ r.type = "disposition" /\ r.disposition = call[p].op
        /\ r.candidate = CurrentCandidate(history)
    BY <2>5 DEF Record
  <2>p. call[p].op = "selected" =>
          PassedNow(history, seen[p].required, CurrentCandidate(history))
    BY <1>1, <1>2, <2>2, ReadyPassed, ObservedRequirements DEF MayDispose
  <2> HIDE DEF r, o
  <2>7. TypeOK' /\ draft'[p] = r /\ pc'[p] = "commit"
    BY <1>1, <2>1, <2>6 DEF IInv, TypeOK
  <2>8. Local(history', pc'[p], call'[p], seen'[p], subject'[p], draft'[p])
    BY <1>1, <1>2, <1>4, <2>6, <2>7, <2>p DEF Local
  <2> QED
    BY <1>1, <2>1, <2>7, <2>8, Frame DEF IInv, TypeOK
<1> QED
  BY <1>1, <1>3, <1>4

\* The kernel finds a bundle ready only if there is a candidate.
LEMMA ReadyHasCandidate ==
    ASSUME NEW h, NEW o, NEW mode, NativeBundle(h, o, mode)
    PROVE  HasCandidate(h)
  BY DEF NativeBundle, BundlePreconditionProjection, BundlePreconditions

\* Every other call is authorized only for the current candidate.
LEMMA AuthorizedHasCandidate ==
    ASSUME NEW p \in Procs, Allowed(p),
           call[p].op \in {"freeze", "work", "evaluate", "bundle"}
    PROVE  HasCandidate(history)
<1>1. CASE call[p].op = "freeze"
  BY <1>1 DEF Allowed, MayFreeze, Fresh
<1>2. CASE call[p].op = "work"
  BY <1>2 DEF Allowed, MayWork, Fresh
<1>3. CASE call[p].op = "evaluate"
  BY <1>3 DEF Allowed, MayEvaluate, Fresh
<1>4. CASE call[p].op = "bundle"
  <2>1. \/ NativeBundle(history, Observed(p), Mode[p])
        \/ MayBundle(history, Observed(p), Mode[p])
    BY <1>4 DEF Allowed
  <2> QED
    BY <2>1, ReadyHasCandidate DEF MayBundle, MayEvaluate, Fresh
<1> QED
  BY <1>1, <1>2, <1>3, <1>4

\* A freeze is authorized with a selection, an evaluation with a freeze.
LEMMA AuthorizeSubjectStep ==
    ASSUME IInv, NEW p \in Procs, AuthorizeSubject(p)
    PROVE  IInv'
<1> DEFINE at == CASE call[p].op \in {"epoch", "freeze"} -> "build"
                   [] call[p].op = "evaluate" -> "before"
                   [] OTHER -> "execute"
           c == CurrentCandidate(history)
           f == CASE call[p].op = "freeze" -> Disposition(history)
                  [] call[p].op = "evaluate" -> Freeze(history)
                  [] OTHER -> Nil
           u == IF call[p].op = "epoch" THEN NoSubject ELSE [candidate |-> c, freeze |-> f]
<1>1. /\ history \in Seq(Record) /\ call[p] \in Calls /\ pc[p] = "authorize" /\ Allowed(p)
      /\ call[p].op \in {"epoch", "freeze", "work", "evaluate", "bundle"}
      /\ pc' = [pc EXCEPT ![p] = at]
      /\ subject' = [subject EXCEPT ![p] = u]
      /\ UNCHANGED <<history, grounds, world, call, seen, draft>>
  BY DEF AuthorizeSubject, IInv, TypeOK, Goto, files
<1>2. call[p].op # "epoch" => HasCandidate(history)
  BY <1>1, AuthorizedHasCandidate
<1>3. call[p].op # "epoch" => c \in Contents
  BY <1>1, <1>2, CurrentContent
<1>s. seen[p] \in Seen
  BY <1>1 DEF IInv, LocalInv, Local
<1>4. call[p].op = "freeze" =>
        /\ Selects(history, f, c) /\ f \in Nat
        /\ PassedNow(history, seen[p].required, c)
        /\ PassedNow(history, seen[p].planned, c)
  <2> SUFFICES ASSUME call[p].op = "freeze"
               PROVE  /\ Selects(history, f, c) /\ f \in Nat
                      /\ PassedNow(history, seen[p].required, c)
                      /\ PassedNow(history, seen[p].planned, c)
    OBVIOUS
  <2>1. MayFreeze(history, Observed(p))
    BY <1>1 DEF Allowed
  <2>2. /\ Disposed(history) /\ history[Disposition(history)].disposition = "selected"
        /\ Ready(history, Observed(p), Observed(p).required)
        /\ Ready(history, Observed(p), Observed(p).planned)
    BY <2>1 DEF MayFreeze
  <2>3. f = Disposition(history)
    OBVIOUS
  <2>4. /\ PassedNow(history, seen[p].required, c)
        /\ PassedNow(history, seen[p].planned, c)
    BY <1>1, <1>s, <2>2, ReadyPassed, ObservedRequirements
  <2> QED
    BY <1>1, <2>2, <2>3, <2>4, DispositionPosition DEF Selects
<1>5. f \in Nat \cup {Nil}
  BY <1>1, <1>4, FreezePosition
<1>6. call[p].op = "evaluate" => Of(history, "freeze", c) # {}
  BY <1>1 DEF Allowed, MayEvaluate, Frozen
<1>7. u \in [candidate : Contents \cup {Nil}, freeze : Nat \cup {Nil}]
  BY <1>3, <1>5 DEF NoSubject
<1>8. call[p].op # "epoch" => u.candidate = c /\ u.freeze = f
  OBVIOUS
<1>9. /\ at \in {"build", "before", "execute"}
      /\ at = "build" => call[p].op \in {"epoch", "freeze"}
      /\ at = "before" => call[p].op = "evaluate"
      /\ at = "execute" => call[p].op \in {"work", "bundle"}
  BY <1>1
<1> HIDE DEF at, c, f, u
<1>10. TypeOK' /\ pc'[p] = at /\ subject'[p] = u
  BY <1>1, <1>7, <1>9 DEF IInv, TypeOK
<1>11. Local(history', pc'[p], call'[p], seen'[p], subject'[p], draft'[p])
  BY <1>1, <1>s, <1>3, <1>4, <1>6, <1>8, <1>9, <1>10 DEF Local
<1> QED
  BY <1>1, <1>10, <1>11, Frame DEF IInv, TypeOK

\* The freeze that is prepared binds the selection it was authorized with.
LEMMA BuildStep ==
    ASSUME IInv, NEW p \in Procs, Build(p)
    PROVE  IInv'
<1> DEFINE e == [type |-> "epoch", parent |-> call[p].parent, authority |-> world.authority]
           z == [type |-> "freeze", candidate |-> subject[p].candidate,
                 authority |-> world.authority, plan |-> world.policy,
                 selection |-> subject[p].freeze]
           r == IF call[p].op = "epoch" THEN e ELSE z
<1>1. /\ history \in Seq(Record) /\ call[p] \in Calls /\ pc[p] = "build" /\ world \in World
      /\ pc' = [pc EXCEPT ![p] = "commit"]
      /\ draft' = [draft EXCEPT ![p] = r]
      /\ UNCHANGED <<history, grounds, world, call, seen, subject>>
  BY DEF Build, Prepare, IInv, TypeOK, Goto, files
<1>2. /\ call[p].op \in {"epoch", "freeze"}
      /\ call[p].op = "freeze" =>
            /\ seen[p] \in Seen /\ subject[p].candidate \in Contents
            /\ Selects(history, subject[p].freeze, subject[p].candidate)
            /\ PassedNow(history, seen[p].required, subject[p].candidate)
            /\ PassedNow(history, seen[p].planned, subject[p].candidate)
  BY <1>1 DEF IInv, LocalInv, Local
<1>3. CASE call[p].op = "epoch"
  <2>1. call[p].parent \in Nat \cup {Nil}
    BY <1>1, <1>3 DEF Calls
  <2>2. e \in EpochRecord
    BY <1>1, <2>1 DEF EpochRecord, World
  <2>3. r \in Record /\ r.type = "epoch"
    BY <1>3, <2>2 DEF Record
  <2> HIDE DEF r
  <2>4. TypeOK' /\ draft'[p] = r /\ pc'[p] = "commit"
    BY <1>1, <2>3 DEF IInv, TypeOK
  <2>5. Local(history', pc'[p], call'[p], seen'[p], subject'[p], draft'[p])
    BY <1>1, <1>3, <2>3, <2>4 DEF Local
  <2> QED
    BY <1>1, <2>4, <2>5, Frame DEF IInv, TypeOK
<1>4. CASE call[p].op = "freeze"
  <2>1. subject[p].freeze \in Nat
    BY <1>2, <1>4 DEF Selects, Of, Indices
  <2>2. z \in FreezeRecord
    BY <1>1, <1>2, <1>4, <2>1 DEF FreezeRecord, World
  <2>3. /\ r \in Record /\ r.type = "freeze" /\ r.selection = subject[p].freeze
        /\ r.candidate = subject[p].candidate
    BY <1>4, <2>2 DEF Record
  <2> HIDE DEF r
  <2>4. TypeOK' /\ draft'[p] = r /\ pc'[p] = "commit"
    BY <1>1, <2>3 DEF IInv, TypeOK
  <2>5. Local(history', pc'[p], call'[p], seen'[p], subject'[p], draft'[p])
    BY <1>1, <1>2, <1>4, <2>3, <2>4 DEF Local
  <2> QED
    BY <1>1, <2>4, <2>5, Frame DEF IInv, TypeOK
<1> QED
  BY <1>2, <1>3, <1>4

\* A result names the candidate that the call was authorized for.
LEMMA ExecuteStep ==
    ASSUME IInv, NEW p \in Procs, Execute(p)
    PROVE  IInv'
<1>1. PICK w \in Workflows, s \in Statuses :
        draft' = [draft EXCEPT ![p] = Outcome(p, w, s)]
  BY DEF Execute, Prepare
<1> DEFINE r == Outcome(p, w, s)
<1>2. /\ history \in Seq(Record) /\ pc[p] = "execute" /\ world \in World
      /\ pc' = [pc EXCEPT ![p] = "commit"]
      /\ UNCHANGED <<history, grounds, world, call, seen, subject>>
  BY DEF Execute, IInv, TypeOK, Goto, files
<1>3. /\ call[p].op \in {"work", "evaluate", "bundle"}
      /\ subject[p].candidate \in Contents
      /\ call[p].op = "evaluate" => Of(history, "freeze", subject[p].candidate) # {}
  BY <1>2 DEF IInv, LocalInv, Local
<1>4. /\ r \in Record
      /\ r.type \in {"result", "evaluation", "bundle"}
      /\ r.type = "evaluation" => call[p].op = "evaluate" /\ r.candidate = subject[p].candidate
  <2>1. CASE call[p].op = "work"
    <3>1. r = [type |-> "result", candidate |-> subject[p].candidate,
               workflow |-> w, status |-> s]
      BY <2>1 DEF Outcome
    <3>2. r \in ResultRecord
      BY <3>1, <1>3 DEF ResultRecord
    <3> QED
      BY <3>1, <3>2 DEF Record
  <2>2. CASE call[p].op = "evaluate"
    <3>1. r = [type |-> "evaluation", candidate |-> subject[p].candidate]
      BY <2>2 DEF Outcome
    <3>2. r \in EvaluationRecord
      BY <3>1, <1>3 DEF EvaluationRecord
    <3> QED
      BY <2>2, <3>1, <3>2 DEF Record
  <2>3. CASE call[p].op = "bundle"
    <3>1. r = [type |-> "bundle", candidate |-> subject[p].candidate]
      BY <2>3 DEF Outcome
    <3>2. r \in BundleRecord
      BY <3>1, <1>3 DEF BundleRecord
    <3> QED
      BY <3>1, <3>2 DEF Record
  <2> QED
    BY <1>3, <2>1, <2>2, <2>3
<1> HIDE DEF r
<1>5. TypeOK' /\ draft'[p] = r /\ pc'[p] = "commit"
  BY <1>1, <1>2, <1>4 DEF IInv, TypeOK, r
<1>6. Local(history', pc'[p], call'[p], seen'[p], subject'[p], draft'[p])
  BY <1>2, <1>3, <1>4, <1>5 DEF Local
<1> QED
  BY <1>1, <1>2, <1>5, <1>6, Frame DEF IInv, TypeOK

\* A list of workflows goes on with the next.
LEMMA CommitResultStep ==
    ASSUME IInv, NEW p \in Procs, CommitResult(p)
    PROVE  IInv'
<1>1. /\ Stores(p) /\ pc[p] = "commit" /\ history' = Append(history, draft[p])
      /\ world' = world
      /\ world \in World /\ history \in Seq(Record)
  BY DEF CommitResult, Store, Stores, IInv, TypeOK
<1>2. CASE End(p)
  BY <1>1, <1>2, EndStep
<1>3. CASE /\ pc' = [pc EXCEPT ![p] = IF call[p].op = "evaluate" THEN "check" ELSE "execute"]
           /\ draft' = [draft EXCEPT ![p] = Nil]
           /\ UNCHANGED <<call, seen, subject>>
  <2>1. draft[p] \in Record
    BY <1>1 DEF IInv, LocalInv, Local
  <2>2. /\ history' \in Seq(Record) /\ grounds' \in Seq(Grounds)
        /\ Len(grounds') = Len(history')
    BY <1>1, StoreTypes
  <2>3. TypeOK'
    BY <1>1, <1>3, <2>2 DEF IInv, TypeOK
  <2>4. /\ call[p].op \in {"work", "evaluate"}
        /\ subject[p].candidate \in Contents
        /\ call[p].op = "evaluate" => Of(history, "freeze", subject[p].candidate) # {}
    BY <1>1 DEF CommitResult, IInv, LocalInv, Local
  <2>5. call[p].op = "evaluate" => Of(history', "freeze", subject[p].candidate) # {}
    BY <1>1, <2>1, <2>4, Grow
  <2>6. /\ pc'[p] = IF call[p].op = "evaluate" THEN "check" ELSE "execute"
        /\ call'[p] = call[p] /\ subject'[p] = subject[p]
    BY <1>3 DEF IInv, TypeOK
  <2>7. Local(history', pc'[p], call'[p], seen'[p], subject'[p], draft'[p])
    BY <2>4, <2>5, <2>6 DEF Local
  <2> QED
    BY <1>1, <1>3, <2>3, <2>7, Frame DEF IInv, TypeOK
<1> QED
  BY <1>2, <1>3 DEF CommitResult

\* An evaluation goes on with the next workflow, or ends.
LEMMA CheckStep ==
    ASSUME IInv, NEW p \in Procs, Check(p)
    PROVE  IInv'
<1>1. pc[p] = "check" /\ UNCHANGED <<history, grounds, world>> /\ world \in World
  BY DEF Check, files, IInv, TypeOK
<1>2. CASE End(p)
  BY <1>1, <1>2, EndStep
<1>3. CASE pc' = [pc EXCEPT ![p] = "before"] /\ UNCHANGED locals
  <2>1. TypeOK' /\ pc'[p] = "before"
    BY <1>1, <1>3 DEF IInv, TypeOK, locals
  <2>2. Local(history, "check", call[p], seen[p], subject[p], draft[p])
    BY <1>1 DEF IInv, LocalInv
  <2>3. Local(history', pc'[p], call'[p], seen'[p], subject'[p], draft'[p])
    BY <1>1, <1>3, <2>1, <2>2 DEF Local, locals
  <2> QED
    BY <1>1, <1>3, <2>1, <2>3, Frame DEF IInv, TypeOK, locals
<1> QED
  BY <1>2, <1>3 DEF Check

\* The steps that end a call.
LEMMA EndSteps ==
    ASSUME IInv, NEW p \in Procs,
           Refuse(p) \/ RecordExists(p) \/ Commit(p) \/ Abandon(p)
    PROVE  IInv'
<1>1. world \in World
  BY DEF IInv, TypeOK
<1>2. CASE Commit(p)
  BY <1>1, <1>2, EndStep DEF Commit, Store, Stores
<1>3. CASE Refuse(p) \/ RecordExists(p) \/ Abandon(p)
  BY <1>1, <1>3, EndStep DEF Refuse, RecordExists, Abandon, files
<1> QED
  BY <1>2, <1>3

\* The calls that Next makes are calls.
LEMMA NextCalls ==
    ASSUME IInv, NEW p \in Procs
    PROVE  /\ \A parent \in Indices(history, "epoch") \cup {Nil} :
                 [op |-> "epoch", parent |-> parent] \in Calls
           /\ \A parent \in Contents \cup {Nil} :
                 [op |-> "register", parent |-> parent] \in Calls
           /\ \A op \in Operations(p) \ {"epoch", "register", "refresh"} :
                 [op |-> op, parent |-> Nil] \in Calls
<1>1. Indices(history, "epoch") \subseteq Nat
  BY DEF Indices
<1> QED
  BY <1>1 DEF Calls, Operations

-----------------------------------------------------------------------------
(* The theorems *)

\* Every step preserves the inductive invariant.
LEMMA Invariance == Spec => []IInv
<1>1. Init => IInv
  <2> SUFFICES ASSUME Init PROVE IInv
    OBVIOUS
  <2>1. TypeOK
    <3>1. NoCall \in Calls /\ <<>> \in Seq(Record) /\ <<>> \in Seq(Grounds)
      BY DEF NoCall, Calls
    <3>2. NoSubject \in [candidate : Contents \cup {Nil}, freeze : Nat \cup {Nil}]
      BY DEF NoSubject
    <3> QED
      BY <3>1, <3>2 DEF Init, TypeOK
  <2>2. LocalInv
    BY DEF Init, LocalInv, Local
  <2>3. \A t : Indices(history, t) = {}
    BY DEF Init, Indices
  <2>4. LedgerInv(history, grounds)
    BY <2>3 DEF Init, LedgerInv, SelectionsPassed, FreezesJustified, EvaluationsJustified
  <2> QED
    BY <2>1, <2>2, <2>4 DEF IInv
<1>2. IInv /\ [Next]_vars => IInv'
  <2> SUFFICES ASSUME IInv, [Next]_vars PROVE IInv'
    OBVIOUS
  <2>1. CASE Edit
    <3>1. /\ world' \in World
          /\ UNCHANGED <<history, grounds, pc, call, seen, subject, draft>>
      BY <2>1 DEF Edit, locals
    <3> QED
      BY <3>1 DEF IInv, TypeOK, LocalInv
  <2>2. CASE UNCHANGED vars
    BY <2>2 DEF vars, files, locals, IInv, TypeOK, LocalInv
  <2>3. ASSUME NEW p \in Procs,
               \/ \E parent \in Indices(history, "epoch") \cup {Nil} :
                     Call(p, [op |-> "epoch", parent |-> parent])
               \/ \E parent \in Contents \cup {Nil} :
                     Call(p, [op |-> "register", parent |-> parent])
               \/ \E op \in Operations(p) \ {"epoch", "register", "refresh"} :
                     Call(p, [op |-> op, parent |-> Nil])
        PROVE  IInv'
    <3>1. \E c \in Calls : Call(p, c)
      BY <2>3, NextCalls
    <3> QED
      BY <3>1, BeginSteps
  <2>4. ASSUME NEW p \in Procs, Refresh(p) \/ RefreshCall(p) \/ Identify(p) \/ Parse(p) \/ LookBefore(p)
        PROVE  IInv'
    BY <2>4, BeginSteps
  <2>5. ASSUME NEW p \in Procs,
               \/ AuthorizeRecord(p) \/ AuthorizeSubject(p) \/ Build(p) \/ Execute(p)
               \/ CommitResult(p) \/ Check(p)
        PROVE  IInv'
    BY <2>5, AuthorizeRecordStep, AuthorizeSubjectStep, BuildStep, ExecuteStep,
       CommitResultStep, CheckStep
  <2>6. ASSUME NEW p \in Procs, Refuse(p) \/ RecordExists(p) \/ Commit(p) \/ Abandon(p)
        PROVE  IInv'
    BY <2>6, EndSteps
  <2> QED
    BY <2>1, <2>2, <2>3, <2>4, <2>5, <2>6 DEF Next
<1> QED
  BY <1>1, <1>2, PTL DEF Spec

\* TypeOK is an invariant: what the services observe, prepare and commit has
\* the type that ForgeRecord models require.
THEOREM TypeCorrect == Spec => []TypeOK
<1>1. IInv => TypeOK
  BY DEF IInv
<1> QED
  BY <1>1, Invariance, PTL

\* The gates hold for any number of processes and candidates: an evaluation in
\* the ledger follows a freeze that binds a selection, each with PASS evidence
\* for what its own call read to be required.
THEOREM GatesHold == Spec => []EvaluationJustified
<1>1. IInv => EvaluationJustified
  BY DEF IInv, LedgerInv, EvaluationsJustified, EvaluationJustified
<1> QED
  BY <1>1, Invariance, PTL

\* Every freeze in the ledger is justified by what was read for it and for the
\* selection it binds, with any edits between the reads and before the commit.
THEOREM FreezesHold == Spec => []FreezeJustified
<1>1. IInv => FreezeJustified
  BY DEF IInv, LedgerInv, FreezesJustified, FreezeJustified
<1> QED
  BY <1>1, Invariance, PTL

-----------------------------------------------------------------------------
(* One development process                                                  *)
(*                                                                          *)
(* While at most one process writes what the lifecycle decides on, what it  *)
(* was authorized for is still so when it commits: evaluators add records   *)
(* that nothing of it reads.  The host's and the kernel's own checks of the *)
(* history are not needed for that, so that it holds whichever of the two   *)
(* processes use, and whether or not the kernel accepts a second root.      *)

OneDeveloper ==
    \A p, q \in Procs : Mode[p] = "development" /\ Mode[q] = "development" => p = q

Registered(h, c) == \E k \in Indices(h, "candidate") : h[k].id = c

\* Whatever is said of a candidate is said of one that is in the ledger, and
\* every candidate is one of an epoch of the ledger.
Rooted(h) ==
    /\ \A n \in Indices(h, "candidate") : h[n].epoch \in Indices(h, "epoch")
    /\ \A t \in {"disposition", "freeze", "result"} :
          \A n \in Indices(h, t) : Registered(h, h[n].candidate)

\* A candidate of the active epoch that is frozen is the current one.
FrozenCurrent(h) ==
    \A m \in Indices(h, "freeze"), k \in ActiveCandidates(h) :
        h[k].id = h[m].candidate => CurrentCandidate(h) = h[m].candidate

\* FrozenEpochClosed, of any history.
Closed(h) ==
    \A m \in Indices(h, "freeze"), n \in Indices(h, "candidate") :
        m < n => \A k \in Indices(h, "candidate") :
                   h[k].id = h[m].candidate => h[k].epoch # h[n].epoch

\* FrozenEvidenceClean, of a candidate and workflows, and of any history.
CleanFor(h, c, R) == \A w \in R : Evidence(h, c, w) = {"PASS"}

Clean(h, b) ==
    \A m \in Indices(h, "freeze") :
        CleanFor(h, h[m].candidate, b[m].policy \cup b[m].plan)

Serial(h) == ~Ambiguous(h) /\ Rooted(h) /\ FrozenCurrent(h) /\ Closed(h)

\* The current candidate is c, and it is not frozen.
Working(h, c) == HasCandidate(h) /\ c = CurrentCandidate(h) /\ ~Frozen(h)

Neutral == {"evaluation", "bundle"}

\* A record that may follow the history.
Admits(h, r) ==
    \/ r.type \in Neutral
    \/ r.type = "epoch" /\ MayBegin(h, r.parent)
    \/ /\ r.type = "candidate"
       /\ HasEpoch(h) /\ r.epoch = ActiveEpoch(h) /\ ~Frozen(h)
       /\ r.parent = IF HasCandidate(h) THEN CurrentCandidate(h) ELSE Nil
    \/ r.type \in {"result", "freeze"} /\ Working(h, r.candidate)
    \/ /\ r.type = "disposition"
       /\ HasCandidate(h) /\ r.candidate = CurrentCandidate(h) /\ ~Disposed(h)

\* What a call still may do, between its authorization and its commit.
Entitled(h, mode, at, c, s, u, d) ==
    /\ mode = "evaluator" /\ at # "idle" => c.op \in {"evaluate", "bundle"}
    /\ at = "build" /\ c.op = "epoch" => MayBegin(h, c.parent)
    /\ at = "build" /\ c.op = "freeze" =>
         Working(h, u.candidate) /\ CleanFor(h, u.candidate, s.required \cup s.planned)
    /\ at \in {"execute", "commit"} /\ c.op = "work" => Working(h, u.candidate)
    /\ at = "commit" =>
         /\ Admits(h, d)
         /\ d.type = "freeze" => CleanFor(h, d.candidate, s.required \cup s.planned)
         /\ c.op = "work" => d.type = "result"
         /\ c.op \in {"evaluate", "bundle"} => d.type \in Neutral

EntitledInv ==
    \A p \in Procs : Entitled(history, Mode[p], pc[p], call[p], seen[p], subject[p], draft[p])

SInv == Serial(history) /\ Clean(history, grounds) /\ EntitledInv

\* A position that no other of the set exceeds is its last one.
LEMMA LastIs ==
    ASSUME NEW S \in SUBSET Nat, NEW n \in S, \A m \in S : m <= n
    PROVE  Last(S) = n
<1>1. Last(S) \in S /\ \A m \in S : m <= Last(S)
  BY Zenon DEF Last
<1>2. Last(S) <= n /\ n <= Last(S)
  BY <1>1
<1>3. Last(S) \in Nat /\ n \in Nat
  BY <1>1
<1> QED
  BY <1>2, <1>3

\* A record that is appended is the last one of its type, and no record of
\* another.
LEMMA AppendedIndices ==
    ASSUME NEW h \in Seq(Record), NEW r \in Record
    PROVE  LET g == Append(h, r)
           IN  /\ \A t : Indices(h, t) \in SUBSET (1..Len(h))
               /\ Indices(g, r.type) = Indices(h, r.type) \cup {Len(g)}
               /\ \A t : t # r.type => Indices(g, t) = Indices(h, t)
               /\ \A t, c : t # r.type \/ c # r.candidate => Of(g, t, c) = Of(h, t, c)
               /\ Of(g, r.type, r.candidate) = Of(h, r.type, r.candidate) \cup {Len(g)}
<1> DEFINE g == Append(h, r)
<1>1. /\ g \in Seq(Record) /\ Len(g) = Len(h) + 1 /\ Len(g) \in Nat /\ Len(h) \in Nat
      /\ g[Len(g)] = r
      /\ \A n \in 1..Len(h) : g[n] = h[n]
  OBVIOUS
<1>2. \A n \in 1..Len(g) : n = Len(g) \/ n \in 1..Len(h)
  BY <1>1
<1>3. \A n \in 1..Len(h) : n \in 1..Len(g) /\ n # Len(g)
  BY <1>1
<1>4. Len(g) \in 1..Len(g)
  BY <1>1
<1> HIDE DEF g
<1>5. \A t : Indices(h, t) \in SUBSET (1..Len(h))
  BY DEF Indices
<1>6. Indices(g, r.type) = Indices(h, r.type) \cup {Len(g)}
  BY <1>1, <1>2, <1>3, <1>4 DEF Indices
<1>7. ASSUME NEW t, t # r.type PROVE Indices(g, t) = Indices(h, t)
  BY <1>1, <1>2, <1>3, <1>7 DEF Indices
<1>8. ASSUME NEW t, NEW c, t # r.type \/ c # r.candidate PROVE Of(g, t, c) = Of(h, t, c)
  <2>1. CASE t # r.type
    BY <1>1, <1>5, <1>7, <2>1 DEF Of
  <2>2. CASE t = r.type /\ c # r.candidate
    BY <1>1, <1>5, <1>6, <2>2 DEF Of
  <2> QED
    BY <1>8, <2>1, <2>2
<1>9. Of(g, r.type, r.candidate) = Of(h, r.type, r.candidate) \cup {Len(g)}
  BY <1>1, <1>5, <1>6 DEF Of
<1> QED
  BY <1>5, <1>6, <1>7, <1>8, <1>9 DEF g

\* A record of another type leaves the epochs as they are.
LEMMA EpochKept ==
    ASSUME NEW h \in Seq(Record), NEW r \in Record, r.type # "epoch"
    PROVE  LET g == Append(h, r)
           IN  /\ HasEpoch(g) <=> HasEpoch(h)
               /\ ActiveEpoch(g) = ActiveEpoch(h)
               /\ EpochChain(g) <=> EpochChain(h)
<1> DEFINE g == Append(h, r)
<1>1. Indices(g, "epoch") = Indices(h, "epoch") /\ Indices(h, "epoch") \in SUBSET (1..Len(h))
  BY AppendedIndices
<1>2. \A n \in 1..Len(h) : g[n] = h[n]
  BY Grow
<1> HIDE DEF g
<1>3. (HasEpoch(g) <=> HasEpoch(h)) /\ ActiveEpoch(g) = ActiveEpoch(h)
  BY <1>1 DEF HasEpoch, ActiveEpoch
<1>4. \A n \in Indices(h, "epoch") : g[n] = h[n]
  BY <1>1, <1>2
<1>5. EpochChain(g) <=> EpochChain(h)
  BY <1>1, <1>4 DEF EpochChain
<1> QED
  BY <1>3, <1>5 DEF g

\* A record that is no epoch and no candidate leaves the candidates as they are.
LEMMA CandidatesKept ==
    ASSUME NEW h \in Seq(Record), NEW r \in Record, r.type \notin {"epoch", "candidate"}
    PROVE  LET g == Append(h, r)
           IN  /\ ActiveCandidates(g) = ActiveCandidates(h)
               /\ HasCandidate(g) <=> HasCandidate(h)
               /\ HasCandidate(h) => CurrentCandidate(g) = CurrentCandidate(h)
               /\ CandidateChain(g) <=> CandidateChain(h)
               /\ SupersededCandidate(g) <=> SupersededCandidate(h)
<1> DEFINE g == Append(h, r)
<1>1. /\ Indices(g, "candidate") = Indices(h, "candidate")
      /\ Indices(h, "candidate") \in SUBSET (1..Len(h))
  BY AppendedIndices
<1>2. \A n \in 1..Len(h) : g[n] = h[n]
  BY Grow
<1>3. (HasEpoch(g) <=> HasEpoch(h)) /\ ActiveEpoch(g) = ActiveEpoch(h)
  BY EpochKept
<1> HIDE DEF g
<1>4. \A n \in Indices(h, "candidate") : g[n] = h[n]
  BY <1>1, <1>2
<1>5. ActiveCandidates(g) = ActiveCandidates(h)
  BY <1>1, <1>3, <1>4 DEF ActiveCandidates
<1>6. HasCandidate(g) <=> HasCandidate(h)
  BY <1>5 DEF HasCandidate
<1>7. ActiveCandidates(h) \in SUBSET (1..Len(h)) /\ ActiveCandidates(h) \subseteq Indices(h, "candidate")
  BY <1>1 DEF ActiveCandidates
<1>8. \A S \in SUBSET ActiveCandidates(h) : S # {} => g[Last(S)] = h[Last(S)]
  <2> SUFFICES ASSUME NEW S \in SUBSET ActiveCandidates(h), S # {}
               PROVE  g[Last(S)] = h[Last(S)]
    OBVIOUS
  <2>1. S \in SUBSET (1..Len(h))
    BY <1>7
  <2>2. Last(S) \in S
    BY <2>1, LastRecord
  <2> QED
    BY <1>2, <2>1, <2>2
<1>9. HasCandidate(h) => CurrentCandidate(g) = CurrentCandidate(h)
  BY <1>5, <1>8 DEF HasCandidate, CurrentCandidate
<1>10. CandidateChain(g) <=> CandidateChain(h)
  <2>1. \A n : Before(ActiveCandidates(h), n) \in SUBSET ActiveCandidates(h)
    BY DEF Before
  <2>2. \A n \in ActiveCandidates(h) : g[n] = h[n]
    BY <1>4, <1>7
  <2> QED
    BY <1>5, <1>8, <2>1, <2>2 DEF CandidateChain
<1>11. SupersededCandidate(g) <=> SupersededCandidate(h)
  BY <1>1, <1>3, <1>4 DEF SupersededCandidate
<1> QED
  BY <1>5, <1>6, <1>9, <1>10, <1>11 DEF g

\* Once registered, a candidate stays so.
LEMMA RegisteredStays ==
    ASSUME NEW h \in Seq(Record), NEW r \in Record, NEW c, Registered(h, c)
    PROVE  Registered(Append(h, r), c)
BY Grow DEF Registered, Indices

\* The current candidate is registered, in the active epoch.
LEMMA CurrentRegistered ==
    ASSUME NEW h \in Seq(Record), HasCandidate(h)
    PROVE  /\ \E k \in ActiveCandidates(h) : h[k].id = CurrentCandidate(h)
           /\ Registered(h, CurrentCandidate(h))
<1>1. ActiveCandidates(h) \in SUBSET (1..Len(h))
  BY DEF ActiveCandidates, Indices
<1>2. Last(ActiveCandidates(h)) \in ActiveCandidates(h)
  BY <1>1, LastRecord DEF HasCandidate
<1> QED
  BY <1>2 DEF CurrentCandidate, Registered, ActiveCandidates

\* Everything stays rooted, if what is added is.
LEMMA RootedStep ==
    ASSUME NEW h \in Seq(Record), NEW r \in Record, Rooted(h),
           r.type = "candidate" => r.epoch \in Indices(h, "epoch"),
           r.type \in {"disposition", "freeze", "result"} => Registered(h, r.candidate)
    PROVE  Rooted(Append(h, r))
<1> DEFINE g == Append(h, r)
<1>1. /\ \A n \in 1..Len(h) : g[n] = h[n]
      /\ g[Len(g)] = r
      /\ \A t : Indices(h, t) \subseteq Indices(g, t)
      /\ \A t : \A n \in Indices(g, t) :
            n \in Indices(h, t) \/ (n = Len(g) /\ r.type = t)
  BY Grow
<1>2. \A t : Indices(h, t) \in SUBSET (1..Len(h))
  BY DEF Indices
<1>3. \A c : Registered(h, c) => Registered(g, c)
  BY RegisteredStays
<1> HIDE DEF g
<1>4. ASSUME NEW n \in Indices(g, "candidate")
      PROVE  g[n].epoch \in Indices(g, "epoch")
  BY <1>1, <1>2 DEF Rooted
<1>5. ASSUME NEW t \in {"disposition", "freeze", "result"}, NEW n \in Indices(g, t)
      PROVE  Registered(g, g[n].candidate)
  <2>1. CASE n \in Indices(h, t)
    <3>1. g[n] = h[n]
      BY <1>1, <1>2, <2>1
    <3> QED
      BY <1>3, <2>1, <3>1 DEF Rooted
  <2>2. CASE n = Len(g) /\ r.type = t
    BY <1>1, <1>3, <2>2
  <2> QED
    BY <1>1, <2>1, <2>2
<1> QED
  BY <1>4, <1>5 DEF Rooted, g

\* The evidence for a freeze is that of its candidate, whatever else is stored.
LEMMA EvidenceKept ==
    ASSUME NEW h \in Seq(Record), NEW r \in Record, NEW c, NEW R,
           r.type # "result" \/ c # r.candidate, CleanFor(h, c, R)
    PROVE  CleanFor(Append(h, r), c, R)
<1> DEFINE g == Append(h, r)
<1>1. Of(g, "result", c) = Of(h, "result", c)
  BY AppendedIndices
<1>2. \A n \in 1..Len(h) : g[n] = h[n]
  BY Grow
<1>3. Of(h, "result", c) \in SUBSET (1..Len(h))
  BY DEF Of, Indices
<1> HIDE DEF g
<1>4. \A w : Evidence(g, c, w) = Evidence(h, c, w)
  BY <1>1, <1>2, <1>3 DEF Evidence
<1> QED
  BY <1>4 DEF CleanFor, g

\* The evidence for what is frozen stays clean, unless a result of a frozen
\* candidate is added; what is frozen anew has clean evidence.
LEMMA CleanStep ==
    ASSUME NEW h \in Seq(Record), NEW r \in Record, NEW b \in Seq(Grounds),
           NEW x \in Grounds, Len(b) = Len(h), Clean(h, b),
           r.type = "result" => \A m \in Indices(h, "freeze") : h[m].candidate # r.candidate,
           r.type = "freeze" => CleanFor(h, r.candidate, x.policy \cup x.plan)
    PROVE  Clean(Append(h, r), Append(b, x))
<1> DEFINE g == Append(h, r)
           e == Append(b, x)
<1>1. /\ \A n \in 1..Len(h) : g[n] = h[n]
      /\ g[Len(g)] = r /\ Len(g) = Len(h) + 1 /\ Len(h) \in Nat
      /\ \A n \in Indices(g, "freeze") :
            n \in Indices(h, "freeze") \/ (n = Len(g) /\ r.type = "freeze")
  BY Grow
<1>e. e[Len(g)] = x /\ \A n \in 1..Len(h) : e[n] = b[n]
  BY <1>1
<1> HIDE DEF e
<1>2. ASSUME NEW m \in Indices(h, "freeze")
      PROVE  CleanFor(g, g[m].candidate, e[m].policy \cup e[m].plan)
  <2>1. m \in 1..Len(h)
    BY DEF Indices
  <2>2. g[m] = h[m] /\ e[m] = b[m]
    BY <2>1, <1>1, <1>e
  <2>3. CleanFor(h, h[m].candidate, b[m].policy \cup b[m].plan)
    BY DEF Clean
  <2>4. CleanFor(g, h[m].candidate, b[m].policy \cup b[m].plan)
    BY <2>3, EvidenceKept
  <2> QED
    BY <2>2, <2>4
<1>3. ASSUME r.type = "freeze"
      PROVE  CleanFor(g, r.candidate, x.policy \cup x.plan)
  BY <1>3, EvidenceKept
<1> HIDE DEF g
<1>4. ASSUME NEW m \in Indices(g, "freeze")
      PROVE  CleanFor(g, g[m].candidate, e[m].policy \cup e[m].plan)
  BY <1>1, <1>e, <1>2, <1>3
<1> QED
  BY <1>4 DEF Clean, g, e

\* A record that is no candidate opens no frozen epoch.
LEMMA ClosedStep ==
    ASSUME NEW h \in Seq(Record), NEW r \in Record, Closed(h), r.type # "candidate"
    PROVE  Closed(Append(h, r))
<1> DEFINE g == Append(h, r)
<1>1. /\ \A n \in 1..Len(h) : g[n] = h[n]
      /\ Len(g) = Len(h) + 1 /\ Len(h) \in Nat
      /\ \A n \in Indices(g, "freeze") :
            n \in Indices(h, "freeze") \/ (n = Len(g) /\ r.type = "freeze")
  BY Grow
<1>2. /\ Indices(g, "candidate") = Indices(h, "candidate")
      /\ Indices(h, "candidate") \in SUBSET (1..Len(h))
      /\ Indices(h, "freeze") \in SUBSET (1..Len(h))
  BY AppendedIndices
<1> HIDE DEF g
<1>3. \A n \in Indices(h, "candidate") : n \in 1..Len(h) /\ g[n] = h[n]
  BY <1>1, <1>2
<1> SUFFICES ASSUME NEW m \in Indices(g, "freeze"), NEW n \in Indices(h, "candidate"), m < n,
                    NEW k \in Indices(h, "candidate"), g[k].id = g[m].candidate
             PROVE  g[k].epoch # g[n].epoch
  BY <1>2 DEF Closed, g
<1>4. m \in Indices(h, "freeze")
  <2>1. n \in 1..Len(h)
    BY <1>3
  <2>2. m # Len(g)
    BY <1>1, <2>1
  <2> QED
    BY <1>1, <2>2
<1>5. g[m] = h[m]
  BY <1>1, <1>2, <1>4
<1> QED
  BY <1>3, <1>4, <1>5 DEF Closed

\* What is frozen stays the current candidate of its epoch.
LEMMA FrozenCurrentStep ==
    ASSUME NEW h \in Seq(Record), NEW r \in Record, FrozenCurrent(h),
           r.type \notin {"epoch", "candidate"},
           r.type = "freeze" => HasCandidate(h) /\ r.candidate = CurrentCandidate(h)
    PROVE  FrozenCurrent(Append(h, r))
<1> DEFINE g == Append(h, r)
<1>1. /\ \A n \in 1..Len(h) : g[n] = h[n]
      /\ g[Len(g)] = r
      /\ \A n \in Indices(g, "freeze") :
            n \in Indices(h, "freeze") \/ (n = Len(g) /\ r.type = "freeze")
  BY Grow
<1>2. /\ ActiveCandidates(g) = ActiveCandidates(h)
      /\ HasCandidate(h) => CurrentCandidate(g) = CurrentCandidate(h)
  BY CandidatesKept
<1>3. /\ Indices(h, "candidate") \in SUBSET (1..Len(h))
      /\ Indices(h, "freeze") \in SUBSET (1..Len(h))
  BY AppendedIndices
<1> HIDE DEF g
<1> SUFFICES ASSUME NEW m \in Indices(g, "freeze"), NEW k \in ActiveCandidates(h),
                    g[k].id = g[m].candidate
             PROVE  CurrentCandidate(g) = g[m].candidate
  BY <1>2 DEF FrozenCurrent, g
<1>4. HasCandidate(h) /\ k \in Indices(h, "candidate")
  BY DEF HasCandidate, ActiveCandidates
<1>5. g[k] = h[k]
  BY <1>1, <1>3, <1>4
<1>6. CASE m \in Indices(h, "freeze")
  <2>1. g[m] = h[m]
    BY <1>1, <1>3, <1>6
  <2>2. CurrentCandidate(h) = h[m].candidate
    BY <1>5, <1>6, <2>1 DEF FrozenCurrent
  <2> QED
    BY <1>2, <1>4, <2>1, <2>2
<1>7. CASE m = Len(g) /\ r.type = "freeze"
  BY <1>1, <1>2, <1>4, <1>7
<1> QED
  BY <1>1, <1>6, <1>7

\* A record that is no epoch and no candidate, no second disposition and no
\* second freeze makes nothing ambiguous.
LEMMA UnambiguousStep ==
    ASSUME NEW h \in Seq(Record), NEW r \in Record, ~Ambiguous(h),
           r.type \notin {"epoch", "candidate"},
           r.type = "disposition" => r.candidate = CurrentCandidate(h) /\ ~Disposed(h),
           r.type = "freeze" => r.candidate = CurrentCandidate(h) /\ ~Frozen(h)
    PROVE  ~Ambiguous(Append(h, r))
<1> DEFINE g == Append(h, r)
           c == CurrentCandidate(h)
<1>1. /\ EpochChain(g) <=> EpochChain(h)
      /\ CandidateChain(g) <=> CandidateChain(h)
      /\ SupersededCandidate(g) <=> SupersededCandidate(h)
      /\ HasCandidate(g) <=> HasCandidate(h)
      /\ HasCandidate(h) => CurrentCandidate(g) = CurrentCandidate(h)
  BY CandidatesKept, EpochKept
<1> HIDE DEF c
<1>2. ASSUME HasCandidate(h), NEW t \in {"disposition", "freeze"}
      PROVE  AtMostOne(Of(g, t, c))
  <2>1. AtMostOne(Of(h, t, c))
    BY <1>2 DEF Ambiguous, c
  <2>2. CASE t # r.type
    BY <2>1, <2>2, AppendedIndices
  <2>3. CASE t = r.type
    <3>1. c = r.candidate /\ Of(h, t, c) = {}
      BY <1>2, <2>3 DEF Disposed, Frozen, c
    <3>2. Of(g, t, c) = {Len(g)}
      BY <2>3, <3>1, AppendedIndices
    <3> QED
      BY <3>2 DEF AtMostOne
  <2> QED
    BY <2>2, <2>3
<1> HIDE DEF g
<1>3. HasCandidate(h) =>
        /\ AtMostOne(Of(g, "disposition", CurrentCandidate(g)))
        /\ AtMostOne(Of(g, "freeze", CurrentCandidate(g)))
  BY <1>1, <1>2 DEF c
<1> QED
  BY <1>1, <1>3 DEF Ambiguous, g

\* All of it, for a record that is no epoch and no candidate.
LEMMA SerialRecord ==
    ASSUME NEW h \in Seq(Record), NEW r \in Record, Serial(h),
           Admits(h, r), r.type \notin {"epoch", "candidate"}
    PROVE  Serial(Append(h, r))
<1>1. /\ r.type = "disposition" =>
           HasCandidate(h) /\ r.candidate = CurrentCandidate(h) /\ ~Disposed(h)
      /\ r.type \in {"freeze", "result"} => Working(h, r.candidate)
  BY DEF Admits, Neutral
<1>2. r.type \in {"disposition", "freeze", "result"} => Registered(h, r.candidate)
  BY <1>1, CurrentRegistered DEF Working
<1>3. Rooted(Append(h, r))
  BY <1>2, RootedStep DEF Serial
<1>4. Closed(Append(h, r))
  BY ClosedStep DEF Serial
<1>5. FrozenCurrent(Append(h, r))
  BY <1>1, FrozenCurrentStep DEF Serial, Working
<1>6. ~Ambiguous(Append(h, r))
  BY <1>1, UnambiguousStep DEF Serial, Working
<1> QED
  BY <1>3, <1>4, <1>5, <1>6 DEF Serial

\* What comes before a position, in a set that grows at the end.
LEMMA BeforeGrows ==
    ASSUME NEW N \in Nat, NEW S \in SUBSET (1..N)
    PROVE  /\ \A n \in S : Before(S \cup {N + 1}, n) = Before(S, n)
           /\ Before(S \cup {N + 1}, N + 1) = S
           /\ Last(S \cup {N + 1}) = N + 1
<1>1. \A m \in S : m \in Nat /\ m < N + 1 /\ ~(N + 1 < m)
  OBVIOUS
<1>2. \A n \in S : Before(S \cup {N + 1}, n) = Before(S, n)
  BY <1>1 DEF Before
<1>3. Before(S \cup {N + 1}, N + 1) = S
  <2>1. ~(N + 1 < N + 1)
    OBVIOUS
  <2>2. \A m : m \in Before(S \cup {N + 1}, N + 1) <=> m \in S
    BY <1>1, <2>1 DEF Before
  <2> QED
    BY <2>2
<1>4. Last(S \cup {N + 1}) = N + 1
  <2>1. /\ S \cup {N + 1} \in SUBSET Nat
        /\ \A m \in S \cup {N + 1} : m <= N + 1
    BY <1>1
  <2> QED
    BY <2>1, LastIs
<1> QED
  BY <1>2, <1>3, <1>4

\* A new epoch is the active one, and nothing is of it yet.
LEMMA EpochBegins ==
    ASSUME NEW h \in Seq(Record), NEW r \in Record, r.type = "epoch",
           \A n \in Indices(h, "candidate") : h[n].epoch \in Indices(h, "epoch")
    PROVE  LET g == Append(h, r)
           IN  /\ HasEpoch(g) /\ ActiveEpoch(g) = Len(g)
               /\ ActiveCandidates(g) = {} /\ ~HasCandidate(g)
               /\ CandidateChain(g) /\ ~SupersededCandidate(g)
               /\ EpochChain(h) /\ MayBegin(h, r.parent) => EpochChain(g)
<1> DEFINE g == Append(h, r)
           N == Len(h)
           I == Indices(h, "epoch")
<1>1. /\ \A n \in 1..N : g[n] = h[n]
      /\ g[N + 1] = r /\ Len(g) = N + 1 /\ N \in Nat
  BY Grow
<1>2. /\ I \in SUBSET (1..N)
      /\ Indices(g, "epoch") = I \cup {N + 1}
      /\ Indices(g, "candidate") = Indices(h, "candidate")
      /\ Indices(h, "candidate") \in SUBSET (1..N)
  BY <1>1, AppendedIndices
<1> HIDE DEF g, N
<1>3. HasEpoch(g) /\ ActiveEpoch(g) = N + 1
  BY <1>1, <1>2, BeforeGrows DEF HasEpoch, ActiveEpoch
<1>4. ActiveCandidates(g) = {}
  <2> SUFFICES ASSUME NEW n \in Indices(h, "candidate"), g[n].epoch = N + 1
               PROVE  FALSE
    BY <1>2, <1>3 DEF ActiveCandidates
  <2>1. g[n] = h[n]
    BY <1>1, <1>2
  <2>2. h[n].epoch \in I
    BY DEF I
  <2> QED
    BY <1>1, <1>2, <2>1, <2>2
<1>5. ~HasCandidate(g) /\ CandidateChain(g)
  BY <1>4 DEF HasCandidate, CandidateChain
<1>6. ~SupersededCandidate(g)
  <2>1. \A n \in Indices(h, "candidate") : ~(n > N + 1)
    BY <1>1, <1>2
  <2> QED
    BY <1>2, <1>3, <2>1 DEF SupersededCandidate
<1>7. ASSUME EpochChain(h), MayBegin(h, r.parent) PROVE EpochChain(g)
  <2>1. ASSUME NEW n \in I
        PROVE  LET earlier == Before(Indices(g, "epoch"), n)
               IN  g[n].parent = IF earlier = {} THEN Nil ELSE Last(earlier)
    <3>1. Before(Indices(g, "epoch"), n) = Before(I, n)
      BY <1>1, <1>2, BeforeGrows
    <3>2. g[n] = h[n]
      BY <1>1, <1>2
    <3> QED
      BY <3>1, <3>2, <1>7 DEF EpochChain, I
  <2>2. LET earlier == Before(Indices(g, "epoch"), N + 1)
        IN  g[N + 1].parent = IF earlier = {} THEN Nil ELSE Last(earlier)
    <3>1. Before(Indices(g, "epoch"), N + 1) = I
      <4> HIDE DEF I
      <4> QED
        BY <1>1, <1>2, BeforeGrows
    <3> QED
      BY <1>1, <1>7, <3>1 DEF MayBegin, HasEpoch, ActiveEpoch, I
  <2> QED
    BY <1>2, <2>1, <2>2 DEF EpochChain
<1> QED
  BY <1>1, <1>3, <1>4, <1>5, <1>6, <1>7 DEF g

\* A candidate of the active epoch is the current one.
LEMMA CandidateFollows ==
    ASSUME NEW h \in Seq(Record), NEW r \in Record, r.type = "candidate",
           HasEpoch(h), r.epoch = ActiveEpoch(h)
    PROVE  LET g == Append(h, r)
           IN  /\ HasEpoch(g) /\ ActiveEpoch(g) = ActiveEpoch(h)
               /\ EpochChain(g) <=> EpochChain(h)
               /\ ActiveCandidates(g) = ActiveCandidates(h) \cup {Len(g)}
               /\ HasCandidate(g) /\ CurrentCandidate(g) = r.id
               /\ ~SupersededCandidate(h) => ~SupersededCandidate(g)
               /\ /\ CandidateChain(h)
                  /\ r.parent = IF HasCandidate(h) THEN CurrentCandidate(h) ELSE Nil
                  => CandidateChain(g)
<1> DEFINE g == Append(h, r)
           N == Len(h)
           A == ActiveCandidates(h)
<1>1. /\ \A n \in 1..N : g[n] = h[n]
      /\ g[N + 1] = r /\ Len(g) = N + 1 /\ N \in Nat
  BY Grow
<1>2. /\ Indices(g, "candidate") = Indices(h, "candidate") \cup {N + 1}
      /\ Indices(h, "candidate") \in SUBSET (1..N)
  BY <1>1, AppendedIndices
<1>3. HasEpoch(g) /\ ActiveEpoch(g) = ActiveEpoch(h) /\ (EpochChain(g) <=> EpochChain(h))
  BY EpochKept
<1> HIDE DEF g, N
<1>4. \A n \in Indices(h, "candidate") : g[n] = h[n] /\ n \in 1..N
  BY <1>1, <1>2
<1>5. A \in SUBSET (1..N) /\ A \subseteq Indices(h, "candidate")
  BY <1>2 DEF ActiveCandidates
<1>6. ActiveCandidates(g) = A \cup {N + 1}
  BY <1>1, <1>2, <1>3, <1>4 DEF ActiveCandidates
<1>7. HasCandidate(g) /\ CurrentCandidate(g) = r.id
  BY <1>1, <1>5, <1>6, BeforeGrows DEF HasCandidate, CurrentCandidate
<1>8. ~SupersededCandidate(h) => ~SupersededCandidate(g)
  BY <1>1, <1>2, <1>3, <1>4 DEF SupersededCandidate
<1>9. ASSUME CandidateChain(h),
             r.parent = IF HasCandidate(h) THEN CurrentCandidate(h) ELSE Nil
      PROVE  CandidateChain(g)
  <2>1. ASSUME NEW n \in A
        PROVE  LET earlier == Before(ActiveCandidates(g), n)
               IN  g[n].parent = IF earlier = {} THEN Nil ELSE g[Last(earlier)].id
    <3>1. Before(ActiveCandidates(g), n) = Before(A, n)
      BY <1>1, <1>5, <1>6, BeforeGrows
    <3>2. Before(A, n) # {} => g[Last(Before(A, n))] = h[Last(Before(A, n))]
      <4>1. Before(A, n) \in SUBSET (1..Len(h)) /\ Before(A, n) \subseteq A
        BY <1>5 DEF Before, N
      <4> HIDE DEF A
      <4>2. Before(A, n) # {} => Last(Before(A, n)) \in Before(A, n)
        BY <4>1, LastRecord
      <4> QED
        BY <1>4, <1>5, <4>1, <4>2
    <3>3. g[n] = h[n]
      BY <1>4, <1>5
    <3> QED
      BY <1>9, <3>1, <3>2, <3>3 DEF CandidateChain
  <2>2. LET earlier == Before(ActiveCandidates(g), N + 1)
        IN  g[N + 1].parent = IF earlier = {} THEN Nil ELSE g[Last(earlier)].id
    <3>1. Before(ActiveCandidates(g), N + 1) = A
      BY <1>1, <1>5, <1>6, BeforeGrows
    <3>2. A # {} => g[Last(A)] = h[Last(A)]
      <4> HIDE DEF A
      <4>1. A # {} => Last(A) \in A
        BY <1>5, LastRecord DEF N
      <4> QED
        BY <1>4, <1>5, <4>1
    <3> QED
      BY <1>1, <1>9, <3>1, <3>2 DEF HasCandidate, CurrentCandidate
  <2> QED
    BY <1>6, <2>1, <2>2 DEF CandidateChain
<1> QED
  BY <1>1, <1>3, <1>6, <1>7, <1>8, <1>9 DEF g

\* A new epoch closes the one before it: nothing is of it yet.
LEMMA SerialEpoch ==
    ASSUME NEW h \in Seq(Record), NEW r \in Record, Serial(h),
           r.type = "epoch", MayBegin(h, r.parent)
    PROVE  Serial(Append(h, r))
<1> DEFINE g == Append(h, r)
<1>1. Rooted(g) /\ Closed(g)
  BY RootedStep, ClosedStep DEF Serial
<1>2. EpochChain(h) /\ \A n \in Indices(h, "candidate") : h[n].epoch \in Indices(h, "epoch")
  BY DEF Serial, Ambiguous, Rooted
<1>3. /\ ActiveCandidates(g) = {} /\ ~HasCandidate(g)
      /\ CandidateChain(g) /\ ~SupersededCandidate(g) /\ EpochChain(g)
  BY <1>2, EpochBegins
<1> HIDE DEF g
<1>4. FrozenCurrent(g) /\ ~Ambiguous(g)
  BY <1>3 DEF FrozenCurrent, Ambiguous
<1> QED
  BY <1>1, <1>4 DEF Serial, g

\* A candidate follows the one before it in its epoch, which is not frozen, and
\* nothing is said of it yet.
LEMMA SerialCandidate ==
    ASSUME NEW h \in Seq(Record), NEW r \in Record, Serial(h),
           r.type = "candidate", Admits(h, r), ~Registered(h, r.id)
    PROVE  Serial(Append(h, r))
<1> DEFINE g == Append(h, r)
           N == Len(h)
           A == ActiveCandidates(h)
<1>0. /\ HasEpoch(h) /\ r.epoch = ActiveEpoch(h) /\ ~Frozen(h)
      /\ r.parent = IF HasCandidate(h) THEN CurrentCandidate(h) ELSE Nil
  BY DEF Admits, Neutral
<1>1. /\ \A n \in 1..N : g[n] = h[n]
      /\ g[N + 1] = r /\ Len(g) = N + 1 /\ N \in Nat
  BY Grow
<1>2. /\ Indices(g, "candidate") = Indices(h, "candidate") \cup {N + 1}
      /\ \A t : Indices(h, t) \in SUBSET (1..N)
      /\ \A t : t # "candidate" => Indices(g, t) = Indices(h, t)
      /\ \A t, c : t # "candidate" => Of(g, t, c) = Of(h, t, c)
  BY <1>1, AppendedIndices
<1>3. /\ HasEpoch(g) /\ ActiveEpoch(g) = ActiveEpoch(h)
      /\ ActiveCandidates(g) = A \cup {N + 1}
      /\ HasCandidate(g) /\ CurrentCandidate(g) = r.id
      /\ EpochChain(g) /\ CandidateChain(g) /\ ~SupersededCandidate(g)
  <2>1. EpochChain(h) /\ CandidateChain(h) /\ ~SupersededCandidate(h)
    BY DEF Serial, Ambiguous
  <2> QED
    BY <1>0, <1>1, <2>1, CandidateFollows
<1>5. Rooted(g)
  <2>1. ActiveEpoch(h) \in Indices(h, "epoch")
    BY <1>0, <1>2, LastRecord DEF HasEpoch, ActiveEpoch
  <2> QED
    BY <1>0, <2>1, RootedStep DEF Serial
<1> HIDE DEF g, N
<1>6. \A n \in Indices(h, "candidate") : g[n] = h[n] /\ n \in 1..N
  BY <1>1, <1>2
<1>7. A \in SUBSET (1..N) /\ A \subseteq Indices(h, "candidate")
  BY <1>2 DEF ActiveCandidates
\* Nothing in the ledger is about the new candidate.
<1>8. ASSUME NEW t \in {"disposition", "freeze", "result"}, NEW m \in Indices(h, t)
       PROVE  h[m].candidate # r.id
  BY DEF Serial, Rooted
\* Nothing of the active epoch is frozen.
<1>9. ASSUME NEW m \in Indices(h, "freeze"), NEW k \in A
       PROVE  h[k].id # h[m].candidate
  <2> SUFFICES ASSUME h[k].id = h[m].candidate PROVE FALSE
    OBVIOUS
  <2>1. HasCandidate(h) /\ CurrentCandidate(h) = h[m].candidate
    BY DEF Serial, FrozenCurrent, HasCandidate
  <2> QED
    BY <1>0, <2>1 DEF Frozen, Of
<1>10. FrozenCurrent(g)
  <2> SUFFICES ASSUME NEW m \in Indices(h, "freeze"), NEW k \in A \cup {N + 1}
               PROVE  g[k].id # g[m].candidate
    BY <1>2, <1>3 DEF FrozenCurrent
  <2>1. g[m] = h[m]
    BY <1>1, <1>2
  <2> QED
    BY <1>1, <1>6, <1>7, <1>8, <1>9, <2>1
<1>11. Closed(g)
  <2> SUFFICES ASSUME NEW m \in Indices(h, "freeze"),
                      NEW n \in Indices(h, "candidate") \cup {N + 1}, m < n,
                      NEW k \in Indices(h, "candidate") \cup {N + 1},
                      g[k].id = g[m].candidate
               PROVE  g[k].epoch # g[n].epoch
    BY <1>2 DEF Closed
  <2>1. g[m] = h[m]
    BY <1>1, <1>2
  <2>2. k \in Indices(h, "candidate") /\ g[k] = h[k]
    BY <1>1, <1>6, <1>8, <2>1
  <2>3. CASE n \in Indices(h, "candidate")
    BY <1>6, <2>1, <2>2, <2>3 DEF Serial, Closed
  <2>4. CASE n = N + 1
    <3>1. k \notin A
      BY <1>9, <2>1, <2>2
    <3> QED
      BY <1>0, <1>1, <2>2, <2>4, <3>1 DEF ActiveCandidates
  <2> QED
    BY <2>3, <2>4
<1>12. /\ Of(g, "disposition", r.id) = {}
       /\ Of(g, "freeze", r.id) = {}
  <2>1. ASSUME NEW t \in {"disposition", "freeze"}
        PROVE  Of(g, t, r.id) = {}
    <3>1. Of(g, t, r.id) = Of(h, t, r.id)
      BY <1>2
    <3>2. \A m \in Indices(h, t) : h[m].candidate # r.id
      BY <1>8
    <3> QED
      BY <3>1, <3>2 DEF Of
  <2> QED
    BY <2>1
<1>13. ~Ambiguous(g)
  BY <1>3, <1>12 DEF Ambiguous, AtMostOne
<1> QED
  BY <1>5, <1>10, <1>11, <1>13 DEF Serial, g

\* Until the candidate is frozen or followed by another, work on it may go on.
LEMMA WorkingStays ==
    ASSUME NEW h \in Seq(Record), NEW r \in Record, NEW c, Working(h, c),
           r.type \notin {"epoch", "candidate", "freeze"}
    PROVE  Working(Append(h, r), c)
<1>1. LET g == Append(h, r)
      IN  HasCandidate(g) /\ CurrentCandidate(g) = c /\ Of(g, "freeze", c) = Of(h, "freeze", c)
  BY CandidatesKept, AppendedIndices DEF Working
<1> QED
  BY <1>1 DEF Working, Frozen

\* What an evaluator stores takes nothing from what a call is entitled to.
LEMMA EntitledStays ==
    ASSUME NEW h \in Seq(Record), NEW r \in Record, r.type \in Neutral,
           NEW mode, NEW at, NEW c, NEW s, NEW u, NEW d,
           Entitled(h, mode, at, c, s, u, d)
    PROVE  Entitled(Append(h, r), mode, at, c, s, u, d)
<1> DEFINE g == Append(h, r)
<1>1. /\ HasEpoch(g) <=> HasEpoch(h)
      /\ ActiveEpoch(g) = ActiveEpoch(h)
      /\ HasCandidate(g) <=> HasCandidate(h)
      /\ HasCandidate(h) => CurrentCandidate(g) = CurrentCandidate(h)
  BY EpochKept, CandidatesKept DEF Neutral
<1>2. /\ \A x : Of(g, "disposition", x) = Of(h, "disposition", x)
      /\ \A x : Of(g, "freeze", x) = Of(h, "freeze", x)
  BY AppendedIndices DEF Neutral
<1>3. \A x : Working(h, x) => Working(g, x)
  BY WorkingStays DEF Neutral
<1>4. \A x, R : CleanFor(h, x, R) => CleanFor(g, x, R)
  BY EvidenceKept DEF Neutral
<1> HIDE DEF g
<1>5. \A x : MayBegin(h, x) => MayBegin(g, x)
  BY <1>1 DEF MayBegin
<1>6. Admits(h, d) => Admits(g, d)
  BY <1>1, <1>2, <1>3, <1>5 DEF Admits, Frozen, Disposed
<1> QED
  BY <1>3, <1>4, <1>5, <1>6 DEF Entitled, g

\* What may follow the history keeps it unambiguous and its frozen epochs closed.
LEMMA SerialStep ==
    ASSUME NEW h \in Seq(Record), NEW r \in Record, Serial(h),
           Admits(h, r), r.type = "candidate" => ~Registered(h, r.id)
    PROVE  Serial(Append(h, r))
<1>1. CASE r.type = "epoch"
  BY <1>1, SerialEpoch DEF Admits, Neutral
<1>2. CASE r.type = "candidate"
  BY <1>2, SerialCandidate
<1>3. CASE r.type \notin {"epoch", "candidate"}
  BY <1>3, SerialRecord
<1> QED
  BY <1>1, <1>2, <1>3

\* A process that leaves the others alone, and stays within what it is entitled
\* to, leaves the others what they are entitled to: either it stores a record
\* that decides nothing, or it is the only one that decides.
LEMMA SerialFrame ==
    ASSUME IInv, SInv, OneDeveloper, NEW p \in Procs,
           \/ UNCHANGED <<history, grounds>>
           \/ Stores(p) /\ (draft[p].type = "candidate" => ~Registered(history, draft[p].id)),
           \A q \in Procs \ {p} :
              /\ pc'[q] = pc[q] /\ call'[q] = call[q] /\ seen'[q] = seen[q]
              /\ subject'[q] = subject[q] /\ draft'[q] = draft[q],
           Entitled(history', Mode[p], pc'[p], call'[p], seen'[p], subject'[p], draft'[p])
    PROVE  SInv'
<1>1. CASE UNCHANGED <<history, grounds>>
  <2>1. Serial(history') /\ Clean(history', grounds')
    BY <1>1 DEF SInv
  <2>2. EntitledInv'
    BY <1>1 DEF SInv, EntitledInv
  <2> QED
    BY <2>1, <2>2 DEF SInv
<1>2. CASE /\ Stores(p)
           /\ draft[p].type = "candidate" => ~Registered(history, draft[p].id)
  <2> DEFINE x == GroundsOf(seen[p], draft[p])
  <2>1. /\ history \in Seq(Record) /\ draft[p] \in Record
        /\ grounds \in Seq(Grounds) /\ Len(grounds) = Len(history)
        /\ draft[p].type \in {"disposition", "freeze"} => seen[p] \in Seen
    BY <1>2 DEF Stores, IInv, TypeOK, LocalInv, Local
  <2>x. x \in Grounds
    BY <2>1 DEF GroundsOf, Grounds, Seen
  <2>h. history' = Append(history, draft[p]) /\ grounds' = Append(grounds, x)
    BY <1>2 DEF Stores
  <2>2. Entitled(history, Mode[p], "commit", call[p], seen[p], subject[p], draft[p])
    BY <1>2 DEF SInv, EntitledInv, Stores
  <2>3. Admits(history, draft[p])
    BY <2>2 DEF Entitled
  <2>6. Serial(history')
    BY <1>2, <2>1, <2>h, <2>3, SerialStep DEF SInv
  <2>7. Clean(history', grounds')
    <3>1. draft[p].type = "freeze" => CleanFor(history, draft[p].candidate, x.policy \cup x.plan)
      BY <2>2 DEF Entitled, GroundsOf
    <3>2. draft[p].type = "result" => Working(history, draft[p].candidate)
      BY <2>3 DEF Admits, Neutral
    <3>3. draft[p].type = "result" =>
             \A m \in Indices(history, "freeze") : history[m].candidate # draft[p].candidate
      BY <3>2 DEF Working, Frozen, Of
    <3> HIDE DEF x
    <3> QED
      BY <2>1, <2>x, <2>h, <3>1, <3>3, CleanStep DEF SInv
  <2> HIDE DEF x
  <2>4. ASSUME NEW q \in Procs, q # p
        PROVE  Entitled(history', Mode[q], pc[q], call[q], seen[q], subject[q], draft[q])
    <3>1. Entitled(history, Mode[q], pc[q], call[q], seen[q], subject[q], draft[q])
      BY DEF SInv, EntitledInv
    <3>2. CASE draft[p].type \in Neutral
      BY <2>1, <2>h, <3>1, <3>2, EntitledStays
    <3>3. CASE draft[p].type \notin Neutral
      <4>1. Mode[p] # "evaluator"
        BY <2>2, <3>3 DEF Entitled
      <4>2. Mode[q] = "evaluator"
        BY <2>4, <4>1, ConstantsAssumption DEF OneDeveloper
      <4> QED
        BY <3>1, <4>2 DEF Entitled, Admits, Neutral
    <3> QED
      BY <3>2, <3>3
  <2>5. EntitledInv'
    BY <2>4 DEF EntitledInv
  <2> QED
    BY <2>5, <2>6, <2>7 DEF SInv
<1> QED
  BY <1>1, <1>2

\* A call that ends is entitled to nothing.
LEMMA SerialEnd ==
    ASSUME IInv, SInv, OneDeveloper, NEW p \in Procs, End(p),
           \/ UNCHANGED <<history, grounds>>
           \/ Stores(p) /\ (draft[p].type = "candidate" => ~Registered(history, draft[p].id))
    PROVE  SInv'
<1>1. /\ pc'[p] = "idle"
      /\ \A q \in Procs \ {p} :
            /\ pc'[q] = pc[q] /\ call'[q] = call[q] /\ seen'[q] = seen[q]
            /\ subject'[q] = subject[q] /\ draft'[q] = draft[q]
  BY DEF End, IInv, TypeOK
<1>2. Entitled(history', Mode[p], pc'[p], call'[p], seen'[p], subject'[p], draft'[p])
  BY <1>1 DEF Entitled
<1> QED
  BY <1>1, <1>2, SerialFrame

\* A call that begins has not been authorized for anything; an evaluator only
\* evaluates and bundles.
LEMMA SerialBegin ==
    ASSUME IInv, SInv, OneDeveloper, NEW p \in Procs,
           \/ \E c \in Calls : Call(p, c)
           \/ Refresh(p) \/ RefreshCall(p) \/ Identify(p) \/ Parse(p) \/ LookBefore(p)
    PROVE  SInv'
<1> USE DEF IInv, TypeOK, Goto, files
<1>1. CASE \E c \in Calls : Call(p, c)
  <2>1. PICK c \in Calls : Call(p, c)
    BY <1>1
  <2>2. Entitled(history', Mode[p], pc'[p], call'[p], seen'[p], subject'[p], draft'[p])
    BY <2>1 DEF Call, Entitled, Operations
  <2> QED
    BY <2>1, <2>2, SerialFrame DEF Call
<1>2. CASE Refresh(p)
  <2>1. Mode[p] # "evaluator"
    BY <1>2 DEF Refresh, Operations
  <2>2. Entitled(history', Mode[p], pc'[p], call'[p], seen'[p], subject'[p], draft'[p])
    BY <1>2, <2>1 DEF Refresh, Entitled
  <2> QED
    BY <1>2, <2>2, SerialFrame DEF Refresh
<1>3. Entitled(history, Mode[p], pc[p], call[p], seen[p], subject[p], draft[p])
  BY DEF SInv, EntitledInv
<1>4. CASE RefreshCall(p)
  <2>1. Entitled(history', Mode[p], pc'[p], call'[p], seen'[p], subject'[p], draft'[p])
    BY <1>3, <1>4 DEF RefreshCall, Entitled
  <2> QED
    BY <1>4, <2>1, SerialFrame DEF RefreshCall
<1>5. CASE Parse(p)
  <2>1. Entitled(history', Mode[p], pc'[p], call'[p], seen'[p], subject'[p], draft'[p])
    BY <1>3, <1>5 DEF Parse, Entitled
  <2> QED
    BY <1>5, <2>1, SerialFrame DEF Parse
<1>7. CASE Identify(p)
  <2>1. Entitled(history', Mode[p], pc'[p], call'[p], seen'[p], subject'[p], draft'[p])
    BY <1>3, <1>7 DEF Identify, Entitled
  <2> QED
    BY <1>7, <2>1, SerialFrame DEF Identify
<1>6. CASE LookBefore(p)
  <2>1. call[p].op = "evaluate"
    BY <1>6 DEF LookBefore, LocalInv, Local
  <2>2. Entitled(history', Mode[p], pc'[p], call'[p], seen'[p], subject'[p], draft'[p])
    BY <1>3, <1>6, <2>1 DEF LookBefore, Entitled
  <2> QED
    BY <1>6, <2>2, SerialFrame DEF LookBefore
<1> QED
  BY <1>1, <1>2, <1>4, <1>5, <1>6, <1>7

\* What is authorized may follow the history that it was authorized on.
LEMMA SerialAuthorizeRecord ==
    ASSUME IInv, SInv, OneDeveloper, NEW p \in Procs, AuthorizeRecord(p)
    PROVE  SInv'
<1> USE DEF Goto, files
<1>1. /\ pc[p] = "authorize" /\ Allowed(p)
      /\ call[p].op \in {"register", "refresh", "selected", "rejected"}
      /\ pc' = [pc EXCEPT ![p] = "commit"] /\ pc'[p] = "commit"
      /\ UNCHANGED <<history, grounds, call, seen, subject>>
      /\ \A q \in Procs \ {p} : pc'[q] = pc[q] /\ draft'[q] = draft[q]
  BY DEF AuthorizeRecord, Prepare, IInv, TypeOK
<1>2. Mode[p] # "evaluator"
  BY <1>1 DEF SInv, EntitledInv, Entitled
<1>3. Admits(history, draft'[p]) /\ draft'[p].type # "freeze"
  <2>1. CASE call[p].op \in {"register", "refresh"}
    <3> DEFINE r == [type |-> "candidate", id |-> seen[p].content,
                     parent |-> call[p].parent, epoch |-> ActiveEpoch(history)]
    <3>1. draft'[p] = r
      BY <2>1 DEF AuthorizeRecord, Prepare, IInv, TypeOK
    <3>2. MayRegister(history, Observed(p), call[p].parent)
      BY <1>1, <2>1 DEF Allowed
    <3>3. r.type = "candidate" /\ r.epoch = ActiveEpoch(history) /\ r.parent = call[p].parent
      OBVIOUS
    <3> HIDE DEF r
    <3> QED
      BY <3>1, <3>2, <3>3 DEF Admits, MayRegister
  <2>2. CASE call[p].op \in {"selected", "rejected"}
    <3> DEFINE r == [type |-> "disposition", candidate |-> CurrentCandidate(history),
                     disposition |-> call[p].op, policy |-> seen[p].policy,
                     evidence |-> ReadinessStatus(history, Observed(p))]
    <3>1. draft'[p] = r
      BY <2>2 DEF AuthorizeRecord, Prepare, IInv, TypeOK
    <3>2. MayDispose(history, Observed(p), call[p].op)
      BY <1>1, <2>2 DEF Allowed
    <3>3. r.type = "disposition" /\ r.candidate = CurrentCandidate(history)
      OBVIOUS
    <3> HIDE DEF r
    <3> QED
      BY <3>1, <3>2, <3>3 DEF Admits, MayDispose, Fresh
  <2> QED
    BY <1>1, <2>1, <2>2
<1>4. Entitled(history', Mode[p], pc'[p], call'[p], seen'[p], subject'[p], draft'[p])
  BY <1>1, <1>2, <1>3 DEF Entitled
<1> QED
  BY <1>1, <1>4, SerialFrame

\* A freeze is authorized for a candidate with clean evidence, work for one
\* that is not frozen.
LEMMA SerialAuthorizeSubject ==
    ASSUME IInv, SInv, OneDeveloper, NEW p \in Procs, AuthorizeSubject(p)
    PROVE  SInv'
<1> DEFINE at == CASE call[p].op \in {"epoch", "freeze"} -> "build"
                   [] call[p].op = "evaluate" -> "before"
                   [] OTHER -> "execute"
           c == CurrentCandidate(history)
           f == CASE call[p].op = "freeze" -> Disposition(history)
                  [] call[p].op = "evaluate" -> Freeze(history)
                  [] OTHER -> Nil
           u == IF call[p].op = "epoch" THEN NoSubject ELSE [candidate |-> c, freeze |-> f]
<1>1. /\ history \in Seq(Record) /\ pc[p] = "authorize" /\ Allowed(p)
      /\ call[p].op \in {"epoch", "freeze", "work", "evaluate", "bundle"}
      /\ pc' = [pc EXCEPT ![p] = at] /\ pc'[p] = at
      /\ subject' = [subject EXCEPT ![p] = u] /\ subject'[p] = u
      /\ UNCHANGED <<history, grounds, call, seen, draft>>
      /\ \A q \in Procs \ {p} : pc'[q] = pc[q] /\ subject'[q] = subject[q]
  BY DEF AuthorizeSubject, IInv, TypeOK, Goto, files
<1>2. Mode[p] = "evaluator" => call[p].op \in {"evaluate", "bundle"}
  BY <1>1 DEF SInv, EntitledInv, Entitled
<1>3. call[p].op = "epoch" => MayBegin(history, call[p].parent)
  BY <1>1 DEF Allowed
<1>4. call[p].op = "work" => Working(history, c)
  BY <1>1 DEF Allowed, MayWork, Fresh, Working
<1>5. call[p].op = "freeze" =>
        Working(history, c) /\ CleanFor(history, c, seen[p].required \cup seen[p].planned)
  <2> SUFFICES ASSUME call[p].op = "freeze"
               PROVE  /\ Working(history, c)
                      /\ CleanFor(history, c, seen[p].required \cup seen[p].planned)
    OBVIOUS
  <2>1. MayFreeze(history, Observed(p))
    BY <1>1 DEF Allowed
  <2>2. /\ Working(history, c)
        /\ Ready(history, Observed(p), Observed(p).required)
        /\ Ready(history, Observed(p), Observed(p).planned)
    BY <2>1 DEF MayFreeze, Fresh, Working
  <2>3. seen[p] \in Seen
    BY <1>1 DEF IInv, LocalInv, Local
  <2>4. CleanFor(history, c, seen[p].required \cup seen[p].planned)
    BY <2>2, <2>3, ObservedRequirements DEF CleanFor, Ready
  <2> QED
    BY <2>2, <2>4
<1>6. /\ at \in {"build", "before", "execute"}
      /\ at = "build" => call[p].op \in {"epoch", "freeze"}
      /\ at = "execute" => call[p].op \in {"work", "bundle"}
      /\ call[p].op \in {"freeze", "work"} => u.candidate = c
  BY <1>1
<1> HIDE DEF at, c, f, u
<1>7. Entitled(history', Mode[p], pc'[p], call'[p], seen'[p], subject'[p], draft'[p])
  BY <1>1, <1>2, <1>3, <1>4, <1>5, <1>6 DEF Entitled
<1> QED
  BY <1>1, <1>7, SerialFrame

\* The epoch or the freeze that is built is what was authorized.
LEMMA SerialBuild ==
    ASSUME IInv, SInv, OneDeveloper, NEW p \in Procs, Build(p)
    PROVE  SInv'
<1> DEFINE e == [type |-> "epoch", parent |-> call[p].parent, authority |-> world.authority]
           z == [type |-> "freeze", candidate |-> subject[p].candidate,
                 authority |-> world.authority, plan |-> world.policy,
                 selection |-> subject[p].freeze]
           r == IF call[p].op = "epoch" THEN e ELSE z
<1>1. /\ pc[p] = "build"
      /\ pc' = [pc EXCEPT ![p] = "commit"] /\ pc'[p] = "commit"
      /\ draft' = [draft EXCEPT ![p] = r] /\ draft'[p] = r
      /\ UNCHANGED <<history, grounds, call, seen, subject>>
      /\ \A q \in Procs \ {p} : pc'[q] = pc[q] /\ draft'[q] = draft[q]
  BY DEF Build, Prepare, IInv, TypeOK, Goto, files
<1>2. call[p].op \in {"epoch", "freeze"}
  BY <1>1 DEF IInv, LocalInv, Local
<1>3. Entitled(history, Mode[p], "build", call[p], seen[p], subject[p], draft[p])
  BY <1>1 DEF SInv, EntitledInv
<1>4. /\ call[p].op = "epoch" => r.type = "epoch" /\ r.parent = call[p].parent
      /\ call[p].op = "freeze" =>
           r.type = "freeze" /\ r.candidate = subject[p].candidate
  OBVIOUS
<1> HIDE DEF r
<1>5. Admits(history, r)
  BY <1>2, <1>3, <1>4 DEF Admits, Entitled
<1>6. Entitled(history', Mode[p], pc'[p], call'[p], seen'[p], subject'[p], draft'[p])
  BY <1>1, <1>2, <1>3, <1>4, <1>5 DEF Entitled
<1> QED
  BY <1>1, <1>6, SerialFrame

\* A result is one of the candidate that the work was authorized for.
LEMMA SerialExecute ==
    ASSUME IInv, SInv, OneDeveloper, NEW p \in Procs, Execute(p)
    PROVE  SInv'
<1>1. PICK w \in Workflows, s \in Statuses :
        draft' = [draft EXCEPT ![p] = Outcome(p, w, s)]
  BY DEF Execute, Prepare
<1> DEFINE r == Outcome(p, w, s)
<1>2. /\ pc[p] = "execute"
      /\ pc' = [pc EXCEPT ![p] = "commit"] /\ pc'[p] = "commit" /\ draft'[p] = r
      /\ UNCHANGED <<history, grounds, call, seen, subject>>
      /\ \A q \in Procs \ {p} : pc'[q] = pc[q] /\ draft'[q] = draft[q]
  BY <1>1 DEF Execute, IInv, TypeOK, Goto, files
<1>3. call[p].op \in {"work", "evaluate", "bundle"}
  BY <1>2 DEF IInv, LocalInv, Local
<1>4. Entitled(history, Mode[p], "execute", call[p], seen[p], subject[p], draft[p])
  BY <1>2 DEF SInv, EntitledInv
<1>5. /\ call[p].op = "work" => r.type = "result" /\ r.candidate = subject[p].candidate
      /\ call[p].op \in {"evaluate", "bundle"} => r.type \in Neutral
  BY DEF Outcome, Neutral
<1> HIDE DEF r
<1>6. Admits(history, r)
  BY <1>3, <1>4, <1>5 DEF Admits, Entitled
<1>7. Entitled(history', Mode[p], pc'[p], call'[p], seen'[p], subject'[p], draft'[p])
  BY <1>2, <1>3, <1>4, <1>5, <1>6 DEF Entitled, Neutral
<1> QED
  BY <1>2, <1>7, SerialFrame

\* A list of workflows goes on with the candidate, which its result leaves as
\* it was.
LEMMA SerialCommitResult ==
    ASSUME IInv, SInv, OneDeveloper, NEW p \in Procs, CommitResult(p)
    PROVE  SInv'
<1>1. /\ Stores(p) /\ pc[p] = "commit" /\ history' = Append(history, draft[p])
      /\ call[p].op \in {"work", "evaluate"}
      /\ history \in Seq(Record) /\ draft[p] \in Record
  BY DEF CommitResult, Store, Stores, IInv, TypeOK, LocalInv, Local
<1>2. Entitled(history, Mode[p], "commit", call[p], seen[p], subject[p], draft[p])
  BY <1>1 DEF SInv, EntitledInv
<1>3. draft[p].type # "candidate"
  BY <1>1, <1>2 DEF Entitled, Neutral
<1>4. CASE End(p)
  BY <1>1, <1>3, <1>4, SerialEnd
<1>5. CASE /\ pc' = [pc EXCEPT ![p] = IF call[p].op = "evaluate" THEN "check" ELSE "execute"]
           /\ draft' = [draft EXCEPT ![p] = Nil]
           /\ UNCHANGED <<call, seen, subject>>
  <2>1. /\ pc'[p] = IF call[p].op = "evaluate" THEN "check" ELSE "execute"
        /\ call'[p] = call[p] /\ subject'[p] = subject[p]
        /\ \A q \in Procs \ {p} :
              /\ pc'[q] = pc[q] /\ call'[q] = call[q] /\ seen'[q] = seen[q]
              /\ subject'[q] = subject[q] /\ draft'[q] = draft[q]
    BY <1>5 DEF IInv, TypeOK
  <2>2. call[p].op = "work" => Working(history', subject[p].candidate)
    BY <1>1, <1>2, WorkingStays DEF Entitled
  <2>3. Entitled(history', Mode[p], pc'[p], call'[p], seen'[p], subject'[p], draft'[p])
    BY <1>1, <1>2, <2>1, <2>2 DEF Entitled
  <2> QED
    BY <1>1, <1>3, <2>1, <2>3, SerialFrame
<1> QED
  BY <1>4, <1>5 DEF CommitResult

\* An evaluation goes on with the next workflow, or ends.
LEMMA SerialCheck ==
    ASSUME IInv, SInv, OneDeveloper, NEW p \in Procs, Check(p)
    PROVE  SInv'
<1>1. pc[p] = "check" /\ UNCHANGED <<history, grounds>>
  BY DEF Check, files
<1>2. CASE End(p)
  BY <1>1, <1>2, SerialEnd
<1>3. CASE pc' = [pc EXCEPT ![p] = "before"] /\ UNCHANGED locals
  <2>1. pc'[p] = "before" /\ \A q \in Procs \ {p} : pc'[q] = pc[q]
    BY <1>3 DEF IInv, TypeOK
  <2>2. Entitled(history, Mode[p], "check", call[p], seen[p], subject[p], draft[p])
    BY <1>1 DEF SInv, EntitledInv
  <2>3. Entitled(history', Mode[p], pc'[p], call'[p], seen'[p], subject'[p], draft'[p])
    BY <1>3, <2>1, <2>2 DEF Entitled, locals
  <2> QED
    BY <1>1, <1>3, <2>1, <2>3, SerialFrame DEF locals
<1> QED
  BY <1>2, <1>3 DEF Check

\* A record is stored only if no candidate has its identity.
LEMMA SerialEnds ==
    ASSUME IInv, SInv, OneDeveloper, NEW p \in Procs,
           Refuse(p) \/ RecordExists(p) \/ Commit(p) \/ Abandon(p)
    PROVE  SInv'
<1>1. CASE Commit(p)
  <2>1. /\ End(p) /\ Stores(p)
        /\ draft[p].type = "candidate" => ~Registered(history, draft[p].id)
    BY <1>1 DEF Commit, Store, Stores, Registered
  <2> QED
    BY <2>1, SerialEnd
<1>2. CASE Refuse(p) \/ RecordExists(p) \/ Abandon(p)
  <2>1. End(p) /\ UNCHANGED <<history, grounds>>
    BY <1>2 DEF Refuse, RecordExists, Abandon, files
  <2> QED
    BY <2>1, SerialEnd
<1> QED
  BY <1>1, <1>2

\* Every step keeps the history serial.
LEMMA SerialInvariance ==
    ASSUME OneDeveloper
    PROVE  Spec => []SInv
<1>1. Init => SInv
  <2> SUFFICES ASSUME Init PROVE SInv
    OBVIOUS
  <2>1. \A t : Indices(history, t) = {}
    BY DEF Init, Indices
  <2>2. ~HasCandidate(history) /\ ActiveCandidates(history) = {} /\ ~HasEpoch(history)
    BY <2>1 DEF HasCandidate, ActiveCandidates, HasEpoch
  <2>3. ~Ambiguous(history)
    BY <2>1, <2>2 DEF Ambiguous, EpochChain, SupersededCandidate, CandidateChain
  <2>4. Rooted(history) /\ FrozenCurrent(history) /\ Closed(history) /\ Clean(history, grounds)
    BY <2>1 DEF Rooted, FrozenCurrent, Closed, Clean
  <2>5. EntitledInv
    BY DEF Init, EntitledInv, Entitled
  <2> QED
    BY <2>3, <2>4, <2>5 DEF SInv, Serial
<1>2. IInv /\ SInv /\ [Next]_vars => SInv'
  <2> SUFFICES ASSUME IInv, SInv, [Next]_vars PROVE SInv'
    OBVIOUS
  <2>1. CASE Edit \/ UNCHANGED vars
    <3>1. UNCHANGED <<history, grounds, pc, call, seen, subject, draft>>
      BY <2>1 DEF Edit, vars, files, locals
    <3> QED
      BY <3>1 DEF SInv, EntitledInv
  <2>2. ASSUME NEW p \in Procs,
               \/ \E parent \in Indices(history, "epoch") \cup {Nil} :
                     Call(p, [op |-> "epoch", parent |-> parent])
               \/ \E parent \in Contents \cup {Nil} :
                     Call(p, [op |-> "register", parent |-> parent])
               \/ \E op \in Operations(p) \ {"epoch", "register", "refresh"} :
                     Call(p, [op |-> op, parent |-> Nil])
        PROVE  SInv'
    <3>1. \E c \in Calls : Call(p, c)
      BY <2>2, NextCalls
    <3> QED
      BY <3>1, SerialBegin
  <2>3. ASSUME NEW p \in Procs, Refresh(p) \/ RefreshCall(p) \/ Identify(p) \/ Parse(p) \/ LookBefore(p)
        PROVE  SInv'
    BY <2>3, SerialBegin
  <2>4. ASSUME NEW p \in Procs,
               \/ AuthorizeRecord(p) \/ AuthorizeSubject(p) \/ Build(p) \/ Execute(p)
               \/ CommitResult(p) \/ Check(p)
        PROVE  SInv'
    BY <2>4, SerialAuthorizeRecord, SerialAuthorizeSubject, SerialBuild, SerialExecute,
       SerialCommitResult, SerialCheck
  <2>5. ASSUME NEW p \in Procs, Refuse(p) \/ RecordExists(p) \/ Commit(p) \/ Abandon(p)
        PROVE  SInv'
    BY <2>5, SerialEnds
  <2> QED
    BY <2>1, <2>2, <2>3, <2>4, <2>5 DEF Next
<1> QED
  BY <1>1, <1>2, Invariance, PTL DEF Spec

\* However the files are edited and wherever it dies, one development process,
\* with any number of evaluators, never makes a history that blocks every later
\* mutation.
THEOREM HistoryStaysUnambiguous ==
    ASSUME OneDeveloper
    PROVE  Spec => []NeverAmbiguous
<1>1. SInv => NeverAmbiguous
  BY DEF SInv, Serial, NeverAmbiguous
<1> QED
  BY <1>1, SerialInvariance, PTL

\* Nor does it register a candidate in an epoch that is frozen.
THEOREM FrozenEpochsStayClosed ==
    ASSUME OneDeveloper
    PROVE  Spec => []FrozenEpochClosed
<1>1. SInv => FrozenEpochClosed
  BY DEF SInv, Serial, Closed, FrozenEpochClosed
<1> QED
  BY <1>1, SerialInvariance, PTL

\* Nor is there ever evidence against what is frozen, of a workflow that the
\* freeze read policy or plan to require.
THEOREM FrozenEvidenceStaysClean ==
    ASSUME OneDeveloper
    PROVE  Spec => []FrozenEvidenceClean
<1>1. SInv => FrozenEvidenceClean
  BY DEF SInv, Clean, CleanFor, FrozenEvidenceClean
<1> QED
  BY <1>1, SerialInvariance, PTL

-----------------------------------------------------------------------------
(* The kernel                                                               *)
(*                                                                          *)
(* mncs.forge.lifecycle folds the events of the history; ForgeStateMachine  *)
(* looks the history up.  What the fold has come to, after any history, is  *)
(* what is looked up: an event moves both alike.                            *)

\* A kernel's states along the first n events.
RunOf(roots, events, n, st) ==
    st = [k \in 0..n |-> IF k = 0 THEN ProjectionInitial
                         ELSE ProjectEvent(roots, st[k - 1], events[k])]

\* The first n events are the same.
SameEvents(n, es, fs) == \A k \in 1..n : es[k] = fs[k]

\* A set of numbers that is not empty has a least one.
LEMMA LeastOf ==
    ASSUME NEW T \in SUBSET Nat, T # {}
    PROVE  \E m \in T : \A k \in T : m <= k
<1>1. PICK m \in T : \A k \in T : ~(<<k, m>> \in OpToRel(<, Nat))
  BY NatLessThanWellFounded, WFMin
<1>2. \A k \in T : k \in Nat /\ m \in Nat /\ ~(k < m)
  BY <1>1 DEF OpToRel
<1> QED
  BY <1>2

\* The states along the events are determined by them.
LEMMA RunsAgree ==
    ASSUME NEW roots, NEW es, NEW fs, NEW n \in Nat, NEW m \in Nat, n <= m,
           NEW st, RunOf(roots, es, n, st), NEW su, RunOf(roots, fs, m, su),
           SameEvents(n, es, fs)
    PROVE  \A k \in 0..n : st[k] = su[k]
<1> DEFINE T == {k \in 0..n : st[k] # su[k]}
<1>1. SUFFICES ASSUME T # {} PROVE FALSE
  OBVIOUS
<1>2. T \in SUBSET Nat
  OBVIOUS
<1>3. PICK k \in T : \A j \in T : k <= j
  <2> HIDE DEF T
  <2> QED
    BY <1>1, <1>2, LeastOf
<1>4. k \in 0..n /\ st[k] # su[k] /\ k \in 0..m
  BY <1>3
<1>5. CASE k = 0
  <2>1. st[0] = ProjectionInitial /\ su[0] = ProjectionInitial
    BY <1>4, <1>5 DEF RunOf
  <2> QED
    BY <1>4, <1>5, <2>1
<1>6. CASE k # 0
  <2>1. k - 1 \in 0..n /\ k \in 1..n /\ ~(k <= k - 1)
    BY <1>4, <1>6
  <2>2. st[k - 1] = su[k - 1]
    BY <1>3, <2>1
  <2>3. st[k] = ProjectEvent(roots, st[k - 1], es[k])
    BY <1>4, <1>6 DEF RunOf
  <2>4. su[k] = ProjectEvent(roots, su[k - 1], fs[k])
    BY <1>4, <1>6 DEF RunOf
  <2> QED
    BY <1>4, <2>1, <2>2, <2>3, <2>4 DEF SameEvents
<1> QED
  BY <1>5, <1>6

\* One more event is one more state.
LEMMA RunExtends ==
    ASSUME NEW roots, NEW es, NEW n \in Nat, NEW st, RunOf(roots, es, n, st)
    PROVE  \E su : RunOf(roots, es, n + 1, su)
<1> DEFINE next == ProjectEvent(roots, st[n], es[n + 1])
           su == [k \in 0..(n + 1) |-> IF k = n + 1 THEN next ELSE st[k]]
<1> HIDE DEF next
<1>1. su[n + 1] = next /\ \A k \in 0..n : su[k] = st[k]
  OBVIOUS
<1>2. \A k \in 0..(n + 1) :
         su[k] = IF k = 0 THEN ProjectionInitial ELSE ProjectEvent(roots, su[k - 1], es[k])
  <2> SUFFICES ASSUME NEW k \in 0..(n + 1)
               PROVE  su[k] = IF k = 0 THEN ProjectionInitial
                              ELSE ProjectEvent(roots, su[k - 1], es[k])
    OBVIOUS
  <2>1. CASE k = n + 1
    <3>1. k # 0 /\ k - 1 = n /\ n \in 0..n
      BY <2>1
    <3>2. su[k - 1] = st[n] /\ su[k] = next
      BY <1>1, <2>1, <3>1
    <3> HIDE DEF su
    <3> QED
      BY <2>1, <3>1, <3>2 DEF next
  <2>2. CASE k # n + 1
    <3>1. k \in 0..n /\ (k # 0 => k - 1 \in 0..n)
      BY <2>2
    <3>2. st[k] = IF k = 0 THEN ProjectionInitial
                  ELSE ProjectEvent(roots, st[k - 1], es[k])
      BY <3>1 DEF RunOf
    <3>3. su[k] = st[k] /\ (k # 0 => su[k - 1] = st[k - 1])
      BY <1>1, <3>1
    <3> HIDE DEF su
    <3> QED
      BY <3>2, <3>3
  <2> QED
    BY <2>1, <2>2
<1>3. su = [k \in 0..(n + 1) |-> su[k]]
  OBVIOUS
<1> HIDE DEF su
<1>4. su = [k \in 0..(n + 1) |-> IF k = 0 THEN ProjectionInitial
                                 ELSE ProjectEvent(roots, su[k - 1], es[k])]
  BY <1>2, <1>3
<1> QED
  BY <1>4 DEF RunOf

\* Every history has its states.
LEMMA RunExists ==
    ASSUME NEW roots, NEW es, NEW n \in Nat
    PROVE  \E st : RunOf(roots, es, n, st)
<1> DEFINE T == {k \in Nat : ~\E st : RunOf(roots, es, k, st)}
<1>1. SUFFICES ASSUME T # {} PROVE FALSE
  OBVIOUS
<1>2. PICK k \in T : \A j \in T : k <= j
  <2>1. T \in SUBSET Nat
    OBVIOUS
  <2> HIDE DEF T
  <2> QED
    BY <1>1, <2>1, LeastOf
<1>3. CASE k = 0
  <2> DEFINE st == [j \in 0..0 |-> ProjectionInitial]
  <2>1. st = [j \in 0..0 |-> IF j = 0 THEN ProjectionInitial
                             ELSE ProjectEvent(roots, st[j - 1], es[j])]
    <3>1. \A j \in 0..0 : j = 0
      OBVIOUS
    <3> QED
      BY <3>1
  <2> HIDE DEF st
  <2>2. RunOf(roots, es, 0, st)
    BY <2>1 DEF RunOf
  <2> QED
    BY <1>2, <1>3, <2>2
<1>4. CASE k # 0
  <2>1. k - 1 \in Nat /\ ~(k <= k - 1) /\ (k - 1) + 1 = k
    BY <1>2, <1>4
  <2>2. PICK st : RunOf(roots, es, k - 1, st)
    BY <1>2, <2>1
  <2>3. \E su : RunOf(roots, es, k, su)
    BY <2>1, <2>2, RunExtends
  <2> QED
    BY <1>2, <2>3
<1> QED
  BY <1>3, <1>4

\* The kernel's answer is the last state.
LEMMA ProjectedBy ==
    ASSUME NEW roots, NEW es, Len(es) \in Nat
    PROVE  \E st : RunOf(roots, es, Len(es), st) /\ ProjectEvents(roots, es) = st[Len(es)]
<1>1. PICK st : RunOf(roots, es, Len(es), st)
  BY RunExists
<1> DEFINE su == CHOOSE x : RunOf(roots, es, Len(es), x)
<1>2. RunOf(roots, es, Len(es), su)
  BY <1>1
<1>3. ProjectEvents(roots, es) = su[Len(es)]
  BY Zenon DEF ProjectEvents, RunOf
<1> QED
  BY <1>2, <1>3

\* No events leave the kernel at the beginning.
LEMMA ProjectNone ==
    ASSUME NEW roots, NEW es, Len(es) = 0
    PROVE  ProjectEvents(roots, es) = ProjectionInitial
<1>1. PICK st : RunOf(roots, es, Len(es), st) /\ ProjectEvents(roots, es) = st[Len(es)]
  BY ProjectedBy
<1> QED
  BY <1>1 DEF RunOf

\* The kernel takes one step more for an event more.
LEMMA ProjectMore ==
    ASSUME NEW roots, NEW es, NEW fs, NEW n \in Nat, NEW m \in Nat, m = n + 1,
           Len(es) = n, Len(fs) = m, SameEvents(n, es, fs)
    PROVE  ProjectEvents(roots, fs) = ProjectEvent(roots, ProjectEvents(roots, es), fs[m])
<1>1. PICK st : RunOf(roots, es, n, st) /\ ProjectEvents(roots, es) = st[n]
  BY ProjectedBy
<1>2. PICK su : RunOf(roots, fs, m, su) /\ ProjectEvents(roots, fs) = su[m]
  BY ProjectedBy
<1>3. n <= m /\ n \in 0..n
  OBVIOUS
<1>4. \A k \in 0..n : st[k] = su[k]
  BY <1>1, <1>2, <1>3, RunsAgree
<1>5. su[m] = ProjectEvent(roots, su[n], fs[m])
  <2>1. m \in 0..m /\ m # 0 /\ m - 1 = n
    OBVIOUS
  <2> QED
    BY <1>2, <2>1 DEF RunOf
<1> QED
  BY <1>1, <1>2, <1>3, <1>4, <1>5

\* The states of the kernel.
KernelState ==
    [epoch : Nat \cup {Nil}, parentEpoch : Nat \cup {Nil},
     candidate : Contents \cup {Nil}, parentCandidate : Contents \cup {Nil},
     evidence : {"PASS", "FAIL", "UNKNOWN"}, observed : Nat,
     disposition : {"Undisposed", "Selected", "Rejected"},
     frozen : BOOLEAN, evaluated : BOOLEAN, lineage : BOOLEAN]

\* The results for candidate c that the kernel is told of.
Told(h, c, R) == {n \in Of(h, "result", c) : h[n].workflow \in R}

\* What the kernel's state says of candidate c is what the history says of it.
KnowsCandidate(h, c, s, R) ==
    /\ AtMostOne(Of(h, "disposition", c)) /\ AtMostOne(Of(h, "freeze", c))
    /\ s.disposition = "Undisposed" <=> Of(h, "disposition", c) = {}
    /\ s.disposition = "Selected" =>
         \A k \in Of(h, "disposition", c) : h[k].disposition = "selected"
    /\ s.frozen = (Of(h, "freeze", c) # {})
    /\ s.evaluated = (Of(h, "evaluation", c) # {})
    /\ s.frozen \/ s.evaluated => s.disposition = "Selected"
    /\ IsFiniteSet(Told(h, c, R)) /\ s.observed = Cardinality(Told(h, c, R))
    /\ /\ s.disposition = "Undisposed" /\ s.observed # 0
       /\ \A n \in Told(h, c, R) : h[n].status = "PASS"
       => s.evidence = "PASS"

Knows(h, s, R) ==
    /\ s.epoch = IF HasEpoch(h) THEN ActiveEpoch(h) ELSE Nil
    /\ s.candidate = IF HasCandidate(h) THEN CurrentCandidate(h) ELSE Nil
    /\ HasCandidate(h) => KnowsCandidate(h, CurrentCandidate(h), s, R)

Chained(h) == EpochChain(h) /\ ~SupersededCandidate(h) /\ CandidateChain(h)

\* A kernel that finds no conflict knows the candidate of the host, and if it
\* takes no second root it has seen one chain of them.
Follows(roots, R, h, s) ==
    /\ s \in KernelState
    /\ s.lineage => Knows(h, s, R)
    /\ s.lineage /\ ~roots => Chained(h)

\* The kernel takes one step for every record.
LEMMA KernelSteps ==
    ASSUME NEW h \in Seq(Record), NEW r \in Record, NEW roots, NEW R
    PROVE  LET g == Append(h, r)
           IN  ProjectEvents(roots, Events(g, R))
                 = ProjectEvent(roots, ProjectEvents(roots, Events(h, R)), Event(g, Len(g), R))
<1> DEFINE g == Append(h, r)
           es == Events(h, R)
           fs == Events(g, R)
           n == Len(h)
           m == Len(g)
<1>1. /\ n \in Nat /\ m \in Nat /\ m = n + 1
      /\ \A k \in 1..n : g[k] = h[k]
  BY Grow
<1>2. Len(es) = n /\ Len(fs) = m
  BY <1>1 DEF Events
<1>3. \A k \in 1..n : es[k] = Event(h, k, R) /\ fs[k] = Event(g, k, R)
  BY <1>1 DEF Events
<1>4. fs[m] = Event(g, m, R)
  BY <1>1 DEF Events
<1>5. \A k \in 1..n : es[k] = fs[k]
  <2> HIDE DEF g, es, fs, n
  <2> QED
    BY <1>1, <1>3 DEF Event
<1>6. SameEvents(n, es, fs)
  BY <1>5 DEF SameEvents
<1> HIDE DEF g, es, fs, n, m
<1>7. ProjectEvents(roots, fs) = ProjectEvent(roots, ProjectEvents(roots, es), fs[m])
  BY <1>1, <1>2, <1>6, ProjectMore
<1> QED
  BY <1>4, <1>7 DEF g, es, fs, m

\* The event of each type of record.
LEMMA EventOf ==
    ASSUME NEW g, NEW n, NEW R, g[n] \in Record
    PROVE  LET e == Event(g, n, R)
               r == g[n]
           IN  /\ r.type = "epoch" =>
                    e.kind = "EpochStarted" /\ e.epoch = n /\ e.parent = r.parent
               /\ r.type = "candidate" =>
                    /\ e.kind = "CandidateRegistered" /\ e.candidate = r.id
                    /\ e.epoch = r.epoch /\ e.parent = r.parent
               /\ r.type = "result" /\ r.workflow \in R =>
                    /\ e.kind = "EvidenceObserved" /\ e.candidate = r.candidate
                    /\ e.status = r.status
               /\ r.type = "result" /\ r.workflow \notin R => e.kind = "Empty"
               /\ r.type = "disposition" =>
                    /\ e.kind = IF r.disposition = "selected" THEN "CandidateSelected"
                                ELSE "CandidateRejected"
                    /\ e.candidate = r.candidate
               /\ r.type = "freeze" =>
                    e.kind = "CandidateFrozen" /\ e.candidate = r.candidate
               /\ r.type = "evaluation" =>
                    e.kind = "EvaluationRecorded" /\ e.candidate = r.candidate
               /\ r.type = "bundle" => e.kind = "Empty"
<1> DEFINE r == g[n]
<1> HIDE DEF r
<1>1. CASE r.type = "epoch"
  BY <1>1 DEF Event, r
<1>2. CASE r.type = "candidate"
  BY <1>2 DEF Event, r
<1>3. CASE r.type = "result"
  BY <1>3 DEF Event, NoEvent, r
<1>4. CASE r.type = "disposition"
  BY <1>4 DEF Event, r
<1>5. CASE r.type = "freeze"
  BY <1>5 DEF Event, r
<1>6. CASE r.type = "evaluation"
  BY <1>6 DEF Event, r
<1>7. CASE r.type = "bundle"
  BY <1>7 DEF Event, NoEvent, r
<1>8. r.type \in {"epoch", "candidate", "result", "disposition", "freeze", "evaluation", "bundle"}
  BY DEF Record, EpochRecord, CandidateRecord, ResultRecord,
     EvaluationRecord, BundleRecord, DispositionRecord, FreezeRecord, r
<1> QED
  BY <1>1, <1>2, <1>3, <1>4, <1>5, <1>6, <1>7, <1>8 DEF r

\* What the fields of a record are.
LEMMA Fields ==
    ASSUME NEW r \in Record
    PROVE  /\ r.type = "epoch" => r.parent \in Nat \cup {Nil}
           /\ r.type = "candidate" =>
                r.id \in Contents /\ r.parent \in Contents \cup {Nil} /\ r.epoch \in Nat
           /\ r.type \notin {"epoch", "candidate"} => r.candidate \in Contents
           /\ r.type = "result" => r.status \in {"PASS", "FAIL", "UNKNOWN"}
           /\ r.type = "disposition" => r.disposition \in {"selected", "rejected"}
  BY ConstantsAssumption DEF Record, EpochRecord, CandidateRecord, ResultRecord,
     EvaluationRecord, BundleRecord, DispositionRecord, FreezeRecord

\* Before there are events nothing is known, and nothing is in the history.
LEMMA FollowsInit ==
    ASSUME NEW roots, NEW R
    PROVE  Follows(roots, R, <<>>, ProjectionInitial)
<1>1. \A t : Indices(<<>>, t) = {}
  BY DEF Indices
<1>2. ~HasEpoch(<<>>) /\ ~HasCandidate(<<>>) /\ ActiveCandidates(<<>>) = {}
  BY <1>1 DEF HasEpoch, HasCandidate, ActiveCandidates
<1>3. Chained(<<>>)
  BY <1>1, <1>2 DEF Chained, EpochChain, SupersededCandidate, CandidateChain
<1> QED
  BY <1>2, <1>3 DEF Follows, ProjectionInitial, KernelState, Knows

\* A new epoch that the kernel accepts has nothing of the one before it.
LEMMA FollowsEpoch ==
    ASSUME NEW h \in Seq(Record), NEW r \in Record, r.type = "epoch", Rooted(h),
           NEW roots, NEW R, NEW s, Follows(roots, R, h, s),
           NEW e, e.epoch = Len(h) + 1, e.parent = r.parent
    PROVE  Follows(roots, R, Append(h, r), ProjectEpoch(roots, s, e))
<1> DEFINE g == Append(h, r)
           t == ProjectEpoch(roots, s, e)
<1>1. /\ HasEpoch(g) /\ ActiveEpoch(g) = Len(g)
      /\ ActiveCandidates(g) = {} /\ ~HasCandidate(g)
      /\ CandidateChain(g) /\ ~SupersededCandidate(g)
      /\ EpochChain(h) /\ MayBegin(h, r.parent) => EpochChain(g)
  BY EpochBegins DEF Rooted
<1>2. Len(g) = Len(h) + 1 /\ Len(g) \in Nat
  BY Grow
<1>3. e.parent \in Nat \cup {Nil} /\ e.epoch \in Nat
  BY <1>2, Fields
<1>4. s \in KernelState
  BY DEF Follows
<1> HIDE DEF g
<1>5. t \in KernelState
  BY <1>3, <1>4 DEF ProjectEpoch, If, Invalid, ProjectionInitial, KernelState
<1>6. ASSUME t.lineage
      PROVE  /\ s.lineage /\ (roots \/ e.parent = s.epoch)
             /\ t.epoch = Len(g) /\ t.candidate = Nil
  BY <1>2, <1>4, <1>6 DEF ProjectEpoch, If, Invalid, ProjectionInitial, KernelState, ValidRootOrSuccessor
<1> HIDE DEF t
<1>7. t.lineage => Knows(g, t, R)
  BY <1>1, <1>6 DEF Knows
<1>8. t.lineage /\ ~roots => Chained(g)
  <2> SUFFICES ASSUME t.lineage, ~roots PROVE Chained(g)
    OBVIOUS
  <2>1. Chained(h) /\ Knows(h, s, R)
    BY <1>6 DEF Follows
  <2>2. MayBegin(h, r.parent)
    BY <1>6, <2>1 DEF Knows, MayBegin
  <2> QED
    BY <1>1, <2>1, <2>2 DEF Chained
<1> QED
  BY <1>5, <1>7, <1>8 DEF Follows, g, t

\* A candidate that the kernel accepts is new, so that nothing is known of it.
LEMMA FollowsCandidate ==
    ASSUME NEW h \in Seq(Record), NEW r \in Record, r.type = "candidate", Rooted(h),
           \A n \in Indices(h, "evaluation") : Registered(h, h[n].candidate),
           ~Registered(h, r.id),
           NEW roots, NEW R, NEW s, Follows(roots, R, h, s),
           NEW e, e.candidate = r.id, e.epoch = r.epoch, e.parent = r.parent
    PROVE  Follows(roots, R, Append(h, r), ProjectCandidate(roots, s, e))
<1> DEFINE g == Append(h, r)
           t == ProjectCandidate(roots, s, e)
<1>1. /\ e.candidate \in Contents /\ e.parent \in Contents \cup {Nil} /\ e.epoch \in Nat
      /\ Nil \notin Nat
  BY Fields, ConstantsAssumption
<1>2. s \in KernelState
  BY DEF Follows
<1>3. t \in KernelState
  BY <1>1, <1>2 DEF ProjectCandidate, If, Invalid, ProjectionInitial, KernelState
<1>4. SUFFICES ASSUME t.lineage
               PROVE  Knows(g, t, R) /\ (~roots => Chained(g))
  BY <1>3 DEF Follows
<1>5. /\ s.lineage /\ s.epoch # Nil /\ e.epoch = s.epoch
      /\ roots \/ e.parent = s.candidate
      /\ t.epoch = s.epoch /\ t.candidate = e.candidate /\ t.disposition = "Undisposed"
      /\ t.frozen = FALSE /\ t.evaluated = FALSE /\ t.observed = 0
  BY <1>2, <1>4
     DEF ProjectCandidate, If, Invalid, ProjectionInitial, KernelState, ValidRootOrSuccessor
<1> HIDE DEF t
<1>6. Knows(h, s, R) /\ (~roots => Chained(h))
  BY <1>5 DEF Follows
<1>7. HasEpoch(h) /\ r.epoch = ActiveEpoch(h)
  BY <1>5, <1>6 DEF Knows
<1>8. /\ HasEpoch(g) /\ ActiveEpoch(g) = ActiveEpoch(h)
      /\ EpochChain(g) <=> EpochChain(h)
      /\ HasCandidate(g) /\ CurrentCandidate(g) = r.id
      /\ ~SupersededCandidate(h) => ~SupersededCandidate(g)
      /\ /\ CandidateChain(h)
         /\ r.parent = IF HasCandidate(h) THEN CurrentCandidate(h) ELSE Nil
         => CandidateChain(g)
  BY <1>7, CandidateFollows
<1>9. ~roots => Chained(g)
  BY <1>5, <1>6, <1>8 DEF Knows, Chained
<1>10. ASSUME NEW x \in {"disposition", "freeze", "result", "evaluation"}
       PROVE  Of(g, x, r.id) = {}
  <2>1. Of(g, x, r.id) = Of(h, x, r.id)
    BY AppendedIndices
  <2>2. \A m \in Indices(h, x) : h[m].candidate # r.id
    BY DEF Rooted
  <2> QED
    BY <2>1, <2>2 DEF Of
<1> HIDE DEF g
<1>11. Told(g, r.id, R) = {} /\ IsFiniteSet({}) /\ Cardinality({}) = 0
  BY <1>10, FS_EmptySet DEF Told
<1>12. KnowsCandidate(g, r.id, t, R)
  BY <1>5, <1>10, <1>11 DEF KnowsCandidate, AtMostOne
<1> QED
  BY <1>5, <1>6, <1>7, <1>8, <1>9, <1>12 DEF Knows

\* A record about a candidate leaves epochs and candidates as they are.
LEMMA FollowsAbout ==
    ASSUME NEW h \in Seq(Record), NEW r \in Record, r.type \notin {"epoch", "candidate"},
           NEW roots, NEW R, NEW s, Follows(roots, R, h, s), s.lineage,
           NEW t \in KernelState, t.epoch = s.epoch, t.candidate = s.candidate,
           HasCandidate(h) => KnowsCandidate(Append(h, r), CurrentCandidate(h), t, R)
    PROVE  Follows(roots, R, Append(h, r), t)
<1> DEFINE g == Append(h, r)
<1>1. /\ HasEpoch(g) <=> HasEpoch(h)
      /\ ActiveEpoch(g) = ActiveEpoch(h)
      /\ EpochChain(g) <=> EpochChain(h)
  BY EpochKept
<1>2. /\ HasCandidate(g) <=> HasCandidate(h)
      /\ HasCandidate(h) => CurrentCandidate(g) = CurrentCandidate(h)
      /\ CandidateChain(g) <=> CandidateChain(h)
      /\ SupersededCandidate(g) <=> SupersededCandidate(h)
  BY CandidatesKept
<1>3. Knows(h, s, R) /\ (~roots => Chained(h))
  BY DEF Follows
<1> HIDE DEF g
<1>4. Knows(g, t, R)
  BY <1>1, <1>2, <1>3 DEF Knows, g
<1>5. ~roots => Chained(g)
  BY <1>1, <1>2, <1>3 DEF Chained
<1> QED
  BY <1>4, <1>5 DEF Follows, g

\* The history g is h with record r.
Adds(h, r, g) == g = Append(h, r)

\* What a record adds to what is said of a candidate.
LEMMA AppendedOf ==
    ASSUME NEW h \in Seq(Record), NEW r \in Record, NEW g, Adds(h, r, g),
           NEW x, NEW c
    PROVE  /\ g[Len(g)] = r
           /\ \A n \in Of(h, x, c) : g[n] = h[n] /\ n # Len(g)
           /\ r.type # x \/ r.candidate # c => Of(g, x, c) = Of(h, x, c)
           /\ r.type = x /\ r.candidate = c => Of(g, x, c) = Of(h, x, c) \cup {Len(g)}
<1>1. /\ \A n \in 1..Len(h) : g[n] = h[n]
      /\ g[Len(g)] = r /\ Len(g) = Len(h) + 1 /\ Len(h) \in Nat
  BY Grow DEF Adds
<1>2. \A n \in Of(h, x, c) : n \in 1..Len(h)
  BY DEF Of, Indices
<1>3. r.type # x \/ r.candidate # c => Of(g, x, c) = Of(h, x, c)
  BY AppendedIndices DEF Adds
<1>4. Of(g, r.type, r.candidate) = Of(h, r.type, r.candidate) \cup {Len(g)}
  BY AppendedIndices DEF Adds
<1>5. \A n \in Of(h, x, c) : g[n] = h[n] /\ n # Len(g)
  BY <1>1, <1>2
<1> QED
  BY <1>1, <1>3, <1>4, <1>5

\* What the kernel is told of a candidate changes with its results only.
LEMMA ToldKept ==
    ASSUME NEW h \in Seq(Record), NEW r \in Record, NEW g, Adds(h, r, g),
           NEW c, NEW R, ~(r.type = "result" /\ r.candidate = c /\ r.workflow \in R)
    PROVE  /\ Told(g, c, R) = Told(h, c, R)
           /\ \A n \in Told(h, c, R) : g[n] = h[n]
<1>1. g[Len(g)] = r /\ \A n \in Of(h, "result", c) : g[n] = h[n]
  BY AppendedOf
<1>2. CASE r.type # "result" \/ r.candidate # c
  <2>1. Of(g, "result", c) = Of(h, "result", c)
    BY <1>2, AppendedOf
  <2> QED
    BY <1>1, <2>1 DEF Told
<1>3. CASE r.type = "result" /\ r.candidate = c
  <2>1. Of(g, "result", c) = Of(h, "result", c) \cup {Len(g)} /\ r.workflow \notin R
    BY <1>3, AppendedOf
  <2> QED
    BY <1>1, <2>1 DEF Told
<1> QED
  BY <1>2, <1>3

\* A record that the kernel is not told of changes nothing that it knows.
LEMMA FollowsUntold ==
    ASSUME NEW h \in Seq(Record), NEW r \in Record, NEW roots, NEW R,
           r.type = "bundle" \/ (r.type = "result" /\ r.workflow \notin R),
           NEW s, Follows(roots, R, h, s)
    PROVE  Follows(roots, R, Append(h, r), s)
<1>1. CASE ~s.lineage
  BY <1>1 DEF Follows
<1>2. CASE s.lineage
  <2> DEFINE g == Append(h, r)
             c == CurrentCandidate(h)
  <2>0. Adds(h, r, g)
    BY DEF Adds
  <2> HIDE DEF g, c
  <2>1. HasCandidate(h) => KnowsCandidate(h, c, s, R)
    BY <1>2 DEF Follows, Knows, c
  <2>2. \A x \in {"disposition", "freeze", "evaluation"} :
           Of(g, x, c) = Of(h, x, c) /\ \A n \in Of(h, x, c) : g[n] = h[n]
    BY <2>0, AppendedOf
  <2>3. Told(g, c, R) = Told(h, c, R) /\ \A n \in Told(h, c, R) : g[n] = h[n]
    BY <2>0, ToldKept
  <2>4. HasCandidate(h) => KnowsCandidate(g, c, s, R)
    BY <2>1, <2>2, <2>3 DEF KnowsCandidate
  <2>5. s \in KernelState
    BY DEF Follows
  <2> QED
    BY <1>2, <2>4, <2>5, FollowsAbout DEF g, c
<1> QED
  BY <1>1, <1>2

\* Evidence that the kernel accepts is of the current candidate.
LEMMA FollowsEvidence ==
    ASSUME NEW h \in Seq(Record), NEW r \in Record, NEW roots, NEW R,
           r.type = "result", r.workflow \in R,
           NEW s, Follows(roots, R, h, s),
           NEW e, e.candidate = r.candidate, e.status = r.status
    PROVE  Follows(roots, R, Append(h, r), ProjectEvidence(s, e))
<1> DEFINE g == Append(h, r)
           t == ProjectEvidence(s, e)
           c == CurrentCandidate(h)
<1>0. Adds(h, r, g)
  BY DEF Adds
<1> HIDE DEF g, c
<1>1. e.candidate \in Contents /\ e.status \in {"PASS", "FAIL", "UNKNOWN"}
  BY Fields
<1>2. s \in KernelState
  BY DEF Follows
<1>3. t \in KernelState
  <2>1. JoinEvidence(s, e.status) \in {"PASS", "FAIL", "UNKNOWN"}
    BY <1>1, <1>2 DEF JoinEvidence, Dominate, KernelState
  <2>2. Invalid(s) \in KernelState
    BY <1>2 DEF Invalid, KernelState
  <2> DEFINE j == JoinEvidence(s, e.status)
  <2> HIDE DEF j
  <2>3. j \in {"PASS", "FAIL", "UNKNOWN"} /\ s.observed + 1 \in Nat
    BY <1>2, <2>1 DEF j, KernelState
  <2>4. [s EXCEPT !.evidence = j, !.observed = s.observed + 1] \in KernelState
    BY <1>2, <2>3 DEF KernelState
  <2> QED
    BY <2>2, <2>4 DEF ProjectEvidence, If, j
<1>4. CASE ~t.lineage
  BY <1>3, <1>4 DEF Follows
<1>5. CASE t.lineage
  <2>1. /\ s.lineage /\ s.candidate # Nil /\ e.candidate = s.candidate
        /\ t.epoch = s.epoch /\ t.candidate = s.candidate
        /\ t.disposition = s.disposition /\ t.frozen = s.frozen /\ t.evaluated = s.evaluated
        /\ t.observed = s.observed + 1
        /\ t.evidence = JoinEvidence(s, e.status)
    BY <1>2, <1>5 DEF ProjectEvidence, If, Invalid, KernelState
  <2>2. HasCandidate(h) /\ r.candidate = c /\ KnowsCandidate(h, c, s, R)
    BY <2>1 DEF Follows, Knows, c
  <2> HIDE DEF t
  <2>3. /\ g[Len(g)] = r
        /\ \A x \in {"disposition", "freeze", "evaluation"} :
             Of(g, x, c) = Of(h, x, c) /\ \A n \in Of(h, x, c) : g[n] = h[n]
        /\ Of(g, "result", c) = Of(h, "result", c) \cup {Len(g)}
        /\ \A n \in Of(h, "result", c) : g[n] = h[n] /\ n # Len(g)
    BY <1>0, <2>2, AppendedOf
  <2>4. /\ Told(g, c, R) = Told(h, c, R) \cup {Len(g)}
        /\ Len(g) \notin Told(h, c, R)
        /\ \A n \in Told(h, c, R) : g[n] = h[n]
    BY <2>3 DEF Told
  <2>5. /\ IsFiniteSet(Told(g, c, R))
        /\ Cardinality(Told(g, c, R)) = Cardinality(Told(h, c, R)) + 1
    BY <2>2, <2>4, FS_AddElement DEF KnowsCandidate
  <2>6. ASSUME t.disposition = "Undisposed", \A n \in Told(g, c, R) : g[n].status = "PASS"
        PROVE  t.evidence = "PASS"
    <3>1. r.status = "PASS" /\ \A n \in Told(h, c, R) : h[n].status = "PASS"
      BY <2>3, <2>4, <2>6
    <3>2. s.observed # 0 => s.evidence = "PASS"
      BY <2>1, <2>2, <2>6, <3>1 DEF KnowsCandidate
    <3> QED
      BY <2>1, <3>1, <3>2 DEF JoinEvidence, Dominate
  <2>7. /\ t.observed = Cardinality(Told(g, c, R))
        /\ t.frozen = (Of(g, "freeze", c) # {})
        /\ t.evaluated = (Of(g, "evaluation", c) # {})
    BY <2>1, <2>2, <2>3, <2>5 DEF KnowsCandidate
  <2>8. /\ AtMostOne(Of(g, "disposition", c)) /\ AtMostOne(Of(g, "freeze", c))
        /\ t.disposition = "Undisposed" <=> Of(g, "disposition", c) = {}
        /\ t.disposition = "Selected" =>
             \A k \in Of(g, "disposition", c) : g[k].disposition = "selected"
        /\ t.frozen \/ t.evaluated => t.disposition = "Selected"
    BY <2>1, <2>2, <2>3 DEF KnowsCandidate
  <2>9. KnowsCandidate(g, c, t, R)
    BY <2>5, <2>6, <2>7, <2>8 DEF KnowsCandidate
  <2> QED
    BY <1>3, <2>1, <2>9, FollowsAbout DEF g, c, t
<1> QED
  BY <1>4, <1>5 DEF g, t

\* A disposition that the kernel accepts is the first of the current candidate.
LEMMA FollowsDisposition ==
    ASSUME NEW h \in Seq(Record), NEW r \in Record, NEW roots, NEW R,
           r.type = "disposition",
           NEW s, Follows(roots, R, h, s), NEW e, e.candidate = r.candidate
    PROVE  /\ r.disposition = "selected" =>
                Follows(roots, R, Append(h, r), ProjectSelected(s, e))
           /\ r.disposition # "selected" =>
                Follows(roots, R, Append(h, r), ProjectRejected(s, e))
<1> DEFINE g == Append(h, r)
           c == CurrentCandidate(h)
<1>0. Adds(h, r, g)
  BY DEF Adds
<1> HIDE DEF g, c
<1>1. s \in KernelState /\ e.candidate \in Contents /\ Nil \notin Contents
  BY Fields, ConstantsAssumption DEF Follows
<1>2. ASSUME NEW t \in KernelState, NEW d \in {"Selected", "Rejected"},
             s.lineage, e.candidate = s.candidate, s.disposition = "Undisposed",
             t.epoch = s.epoch, t.candidate = s.candidate, t.disposition = d,
             d = "Selected" => r.disposition = "selected",
             t.frozen = s.frozen, t.evaluated = s.evaluated, t.observed = s.observed
      PROVE  Follows(roots, R, g, t)
  <2>1. HasCandidate(h) /\ r.candidate = c /\ KnowsCandidate(h, c, s, R)
    BY <1>1, <1>2 DEF Follows, Knows, c
  <2>2. /\ g[Len(g)] = r
        /\ \A x \in {"freeze", "evaluation"} : Of(g, x, c) = Of(h, x, c)
        /\ Of(g, "disposition", c) = Of(h, "disposition", c) \cup {Len(g)}
    BY <1>0, <2>1, AppendedOf
  <2>3. Told(g, c, R) = Told(h, c, R)
    BY <1>0, ToldKept
  <2>4. Of(h, "disposition", c) = {}
    BY <1>2, <2>1 DEF KnowsCandidate
  <2>5. Of(g, "disposition", c) = {Len(g)}
    BY <2>2, <2>4
  <2>6. /\ s.frozen = FALSE /\ s.evaluated = FALSE
        /\ t.frozen = (Of(g, "freeze", c) # {})
        /\ t.evaluated = (Of(g, "evaluation", c) # {})
    BY <1>1, <1>2, <2>1, <2>2 DEF KnowsCandidate, KernelState
  <2>7. /\ IsFiniteSet(Told(g, c, R)) /\ t.observed = Cardinality(Told(g, c, R))
        /\ AtMostOne(Of(g, "freeze", c))
    BY <1>2, <2>1, <2>2, <2>3 DEF KnowsCandidate
  <2>8. /\ AtMostOne(Of(g, "disposition", c)) /\ Of(g, "disposition", c) # {}
        /\ t.disposition = "Selected" =>
             \A k \in Of(g, "disposition", c) : g[k].disposition = "selected"
    BY <1>2, <2>2, <2>5 DEF AtMostOne
  <2>9. KnowsCandidate(g, c, t, R)
    BY <1>2, <2>6, <2>7, <2>8 DEF KnowsCandidate
  <2> QED
    BY <1>2, <2>9, FollowsAbout DEF g, c
<1>3. ASSUME NEW t \in KernelState, t.lineage = FALSE
      PROVE  Follows(roots, R, g, t)
  BY <1>3 DEF Follows
<1>4. Invalid(s) \in KernelState /\ Invalid(s).lineage = FALSE
  BY <1>1 DEF Invalid, KernelState
<1>5. CASE e.candidate = s.candidate /\ s.disposition = "Undisposed"
  <2> DEFINE t == [s EXCEPT !.disposition = "Selected"]
             u == [s EXCEPT !.disposition = "Rejected", !.evidence = "FAIL"]
  <2>1. ProjectSelected(s, e) = t /\ ProjectRejected(s, e) = u
    BY <1>5 DEF ProjectSelected, ProjectRejected, If
  <2>2. /\ t \in KernelState /\ t.epoch = s.epoch /\ t.candidate = s.candidate
        /\ t.disposition = "Selected" /\ t.frozen = s.frozen /\ t.evaluated = s.evaluated
        /\ t.observed = s.observed /\ t.lineage = s.lineage
    BY <1>1 DEF KernelState
  <2>3. /\ u \in KernelState /\ u.epoch = s.epoch /\ u.candidate = s.candidate
        /\ u.disposition = "Rejected" /\ u.frozen = s.frozen /\ u.evaluated = s.evaluated
        /\ u.observed = s.observed /\ u.lineage = s.lineage
    BY <1>1 DEF KernelState
  <2> HIDE DEF t, u
  <2>4. CASE s.lineage
    BY <1>2, <1>5, <2>1, <2>2, <2>3, <2>4 DEF g
  <2>5. CASE s.lineage = FALSE
    BY <1>3, <2>1, <2>2, <2>3, <2>5 DEF g
  <2> QED
    BY <1>1, <2>4, <2>5 DEF KernelState
<1>6. CASE ~(e.candidate = s.candidate /\ s.disposition = "Undisposed")
  <2>1. ProjectSelected(s, e) = Invalid(s) /\ ProjectRejected(s, e) = Invalid(s)
    BY <1>6 DEF ProjectSelected, ProjectRejected, If
  <2> QED
    BY <1>3, <1>4, <2>1 DEF g
<1> QED
  BY <1>5, <1>6

\* A freeze that the kernel accepts is the first of a candidate that is selected.
LEMMA FollowsFreeze ==
    ASSUME NEW h \in Seq(Record), NEW r \in Record, NEW roots, NEW R, r.type = "freeze",
           NEW s, Follows(roots, R, h, s), NEW e, e.candidate = r.candidate
    PROVE  Follows(roots, R, Append(h, r), ProjectFrozen(s, e))
<1> DEFINE g == Append(h, r)
           c == CurrentCandidate(h)
           t == [s EXCEPT !.frozen = TRUE]
<1>0. Adds(h, r, g)
  BY DEF Adds
<1> HIDE DEF g, c
<1>1. s \in KernelState /\ e.candidate \in Contents /\ Nil \notin Contents
  BY Fields, ConstantsAssumption DEF Follows
<1>2. /\ t \in KernelState /\ t.epoch = s.epoch /\ t.candidate = s.candidate
      /\ t.disposition = s.disposition /\ t.frozen = TRUE /\ t.evaluated = s.evaluated
      /\ t.observed = s.observed /\ t.lineage = s.lineage
      /\ Invalid(s) \in KernelState /\ Invalid(s).lineage = FALSE
  BY <1>1 DEF KernelState, Invalid
<1> HIDE DEF t
<1>3. CASE ~s.lineage \/ ~(e.candidate = s.candidate /\ s.disposition = "Selected" /\ ~s.frozen)
  <2>1. \/ ProjectFrozen(s, e) = Invalid(s)
        \/ ProjectFrozen(s, e) = t /\ ~s.lineage
    BY <1>3 DEF ProjectFrozen, If, t
  <2> QED
    BY <1>2, <2>1 DEF Follows
<1>4. CASE s.lineage /\ e.candidate = s.candidate /\ s.disposition = "Selected" /\ ~s.frozen
  <2>1. HasCandidate(h) /\ r.candidate = c /\ KnowsCandidate(h, c, s, R)
    BY <1>1, <1>4 DEF Follows, Knows, c
  <2>2. /\ \A x \in {"disposition", "evaluation"} :
             Of(g, x, c) = Of(h, x, c) /\ \A n \in Of(h, x, c) : g[n] = h[n]
        /\ Of(g, "freeze", c) = Of(h, "freeze", c) \cup {Len(g)}
    BY <1>0, <2>1, AppendedOf
  <2>3. Told(g, c, R) = Told(h, c, R)
    BY <1>0, ToldKept
  <2>4. Of(h, "freeze", c) = {}
    BY <1>4, <2>1 DEF KnowsCandidate
  <2>5. AtMostOne(Of(g, "freeze", c)) /\ Of(g, "freeze", c) # {}
    BY <2>2, <2>4 DEF AtMostOne
  <2>6. /\ t.evaluated = (Of(g, "evaluation", c) # {})
        /\ IsFiniteSet(Told(g, c, R)) /\ t.observed = Cardinality(Told(g, c, R))
        /\ AtMostOne(Of(g, "disposition", c)) /\ Of(g, "disposition", c) # {}
        /\ \A k \in Of(g, "disposition", c) : g[k].disposition = "selected"
    BY <1>2, <1>4, <2>1, <2>2, <2>3 DEF KnowsCandidate
  <2>7. KnowsCandidate(g, c, t, R)
    BY <1>2, <1>4, <2>5, <2>6 DEF KnowsCandidate
  <2>8. ProjectFrozen(s, e) = t
    BY <1>4 DEF ProjectFrozen, If, t
  <2> QED
    BY <1>2, <1>4, <2>7, <2>8, FollowsAbout DEF g, c
<1> QED
  BY <1>3, <1>4

\* An evaluation that the kernel accepts is the first of a candidate that is
\* frozen.
LEMMA FollowsEvaluation ==
    ASSUME NEW h \in Seq(Record), NEW r \in Record, NEW roots, NEW R, r.type = "evaluation",
           NEW s, Follows(roots, R, h, s), NEW e, e.candidate = r.candidate
    PROVE  Follows(roots, R, Append(h, r), ProjectEvaluation(s, e))
<1> DEFINE g == Append(h, r)
           c == CurrentCandidate(h)
           t == [s EXCEPT !.evaluated = TRUE]
           may == /\ e.candidate = s.candidate /\ s.disposition = "Selected"
                  /\ s.frozen /\ ~s.evaluated
<1>0. Adds(h, r, g)
  BY DEF Adds
<1> HIDE DEF g, c
<1>1. s \in KernelState /\ e.candidate \in Contents /\ Nil \notin Contents
  BY Fields, ConstantsAssumption DEF Follows
<1>2. /\ t \in KernelState /\ t.epoch = s.epoch /\ t.candidate = s.candidate
      /\ t.disposition = s.disposition /\ t.frozen = s.frozen /\ t.evaluated = TRUE
      /\ t.observed = s.observed /\ t.lineage = s.lineage
      /\ Invalid(s) \in KernelState /\ Invalid(s).lineage = FALSE
  BY <1>1 DEF KernelState, Invalid
<1> HIDE DEF t
<1>3. CASE ~s.lineage \/ ~may
  <2>1. \/ ProjectEvaluation(s, e) = Invalid(s)
        \/ ProjectEvaluation(s, e) = t /\ ~s.lineage
    BY <1>3 DEF ProjectEvaluation, If, t
  <2> QED
    BY <1>2, <2>1 DEF Follows
<1>4. CASE s.lineage /\ may
  <2>1. HasCandidate(h) /\ r.candidate = c /\ KnowsCandidate(h, c, s, R)
    BY <1>1, <1>4 DEF Follows, Knows, c
  <2>2. /\ \A x \in {"disposition", "freeze"} :
             Of(g, x, c) = Of(h, x, c) /\ \A n \in Of(h, x, c) : g[n] = h[n]
        /\ Of(g, "evaluation", c) = Of(h, "evaluation", c) \cup {Len(g)}
    BY <1>0, <2>1, AppendedOf
  <2>3. Told(g, c, R) = Told(h, c, R)
    BY <1>0, ToldKept
  <2>4. /\ t.frozen = (Of(g, "freeze", c) # {})
        /\ AtMostOne(Of(g, "freeze", c))
    BY <1>2, <2>1, <2>2 DEF KnowsCandidate
  <2>5. /\ IsFiniteSet(Told(g, c, R)) /\ t.observed = Cardinality(Told(g, c, R))
        /\ AtMostOne(Of(g, "disposition", c))
        /\ Of(g, "disposition", c) # {}
        /\ \A k \in Of(g, "disposition", c) : g[k].disposition = "selected"
    BY <1>2, <1>4, <2>1, <2>2, <2>3 DEF KnowsCandidate
  <2>6. KnowsCandidate(g, c, t, R)
    <3>1. Of(g, "evaluation", c) # {}
      BY <2>2
    <3> QED
      BY <1>2, <1>4, <2>4, <2>5, <3>1 DEF KnowsCandidate
  <2>7. ProjectEvaluation(s, e) = t
    BY <1>4 DEF ProjectEvaluation, If, t
  <2> QED
    BY <1>2, <1>4, <2>6, <2>7, FollowsAbout DEF g, c
<1> QED
  BY <1>3, <1>4

\* Every record moves the kernel and the history alike.
LEMMA FollowsStep ==
    ASSUME NEW h \in Seq(Record), NEW r \in Record, Rooted(h),
           \A n \in Indices(h, "evaluation") : Registered(h, h[n].candidate),
           r.type = "candidate" => ~Registered(h, r.id),
           NEW roots, NEW R, NEW s, Follows(roots, R, h, s)
    PROVE  LET g == Append(h, r)
           IN  Follows(roots, R, g, ProjectEvent(roots, s, Event(g, Len(g), R)))
<1> DEFINE g == Append(h, r)
           e == Event(g, Len(g), R)
           t == ProjectEvent(roots, s, e)
<1>1. Len(g) = Len(h) + 1 /\ g[Len(g)] = r
  BY Grow
<1>2. /\ r.type = "epoch" =>
           e.kind = "EpochStarted" /\ e.epoch = Len(g) /\ e.parent = r.parent
      /\ r.type = "candidate" =>
           /\ e.kind = "CandidateRegistered" /\ e.candidate = r.id
           /\ e.epoch = r.epoch /\ e.parent = r.parent
      /\ r.type = "result" /\ r.workflow \in R =>
           /\ e.kind = "EvidenceObserved" /\ e.candidate = r.candidate
           /\ e.status = r.status
      /\ r.type = "result" /\ r.workflow \notin R => e.kind = "Empty"
      /\ r.type = "disposition" =>
           /\ e.kind = IF r.disposition = "selected" THEN "CandidateSelected"
                       ELSE "CandidateRejected"
           /\ e.candidate = r.candidate
      /\ r.type = "freeze" =>
           e.kind = "CandidateFrozen" /\ e.candidate = r.candidate
      /\ r.type = "evaluation" =>
           e.kind = "EvaluationRecorded" /\ e.candidate = r.candidate
      /\ r.type = "bundle" => e.kind = "Empty"
  <2> DEFINE n == Len(g)
  <2>1. g[n] \in Record
    BY <1>1
  <2> HIDE DEF g, n
  <2> QED
    BY <1>1, <2>1, EventOf DEF n
<1> HIDE DEF e
<1>3. CASE r.type = "epoch"
  <2>1. t = ProjectEpoch(roots, s, e)
    BY <1>2, <1>3 DEF ProjectEvent
  <2> QED
    BY <1>1, <1>2, <1>3, <2>1, FollowsEpoch DEF e
<1>4. CASE r.type = "candidate"
  <2>1. t = ProjectCandidate(roots, s, e)
    BY <1>2, <1>4 DEF ProjectEvent
  <2> QED
    BY <1>2, <1>4, <2>1, FollowsCandidate DEF e
<1>5. CASE r.type = "result" /\ r.workflow \in R
  <2>1. t = ProjectEvidence(s, e)
    BY <1>2, <1>5 DEF ProjectEvent
  <2> QED
    BY <1>2, <1>5, <2>1, FollowsEvidence DEF e
<1>6. CASE r.type = "bundle" \/ (r.type = "result" /\ r.workflow \notin R)
  <2>1. t = s
    BY <1>2, <1>6 DEF ProjectEvent
  <2> QED
    BY <1>6, <2>1, FollowsUntold DEF e
<1>7. CASE r.type = "disposition"
  <2>1. t = IF r.disposition = "selected" THEN ProjectSelected(s, e) ELSE ProjectRejected(s, e)
    BY <1>2, <1>7 DEF ProjectEvent
  <2> QED
    BY <1>2, <1>7, <2>1, FollowsDisposition DEF e
<1>8. CASE r.type = "freeze"
  <2>1. t = ProjectFrozen(s, e)
    BY <1>2, <1>8 DEF ProjectEvent
  <2> QED
    BY <1>2, <1>8, <2>1, FollowsFreeze DEF e
<1>9. CASE r.type = "evaluation"
  <2>1. t = ProjectEvaluation(s, e)
    BY <1>2, <1>9 DEF ProjectEvent
  <2> QED
    BY <1>2, <1>9, <2>1, FollowsEvaluation DEF e
<1>10. r.type \in {"epoch", "candidate", "result", "disposition", "freeze", "evaluation", "bundle"}
  BY DEF Record, EpochRecord, CandidateRecord, ResultRecord,
     EvaluationRecord, BundleRecord, DispositionRecord, FreezeRecord
<1> QED
  BY <1>3, <1>4, <1>5, <1>6, <1>7, <1>8, <1>9, <1>10 DEF e

\* Whichever policy selects the evidence, the kernel follows the history.
Projected(h) ==
    \A roots \in BOOLEAN, q \in Policies :
        Follows(roots, Required[q], h, ProjectEvents(roots, Events(h, Required[q])))

\* A history that the kernel follows stays one.
LEMMA ProjectedStep ==
    ASSUME NEW h \in Seq(Record), NEW r \in Record, NEW b, Rooted(h),
           LedgerInv(h, b), r.type = "candidate" => ~Registered(h, r.id), Projected(h)
    PROVE  Projected(Append(h, r))
<1> DEFINE g == Append(h, r)
<1>1. \A n \in Indices(h, "evaluation") : Registered(h, h[n].candidate)
  <2> SUFFICES ASSUME NEW n \in Indices(h, "evaluation")
               PROVE  Registered(h, h[n].candidate)
    OBVIOUS
  <2>1. PICK m \in Of(h, "freeze", h[n].candidate) : m < n
    BY DEF LedgerInv, EvaluationsJustified
  <2> QED
    BY <2>1 DEF Rooted, Of
<1>2. ASSUME NEW roots \in BOOLEAN, NEW q \in Policies
      PROVE  Follows(roots, Required[q], g, ProjectEvents(roots, Events(g, Required[q])))
  <2> DEFINE R == Required[q]
             s == ProjectEvents(roots, Events(h, R))
             e == Event(g, Len(g), R)
  <2>1. Follows(roots, R, h, s)
    BY DEF Projected
  <2>2. ProjectEvents(roots, Events(g, R)) = ProjectEvent(roots, s, e)
    BY KernelSteps
  <2> HIDE DEF R, s
  <2>3. Follows(roots, R, g, ProjectEvent(roots, s, e))
    BY <1>1, <2>1, FollowsStep
  <2> QED
    BY <2>2, <2>3 DEF R
<1> QED
  BY <1>2 DEF Projected, g

\* What a call names is in the ledger.
Grounded(h, r) ==
    /\ r.type = "candidate" => r.epoch \in Indices(h, "epoch")
    /\ r.type \in {"disposition", "freeze", "result"} => Registered(h, r.candidate)

Names(h, at, u, d) ==
    /\ u.candidate # Nil => Registered(h, u.candidate)
    /\ at = "commit" => Grounded(h, d)

KInv ==
    /\ Rooted(history)
    /\ Projected(history)
    /\ \A p \in Procs : Names(history, pc[p], subject[p], draft[p])

\* A process that leaves the others alone, and names what is in the ledger,
\* leaves a history that the kernel follows.
LEMMA KernelFrame ==
    ASSUME IInv, KInv, NEW p \in Procs,
           \/ history' = history
           \/ /\ pc[p] = "commit" /\ history' = Append(history, draft[p])
              /\ draft[p].type = "candidate" => ~Registered(history, draft[p].id),
           \A q \in Procs \ {p} :
              pc'[q] = pc[q] /\ subject'[q] = subject[q] /\ draft'[q] = draft[q],
           Names(history', pc'[p], subject'[p], draft'[p])
    PROVE  KInv'
<1>1. CASE history' = history
  BY <1>1 DEF KInv
<1>2. CASE /\ pc[p] = "commit" /\ history' = Append(history, draft[p])
           /\ draft[p].type = "candidate" => ~Registered(history, draft[p].id)
  <2>1. history \in Seq(Record) /\ draft[p] \in Record /\ LedgerInv(history, grounds)
    BY <1>2 DEF IInv, TypeOK, LocalInv, Local
  <2>2. Grounded(history, draft[p])
    BY <1>2 DEF KInv, Names
  <2>3. Rooted(history')
    BY <1>2, <2>1, <2>2, RootedStep DEF KInv, Grounded
  <2>4. Projected(history')
    BY <1>2, <2>1, ProjectedStep DEF KInv
  <2>5. ASSUME NEW q \in Procs, q # p
        PROVE  Names(history', pc[q], subject[q], draft[q])
    <3>1. Names(history, pc[q], subject[q], draft[q])
      BY DEF KInv
    <3>2. \A c : Registered(history, c) => Registered(history', c)
      BY <1>2, <2>1, RegisteredStays
    <3>3. Indices(history, "epoch") \subseteq Indices(history', "epoch")
      BY <1>2, <2>1, Grow
    <3> QED
      BY <3>1, <3>2, <3>3 DEF Names, Grounded
  <2> QED
    BY <2>3, <2>4, <2>5 DEF KInv
<1> QED
  BY <1>1, <1>2

\* A call that ends names nothing.
LEMMA KernelEnd ==
    ASSUME IInv, KInv, NEW p \in Procs, End(p),
           \/ history' = history
           \/ /\ pc[p] = "commit" /\ history' = Append(history, draft[p])
              /\ draft[p].type = "candidate" => ~Registered(history, draft[p].id)
    PROVE  KInv'
<1>1. /\ pc'[p] = "idle" /\ subject'[p] = NoSubject
      /\ \A q \in Procs \ {p} :
            pc'[q] = pc[q] /\ subject'[q] = subject[q] /\ draft'[q] = draft[q]
  BY DEF End, IInv, TypeOK
<1>2. Names(history', pc'[p], subject'[p], draft'[p])
  BY <1>1 DEF Names, NoSubject
<1> QED
  BY <1>1, <1>2, KernelFrame

\* A call that goes on without preparing a record names what it named.
LEMMA KernelContinue ==
    ASSUME IInv, KInv, NEW p \in Procs,
           \/ history' = history
           \/ /\ pc[p] = "commit" /\ history' = Append(history, draft[p])
              /\ draft[p].type = "candidate" => ~Registered(history, draft[p].id),
           pc'[p] # "commit", subject' = subject,
           \A q \in Procs \ {p} : pc'[q] = pc[q] /\ draft'[q] = draft[q]
    PROVE  KInv'
<1>1. subject[p].candidate # Nil => Registered(history, subject[p].candidate)
  BY DEF KInv, Names
<1>2. \A c : Registered(history, c) => Registered(history', c)
  <2>1. CASE pc[p] = "commit" /\ history' = Append(history, draft[p])
    <3>1. history \in Seq(Record) /\ draft[p] \in Record
      BY <2>1 DEF IInv, TypeOK, LocalInv, Local
    <3> QED
      BY <2>1, <3>1, RegisteredStays
  <2> QED
    BY <2>1
<1>3. Names(history', pc'[p], subject'[p], draft'[p])
  BY <1>1, <1>2 DEF Names
<1> QED
  BY <1>3, KernelFrame

\* What is authorized names the epoch and the candidate of the history.
LEMMA KernelAuthorizeRecord ==
    ASSUME IInv, KInv, NEW p \in Procs, AuthorizeRecord(p)
    PROVE  KInv'
<1> USE DEF Goto, files
<1>1. /\ pc[p] = "authorize" /\ Allowed(p) /\ history \in Seq(Record)
      /\ call[p].op \in {"register", "refresh", "selected", "rejected"}
      /\ pc' = [pc EXCEPT ![p] = "commit"] /\ pc'[p] = "commit"
      /\ UNCHANGED <<history, subject>>
      /\ \A q \in Procs \ {p} : pc'[q] = pc[q] /\ draft'[q] = draft[q]
  BY DEF AuthorizeRecord, Prepare, IInv, TypeOK
<1>2. Grounded(history, draft'[p])
  <2>1. CASE call[p].op \in {"register", "refresh"}
    <3>1. draft'[p].type = "candidate" /\ draft'[p].epoch = ActiveEpoch(history)
      BY <2>1 DEF AuthorizeRecord, Prepare, IInv, TypeOK
    <3>2. HasEpoch(history)
      BY <1>1, <2>1 DEF Allowed, MayRegister
    <3>3. Indices(history, "epoch") \in SUBSET (1..Len(history))
      BY DEF Indices
    <3>4. ActiveEpoch(history) \in Indices(history, "epoch")
      BY <1>1, <3>2, <3>3, LastRecord DEF HasEpoch, ActiveEpoch
    <3> QED
      BY <3>1, <3>4 DEF Grounded
  <2>2. CASE call[p].op \in {"selected", "rejected"}
    <3>1. draft'[p].type = "disposition" /\ draft'[p].candidate = CurrentCandidate(history)
      BY <2>2 DEF AuthorizeRecord, Prepare, IInv, TypeOK
    <3>2. HasCandidate(history)
      BY <1>1, <2>2 DEF Allowed, MayDispose, Fresh
    <3> QED
      BY <1>1, <3>1, <3>2, CurrentRegistered DEF Grounded
  <2> QED
    BY <1>1, <2>1, <2>2
<1>3. Names(history', pc'[p], subject'[p], draft'[p])
  BY <1>1, <1>2 DEF KInv, Names
<1> QED
  BY <1>1, <1>3, KernelFrame

\* What a call is authorized for is in the ledger.
LEMMA KernelAuthorizeSubject ==
    ASSUME IInv, KInv, NEW p \in Procs, AuthorizeSubject(p)
    PROVE  KInv'
<1>1. /\ pc[p] = "authorize" /\ Allowed(p) /\ history \in Seq(Record)
      /\ call[p].op \in {"epoch", "freeze", "work", "evaluate", "bundle"}
      /\ pc'[p] \in {"build", "before", "execute"}
      /\ subject'[p].candidate = IF call[p].op = "epoch" THEN Nil ELSE CurrentCandidate(history)
      /\ UNCHANGED <<history, draft>>
      /\ \A q \in Procs \ {p} : pc'[q] = pc[q] /\ subject'[q] = subject[q]
  BY DEF AuthorizeSubject, IInv, TypeOK, Goto, files, NoSubject
<1>2. call[p].op # "epoch" => HasCandidate(history)
  BY <1>1, AuthorizedHasCandidate
<1>3. call[p].op # "epoch" => Registered(history, CurrentCandidate(history))
  BY <1>1, <1>2, CurrentRegistered
<1>4. Names(history', pc'[p], subject'[p], draft'[p])
  BY <1>1, <1>3 DEF Names
<1> QED
  BY <1>1, <1>4, KernelFrame

\* A freeze or a result names the candidate of the call.
LEMMA KernelPrepare ==
    ASSUME IInv, KInv, NEW p \in Procs, Build(p) \/ Execute(p)
    PROVE  KInv'
<1>1. /\ pc[p] \in {"build", "execute"} /\ pc'[p] = "commit"
      /\ UNCHANGED <<history, subject>>
      /\ \A q \in Procs \ {p} : pc'[q] = pc[q] /\ draft'[q] = draft[q]
  BY DEF Build, Execute, Prepare, IInv, TypeOK, Goto, files
<1>2. Local(history, pc[p], call[p], seen[p], subject[p], draft[p])
  BY DEF IInv, LocalInv
<1>3. \/ draft'[p].type \in {"epoch", "evaluation", "bundle"}
      \/ /\ draft'[p].type \in {"freeze", "result"}
         /\ draft'[p].candidate = subject[p].candidate /\ subject[p].candidate \in Contents
  <2>1. CASE Build(p)
    <3>1. pc[p] = "build" /\ call[p].op \in {"epoch", "freeze"}
      BY <1>2, <2>1 DEF Build, Goto, Local
    <3>2. call[p].op = "freeze" => subject[p].candidate \in Contents
      BY <1>2, <3>1 DEF Local
    <3> QED
      BY <2>1, <3>1, <3>2 DEF Build, Prepare, IInv, TypeOK
  <2>2. CASE Execute(p)
    <3>1. PICK w \in Workflows, s \in Statuses : draft'[p] = Outcome(p, w, s)
      BY <2>2 DEF Execute, Prepare, IInv, TypeOK
    <3>2. subject[p].candidate \in Contents
      BY <1>2, <2>2 DEF Execute, Goto, Local
    <3> QED
      BY <3>1, <3>2 DEF Outcome
  <2> QED
    BY <2>1, <2>2
<1>4. subject[p].candidate \in Contents => Registered(history, subject[p].candidate)
  BY ConstantsAssumption DEF KInv, Names
<1>5. Grounded(history, draft'[p])
  BY <1>3, <1>4 DEF Grounded
<1>6. Names(history', pc'[p], subject'[p], draft'[p])
  BY <1>1, <1>5 DEF KInv, Names
<1> QED
  BY <1>1, <1>6, KernelFrame

\* The steps that prepare no record.
LEMMA KernelSteady ==
    ASSUME IInv, KInv, NEW p \in Procs,
           \/ \E c \in Calls : Call(p, c)
           \/ Refresh(p) \/ RefreshCall(p) \/ Identify(p) \/ Parse(p) \/ LookBefore(p)
    PROVE  KInv'
<1>1. /\ UNCHANGED <<history, subject, draft>> /\ pc'[p] # "commit"
      /\ \A q \in Procs \ {p} : pc'[q] = pc[q]
  BY DEF Call, Refresh, RefreshCall, Identify, Parse, LookBefore, Goto, files, IInv, TypeOK
<1> QED
  BY <1>1, KernelContinue

\* A record is stored only if no candidate has its identity.
LEMMA KernelEnds ==
    ASSUME IInv, KInv, NEW p \in Procs,
           \/ Refuse(p) \/ RecordExists(p) \/ Commit(p) \/ Abandon(p)
           \/ CommitResult(p) \/ Check(p)
    PROVE  KInv'
<1>1. CASE Commit(p) \/ CommitResult(p)
  <2>1. /\ pc[p] = "commit" /\ history' = Append(history, draft[p])
        /\ draft[p].type = "candidate" => ~Registered(history, draft[p].id)
    BY <1>1 DEF Commit, CommitResult, Store, Registered
  <2>2. CASE End(p)
    BY <2>1, <2>2, KernelEnd
  <2>3. CASE /\ pc' = [pc EXCEPT ![p] = IF call[p].op = "evaluate" THEN "check" ELSE "execute"]
             /\ draft' = [draft EXCEPT ![p] = Nil]
             /\ UNCHANGED <<call, seen, subject>>
    <3>1. /\ pc'[p] # "commit" /\ subject' = subject
          /\ \A q \in Procs \ {p} : pc'[q] = pc[q] /\ draft'[q] = draft[q]
      BY <2>3 DEF IInv, TypeOK
    <3> QED
      BY <2>1, <3>1, KernelContinue
  <2> QED
    BY <1>1, <2>2, <2>3 DEF Commit, CommitResult
<1>2. CASE Refuse(p) \/ RecordExists(p) \/ Abandon(p) \/ Check(p)
  <2>1. history' = history
    BY <1>2 DEF Refuse, RecordExists, Abandon, Check, files
  <2>2. CASE End(p)
    BY <2>1, <2>2, KernelEnd
  <2>3. CASE pc' = [pc EXCEPT ![p] = "before"] /\ UNCHANGED locals
    <3>1. /\ pc'[p] # "commit" /\ subject' = subject
          /\ \A q \in Procs \ {p} : pc'[q] = pc[q] /\ draft'[q] = draft[q]
      BY <2>3 DEF IInv, TypeOK, locals
    <3> QED
      BY <2>1, <3>1, KernelContinue
  <2> QED
    BY <1>2, <2>2, <2>3 DEF Refuse, RecordExists, Abandon, Check
<1> QED
  BY <1>1, <1>2

\* The kernel follows every history.
LEMMA KernelInvariance == Spec => []KInv
<1>1. Init => KInv
  <2> SUFFICES ASSUME Init PROVE KInv
    OBVIOUS
  <2>1. Rooted(history)
    BY DEF Init, Rooted, Indices
  <2>2. ASSUME NEW roots \in BOOLEAN, NEW q \in Policies
        PROVE  Follows(roots, Required[q], history, ProjectEvents(roots, Events(history, Required[q])))
    <3> DEFINE es == Events(<<>>, Required[q])
    <3>1. Len(es) = 0
      BY DEF Events
    <3> HIDE DEF es
    <3>2. ProjectEvents(roots, es) = ProjectionInitial
      BY <3>1, ProjectNone
    <3>3. history = <<>>
      BY DEF Init
    <3> QED
      BY <3>2, <3>3, FollowsInit DEF es
  <2>3. \A p \in Procs : Names(history, pc[p], subject[p], draft[p])
    BY DEF Init, Names, NoSubject
  <2> QED
    BY <2>1, <2>2, <2>3 DEF KInv, Projected
<1>2. IInv /\ KInv /\ [Next]_vars => KInv'
  <2> SUFFICES ASSUME IInv, KInv, [Next]_vars PROVE KInv'
    OBVIOUS
  <2>1. CASE Edit \/ UNCHANGED vars
    <3>1. UNCHANGED <<history, pc, subject, draft>>
      BY <2>1 DEF Edit, vars, files, locals
    <3> QED
      BY <3>1 DEF KInv
  <2>2. ASSUME NEW p \in Procs,
               \/ \E parent \in Indices(history, "epoch") \cup {Nil} :
                     Call(p, [op |-> "epoch", parent |-> parent])
               \/ \E parent \in Contents \cup {Nil} :
                     Call(p, [op |-> "register", parent |-> parent])
               \/ \E op \in Operations(p) \ {"epoch", "register", "refresh"} :
                     Call(p, [op |-> op, parent |-> Nil])
        PROVE  KInv'
    <3>1. \E c \in Calls : Call(p, c)
      BY <2>2, NextCalls
    <3> QED
      BY <3>1, KernelSteady
  <2>3. ASSUME NEW p \in Procs, Refresh(p) \/ RefreshCall(p) \/ Identify(p) \/ Parse(p) \/ LookBefore(p)
        PROVE  KInv'
    BY <2>3, KernelSteady
  <2>4. ASSUME NEW p \in Procs,
               AuthorizeRecord(p) \/ AuthorizeSubject(p) \/ Build(p) \/ Execute(p)
        PROVE  KInv'
    BY <2>4, KernelAuthorizeRecord, KernelAuthorizeSubject, KernelPrepare
  <2>5. ASSUME NEW p \in Procs,
               \/ Refuse(p) \/ RecordExists(p) \/ Commit(p) \/ Abandon(p)
               \/ CommitResult(p) \/ Check(p)
        PROVE  KInv'
    BY <2>5, KernelEnds
  <2> QED
    BY <2>1, <2>2, <2>3, <2>4, <2>5 DEF Next
<1> QED
  BY <1>1, <1>2, Invariance, PTL DEF Spec

\* As many results as there are requirements, if each of them has one.
LEMMA EnoughTold ==
    ASSUME NEW h, NEW c, NEW R, IsFiniteSet(Told(h, c, R)), R # {},
           \A w \in R : Evidence(h, c, w) = {"PASS"}
    PROVE  /\ Cardinality(R) \in Nat /\ Cardinality(R) <= Cardinality(Told(h, c, R))
           /\ Cardinality(Told(h, c, R)) # 0
           /\ \A n \in Told(h, c, R) : h[n].status = "PASS"
<1> DEFINE T == Told(h, c, R)
           f == [n \in T |-> h[n].workflow]
<1>1. ASSUME NEW w \in R PROVE \E n \in T : f[n] = w
  <2>1. PICK n \in Of(h, "result", c) : h[n].workflow = w
    BY DEF Evidence
  <2> QED
    BY <2>1 DEF Told
<1>2. ASSUME NEW n \in T PROVE f[n] \in R /\ h[n].status = "PASS"
  <2>1. n \in Of(h, "result", c) /\ h[n].workflow \in R
    BY DEF Told
  <2>2. h[n].status \in Evidence(h, c, h[n].workflow)
    BY <2>1 DEF Evidence
  <2> QED
    BY <2>1, <2>2
<1>3. f \in Surjection(T, R)
  BY <1>1, <1>2 DEF Surjection
<1>4. IsFiniteSet(R) /\ Cardinality(R) <= Cardinality(T)
  <2> HIDE DEF T, f
  <2>1. IsFiniteSet(T)
    BY DEF T
  <2> QED
    BY <1>3, <2>1, FS_Surjection
<1>5. Cardinality(R) \in Nat /\ Cardinality(T) \in Nat /\ Cardinality(R) # 0
  BY <1>4, FS_CardinalityType, FS_EmptySet
<1> QED
  BY <1>2, <1>4, <1>5

\* A candidate that the host finds ready is one that the kernel selects.
LEMMA ReadyStage ==
    ASSUME NEW h, NEW c, NEW R, NEW s \in KernelState, s.lineage,
           s.epoch # Nil, s.candidate # Nil, KnowsCandidate(h, c, s, R),
           Of(h, "disposition", c) = {}, R # {},
           \A w \in R : Evidence(h, c, w) = {"PASS"}
    PROVE  ProjectStage(s, Cardinality(R)) = "CandidateReady"
<1>1. /\ s.disposition = "Undisposed" /\ ~s.frozen /\ ~s.evaluated
      /\ IsFiniteSet(Told(h, c, R)) /\ s.observed = Cardinality(Told(h, c, R))
  BY DEF KnowsCandidate
<1>2. /\ s.observed # 0 /\ s.observed >= Cardinality(R)
      /\ \A n \in Told(h, c, R) : h[n].status = "PASS"
  <2>1. s.observed \in Nat
    BY DEF KernelState
  <2> QED
    BY <1>1, <2>1, EnoughTold
<1>3. s.evidence = "PASS"
  BY <1>1, <1>2 DEF KnowsCandidate
<1> QED
  BY <1>1, <1>2, <1>3 DEF ProjectStage, UndisposedStage

\* What KernelAgrees says of one kernel and one set of requirements.
AgreesWith(h, roots, R) ==
    LET s == ProjectEvents(roots, Events(h, R))
        c == CurrentCandidate(h)
    IN  /\ s.epoch = IF HasEpoch(h) THEN ActiveEpoch(h) ELSE Nil
        /\ s.candidate = IF HasCandidate(h) THEN c ELSE Nil
        /\ HasCandidate(h) =>
             /\ s.disposition = "Undisposed" <=> ~Disposed(h)
             /\ s.disposition = "Selected" =>
                  h[Disposition(h)].disposition = "selected"
             /\ s.frozen = Frozen(h)
             /\ s.evaluated = (Of(h, "evaluation", c) # {})
             /\ /\ R # {} /\ ~Disposed(h)
                /\ \A w \in R : Evidence(h, c, w) = {"PASS"}
                => ProjectStage(s, Cardinality(R)) = "CandidateReady"
        /\ ~roots => ~Ambiguous(h)

\* A kernel that follows the history agrees with the host about it.
LEMMA FollowsAgrees ==
    ASSUME NEW h \in Seq(Record), NEW roots, NEW R,
           Follows(roots, R, h, ProjectEvents(roots, Events(h, R))),
           ProjectEvents(roots, Events(h, R)).lineage
    PROVE  AgreesWith(h, roots, R) /\ (~roots => ~Ambiguous(h))
<1> DEFINE c == CurrentCandidate(h)
           s == ProjectEvents(roots, Events(h, R))
<1> HIDE DEF s
<1>0. Follows(roots, R, h, s) /\ s.lineage
  BY DEF s
<1>1. s \in KernelState /\ Knows(h, s, R) /\ (~roots => Chained(h))
  BY <1>0 DEF Follows
<1>2. HasCandidate(h) => KnowsCandidate(h, c, s, R)
  BY <1>1 DEF Knows
<1>3. ~roots => ~Ambiguous(h)
  BY <1>1, <1>2 DEF Ambiguous, Chained, KnowsCandidate
<1>4. ASSUME HasCandidate(h)
      PROVE  /\ s.disposition = "Undisposed" <=> ~Disposed(h)
             /\ s.disposition = "Selected" => h[Disposition(h)].disposition = "selected"
             /\ s.frozen = Frozen(h)
             /\ s.evaluated = (Of(h, "evaluation", c) # {})
  <2>1. s.disposition = "Undisposed" <=> ~Disposed(h)
    BY <1>2, <1>4 DEF KnowsCandidate, Disposed
  <2>2. ASSUME s.disposition = "Selected" PROVE h[Disposition(h)].disposition = "selected"
    <3>1. Disposed(h)
      BY <2>1, <2>2
    <3>2. Disposition(h) \in Of(h, "disposition", c)
      BY <3>1, DispositionPosition
    <3> QED
      BY <1>2, <1>4, <2>2, <3>2 DEF KnowsCandidate
  <2>3. s.frozen = Frozen(h)
    BY <1>2, <1>4 DEF KnowsCandidate, Frozen
  <2>4. s.evaluated = (Of(h, "evaluation", c) # {})
    BY <1>2, <1>4 DEF KnowsCandidate
  <2> QED
    BY <2>1, <2>2, <2>3, <2>4
<1>5. ASSUME HasCandidate(h), R # {}, ~Disposed(h),
             \A w \in R : Evidence(h, c, w) = {"PASS"}
      PROVE  ProjectStage(s, Cardinality(R)) = "CandidateReady"
  <2>1. Of(h, "disposition", c) = {}
    BY <1>5 DEF Disposed
  <2>2. s.epoch # Nil /\ s.candidate # Nil
    <3>1. HasEpoch(h)
      BY <1>5 DEF HasCandidate, ActiveCandidates
    <3>2. ActiveEpoch(h) \in Nat /\ c \in Contents
      BY <1>5, <3>1, EpochPosition, CurrentContent
    <3> QED
      BY <1>1, <1>5, <3>1, <3>2, ConstantsAssumption DEF Knows
  <2> HIDE DEF c
  <2> QED
    BY <1>0, <1>1, <1>2, <1>5, <2>1, <2>2, ReadyStage
<1> QED
  BY <1>1, <1>3, <1>4, <1>5 DEF Knows, AgreesWith, s


\* For every number of processes, of both modes and with or without the native
\* spine: the projection of mncs.forge.lifecycle knows what ForgeStateMachine
\* knows of every history that it accepts, whichever policy selects the
\* evidence; and a kernel that takes no second root accepts no history that the
\* host calls ambiguous.
THEOREM KernelFollows == Spec => []KernelAgrees
<1>1. IInv /\ KInv => KernelAgrees
  <2> SUFFICES ASSUME IInv, KInv, NEW roots \in BOOLEAN, NEW q \in Policies,
                      ProjectEvents(roots, Events(history, Required[q])).lineage
               PROVE  AgreesWith(history, roots, Required[q])
    BY DEF KernelAgrees, AgreesWith
  <2>1. history \in Seq(Record)
    BY DEF IInv, TypeOK
  <2>2. Follows(roots, Required[q], history, ProjectEvents(roots, Events(history, Required[q])))
    BY DEF KInv, Projected
  <2> QED
    BY <2>1, <2>2, FollowsAgrees DEF AgreesWith
<1> QED
  BY <1>1, Invariance, KernelInvariance, PTL

-----------------------------------------------------------------------------
(* Bundles *)

\* What the kernel finds ready is current, and for an evaluator selected and
\* frozen, with the files that the freeze binds.
LEMMA ReadyBundle ==
    ASSUME NEW h, NEW o, NEW mode, NativeBundle(h, o, mode)
    PROVE  /\ Fresh(h, o.content)
           /\ mode = "evaluator" =>
                /\ Disposed(h) /\ h[Disposition(h)].disposition = "selected"
                /\ Frozen(h)
                /\ h[Freeze(h)].candidate = o.content
                /\ h[Freeze(h)].authority = o.authority
                /\ h[Freeze(h)].plan = o.policy
<1> DEFINE b == [valid |-> TRUE, mode |-> mode,
       candidate |-> IF HasCandidate(h) THEN CurrentCandidate(h) ELSE Nil,
       requested |-> IF HasCandidate(h) THEN CurrentCandidate(h) ELSE Nil,
       current |-> Fresh(h, o.content),
       selected |-> /\ HasCandidate(h) /\ Disposed(h)
                    /\ h[Disposition(h)].disposition = "selected",
       frozen |-> Frozen(h),
       freezeCurrent |-> /\ Frozen(h)
                         /\ h[Freeze(h)].candidate = o.content
                         /\ h[Freeze(h)].authority = o.authority
                         /\ h[Freeze(h)].plan = o.policy]
<1>1. BundlePreconditionProjection(b)
  BY DEF NativeBundle
<1>2. /\ b.current = Fresh(h, o.content)
      /\ b.selected = (/\ HasCandidate(h) /\ Disposed(h)
                       /\ h[Disposition(h)].disposition = "selected")
      /\ b.freezeCurrent = (/\ Frozen(h)
                            /\ h[Freeze(h)].candidate = o.content
                            /\ h[Freeze(h)].authority = o.authority
                            /\ h[Freeze(h)].plan = o.policy)
      /\ b.mode = mode /\ b.valid = TRUE
  OBVIOUS
<1> HIDE DEF b
<1>3. b.current /\ (b.mode = "evaluator" => b.selected /\ b.freezeCurrent)
  BY <1>1, <1>2 DEF BundlePreconditionProjection, BundlePreconditions
<1> QED
  BY <1>2, <1>3

\* The kernel does not compare the selection that the freeze binds; but in a
\* history that is not ambiguous there is no other.
LEMMA BundleAuthorized ==
    ASSUME NEW h \in Seq(Record), NEW b, ~Ambiguous(h), FreezesJustified(h, b),
           NEW o, NEW mode, NativeBundle(h, o, mode)
    PROVE  MayBundle(h, o, mode)
<1>1. CASE mode # "evaluator"
  BY <1>1, ReadyBundle DEF MayBundle
<1>2. CASE mode = "evaluator"
  <2> DEFINE m == Freeze(h)
             c == CurrentCandidate(h)
             k == h[m].selection
  <2>1. /\ Fresh(h, o.content) /\ Disposed(h) /\ Frozen(h)
        /\ h[Disposition(h)].disposition = "selected"
        /\ h[m].candidate = o.content
        /\ h[m].authority = o.authority
        /\ h[m].plan = o.policy
    BY <1>2, ReadyBundle
  <2>2. Of(h, "freeze", c) \in SUBSET (1..Len(h)) /\ Of(h, "freeze", c) # {}
    BY <2>1 DEF Of, Indices, Frozen
  <2>3. m \in Of(h, "freeze", c)
    <3>1. m = Last(Of(h, "freeze", c))
      BY <2>1 DEF Freeze
    <3> HIDE DEF m, c
    <3> QED
      BY <2>2, <3>1, LastRecord
  <2>4. m \in Indices(h, "freeze") /\ h[m].candidate = c
    BY <2>3 DEF Of
  <2>5. k \in Of(h, "disposition", c)
    BY <2>4 DEF FreezesJustified, Justified, Of
  <2>6. Disposition(h) \in Of(h, "disposition", c)
    BY <2>1, DispositionPosition
  <2>7. AtMostOne(Of(h, "disposition", c))
    BY <2>1 DEF Ambiguous, Fresh
  <2>8. k = Disposition(h)
    BY <2>5, <2>6, <2>7 DEF AtMostOne
  <2> QED
    BY <1>2, <2>1, <2>8 DEF MayBundle, MayEvaluate
<1> QED
  BY <1>1, <1>2

\* Whatever the kernel accepts in a history that is not ambiguous, and whatever
\* the files are by then, the host alone would have bundled: for any number of
\* processes of either mode.
THEOREM BundlesAuthorized ==
    Spec => [](~Ambiguous(history) =>
                 \A mode \in {"development", "evaluator"} :
                    NativeBundle(history, world, mode) => MayBundle(history, world, mode))
<1>1. IInv => (~Ambiguous(history) =>
                 \A mode \in {"development", "evaluator"} :
                    NativeBundle(history, world, mode) => MayBundle(history, world, mode))
  BY BundleAuthorized DEF IInv, TypeOK, LedgerInv
<1> QED
  BY <1>1, Invariance, PTL

\* Whatever is edited and whoever writes, a bundle that the kernel finds ready
\* in a history that it accepts is one that the host would have authorized.
THEOREM BundlesAgree == Spec => []BundleAgrees
<1>1. IInv /\ KInv => BundleAgrees
  <2> SUFFICES ASSUME IInv, KInv, NEW q \in Policies, NEW mode \in {"development", "evaluator"},
                      NativeBundle(history, world, mode),
                      NativeUnambiguous(FALSE, history, Required[q])
               PROVE  ~Ambiguous(history) /\ MayBundle(history, world, mode)
    BY DEF BundleAgrees
  <2>1. ProjectEvents(FALSE, Events(history, Required[q])).lineage
    BY DEF NativeUnambiguous, LifecycleProjection
  <2>2. Follows(FALSE, Required[q], history, ProjectEvents(FALSE, Events(history, Required[q])))
    BY DEF KInv, Projected
  <2>3. history \in Seq(Record) /\ FreezesJustified(history, grounds)
    BY DEF IInv, TypeOK, LedgerInv
  <2>4. ~Ambiguous(history)
    BY <2>1, <2>2, <2>3, FollowsAgrees
  <2> QED
    BY <2>3, <2>4, BundleAuthorized
<1> QED
  BY <1>1, Invariance, KernelInvariance, PTL

=============================================================================
