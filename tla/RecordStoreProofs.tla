-------------------------- MODULE RecordStoreProofs -------------------------
(***************************************************************************)
(* What the runs of RecordStore show for two processes, proved for any     *)
(* number of processes, identities, contents and transactions.             *)
(***************************************************************************)
EXTENDS RecordStore, TLAPS

-----------------------------------------------------------------------------
(* The inductive invariant *)

Unlocked == {"down", "idle", "lock"}
Recovering == {"recoverLedger", "recoverMark", "recoverIndex", "recoverRmtree"}
Staging == {"stageRecord", "stageLedger", "journal"}
Publishing == {"publishRecord", "publishLedger"}
Finishing == {"mark", "index", "rmtree"}
InBody == {"prepare"} \cup Staging \cup Publishing \cup Finishing
InTransaction == Recovering \cup Staging \cup Publishing \cup Finishing

Absent(i) == \A n \in 1..Len(ledger) : ledger[n].id # i

\* A process is past the acquisition exactly when it holds the lock.
LockInv == \A p \in Procs : pc[p] \notin Unlocked <=> lock = p

\* A process in the body of commit() executes a commit of an entry.
OpInv ==
    \A p \in Procs :
        /\ op[p].call = "commit" => op[p].entry \in Entry
        /\ pc[p] \in InBody => op[p].call = "commit"

\* There is at most one transaction directory, the one its process works on,
\* and nothing is left of a directory that is gone.
DirInv ==
    /\ \A t, u \in txdirs : t = u
    /\ \A t \in TxIds \ txdirs : Empty(t)
    /\ \A p \in Procs :
          /\ pc[p] \in InTransaction => cur[p] \in txdirs
          /\ pc[p] \in {"verify", "prepare"} => txdirs = {}

\* Transaction t is decided and not in the ledger yet: its stages, or the
\* public record and the ledger stage, complete it.
PendingTx(t) ==
    /\ t \in txdirs
    /\ journal[t].state = "PREPARED"
    /\ journal[t].entry \in Entry
    /\ journal[t].before = ledger
    /\ journal[t].after = Append(ledger, journal[t].entry)
    /\ ledgerStage[t] = journal[t].after
    /\ Absent(journal[t].entry.id)
    /\ \/ /\ records[journal[t].entry.id] = Nil
          /\ recordStage[t] = journal[t].entry.content
       \/ records[journal[t].entry.id] = journal[t].entry.content

\* Transaction t is in the ledger with its record.
PublishedTx(t) ==
    /\ journal[t].state \in {"PREPARED", "COMMITTED"}
    /\ journal[t].entry \in Entry
    /\ journal[t].before # ledger
    /\ journal[t].after = ledger
    /\ records[journal[t].entry.id] = journal[t].entry.content

\* Whatever was interrupted, a journal belongs to the current ledger.
TxInv ==
    \A t \in txdirs : journal[t] # NoJournal => PendingTx(t) \/ PublishedTx(t)

\* The ledger's records are on disk, each identity once, and a record that is
\* not in the ledger belongs to the pending transaction.
LedgerInv ==
    /\ \A n \in 1..Len(ledger) : records[ledger[n].id] = ledger[n].content
    /\ \A m, n \in 1..Len(ledger) : ledger[m].id = ledger[n].id => m = n
    /\ \A i \in Ids :
          records[i] # Nil => \/ ~Absent(i)
                              \/ \E t \in txdirs : PendingTx(t) /\ journal[t].entry.id = i

\* What the process under the lock has done so far.
StagingInv(p) ==
    pc[p] \in Staging =>
      /\ journal[cur[p]] = NoJournal
      /\ records[op[p].entry.id] = Nil
      /\ Absent(op[p].entry.id)
      /\ pc[p] \in {"stageLedger", "journal"}
           => recordStage[cur[p]] = op[p].entry.content
      /\ pc[p] = "journal" => ledgerStage[cur[p]] = Append(ledger, op[p].entry)

PublishingInv(p) ==
    /\ pc[p] = "publishRecord" =>
         /\ PendingTx(cur[p])
         /\ records[journal[cur[p]].entry.id] = Nil
    /\ pc[p] \in {"publishLedger", "recoverLedger"} =>
         /\ PendingTx(cur[p])
         /\ records[journal[cur[p]].entry.id] = journal[cur[p]].entry.content

FinishingInv(p) ==
    /\ pc[p] \in {"mark", "recoverMark"} =>
         journal[cur[p]] # NoJournal /\ PublishedTx(cur[p])
    /\ pc[p] \in {"index", "recoverIndex"} =>
         journal[cur[p]].state = "COMMITTED"
    /\ pc[p] \in {"rmtree", "recoverRmtree"} =>
         journal[cur[p]] = NoJournal \/ journal[cur[p]].state = "COMMITTED"

PhaseInv == \A p \in Procs : StagingInv(p) /\ PublishingInv(p) /\ FinishingInv(p)

IInv ==
    /\ TypeOK /\ LockInv /\ OpInv /\ DirInv /\ TxInv /\ LedgerInv /\ PhaseInv

-----------------------------------------------------------------------------
(* Facts the steps share *)

\* Appending keeps the old entries in place and puts the new one at the end.
LEMMA AppendEntry ==
  ASSUME NEW l \in Seq(Entry), NEW e \in Entry
  PROVE  /\ Append(l, e) \in Seq(Entry)
         /\ Len(Append(l, e)) = Len(l) + 1
         /\ \A n \in 1..Len(l) : Append(l, e)[n] = l[n]
         /\ Append(l, e)[Len(l) + 1] = e
         /\ Append(l, e) # l
  OBVIOUS

\* The initial state directory is empty.
LEMMA InitIInv == Init => IInv
<1> SUFFICES ASSUME Init PROVE IInv
  OBVIOUS
<1> USE ConstantsAssumption DEF Init
<1>1. TypeOK
  BY DEF TypeOK, NoJournal, Journals, Locations, NoOp, Answer, Codes
<1>2. LockInv /\ OpInv /\ DirInv
  BY DEF LockInv, OpInv, DirInv, Unlocked, InBody, InTransaction, Recovering,
     Staging, Publishing, Finishing, NoOp, Empty
<1>3. TxInv /\ LedgerInv /\ PhaseInv
  BY DEF TxInv, LedgerInv, PhaseInv, StagingInv, PublishingInv, FinishingInv, Staging
<1> QED
  BY <1>1, <1>2, <1>3 DEF IInv

-----------------------------------------------------------------------------
(* Steps that leave the directory alone *)

\* What the disk alone determines.
LEMMA DiskFrame ==
  ASSUME TxInv, LedgerInv,
         UNCHANGED <<ledger, records, txdirs, recordStage, ledgerStage, journal>>
  PROVE  TxInv' /\ LedgerInv'
  BY DEF TxInv, LedgerInv, PendingTx, PublishedTx, Absent

\* Beginning an open or a commit.
LEMMA StartStep ==
  ASSUME IInv, NEW p \in Procs, NEW from \in {"down", "idle"},
         NEW o \in {OpenOp} \cup {CommitOp(e) : e \in Entry}, Start(p, from, o)
  PROVE  IInv'
<1> USE DEF IInv, Start, Goto
<1>1. TypeOK'
  BY ConstantsAssumption DEF TypeOK, disk, Locations, OpenOp, CommitOp, Answer, Codes
<1>2. LockInv'
  BY DEF LockInv, TypeOK, Unlocked
<1>3. OpInv'
  BY DEF OpInv, TypeOK, OpenOp, CommitOp, InBody, Staging, Publishing, Finishing
<1>4. DirInv'
  BY DEF DirInv, TypeOK, disk, Empty, InTransaction, Recovering, Staging, Publishing, Finishing
<1>5. TxInv' /\ LedgerInv'
  BY DiskFrame DEF disk
<1>6. PhaseInv'
  BY DEF PhaseInv, TypeOK, StagingInv, PublishingInv, FinishingInv, PendingTx,
     PublishedTx, Absent, Staging, disk
<1> QED
  BY <1>1, <1>2, <1>3, <1>4, <1>5, <1>6

\* A call that ends, with any answer, leaving the directory as it is.
LEMMA EndStep ==
  ASSUME IInv, NEW p \in Procs, NEW a, a.code \in Codes,
         NEW l \in {"down", "idle"}, End(p, a, l), UNCHANGED disk
  PROVE  IInv'
<1> USE DEF IInv, End
<1>1. TypeOK'
  BY ConstantsAssumption DEF TypeOK, disk, Locations, NoOp
<1>2. LockInv'
  BY ConstantsAssumption DEF LockInv, TypeOK, Unlocked
<1>3. OpInv'
  BY DEF OpInv, TypeOK, NoOp, InBody, Staging, Publishing, Finishing
<1>4. DirInv'
  BY DEF DirInv, TypeOK, disk, Empty, InTransaction, Recovering, Staging, Publishing, Finishing
<1>5. TxInv' /\ LedgerInv'
  BY DiskFrame DEF disk
<1>6. PhaseInv'
  BY DEF PhaseInv, TypeOK, StagingInv, PublishingInv, FinishingInv, PendingTx,
     PublishedTx, Absent, Staging, disk
<1> QED
  BY <1>1, <1>2, <1>3, <1>4, <1>5, <1>6

\* Taking ledger.lock.
LEMMA AcquireStep ==
  ASSUME IInv, NEW p \in Procs, Acquire(p)
  PROVE  IInv'
<1> USE DEF IInv, Acquire, Goto
<1>1. TypeOK'
  BY DEF TypeOK, disk, Locations
<1>2. LockInv'
  BY ConstantsAssumption DEF LockInv, TypeOK, Unlocked
<1>3. OpInv'
  BY DEF OpInv, TypeOK, InBody, Staging, Publishing, Finishing
<1>4. DirInv'
  BY DEF DirInv, TypeOK, disk, Empty, InTransaction, Recovering, Staging, Publishing, Finishing
<1>5. TxInv' /\ LedgerInv'
  BY DiskFrame DEF disk
<1>6. PhaseInv'
  BY DEF PhaseInv, TypeOK, StagingInv, PublishingInv, FinishingInv, PendingTx,
     PublishedTx, Absent, Staging, disk
<1> QED
  BY <1>1, <1>2, <1>3, <1>4, <1>5, <1>6

\* Reading, verifying and closing change only what the caller knows.
LEMMA IdleStep ==
  ASSUME IInv, NEW p \in Procs,
         Close(p) \/ Verify(p) \/ \E K \in SUBSET Kinds : Read(p, K)
  PROVE  IInv'
<1> USE DEF IInv
<1>0. /\ UNCHANGED <<disk, lock, cur, op>>
      /\ pc' = pc \/ Goto(p, "idle", "down")
      /\ \E a : a.code \in Codes /\ reply' = [reply EXCEPT ![p] = a]
  BY DEF Close, Verify, Read, Answer, Codes, ContradictionErrors, RecoveryErrors,
     VerifyError
<1>1. TypeOK'
  BY <1>0 DEF TypeOK, disk, Locations, Goto
<1>2. LockInv'
  BY <1>0 DEF LockInv, TypeOK, Unlocked, Goto
<1>3. OpInv'
  BY <1>0 DEF OpInv, TypeOK, InBody, Staging, Publishing, Finishing, Goto
<1>4. DirInv'
  BY <1>0 DEF DirInv, TypeOK, disk, Empty, InTransaction, Recovering, Staging, Publishing,
     Finishing, Goto
<1>5. TxInv' /\ LedgerInv'
  BY <1>0, DiskFrame DEF disk
<1>6. PhaseInv'
  BY <1>0 DEF PhaseInv, TypeOK, StagingInv, PublishingInv, FinishingInv, PendingTx,
     PublishedTx, Absent, Staging, disk, Goto
<1> QED
  BY <1>1, <1>2, <1>3, <1>4, <1>5, <1>6

\* The scan finds nothing, abandoned staging, or a transaction that is already
\* public.
LEMMA ScanStep ==
  ASSUME IInv, NEW p \in Procs, NEW t,
         ScanDone(p) \/ Abandon(p, t) \/ RecoverPublished(p, t)
  PROVE  IInv'
<1> USE DEF IInv
<1>0. /\ UNCHANGED <<disk, lock, op, reply>>
      /\ \/ /\ Goto(p, "scan", "prepare") \/ Goto(p, "scan", "verify")
            /\ pc'[p] = "prepare" => op[p].call = "commit"
            /\ txdirs = {}
            /\ cur' = cur
         \/ /\ Goto(p, "scan", "recoverRmtree")
            /\ journal[t] = NoJournal
            /\ t \in txdirs
            /\ cur' = [cur EXCEPT ![p] = t]
         \/ /\ Goto(p, "scan", "recoverMark")
            /\ journal[t] # NoJournal
            /\ ledger = journal[t].after
            /\ t \in txdirs
            /\ cur' = [cur EXCEPT ![p] = t]
  BY DEF ScanDone, Abandon, RecoverPublished, Goto, TypeOK
<1>1. TypeOK'
  BY <1>0 DEF TypeOK, disk, Locations, Goto
<1>2. LockInv'
  BY <1>0 DEF LockInv, TypeOK, Unlocked, Goto
<1>3. OpInv'
  BY <1>0 DEF OpInv, TypeOK, InBody, Staging, Publishing, Finishing, Goto
<1>4. DirInv'
  BY <1>0, <1>2 DEF LockInv, Unlocked, DirInv, TypeOK, disk, Empty, InTransaction, Recovering, Staging, Publishing,
     Finishing, Goto
<1>5. TxInv' /\ LedgerInv'
  BY <1>0, DiskFrame DEF disk
<1>6. ASSUME journal[t] # NoJournal, ledger = journal[t].after, t \in txdirs
      PROVE  PublishedTx(t)
  BY <1>6, AppendEntry DEF TxInv, PendingTx, TypeOK
<1>7. PhaseInv'
  BY <1>0, <1>6 DEF PhaseInv, TypeOK, StagingInv, PublishingInv, FinishingInv, PendingTx,
     PublishedTx, Absent, Staging, disk, Goto
<1> QED
  BY <1>1, <1>2, <1>3, <1>4, <1>5, <1>7

-----------------------------------------------------------------------------
(* Steps that change the directory *)

\* Dying or raising under the lock: only staging without a journal is torn.
LEMMA InterruptStep ==
  ASSUME IInv, NEW p \in Procs, Interrupt(p)
  PROVE  IInv'
<1> USE DEF IInv, Interrupt, End, Home
<1>0. /\ recordStage' \in [TxIds -> Contents \cup {Nil, Torn}]
      /\ ledgerStage' \in [TxIds -> Seq(Entry) \cup {Nil, Torn}]
  BY DEF TypeOK
<1>1. TypeOK'
  BY <1>0 DEF TypeOK, Locations, NoOp, Answer, Codes
<1>2. LockInv'
  BY ConstantsAssumption DEF LockInv, TypeOK, Unlocked
<1>3. OpInv'
  BY DEF OpInv, TypeOK, NoOp, InBody, Staging, Publishing, Finishing
<1>4. DirInv'
  BY DEF LockInv, Unlocked, DirInv, TypeOK, Empty, InTransaction, Recovering,
     Staging, Publishing, Finishing
<1>5. \A t \in txdirs : journal[t] # NoJournal =>
         /\ PendingTx(t) => PendingTx(t)'
         /\ PublishedTx(t) => PublishedTx(t)'
  BY DEF PendingTx, PublishedTx, Absent, PhaseInv, StagingInv, Staging, TypeOK
<1>6. TxInv'
  BY <1>5 DEF TxInv
<1>7. LedgerInv'
  BY <1>5 DEF LedgerInv, PendingTx, Absent, NoJournal
<1>8. PhaseInv'
  BY DEF LockInv, Unlocked, PhaseInv, TypeOK, StagingInv, PublishingInv,
     FinishingInv, Staging
<1> QED
  BY <1>1, <1>2, <1>3, <1>4, <1>6, <1>7, <1>8

\* Recovery publishes the record of the pending transaction.
LEMMA RecoverRecordStep ==
  ASSUME IInv, NEW p \in Procs, NEW t \in TxIds, RecoverRecord(p, t)
  PROVE  IInv'
<1> DEFINE e == journal[t].entry
<1> USE DEF IInv
<1>0. PendingTx(t)
  BY DEF TxInv, PublishedTx, RecoverRecord
<1>1. /\ e \in Entry /\ e.id \in Ids /\ e.content \in Contents
      /\ records' \in [Ids -> Contents \cup {Nil}]
      /\ recordStage' \in [TxIds -> Contents \cup {Nil, Torn}]
      /\ records'[e.id] = e.content
      /\ \A i \in Ids \ {e.id} : records'[i] = records[i]
      /\ \A u \in TxIds \ {t} : recordStage'[u] = recordStage[u]
  <2>1. e \in Entry /\ e.id \in Ids /\ e.content \in Contents
    BY <1>0 DEF PendingTx, Entry
  <2>2. \/ /\ records[e.id] = Nil /\ recordStage[t] = e.content
           /\ records' = [records EXCEPT ![e.id] = e.content]
           /\ recordStage' = [recordStage EXCEPT ![t] = Nil]
        \/ /\ records[e.id] = e.content
           /\ UNCHANGED <<records, recordStage>>
    BY <1>0, <2>1, ConstantsAssumption DEF PendingTx, RecoverRecord, Publish
  <2> HIDE DEF e
  <2> QED
    BY <2>1, <2>2 DEF TypeOK
<1>2. /\ Goto(p, "scan", "recoverLedger")
      /\ cur' = [cur EXCEPT ![p] = t]
      /\ t \in txdirs
      /\ UNCHANGED <<ledger, index, txdirs, ledgerStage, journal, lock, op, reply>>
  BY DEF RecoverRecord
<1> HIDE DEF e
<1> USE DEF Goto
<1>3. TypeOK'
  BY <1>1, <1>2 DEF TypeOK, Locations
<1>4. LockInv' /\ OpInv'
  BY <1>2 DEF LockInv, OpInv, TypeOK, Unlocked, InBody, Staging, Publishing, Finishing
<1>5. DirInv'
  BY <1>1, <1>2 DEF LockInv, Unlocked, DirInv, TypeOK, Empty, InTransaction, Recovering,
     Staging, Publishing, Finishing
<1>6. PendingTx(t)'
  BY <1>0, <1>1, <1>2 DEF PendingTx, Absent, e
<1>7. TxInv'
  BY <1>2, <1>6 DEF TxInv, DirInv
<1>8. LedgerInv'
  <2>1. \A n \in 1..Len(ledger) : ledger[n].id \in Ids \ {e.id}
    <3> TAKE n \in 1..Len(ledger)
    <3>1. ledger[n] \in Entry
      BY DEF TypeOK
    <3> QED
      BY <3>1, <1>0 DEF PendingTx, Absent, Entry, e
  <2>2. \A i \in Ids : records'[i] # Nil => ~Absent(i)' \/ i = e.id
    BY <1>0, <1>1, <1>2 DEF LedgerInv, DirInv, PendingTx, Absent, e
  <2> QED
    BY <1>1, <1>2, <1>6, <2>1, <2>2 DEF LedgerInv, e
<1>9. PhaseInv'
  <2>1. cur'[p] = t /\ pc'[p] = "recoverLedger"
    BY <1>2 DEF TypeOK
  <2>2. \A q \in Procs \ {p} : pc'[q] \in Unlocked
    BY <1>2 DEF LockInv, TypeOK, Unlocked
  <2> QED
    BY <1>1, <1>2, <1>6, <2>1, <2>2 DEF Unlocked, PhaseInv, StagingInv,
       PublishingInv, FinishingInv, Staging, e
<1> QED
  BY <1>3, <1>4, <1>5, <1>7, <1>8, <1>9

\* ledger.jsonl is replaced: the pending transaction becomes published.
LEMMA PublishLedgerStep ==
  ASSUME IInv, NEW p \in Procs, CommitLedger(p) \/ RecoverLedger(p)
  PROVE  IInv'
<1> USE DEF IInv, CommitLedger, RecoverLedger, PublishLedger, Goto
<1>0. /\ PendingTx(cur[p])
      /\ records[journal[cur[p]].entry.id] = journal[cur[p]].entry.content
      /\ cur[p] \in TxIds
      /\ ledger \in Seq(Entry)
      /\ ledger' = Append(ledger, journal[cur[p]].entry)
      /\ ledger' \in Seq(Entry)
  <2>1. PendingTx(cur[p]) /\ records[journal[cur[p]].entry.id] = journal[cur[p]].entry.content
    BY DEF PhaseInv, PublishingInv
  <2>2. journal[cur[p]].entry \in Entry /\ ledger' = Append(ledger, journal[cur[p]].entry)
    BY <2>1 DEF PendingTx
  <2>3. cur[p] \in TxIds /\ ledger \in Seq(Entry)
    BY <2>1 DEF PendingTx, TypeOK
  <2> QED
    BY <2>1, <2>2, <2>3, AppendEntry
<1>1. TypeOK'
  <2>1. ledgerStage' \in [TxIds -> Seq(Entry) \cup {Nil, Torn}]
    BY DEF TypeOK
  <2> QED
    BY <1>0, <2>1 DEF TypeOK, Locations
<1>2. LockInv'
  BY ConstantsAssumption DEF LockInv, TypeOK, Unlocked
<1>3. OpInv'
  BY DEF OpInv, TypeOK, NoOp, InBody, Staging, Publishing, Finishing
<1>4. DirInv'
  BY DEF LockInv, Unlocked, DirInv, TypeOK, Empty, InTransaction, Recovering, Staging, Publishing, Finishing
<1>5. PublishedTx(cur[p])'
  BY <1>0, AppendEntry DEF PendingTx, PublishedTx, TypeOK
<1>6. TxInv'
  BY <1>0, <1>5 DEF TxInv, PendingTx, DirInv
<1>7. LedgerInv'
  <2> DEFINE e == journal[cur[p]].entry
  <2>1. /\ e \in Entry
        /\ Len(ledger') = Len(ledger) + 1
        /\ \A n \in 1..Len(ledger) : ledger'[n] = ledger[n] /\ ledger[n].id # e.id
        /\ ledger'[Len(ledger) + 1] = e
        /\ records[e.id] = e.content
        /\ records' = records
    BY <1>0, AppendEntry DEF PendingTx, Absent
  <2> HIDE DEF e
  <2>2. \A n \in 1..Len(ledger') : n \in 1..Len(ledger) \/ n = Len(ledger) + 1
    BY <1>0, <2>1
  <2>3. \A n \in 1..Len(ledger') : records'[ledger'[n].id] = ledger'[n].content
    BY <2>1, <2>2 DEF LedgerInv
  <2>4. \A m, n \in 1..Len(ledger') : ledger'[m].id = ledger'[n].id => m = n
    BY <2>1, <2>2 DEF LedgerInv
  <2>5. \A i \in Ids : records'[i] # Nil => ~Absent(i)'
    BY <1>0, <2>1 DEF LedgerInv, DirInv, PendingTx, Absent, e
  <2> QED
    BY <2>3, <2>4, <2>5 DEF LedgerInv
<1>8. PhaseInv'
  <2>1. \A q \in Procs \ {p} : pc'[q] \in Unlocked
    BY DEF LockInv, TypeOK, Unlocked
  <2>2. /\ pc'[p] \in {"mark", "recoverMark"}
        /\ cur' = cur
        /\ journal'[cur[p]] # NoJournal
    BY <1>0 DEF TypeOK, PendingTx, NoJournal
  <2> QED
    BY <1>5, <2>1, <2>2 DEF Unlocked, PhaseInv, StagingInv, PublishingInv,
       FinishingInv, Staging
<1> QED
  BY <1>1, <1>2, <1>3, <1>4, <1>6, <1>7, <1>8

\* The journal is rewritten as COMMITTED.
LEMMA MarkStep ==
  ASSUME IInv, NEW p \in Procs, CommitMark(p) \/ RecoverMark(p)
  PROVE  IInv'
<1> DEFINE t == cur[p]
<1> USE DEF IInv, CommitMark, RecoverMark, Mark, Goto
<1>0. /\ t \in txdirs /\ t \in TxIds
      /\ PublishedTx(t)
      /\ journal' = [journal EXCEPT ![t].state = "COMMITTED"]
  BY DEF PhaseInv, FinishingInv, DirInv, InTransaction, Recovering, Finishing, TypeOK
<1>1. /\ journal' \in [TxIds -> Journals]
      /\ PublishedTx(t)'
      /\ journal'[t].state = "COMMITTED"
      /\ \A u \in TxIds \ {t} : journal'[u] = journal[u]
  <2>1. journal[t] \in Journals /\ journal \in [TxIds -> Journals]
    BY <1>0 DEF TypeOK
  <2>2. /\ [journal[t] EXCEPT !.state = "COMMITTED"] \in Journals
        /\ journal' = [journal EXCEPT ![t] = [journal[t] EXCEPT !.state = "COMMITTED"]]
    BY <1>0, <2>1 DEF Journals
  <2>3. /\ journal'[t].state = "COMMITTED"
        /\ journal'[t].entry = journal[t].entry
        /\ journal'[t].before = journal[t].before
        /\ journal'[t].after = journal[t].after
    BY <1>0, <2>1, <2>2 DEF Journals
  <2>4. PublishedTx(t)'
    BY <1>0, <2>3 DEF PublishedTx
  <2> QED
    BY <1>0, <2>1, <2>2, <2>3, <2>4
<1>2. \A q \in Procs \ {p} : pc'[q] = pc[q] /\ pc[q] \in Unlocked
  BY DEF LockInv, TypeOK, Unlocked
<1>3. TypeOK'
  BY <1>1 DEF TypeOK, Locations
<1>4. LockInv' /\ OpInv'
  BY DEF LockInv, OpInv, TypeOK, Unlocked, InBody, Staging, Publishing, Finishing
<1>5. DirInv'
  BY <1>0, <1>1 DEF LockInv, Unlocked, DirInv, TypeOK, Empty, InTransaction, Recovering,
     Staging, Publishing, Finishing
<1>6. TxInv'
  BY <1>0, <1>1 DEF TxInv, DirInv
<1>7. LedgerInv'
  BY <1>0 DEF LedgerInv, DirInv, PendingTx, PublishedTx, Absent
<1>8. PhaseInv'
  BY <1>1, <1>2 DEF TypeOK, Unlocked, PhaseInv, StagingInv, PublishingInv,
     FinishingInv, Staging
<1> QED
  BY <1>3, <1>4, <1>5, <1>6, <1>7, <1>8

\* The index is rebuilt.
LEMMA ReindexStep ==
  ASSUME IInv, NEW p \in Procs, CommitIndex(p) \/ RecoverIndex(p)
  PROVE  IInv'
<1> USE DEF IInv, CommitIndex, RecoverIndex, Reindex, Goto
<1>1. TypeOK'
  BY DEF TypeOK, Locations, IndexOf
<1>2. LockInv' /\ OpInv'
  BY DEF LockInv, OpInv, TypeOK, Unlocked, InBody, Staging, Publishing, Finishing
<1>3. DirInv'
  BY DEF LockInv, Unlocked, DirInv, TypeOK, Empty, InTransaction, Recovering,
     Staging, Publishing, Finishing
<1>4. TxInv' /\ LedgerInv'
  BY DiskFrame
<1>5. PhaseInv'
  <2>1. \A q \in Procs \ {p} : pc'[q] = pc[q] /\ pc[q] \in Unlocked
    BY DEF LockInv, TypeOK, Unlocked
  <2>2. /\ pc'[p] \in {"rmtree", "recoverRmtree"}
        /\ journal'[cur'[p]].state = "COMMITTED"
    BY DEF PhaseInv, FinishingInv, TypeOK
  <2> QED
    BY <2>1, <2>2 DEF Unlocked, PhaseInv, StagingInv, PublishingInv, FinishingInv, Staging
<1> QED
  BY <1>1, <1>2, <1>3, <1>4, <1>5

\* One file of a finished or abandoned directory is removed.
LEMMA UnlinkStep ==
  ASSUME IInv, NEW p \in Procs, Unlink(p)
  PROVE  IInv'
<1> DEFINE t == cur[p]
<1> USE DEF IInv
<1>0. /\ t \in txdirs /\ t \in TxIds
      /\ journal[t] = NoJournal \/ journal[t].state = "COMMITTED"
      /\ pc[p] \in {"recoverRmtree", "rmtree"}
      /\ UNCHANGED <<ledger, records, index, txdirs, lock, pc, cur, op, reply>>
  BY DEF Unlink, PhaseInv, FinishingInv, DirInv, InTransaction, Recovering, Finishing, TypeOK
<1>1. /\ recordStage' \in [TxIds -> Contents \cup {Nil, Torn}]
      /\ ledgerStage' \in [TxIds -> Seq(Entry) \cup {Nil, Torn}]
      /\ journal' \in [TxIds -> Journals]
      /\ journal'[t] = journal[t] \/ journal'[t] = NoJournal
      /\ \A u \in TxIds \ {t} : /\ recordStage'[u] = recordStage[u]
                                 /\ ledgerStage'[u] = ledgerStage[u]
                                 /\ journal'[u] = journal[u]
  <2>1. NoJournal \in Journals
    BY DEF NoJournal, Journals
  <2> QED
    BY <1>0, <2>1 DEF Unlink, TypeOK
<1>2. \A q \in Procs \ {p} : pc[q] \in Unlocked
  BY <1>0 DEF LockInv, TypeOK, Unlocked
<1>3. TypeOK'
  BY <1>0, <1>1 DEF TypeOK
<1>4. LockInv' /\ OpInv'
  BY <1>0 DEF LockInv, OpInv
<1>5. DirInv'
  BY <1>0, <1>1 DEF DirInv, Empty
<1>6. TxInv'
  BY <1>0, <1>1 DEF TxInv, DirInv, PendingTx, PublishedTx
<1>7. LedgerInv'
  BY <1>0, <1>1 DEF LedgerInv, DirInv, PendingTx, Absent, NoJournal
<1>8. PhaseInv'
  BY <1>0, <1>1, <1>2 DEF Unlocked, PhaseInv, StagingInv, PublishingInv,
     FinishingInv, Staging
<1> QED
  BY <1>3, <1>4, <1>5, <1>6, <1>7, <1>8

\* The empty directory is removed.
LEMMA RmdirStep ==
  ASSUME IInv, NEW p \in Procs, CommitRmdir(p) \/ RecoverRmdir(p)
  PROVE  IInv'
<1> DEFINE t == cur[p]
<1> USE DEF IInv
<1>0. /\ t \in txdirs /\ Empty(t)
      /\ txdirs' = txdirs \ {t}
      /\ UNCHANGED <<ledger, records, index, recordStage, ledgerStage, journal>>
      /\ pc[p] \in {"recoverRmtree", "rmtree"}
      /\ cur' = [cur EXCEPT ![p] = Nil]
  BY DEF CommitRmdir, RecoverRmdir, Goto, End, DirInv, InTransaction, Recovering, Finishing
<1>1. \/ /\ pc' = [pc EXCEPT ![p] = "idle"]
         /\ lock = p /\ lock' = Nil
         /\ op' = [op EXCEPT ![p] = NoOp]
         /\ \E a : a.code = "ENTRY" /\ reply' = [reply EXCEPT ![p] = a]
      \/ /\ pc' = [pc EXCEPT ![p] = "scan"]
         /\ UNCHANGED <<lock, op, reply>>
  BY <1>0 DEF CommitRmdir, RecoverRmdir, Goto, End, EntryAnswer, LockInv, Unlocked
<1>2. TypeOK'
  <2>1. DOMAIN reply' = Procs /\ \A q \in Procs : reply'[q].code \in Codes
    BY <1>1 DEF TypeOK, Codes
  <2>2. op' \in [Procs -> [call : {"none", "open", "commit"}, entry : Entry \cup {Nil}]]
    BY <1>1 DEF TypeOK, NoOp
  <2> QED
    BY <1>0, <1>1, <2>1, <2>2 DEF TypeOK, Locations
<1>3. LockInv'
  BY <1>0, <1>1, ConstantsAssumption DEF LockInv, TypeOK, Unlocked
<1>4. OpInv'
  BY <1>0, <1>1 DEF OpInv, TypeOK, NoOp, InBody, Staging, Publishing, Finishing
<1>5. txdirs' = {}
  BY <1>0 DEF DirInv
<1>6. \A q \in Procs : pc'[q] \in Unlocked \cup {"scan"}
  BY <1>0, <1>1 DEF LockInv, TypeOK, Unlocked
<1>7. DirInv'
  BY <1>0, <1>5, <1>6 DEF DirInv, Empty, Unlocked, InTransaction, Recovering,
     Staging, Publishing, Finishing
<1>8. TxInv'
  BY <1>5 DEF TxInv
<1>9. LedgerInv'
  BY <1>0 DEF LedgerInv, DirInv, PendingTx, Absent, Empty, NoJournal
<1>10. PhaseInv'
  BY <1>6 DEF Unlocked, PhaseInv, StagingInv, PublishingInv,
     FinishingInv, Staging
<1> QED
  BY <1>2, <1>3, <1>4, <1>7, <1>8, <1>9, <1>10

\* An open ends, and refreshes the index.
LEMMA OpenedStep ==
  ASSUME IInv, NEW p \in Procs, Opened(p)
  PROVE  IInv'
<1> USE DEF IInv, Opened, End
<1>1. TypeOK'
  <2>1. \/ index' = Nil
        \/ index'.bound \in Seq(Entry) /\ index' = IndexOf(index'.bound)
    BY DEF TypeOK, IndexOf
  <2> QED
    BY <2>1 DEF TypeOK, Locations, NoOp, Answer, Codes
<1>2. LockInv'
  BY ConstantsAssumption DEF LockInv, TypeOK, Unlocked
<1>3. OpInv'
  BY DEF OpInv, TypeOK, NoOp, InBody, Staging, Publishing, Finishing
<1>4. DirInv'
  BY DEF DirInv, TypeOK, Empty, InTransaction, Recovering, Staging, Publishing, Finishing
<1>5. TxInv' /\ LedgerInv'
  BY DiskFrame
<1>6. PhaseInv'
  <2>1. \A q \in Procs : pc'[q] \in Unlocked
    BY DEF LockInv, TypeOK, Unlocked
  <2> QED
    BY <2>1 DEF Unlocked, PhaseInv, StagingInv, PublishingInv,
     FinishingInv, Staging
<1> QED
  BY <1>1, <1>2, <1>3, <1>4, <1>5, <1>6

\* A commit makes its directory, the only one.
LEMMA MkdirStep ==
  ASSUME IInv, NEW p \in Procs, NEW t \in TxIds, Mkdir(p, t)
  PROVE  IInv'
<1> USE DEF IInv, Mkdir, Goto
<1>0. txdirs = {} /\ txdirs' = {t} /\ Empty(t)
  BY DEF DirInv
<1>1. TypeOK'
  BY DEF TypeOK, Locations
<1>2. LockInv' /\ OpInv'
  BY DEF LockInv, OpInv, TypeOK, Unlocked, InBody, Staging, Publishing, Finishing
<1>3. DirInv'
  <2>1. \A q \in Procs : pc'[q] \in Unlocked \/ (pc'[q] = "stageRecord" /\ cur'[q] = t)
    BY DEF LockInv, TypeOK, Unlocked
  <2> QED
    BY <1>0, <2>1 DEF DirInv, Empty, Unlocked, InTransaction, Recovering, Staging,
       Publishing, Finishing
<1>4. TxInv'
  BY <1>0 DEF TxInv, Empty
<1>5. LedgerInv'
  BY <1>0 DEF LedgerInv, PendingTx, Absent
<1>6. PhaseInv'
  <2>1. \A q \in Procs \ {p} : pc'[q] \in Unlocked
    BY DEF LockInv, TypeOK, Unlocked
  <2>2. /\ pc'[p] = "stageRecord" /\ cur'[p] = t
        /\ journal'[t] = NoJournal
        /\ records'[op'[p].entry.id] = Nil
        /\ Absent(op[p].entry.id)'
    BY <1>0 DEF TypeOK, Empty, Positions, Absent
  <2> QED
    BY <2>1, <2>2 DEF TypeOK, Unlocked, PhaseInv, StagingInv, PublishingInv,
     FinishingInv, Staging
<1> QED
  BY <1>1, <1>2, <1>3, <1>4, <1>5, <1>6

\* Record and ledger image are staged; no journal names them yet.
LEMMA StageStep ==
  ASSUME IInv, NEW p \in Procs, StageRecord(p) \/ StageLedger(p)
  PROVE  IInv'
<1> DEFINE t == cur[p]  e == op[p].entry
<1> USE DEF IInv, StageRecord, StageLedger, Goto
<1>0. /\ t \in txdirs /\ t \in TxIds
      /\ journal[t] = NoJournal
      /\ e \in Entry /\ e.content \in Contents
      /\ Append(ledger, e) \in Seq(Entry)
  <2>1. t \in txdirs /\ t \in TxIds /\ journal[t] = NoJournal /\ e \in Entry
    BY DEF PhaseInv, StagingInv, DirInv, InTransaction, Staging, OpInv, InBody, TypeOK
  <2> QED
    BY <2>1, AppendEntry DEF TypeOK, Entry
<1>1. /\ recordStage' \in [TxIds -> Contents \cup {Nil, Torn}]
      /\ ledgerStage' \in [TxIds -> Seq(Entry) \cup {Nil, Torn}]
      /\ \A u \in TxIds \ {t} : /\ recordStage'[u] = recordStage[u]
                                 /\ ledgerStage'[u] = ledgerStage[u]
  <2>1. CASE StageRecord(p)
    BY <1>0, <2>1 DEF TypeOK
  <2>2. CASE StageLedger(p)
    BY <1>0, <2>2 DEF TypeOK
  <2> QED
    BY <2>1, <2>2
<1>2. \A q \in Procs \ {p} : pc'[q] \in Unlocked
  BY DEF LockInv, TypeOK, Unlocked
<1>3. TypeOK'
  BY <1>1 DEF TypeOK, Locations
<1>4. LockInv' /\ OpInv'
  BY DEF LockInv, OpInv, TypeOK, Unlocked, InBody, Staging, Publishing, Finishing
<1>5. DirInv'
  BY <1>0, <1>1 DEF LockInv, Unlocked, DirInv, TypeOK, Empty, InTransaction, Recovering,
     Staging, Publishing, Finishing
<1>6. TxInv'
  BY <1>0 DEF TxInv, DirInv
<1>7. LedgerInv'
  BY <1>0 DEF LedgerInv, DirInv, PendingTx, Absent, NoJournal
<1>8. PhaseInv'
  <2>1. /\ pc'[p] \in {"stageLedger", "journal"} /\ cur' = cur /\ op' = op
        /\ records' = records /\ ledger' = ledger /\ journal' = journal
        /\ records[e.id] = Nil /\ Absent(e.id)
        /\ recordStage'[t] = e.content
        /\ pc'[p] = "journal" => ledgerStage'[t] = Append(ledger, e)
    BY <1>0 DEF TypeOK, PhaseInv, StagingInv, Staging
  <2> QED
    BY <1>0, <1>2, <2>1 DEF Absent, Unlocked, PhaseInv, StagingInv, PublishingInv,
     FinishingInv, Staging
<1> QED
  BY <1>3, <1>4, <1>5, <1>6, <1>7, <1>8

\* The rename of journal.json makes the transaction pending.
LEMMA WriteJournalStep ==
  ASSUME IInv, NEW p \in Procs, WriteJournal(p)
  PROVE  IInv'
<1> DEFINE t == cur[p]  e == op[p].entry
           j == [state |-> "PREPARED", entry |-> e,
                 before |-> ledger, after |-> Append(ledger, e)]
<1> USE DEF IInv, WriteJournal, Goto
<1>0. /\ t \in txdirs /\ t \in TxIds
      /\ journal[t] = NoJournal
      /\ e \in Entry
      /\ ledger \in Seq(Entry)
      /\ records[e.id] = Nil /\ Absent(e.id)
      /\ recordStage[t] = e.content
      /\ ledgerStage[t] = Append(ledger, e)
  BY DEF PhaseInv, StagingInv, DirInv, InTransaction, Staging, OpInv, InBody, TypeOK
<1>1. j \in Journals /\ journal' = [journal EXCEPT ![t] = j]
  BY <1>0, AppendEntry DEF Journals
<1>2. \A q \in Procs \ {p} : pc'[q] \in Unlocked
  BY DEF LockInv, TypeOK, Unlocked
<1>3. /\ journal'[t] = j
      /\ \A u \in TxIds \ {t} : journal'[u] = journal[u]
  BY <1>0, <1>1 DEF TypeOK
<1>4. PendingTx(t)'
  BY <1>0, <1>3 DEF PendingTx, Absent
<1>5. TypeOK'
  <2>1. journal' \in [TxIds -> Journals]
    BY <1>1 DEF TypeOK
  <2> QED
    BY <2>1 DEF TypeOK, Locations
<1>6. LockInv' /\ OpInv'
  BY DEF LockInv, OpInv, TypeOK, Unlocked, InBody, Staging, Publishing, Finishing
<1>7. DirInv'
  BY <1>0, <1>3 DEF LockInv, Unlocked, DirInv, TypeOK, Empty, InTransaction, Recovering,
     Staging, Publishing, Finishing
<1>8. TxInv'
  BY <1>0, <1>4 DEF TxInv, DirInv
<1>9. LedgerInv'
  BY <1>0 DEF LedgerInv, DirInv, PendingTx, Absent, NoJournal
<1>10. PhaseInv'
  <2>1. /\ pc'[p] = "publishRecord" /\ cur'[p] = t
        /\ records'[journal'[t].entry.id] = Nil
    BY <1>0, <1>3 DEF TypeOK
  <2> QED
    BY <1>2, <1>4, <2>1 DEF Unlocked, PhaseInv, StagingInv, PublishingInv,
     FinishingInv, Staging
<1> QED
  BY <1>5, <1>6, <1>7, <1>8, <1>9, <1>10

\* The record of the pending transaction becomes public.
LEMMA PublishRecordStep ==
  ASSUME IInv, NEW p \in Procs, PublishRecord(p)
  PROVE  IInv'
<1> DEFINE t == cur[p]  e == journal[t].entry
<1> USE DEF IInv
<1>0. /\ PendingTx(t) /\ records[e.id] = Nil
      /\ t \in txdirs /\ t \in TxIds
      /\ e \in Entry /\ e.id \in Ids /\ e.content \in Contents
      /\ recordStage[t] = e.content
  BY ConstantsAssumption DEF PublishRecord, Goto, PhaseInv, PublishingInv, PendingTx, TypeOK, Entry
<1>1. /\ records' = [records EXCEPT ![e.id] = e.content]
      /\ recordStage' = [recordStage EXCEPT ![t] = Nil]
      /\ Goto(p, "publishRecord", "publishLedger")
      /\ UNCHANGED <<ledger, index, txdirs, ledgerStage, journal, lock, cur, op, reply>>
  BY <1>0 DEF PublishRecord, Publish
<1> HIDE DEF e
<1> USE DEF Goto
<1>2. \A q \in Procs \ {p} : pc'[q] \in Unlocked
  BY <1>1 DEF LockInv, TypeOK, Unlocked
<1>3. /\ records' \in [Ids -> Contents \cup {Nil}]
      /\ recordStage' \in [TxIds -> Contents \cup {Nil, Torn}]
      /\ records'[e.id] = e.content
      /\ \A i \in Ids \ {e.id} : records'[i] = records[i]
      /\ \A u \in TxIds \ {t} : recordStage'[u] = recordStage[u]
  BY <1>0, <1>1 DEF TypeOK
<1>4. PendingTx(t)'
  BY <1>0, <1>1, <1>3 DEF PendingTx, Absent, e
<1>5. TypeOK'
  BY <1>1, <1>3 DEF TypeOK, Locations
<1>6. LockInv' /\ OpInv'
  BY <1>1 DEF LockInv, OpInv, TypeOK, Unlocked, InBody, Staging, Publishing, Finishing
<1>7. DirInv'
  BY <1>0, <1>1, <1>3 DEF LockInv, Unlocked, DirInv, TypeOK, Empty, InTransaction, Recovering,
     Staging, Publishing, Finishing
<1>8. TxInv'
  BY <1>0, <1>1, <1>4 DEF TxInv, DirInv
<1>9. LedgerInv'
  <2>1. \A n \in 1..Len(ledger) : ledger[n].id \in Ids \ {e.id}
    <3> TAKE n \in 1..Len(ledger)
    <3>1. ledger[n] \in Entry
      BY DEF TypeOK
    <3> QED
      BY <3>1, <1>0 DEF PendingTx, Absent, Entry, e
  <2>2. \A i \in Ids : records'[i] # Nil => ~Absent(i)' \/ i = e.id
    BY <1>0, <1>1, <1>3 DEF LedgerInv, DirInv, PendingTx, Absent, e
  <2> QED
    BY <1>0, <1>1, <1>3, <1>4, <2>1, <2>2 DEF LedgerInv, e
<1>10. PhaseInv'
  <2>1. pc'[p] = "publishLedger" /\ cur'[p] = t /\ journal'[t].entry = e
    BY <1>1 DEF TypeOK, e
  <2> QED
    BY <1>2, <1>3, <1>4, <2>1 DEF Unlocked, PhaseInv, StagingInv, PublishingInv,
     FinishingInv, Staging
<1> QED
  BY <1>5, <1>6, <1>7, <1>8, <1>9, <1>10

-----------------------------------------------------------------------------
(* Errors that cannot happen *)

\* A journal that recovery finds is one it can complete.
LEMMA RecoveryAccepts ==
  ASSUME IInv, NEW t \in txdirs, journal[t] # NoJournal
  PROVE  RecoveryError(t) = ""
<1> DEFINE e == journal[t].entry
<1>1. PendingTx(t) \/ PublishedTx(t)
  BY DEF IInv, TxInv
<1>2. /\ e \in Entry /\ e.content \in Contents
      /\ journal[t].after # journal[t].before
  BY <1>1, AppendEntry DEF PendingTx, PublishedTx, Entry, IInv, TypeOK
<1>3. RecordSource(t) = e.content
  BY <1>1, <1>2, ConstantsAssumption DEF RecordSource, PendingTx, PublishedTx
<1>4. e.content # Nil
  BY <1>2, ConstantsAssumption
<1>5. CASE PendingTx(t)
  <2>1. ledgerStage[t] # Nil
    <3>1. Append(ledger, e) \in Seq(Entry)
      BY <1>2, AppendEntry DEF IInv, TypeOK
    <3>2. Nil \notin Seq(Entry)
      BY ConstantsAssumption DEF Entry
    <3> QED
      BY <1>5, <3>1, <3>2 DEF PendingTx
  <2> QED
    BY <1>2, <1>3, <1>4, <1>5, <2>1 DEF RecoveryError, PendingTx
<1>6. CASE PublishedTx(t)
  BY <1>2, <1>3, <1>4, <1>6 DEF RecoveryError, PublishedTx
<1> QED
  BY <1>1, <1>5, <1>6

\* Every record of the ledger has its file.
LEMMA VerifyAccepts ==
  ASSUME IInv
  PROVE  VerifyError = ""
<1>1. \A n \in 1..Len(ledger) : /\ records[ledger[n].id] = ledger[n].content
                                 /\ ledger[n].content # Nil
  <2> TAKE n \in 1..Len(ledger)
  <2>1. ledger[n] \in Entry
    BY DEF IInv, TypeOK
  <2> QED
    BY <2>1, ConstantsAssumption DEF IInv, LedgerInv, Entry
<1> QED
  BY <1>1 DEF VerifyError, MissingFile, WrongFile

\* A known identity has one file and one entry when duplicates are resolved.
LEMMA DuplicateResolves ==
  ASSUME IInv, NEW p \in Procs, pc[p] = "prepare", NEW i \in Ids,
         records[i] # Nil \/ Positions(ledger, i) # {}
  PROVE  records[i] # Nil /\ \E n \in Positions(ledger, i) : Positions(ledger, i) = {n}
<1>1. txdirs = {}
  BY DEF IInv, DirInv
<1>2. PICK n \in 1..Len(ledger) : ledger[n].id = i
  BY <1>1 DEF IInv, LedgerInv, Absent, Positions
<1>3. records[i] # Nil
  <2>1. ledger[n] \in Entry
    BY <1>2 DEF IInv, TypeOK
  <2> QED
    BY <1>2, <2>1, ConstantsAssumption DEF IInv, LedgerInv, Entry
<1>4. Positions(ledger, i) = {n}
  BY <1>2 DEF IInv, LedgerInv, Positions
<1> QED
  BY <1>3, <1>4

-----------------------------------------------------------------------------
(* The theorems *)

\* Every step of every process preserves the invariant.
LEMMA NextIInv == IInv /\ [Next]_vars => IInv'
<1> SUFFICES ASSUME IInv, [Next]_vars PROVE IInv'
  OBVIOUS
<1>1. CASE UNCHANGED vars
  <2>1. TypeOK' /\ LockInv' /\ OpInv'
    BY <1>1 DEF vars, disk, IInv, TypeOK, LockInv, OpInv
  <2>2. DirInv'
    BY <1>1 DEF vars, disk, IInv, DirInv, Empty
  <2>3. TxInv' /\ LedgerInv'
    BY <1>1, DiskFrame DEF vars, disk, IInv
  <2>4. PhaseInv'
    BY <1>1 DEF vars, disk, IInv, PhaseInv, StagingInv, PublishingInv, FinishingInv,
       PendingTx, PublishedTx, Absent
  <2> QED
    BY <2>1, <2>2, <2>3, <2>4 DEF IInv
<1>2. ASSUME NEW p \in Procs,
             \/ Open(p) \/ Close(p) \/ Step(p) \/ Interrupt(p) \/ Verify(p)
             \/ \E e \in Entry : CallCommit(p, e)
             \/ \E K \in SUBSET Kinds : Read(p, K)
      PROVE  IInv'
  <2>1. CASE Open(p) \/ \E e \in Entry : CallCommit(p, e)
    BY <2>1, StartStep DEF Open, CallCommit
  <2>2. CASE Close(p) \/ Verify(p) \/ \E K \in SUBSET Kinds : Read(p, K)
    BY <2>2, IdleStep
  <2>3. CASE Interrupt(p)
    BY <2>3, InterruptStep
  <2>4. CASE Acquire(p) \/ LockTimeout(p) \/ Unlink(p)
    <3>1. CASE LockTimeout(p)
      BY <3>1, EndStep DEF LockTimeout, Home, Answer, Codes
    <3> QED
      BY <2>4, <3>1, AcquireStep, UnlinkStep
  <2>5. CASE Recover(p)
    <3>1. CASE ScanDone(p) \/ \E t \in TxIds : Abandon(p, t) \/ RecoverPublished(p, t)
      <4>1. PICK t : ScanDone(p) \/ Abandon(p, t) \/ RecoverPublished(p, t)
        BY <3>1
      <4> QED
        BY <4>1, ScanStep
    <3>2. ASSUME NEW t \in TxIds, RecoverRefuse(p, t) PROVE FALSE
      BY <3>2, RecoveryAccepts DEF RecoverRefuse
    <3>3. ASSUME NEW t \in TxIds, RecoverRecord(p, t) PROVE IInv'
      BY <3>3, RecoverRecordStep
    <3>4. CASE RecoverLedger(p) \/ RecoverMark(p) \/ RecoverIndex(p) \/ RecoverRmdir(p)
      BY <3>4, PublishLedgerStep, MarkStep, ReindexStep, RmdirStep
    <3>5. CASE Opened(p) \/ OpenRefused(p)
      BY <3>5, OpenedStep, VerifyAccepts DEF OpenRefused
    <3> QED
      BY <2>5, <3>1, <3>2, <3>3, <3>4, <3>5 DEF Recover
  <2>6. CASE Commit(p)
    <3>1. CASE Duplicate(p)
      <4>1. \E a : a.code \in Codes /\ \E l \in {"down", "idle"} : End(p, a, l) /\ UNCHANGED disk
        BY <3>1 DEF Duplicate, Fail, Answer, EntryAnswer, Codes, ContradictionErrors, Home
      <4> QED
        BY <4>1, EndStep
    <3>2. ASSUME NEW t \in TxIds, Mkdir(p, t) PROVE IInv'
      BY <3>2, MkdirStep
    <3>3. CASE StageRecord(p) \/ StageLedger(p) \/ WriteJournal(p) \/ PublishRecord(p)
      BY <3>3, StageStep, WriteJournalStep, PublishRecordStep
    <3>4. CASE CommitLedger(p) \/ CommitMark(p) \/ CommitIndex(p) \/ CommitRmdir(p)
      BY <3>4, PublishLedgerStep, MarkStep, ReindexStep, RmdirStep
    <3> QED
      BY <2>6, <3>1, <3>2, <3>3, <3>4 DEF Commit
  <2> QED
    BY <1>2, <2>1, <2>2, <2>3, <2>4, <2>5, <2>6 DEF Step
<1> QED
  BY <1>1, <1>2 DEF Next

\* The invariant holds in every reachable state.
THEOREM Invariance == Spec => []IInv
  BY InitIInv, NextIInv, PTL DEF Spec

\* Every variable keeps its type (TypeOK).
THEOREM TypeCorrect == Spec => []TypeOK
<1>1. IInv => TypeOK
  BY DEF IInv
<1> QED
  BY <1>1, Invariance, PTL

\* Recovery converges to the old or to the new state: whenever no transaction
\* directory is left, files and ledger agree (OldOrNew).
THEOREM Convergence == Spec => []OldOrNew
<1>1. IInv => OldOrNew
  <2> SUFFICES ASSUME IInv, txdirs = {} PROVE OldOrNew
    BY DEF OldOrNew
  <2>1. ASSUME NEW i \in Ids, records[i] # Nil
        PROVE  \E n \in 1..Len(ledger) : Positions(ledger, i) = {n}
    <3>1. PICK n \in 1..Len(ledger) : ledger[n].id = i
      BY <2>1 DEF IInv, LedgerInv, Absent
    <3>2. Positions(ledger, i) = {n}
      BY <3>1 DEF IInv, LedgerInv, Positions
    <3> QED
      BY <3>2
  <2> QED
    BY <2>1 DEF OldOrNew, IInv, LedgerInv
<1> QED
  BY <1>1, Invariance, PTL

\* The compare-before-replace checks of commit and recovery always succeed,
\* and a replacement extends the ledger by the journalled entry
\* (PublishExtends).
THEOREM PublicationSafe == Spec => []PublishExtends
<1>1. IInv => PublishExtends
  BY DEF IInv, PublishExtends, PhaseInv, PublishingInv, PendingTx, DirInv
<1> QED
  BY <1>1, Invariance, PTL

\* No interruption of a commit or of recovery leaves a state that recovery,
\* duplicate resolution or verification refuses (CrashesNeverWedge).
THEOREM NeverWedged == Spec => []CrashesNeverWedge
<1> DEFINE Harmless(p) ==
      \/ reply' = reply
      \/ \E a : a.code \notin ContradictionErrors /\ reply' = [reply EXCEPT ![p] = a]
<1>1. Init => CrashesNeverWedge
  <2> SUFFICES ASSUME Init, NEW p \in Procs PROVE reply[p].code \notin ContradictionErrors
    BY DEF CrashesNeverWedge
  <2>1. reply[p] = Answer("NONE")
    BY DEF Init
  <2> QED
    BY <2>1 DEF Answer, ContradictionErrors, RecoveryErrors
<1>2. ASSUME IInv, NEW p \in Procs,
             \/ Open(p) \/ Close(p) \/ Interrupt(p) \/ Verify(p)
             \/ \E e \in Entry : CallCommit(p, e)
             \/ \E K \in SUBSET Kinds : Read(p, K)
      PROVE  Harmless(p)
  <2>1. CASE Verify(p)
    BY <1>2, <2>1, VerifyAccepts DEF Verify, Answer, ContradictionErrors, RecoveryErrors
  <2>2. CASE \E K \in SUBSET Kinds : Read(p, K)
    BY <2>2 DEF Read, Answer, ContradictionErrors, RecoveryErrors
  <2>3. CASE Interrupt(p) \/ Close(p)
    BY <2>3 DEF Interrupt, Close, End, Answer, ContradictionErrors, RecoveryErrors
  <2> QED
    BY <1>2, <2>1, <2>2, <2>3 DEF Open, CallCommit, Start, Answer, ContradictionErrors,
       RecoveryErrors
<1>3. ASSUME IInv, NEW p \in Procs, Recover(p) PROVE Harmless(p)
  <2>1. ASSUME NEW t \in TxIds, RecoverRefuse(p, t) PROVE FALSE
    BY <1>3, <2>1, RecoveryAccepts DEF RecoverRefuse
  <2>2. CASE Opened(p) \/ OpenRefused(p)
    BY <1>3, <2>2, VerifyAccepts DEF Opened, OpenRefused, End, Answer,
       ContradictionErrors, RecoveryErrors
  <2> QED
    BY <1>3, <2>1, <2>2 DEF Recover, ScanDone, Abandon, RecoverRecord, RecoverPublished,
       RecoverLedger, PublishLedger, RecoverMark, Mark, RecoverIndex, Reindex, RecoverRmdir
<1>4. ASSUME IInv, NEW p \in Procs, Commit(p) PROVE Harmless(p)
  <2>1. CASE Duplicate(p)
    <3>1. op[p].entry \in Entry /\ op[p].entry.id \in Ids
      BY <1>4, <2>1 DEF Duplicate, IInv, OpInv, InBody, Entry
    <3>2. /\ records[op[p].entry.id] # Nil
          /\ \E n \in Positions(ledger, op[p].entry.id) : Positions(ledger, op[p].entry.id) = {n}
      BY <1>4, <2>1, <3>1, DuplicateResolves DEF Duplicate
    <3> QED
      BY <2>1, <3>2 DEF Duplicate, Fail, End, Answer, EntryAnswer, ContradictionErrors,
         RecoveryErrors
  <2>2. CASE CommitRmdir(p)
    BY <2>2 DEF CommitRmdir, End, EntryAnswer, ContradictionErrors, RecoveryErrors
  <2> QED
    BY <1>4, <2>1, <2>2 DEF Commit, Mkdir, StageRecord, StageLedger, WriteJournal,
       PublishRecord, CommitLedger, PublishLedger, CommitMark, Mark, CommitIndex, Reindex
<1>5. ASSUME NEW p \in Procs, Acquire(p) \/ LockTimeout(p) \/ Unlink(p) PROVE Harmless(p)
  BY <1>5 DEF Acquire, LockTimeout, Unlink, End, Answer, ContradictionErrors, RecoveryErrors
<1>6. CrashesNeverWedge /\ IInv /\ [Next]_vars => CrashesNeverWedge'
  <2> SUFFICES ASSUME CrashesNeverWedge, IInv, [Next]_vars PROVE CrashesNeverWedge'
    OBVIOUS
  <2>1. CASE UNCHANGED vars
    BY <2>1 DEF vars, CrashesNeverWedge
  <2>2. ASSUME NEW p \in Procs, Harmless(p) PROVE CrashesNeverWedge'
    BY <2>2 DEF CrashesNeverWedge, IInv, TypeOK
  <2>3. CASE Next
    BY <2>3, <2>2, <1>2, <1>3, <1>4, <1>5 DEF Next, Step
  <2> QED
    BY <2>1, <2>3
<1> QED
  BY <1>1, <1>6, Invariance, PTL DEF Spec

\* What AppendOnly says of a step.
Extends ==
    /\ ledger' = ledger \/ \E e \in Entry : ledger' = Append(ledger, e)
    /\ \A i \in Ids : records[i] # Nil => records'[i] = records[i]

\* The ledger is only replaced by its extension, a record only appears where
\* there was none.
LEMMA NextExtends == IInv /\ [Next]_vars => Extends
<1>1. ASSUME IInv, NEW p \in Procs, CommitLedger(p) \/ RecoverLedger(p) PROVE Extends
  BY <1>1 DEF Extends, CommitLedger, RecoverLedger, PublishLedger, Goto, IInv, PhaseInv,
     PublishingInv, PendingTx
<1>2. ASSUME IInv, NEW p \in Procs, PublishRecord(p) PROVE Extends
  <2>1. records[journal[cur[p]].entry.id] = Nil
    BY <1>2 DEF PublishRecord, Goto, IInv, PhaseInv, PublishingInv
  <2> QED
    BY <1>2, <2>1 DEF Extends, PublishRecord, Publish, IInv, TypeOK
<1>3. ASSUME IInv, NEW p \in Procs, NEW t \in TxIds, RecoverRecord(p, t) PROVE Extends
  BY <1>3 DEF Extends, RecoverRecord, Publish, IInv, TypeOK
<1>4. ASSUME IInv, NEW p \in Procs, Recover(p) PROVE Extends
  BY <1>1, <1>3, <1>4 DEF Extends, Recover, ScanDone, Abandon, RecoverRefuse,
     RecoverPublished, RecoverMark, Mark, RecoverIndex, Reindex, RecoverRmdir, Opened,
     OpenRefused, Fail, disk
<1>5. ASSUME IInv, NEW p \in Procs, Commit(p) PROVE Extends
  BY <1>1, <1>2, <1>5 DEF Extends, Commit, Duplicate, Fail, Mkdir, StageRecord, StageLedger,
     WriteJournal, CommitMark, Mark, CommitIndex, Reindex, CommitRmdir, disk
<1>6. ASSUME IInv, NEW p \in Procs,
             \/ Open(p) \/ Close(p) \/ Interrupt(p) \/ Verify(p)
             \/ Acquire(p) \/ LockTimeout(p) \/ Unlink(p)
             \/ \E e \in Entry : CallCommit(p, e)
             \/ \E K \in SUBSET Kinds : Read(p, K)
      PROVE  Extends
  BY <1>6 DEF Extends, Open, CallCommit, Start, Close, Interrupt, Verify, Acquire,
     LockTimeout, Unlink, Read, disk
<1>7. CASE UNCHANGED vars
  BY <1>7 DEF Extends, vars, disk
<1> QED
  BY <1>4, <1>5, <1>6, <1>7 DEF Next, Step

\* A step extends the ledger by at most one entry and never replaces or
\* removes a record file (AppendOnly).
THEOREM HistoryAppendOnly == Spec => AppendOnly
<1>1. IInv /\ [Next]_vars => [Extends]_vars
  BY NextExtends
<1> QED
  BY <1>1, Invariance, PTL DEF Spec, AppendOnly, Extends

-----------------------------------------------------------------------------
(* Answers *)

\* What RepliesDurable says of one view.
OnDisk(view) ==
    \A n \in DOMAIN view :
        /\ n \in 1..Len(ledger)
        /\ ledger[n] = view[n]
        /\ records[ledger[n].id] = ledger[n].content

\* Entries that are on disk stay there, whatever happens.
LEMMA OnDiskStable ==
  ASSUME IInv, Extends, NEW view, OnDisk(view)
  PROVE  OnDisk(view)'
<1> SUFFICES ASSUME NEW n \in DOMAIN view
             PROVE  /\ n \in 1..Len(ledger')
                    /\ ledger'[n] = view[n]
                    /\ records'[ledger'[n].id] = ledger'[n].content
  BY DEF OnDisk
<1>1. /\ n \in 1..Len(ledger) /\ ledger[n] = view[n]
      /\ records[ledger[n].id] = ledger[n].content
  BY DEF OnDisk
<1>2. ledger \in Seq(Entry) /\ ledger[n] \in Entry
  BY <1>1 DEF IInv, TypeOK
<1>3. n \in 1..Len(ledger') /\ ledger'[n] = ledger[n]
  BY <1>1, <1>2, AppendEntry DEF Extends
<1>4. records[ledger[n].id] # Nil
  BY <1>1, <1>2, ConstantsAssumption DEF Entry
<1> QED
  BY <1>1, <1>2, <1>3, <1>4 DEF Extends, Entry

\* What the index selects is what a scan of the ledger selects.
LEMMA SelectionAgrees ==
  ASSUME TypeOK, NEW K \in SUBSET Kinds
  PROVE  SelectWithIndex(K) = Selected(ledger, K)
<1>1. ASSUME index # Nil, index.bound = ledger
      PROVE  UNION {index.byKind[k] : k \in K} = {m \in 1..Len(ledger) : KindOf[ledger[m].id] \in K}
  <2>1. index = IndexOf(ledger)
    BY <1>1 DEF TypeOK
  <2>2. index.byKind = [k \in Kinds |-> DOMAIN Selected(ledger, {k})]
    BY <2>1 DEF IndexOf
  <2>3. \A k \in Kinds : DOMAIN Selected(ledger, {k}) = {m \in 1..Len(ledger) : KindOf[ledger[m].id] = k}
    BY DEF Selected
  <2>4. \A k \in K : index.byKind[k] = {m \in 1..Len(ledger) : KindOf[ledger[m].id] = k}
    BY <2>2, <2>3
  <2> QED
    BY <2>4
<1> QED
  BY <1>1 DEF SelectWithIndex, Selected

\* The ledger's entries are on disk, alone and in what is selected of them.
LEMMA LedgerOnDisk ==
  ASSUME IInv
  PROVE  /\ \A n \in 1..Len(ledger) : OnDisk(EntryAnswer(n).view)
         /\ \A K \in SUBSET Kinds : OnDisk(SelectWithIndex(K))
         /\ \A c : OnDisk(Answer(c).view)
<1>1. \A n \in 1..Len(ledger) : OnDisk(EntryAnswer(n).view)
  BY DEF OnDisk, EntryAnswer, IInv, LedgerInv
<1>2. \A K \in SUBSET Kinds : OnDisk(Selected(ledger, K))
  BY DEF OnDisk, Selected, IInv, LedgerInv
<1>3. \A c : OnDisk(Answer(c).view)
  BY DEF OnDisk, Answer
<1> QED
  BY <1>1, <1>2, <1>3, SelectionAgrees DEF IInv

\* The transaction of a commit is the one of its caller's record, and while it is
\* being finished that record is the last of the ledger.
OwnEntry ==
    \A p \in Procs :
        /\ pc[p] \in Publishing => journal[cur[p]].entry = op[p].entry
        /\ pc[p] \in Finishing => ledger # <<>> /\ ledger[Len(ledger)] = op[p].entry

\* The steps outside the last phases of commit() lead nowhere near them.
LEMMA QuietStep ==
  ASSUME IInv, OwnEntry, NEW p \in Procs,
         pc'[p] \notin Publishing \cup Finishing,
         \A q \in Procs \ {p} : pc'[q] = pc[q] /\ cur'[q] = cur[q] /\ op'[q] = op[q],
         UNCHANGED <<ledger, journal>> \/ lock = p
  PROVE  OwnEntry'
<1>1. lock = p => \A q \in Procs \ {p} : pc[q] \in Unlocked
  BY DEF IInv, LockInv
<1>2. Unlocked \cap (Publishing \cup Finishing) = {}
  BY DEF Unlocked, Publishing, Finishing
<1> QED
  BY <1>1, <1>2 DEF OwnEntry

\* Every step keeps them together.
LEMMA NextOwnEntry == IInv /\ OwnEntry /\ [Next]_vars => OwnEntry'
<1> SUFFICES ASSUME IInv, OwnEntry, [Next]_vars PROVE OwnEntry'
  OBVIOUS
<1> DEFINE Others(p) ==
      \A q \in Procs \ {p} : pc'[q] = pc[q] /\ cur'[q] = cur[q] /\ op'[q] = op[q]
           Outside(p) == pc'[p] \notin Publishing \cup Finishing
<1>0. /\ pc \in [Procs -> Locations] /\ cur \in [Procs -> TxIds \cup {Nil}]
      /\ DOMAIN op = Procs /\ journal \in [TxIds -> Journals] /\ ledger \in Seq(Entry)
      /\ \A p \in Procs : pc[p] \notin Unlocked => lock = p
  BY DEF IInv, TypeOK, LockInv
<1>1. ASSUME NEW p \in Procs,
             \/ Open(p) \/ Close(p) \/ Interrupt(p) \/ Verify(p) \/ Acquire(p) \/ LockTimeout(p)
             \/ \E e \in Entry : CallCommit(p, e)
             \/ \E K \in SUBSET Kinds : Read(p, K)
      PROVE  OwnEntry'
  <2>1. Outside(p) /\ Others(p) /\ UNCHANGED <<ledger, journal>>
    BY <1>0, <1>1 DEF Open, CallCommit, Start, Close, Interrupt, Verify, Acquire, LockTimeout,
       Read, End, Goto, Home, disk, Publishing, Finishing
  <2> QED
    BY <2>1, QuietStep
<1>2. ASSUME NEW p \in Procs, Recover(p) PROVE OwnEntry'
  <2>1. pc[p] \notin Unlocked
    BY <1>2 DEF Recover, ScanDone, Abandon, RecoverRefuse, RecoverRecord, RecoverPublished,
       RecoverLedger, PublishLedger, RecoverMark, Mark, RecoverIndex, Reindex, RecoverRmdir,
       Opened, OpenRefused, Goto, Unlocked
  <2>2. Outside(p) /\ Others(p)
    BY <1>0, <1>2 DEF Recover, ScanDone, Abandon, RecoverRefuse, RecoverRecord,
       RecoverPublished, RecoverLedger, PublishLedger, RecoverMark, Mark, RecoverIndex,
       Reindex, RecoverRmdir, Opened, OpenRefused, Fail, End, Home, Goto, Publishing, Finishing
  <2> QED
    BY <1>0, <2>1, <2>2, QuietStep
<1>3. ASSUME NEW p \in Procs,
             \/ Duplicate(p) \/ StageRecord(p) \/ StageLedger(p) \/ CommitRmdir(p)
             \/ \E t \in TxIds : Mkdir(p, t)
      PROVE  OwnEntry'
  <2>1. Outside(p) /\ Others(p) /\ UNCHANGED <<ledger, journal>>
    BY <1>0, <1>3 DEF Duplicate, StageRecord, StageLedger, CommitRmdir, Mkdir, Fail, End,
       Goto, Home, disk, Publishing, Finishing
  <2> QED
    BY <2>1, QuietStep
<1>4. ASSUME NEW p \in Procs,
             \/ WriteJournal(p) \/ PublishRecord(p) \/ CommitLedger(p) \/ CommitMark(p)
             \/ CommitIndex(p) \/ Unlink(p)
      PROVE  OwnEntry'
  <2>1. /\ UNCHANGED <<cur, op>> /\ Others(p) /\ pc[p] \in InTransaction
        /\ pc[p] \notin Unlocked
    BY <1>0, <1>4 DEF WriteJournal, PublishRecord, CommitLedger, PublishLedger, CommitMark,
       Mark, CommitIndex, Reindex, Unlink, Goto, InTransaction, Recovering, Staging,
       Publishing, Finishing, Unlocked
  <2>2. \A q \in Procs \ {p} : pc[q] \in Unlocked
    BY <1>0, <2>1 DEF IInv, LockInv
  <2>3. cur[p] \in TxIds
    BY <2>1 DEF IInv, DirInv, TypeOK
  <2>4. /\ pc'[p] \in Publishing => journal'[cur[p]].entry = op[p].entry
        /\ pc'[p] \in Finishing => ledger' # <<>> /\ ledger'[Len(ledger')] = op[p].entry
    <3>1. CASE WriteJournal(p)
      BY <1>0, <2>3, <3>1 DEF WriteJournal, Goto, Finishing
    <3>2. CASE PublishRecord(p)
      BY <1>0, <3>2 DEF PublishRecord, Goto, Publishing, Finishing, OwnEntry
    <3>3. CASE CommitLedger(p)
      <4>1. PendingTx(cur[p]) /\ journal[cur[p]].entry = op[p].entry
        BY <3>3 DEF CommitLedger, PublishLedger, Goto, Publishing, OwnEntry, IInv, PhaseInv,
           PublishingInv
      <4>2. ledger' = Append(ledger, op[p].entry) /\ op[p].entry \in Entry
        BY <3>3, <4>1 DEF CommitLedger, PublishLedger, PendingTx
      <4>3. Len(ledger') = Len(ledger) + 1 /\ ledger'[Len(ledger) + 1] = op[p].entry
        BY <1>0, <4>2, AppendEntry
      <4>4. pc'[p] = "mark"
        BY <1>0, <3>3 DEF CommitLedger, PublishLedger, Goto
      <4> QED
        BY <1>0, <4>3, <4>4 DEF Publishing
    <3>4. CASE CommitMark(p) \/ CommitIndex(p)
      BY <1>0, <3>4 DEF CommitMark, Mark, CommitIndex, Reindex, Goto, Publishing, Finishing,
         OwnEntry
    <3>5. CASE Unlink(p)
      BY <3>5 DEF Unlink, Publishing, Finishing, OwnEntry
    <3> QED
      BY <1>4, <3>1, <3>2, <3>3, <3>4, <3>5
  <2> QED
    BY <2>1, <2>2, <2>4 DEF OwnEntry, Unlocked, Publishing, Finishing
<1>5. CASE UNCHANGED vars
  BY <1>5 DEF vars, disk, OwnEntry
<1> QED
  BY <1>1, <1>2, <1>3, <1>4, <1>5 DEF Next, Step, Commit

\* commit() returns the entry of its own record: whichever process completed the
\* transactions before it, the last entry of the ledger is the caller's when the
\* answer is taken from there.
THEOREM CommitReturnsItsOwn == Spec => []OwnEntry
<1>1. Init => OwnEntry
  BY DEF Init, OwnEntry, Publishing, Finishing
<1> QED
  BY <1>1, NextOwnEntry, Invariance, PTL DEF Spec

\* Nothing is decided that is not in the ledger.
Settled == \A t \in txdirs : ~PendingTx(t)

\* What a step tells p: nothing new, no entries, or, when nothing is pending,
\* entries of the ledger.
Told(p) ==
    \/ reply' = reply
    \/ \E c \in {"NONE", "OPENED", "VERIFIED", "TIMEOUT", "INTERRUPTED", "RECOVERY_REQUIRED"} :
          reply' = [reply EXCEPT ![p] = Answer(c)]
    \/ /\ Settled
       /\ \/ \E n \in 1..Len(ledger) : reply' = [reply EXCEPT ![p] = EntryAnswer(n)]
          \/ \E K \in SUBSET Kinds :
                reply' = [reply EXCEPT ![p] =
                            [code |-> "READ", kinds |-> K, view |-> Selected(ledger, K)]]
          \/ ledger # <<>> /\ reply' = [reply EXCEPT ![p] = Answer("RECORD_EXISTS")]

\* Every step tells one process at most, and that the truth.
LEMMA NextTold ==
  ASSUME IInv, OwnEntry, NEW p \in Procs,
         \/ Open(p) \/ Close(p) \/ Step(p) \/ Interrupt(p) \/ Verify(p)
         \/ \E e \in Entry : CallCommit(p, e)
         \/ \E K \in SUBSET Kinds : Read(p, K)
  PROVE  Told(p)
<1>1. CASE \/ Open(p) \/ Close(p) \/ Interrupt(p) \/ Verify(p) \/ Acquire(p) \/ LockTimeout(p)
           \/ Unlink(p) \/ \E e \in Entry : CallCommit(p, e)
  BY <1>1, VerifyAccepts DEF Told, Open, CallCommit, Start, Close, Interrupt, Verify, Acquire,
     LockTimeout, Unlink, End
<1>2. CASE \E K \in SUBSET Kinds : Read(p, K)
  <2>1. PICK K \in SUBSET Kinds : Read(p, K)
    BY <1>2
  <2>2. CASE txdirs = {}
    BY <2>1, <2>2, SelectionAgrees DEF Read, Told, Settled, IInv
  <2>3. CASE txdirs # {}
    BY <2>1, <2>3 DEF Read, Told
  <2> QED
    BY <2>2, <2>3
<1>3. CASE Recover(p)
  <2>1. ASSUME NEW t \in TxIds, RecoverRefuse(p, t) PROVE FALSE
    BY <2>1, RecoveryAccepts DEF RecoverRefuse
  <2>2. CASE Opened(p) \/ OpenRefused(p)
    BY <2>2, VerifyAccepts DEF Opened, OpenRefused, End, Told
  <2> QED
    BY <1>3, <2>1, <2>2 DEF Recover, ScanDone, Abandon, RecoverRecord, RecoverPublished,
       RecoverLedger, PublishLedger, RecoverMark, Mark, RecoverIndex, Reindex, RecoverRmdir, Told
<1>4. CASE Duplicate(p)
  <2>1. op[p].entry \in Entry /\ op[p].entry.id \in Ids /\ txdirs = {}
    BY <1>4 DEF Duplicate, IInv, OpInv, DirInv, InBody, Entry
  <2>2. /\ records[op[p].entry.id] # Nil
        /\ \E n \in Positions(ledger, op[p].entry.id) : Positions(ledger, op[p].entry.id) = {n}
    BY <1>4, <2>1, DuplicateResolves DEF Duplicate
  <2>3. Settled
    BY <2>1 DEF Settled
  <2>4. PICK n \in Positions(ledger, op[p].entry.id) :
          \/ reply' = [reply EXCEPT ![p] = EntryAnswer(n)]
          \/ reply' = [reply EXCEPT ![p] = Answer("RECORD_EXISTS")]
    BY <1>4, <2>2 DEF Duplicate, Fail, End
  <2>5. n \in 1..Len(ledger) /\ ledger # <<>>
    BY <2>4 DEF Positions, IInv, TypeOK
  <2> QED
    BY <2>3, <2>4, <2>5 DEF Told
<1>5. CASE CommitRmdir(p)
  <2>1. /\ pc[p] = "rmtree" /\ Empty(cur[p])
        /\ reply' = [reply EXCEPT ![p] = EntryAnswer(Len(ledger))]
    BY <1>5 DEF CommitRmdir, End
  <2>2. Settled
    BY <2>1 DEF Settled, PendingTx, Empty, NoJournal, IInv, DirInv, InTransaction, Finishing
  <2>3. Len(ledger) \in 1..Len(ledger)
    BY <2>1 DEF OwnEntry, Finishing, IInv, TypeOK
  <2> QED
    BY <2>1, <2>2, <2>3 DEF Told
<1>6. CASE \/ StageRecord(p) \/ StageLedger(p) \/ WriteJournal(p)
           \/ PublishRecord(p) \/ CommitLedger(p) \/ CommitMark(p) \/ CommitIndex(p)
           \/ \E t \in TxIds : Mkdir(p, t)
  BY <1>6 DEF Told, Mkdir, StageRecord, StageLedger, WriteJournal, PublishRecord, CommitLedger,
     PublishLedger, CommitMark, Mark, CommitIndex, Reindex
<1> QED
  BY <1>1, <1>2, <1>3, <1>4, <1>5, <1>6 DEF Step, Commit

\* The entries in a caller's hands are on disk with their record files, whatever
\* crashes follow (RepliesDurable).
THEOREM AnswersDurable == Spec => []RepliesDurable
<1>1. RepliesDurable <=> \A p \in Procs : OnDisk(reply[p].view)
  BY DEF RepliesDurable, OnDisk
<1>2. Init => RepliesDurable
  BY DEF Init, RepliesDurable, Answer
<1>3. RepliesDurable /\ IInv /\ OwnEntry /\ [Next]_vars => RepliesDurable'
  <2> SUFFICES ASSUME RepliesDurable, IInv, OwnEntry, [Next]_vars, NEW q \in Procs
               PROVE  OnDisk(reply[q].view)'
    BY DEF RepliesDurable, OnDisk
  <2>1. Extends /\ DOMAIN reply = Procs
    BY NextExtends DEF IInv, TypeOK
  <2>2. OnDisk(reply'[q].view)
    <3>1. CASE UNCHANGED vars
      BY <1>1, <3>1 DEF vars
    <3>2. CASE Next
      <4>1. PICK p \in Procs : Told(p)
        BY <3>2, NextTold DEF Next
      <4>2. reply' = reply \/ \E a : reply' = [reply EXCEPT ![p] = a] /\ OnDisk(a.view)
        BY <4>1, LedgerOnDisk, SelectionAgrees DEF Told, IInv
      <4> QED
        BY <1>1, <2>1, <4>2
    <3> QED
      BY <3>1, <3>2
  <2>3. PICK view : view = reply'[q].view
    OBVIOUS
  <2>4. OnDisk(view)'
    BY <2>1, <2>2, <2>3, OnDiskStable
  <2> QED
    BY <2>3, <2>4 DEF OnDisk
<1> QED
  BY <1>2, <1>3, CommitReturnsItsOwn, Invariance, PTL DEF Spec

-----------------------------------------------------------------------------
(* The refinement of AtomicLedger *)

\* What is decided while transaction t is pending, and while none is.
PendingDecides ==
    \A t \in TxIds : IInv /\ PendingTx(t) =>
       /\ Pending = {t}
       /\ Decided = Append(ledger, journal[t].entry)
       /\ DecidedFiles = [records EXCEPT ![journal[t].entry.id] = journal[t].entry.content]

SettledDecides ==
    IInv /\ Settled => Pending = {} /\ Decided = ledger /\ DecidedFiles = records

\* A pending transaction is the only one, and its record is decided.
LEMMA DecidedOfPending == PendingDecides
<1> SUFFICES ASSUME NEW t \in TxIds, IInv, PendingTx(t)
             PROVE  /\ Pending = {t}
                    /\ Decided = Append(ledger, journal[t].entry)
                    /\ DecidedFiles =
                         [records EXCEPT ![journal[t].entry.id] = journal[t].entry.content]
  BY DEF PendingDecides
<1>1. Pending = {t}
  BY DEF Pending, PendingTx, IInv, DirInv
<1>2. (CHOOSE u \in Pending : TRUE) = t
  BY <1>1
<1>3. Decided = Append(ledger, journal[t].entry)
  BY <1>1, <1>2 DEF Decided, PendingTx
<1>4. \A i \in Ids : DecidedFiles[i] =
        IF journal[t].entry.id = i THEN journal[t].entry.content ELSE records[i]
  BY <1>1, <1>2 DEF DecidedFiles
<1>5. DecidedFiles = [records EXCEPT ![journal[t].entry.id] = journal[t].entry.content]
  <2>1. DecidedFiles = [i \in Ids |-> DecidedFiles[i]]
    BY DEF DecidedFiles
  <2>2. records \in [Ids -> Contents \cup {Nil}] /\ journal[t].entry.id \in Ids
    BY DEF IInv, TypeOK, PendingTx, Entry
  <2> HIDE DEF DecidedFiles
  <2> QED
    BY <1>4, <2>1, <2>2
<1> QED
  BY <1>1, <1>3, <1>5

\* Without one, ledger and files are all there is.
LEMMA DecidedOfSettled == SettledDecides
<1> SUFFICES ASSUME IInv, Settled
             PROVE  Pending = {} /\ Decided = ledger /\ DecidedFiles = records
  BY DEF SettledDecides
<1>1. Pending = {}
  <2> SUFFICES ASSUME NEW t \in Pending PROVE FALSE
    OBVIOUS
  <2>1. t \in txdirs /\ journal[t] # NoJournal /\ journal[t].before = ledger
    BY DEF Pending, NoJournal
  <2>2. PendingTx(t)
    BY <2>1 DEF IInv, TxInv, PublishedTx
  <2> QED
    BY <2>1, <2>2 DEF Settled
<1>2. Decided = ledger
  BY <1>1 DEF Decided
<1>3. DecidedFiles = records
  BY <1>1 DEF DecidedFiles, IInv, TypeOK
<1> QED
  BY <1>1, <1>2, <1>3

\* The steps that publish what is decided.
LEMMA PublishingStutters ==
  ASSUME IInv, IInv', NEW p \in Procs, NEW t \in TxIds, PendingTx(t), UNCHANGED journal,
         \/ /\ PendingTx(t)' /\ UNCHANGED ledger
            /\ \/ UNCHANGED records
               \/ records' = [records EXCEPT ![journal[t].entry.id] = journal[t].entry.content]
         \/ /\ Settled' /\ ledger' = Append(ledger, journal[t].entry) /\ UNCHANGED records
            /\ records[journal[t].entry.id] = journal[t].entry.content
  PROVE  UNCHANGED <<Decided, DecidedFiles>>
<1>1. /\ Decided = Append(ledger, journal[t].entry)
      /\ DecidedFiles = [records EXCEPT ![journal[t].entry.id] = journal[t].entry.content]
  BY DecidedOfPending DEF PendingDecides
<1>2. PendingDecides'
  BY DecidedOfPending, PTL
<1>3. SettledDecides'
  BY DecidedOfSettled, PTL
<1>4. records \in [Ids -> Contents \cup {Nil}] /\ journal[t].entry.id \in Ids
  BY DEF IInv, TypeOK, PendingTx, Entry
<1>5. CASE PendingTx(t)' /\ UNCHANGED ledger
  <2>1. /\ Decided' = Append(ledger, journal[t].entry)
        /\ DecidedFiles' = [records' EXCEPT ![journal[t].entry.id] = journal[t].entry.content]
    BY <1>2, <1>5 DEF PendingDecides
  <2>2. \/ UNCHANGED records
        \/ records' = [records EXCEPT ![journal[t].entry.id] = journal[t].entry.content]
    BY <1>4, <1>5 DEF PendingTx
  <2>3. DecidedFiles' = [records EXCEPT ![journal[t].entry.id] = journal[t].entry.content]
    BY <1>4, <2>1, <2>2
  <2> QED
    BY <1>1, <2>1, <2>3
<1>6. CASE /\ Settled' /\ ledger' = Append(ledger, journal[t].entry) /\ UNCHANGED records
           /\ records[journal[t].entry.id] = journal[t].entry.content
  <2>1. Decided' = ledger' /\ DecidedFiles' = records'
    BY <1>3, <1>6 DEF SettledDecides
  <2>2. [records EXCEPT ![journal[t].entry.id] = journal[t].entry.content] = records
    BY <1>4, <1>6
  <2> QED
    BY <1>1, <1>6, <2>1, <2>2
<1> QED
  BY <1>5, <1>6

\* A step that publishes nothing and leaves the pending transaction alone.
LEMMA OtherStutters ==
  ASSUME UNCHANGED <<ledger, records>>, Pending' = Pending,
         \A t \in Pending : journal'[t] = journal[t]
  PROVE  UNCHANGED <<Decided, DecidedFiles>>
<1>1. CASE Pending = {}
  BY <1>1 DEF Decided, DecidedFiles
<1>2. CASE Pending # {}
  <2>1. PICK t \in Pending : t = CHOOSE u \in Pending : TRUE
    BY <1>2
  <2>2. Decided = journal[t].after /\ Decided' = journal'[t].after
    BY <1>2, <2>1 DEF Decided
  <2>3. Decided' = Decided
    BY <2>2
  <2>4. ASSUME NEW i \in Ids
        PROVE  (\E u \in Pending' : journal'[u].entry.id = i) <=> \E u \in Pending : journal[u].entry.id = i
    OBVIOUS
  <2>5. DecidedFiles' = [i \in Ids |-> IF \E u \in Pending : journal[u].entry.id = i
                                       THEN journal[t].entry.content ELSE records[i]]
    BY <2>1, <2>4 DEF DecidedFiles
  <2>6. DecidedFiles = [i \in Ids |-> IF \E u \in Pending : journal[u].entry.id = i
                                      THEN journal[t].entry.content ELSE records[i]]
    BY <2>1 DEF DecidedFiles
  <2> QED
    BY <2>3, <2>5, <2>6
<1> QED
  BY <1>1, <1>2

\* A transaction directory without a journal is not pending.
LEMMA EmptyNotPending ==
  ASSUME UNCHANGED <<ledger, records, journal>>, NEW t, journal[t] = NoJournal,
         txdirs' = txdirs \cup {t} \/ txdirs' = txdirs \ {t} \/ txdirs' = txdirs
  PROVE  UNCHANGED <<Decided, DecidedFiles>>
<1>1. Pending' = Pending
  BY DEF Pending, NoJournal
<1> QED
  BY <1>1, OtherStutters

\* Marking a published transaction, and removing it, decides nothing.
LEMMA FinishingStutters ==
  ASSUME IInv, NEW p \in Procs,
         RecoverMark(p) \/ CommitMark(p) \/ Unlink(p)
  PROVE  UNCHANGED <<Decided, DecidedFiles>>
<1>1. /\ cur[p] \in txdirs /\ cur[p] \in TxIds /\ \A t \in txdirs : t = cur[p]
      /\ journal \in [TxIds -> Journals]
      /\ UNCHANGED <<ledger, records, txdirs>>
  BY DEF RecoverMark, CommitMark, Mark, Unlink, Goto, IInv, DirInv, InTransaction, Recovering,
     Finishing, TypeOK
<1>2. journal[cur[p]].state # "PREPARED" \/ journal[cur[p]].before # ledger
  BY DEF RecoverMark, CommitMark, Mark, Unlink, Goto, IInv, PhaseInv, FinishingInv, PublishedTx,
     NoJournal
<1>3. journal'[cur[p]].state # "PREPARED" \/ journal'[cur[p]].before # ledger
  <2>1. CASE RecoverMark(p) \/ CommitMark(p)
    BY <1>1, <2>1 DEF RecoverMark, CommitMark, Mark, Journals
  <2>2. CASE Unlink(p)
    <3>1. journal' = journal \/ journal' = [journal EXCEPT ![cur[p]] = NoJournal]
      BY <2>2 DEF Unlink
    <3> QED
      BY <1>1, <1>2, <3>1 DEF NoJournal
  <2> QED
    BY <2>1, <2>2
<1>4. Pending = {} /\ Pending' = {}
  BY <1>1, <1>2, <1>3 DEF Pending
<1> QED
  BY <1>1, <1>4, OtherStutters

\* Every step but the appearance of a journal leaves the decided history alone.
LEMMA NextStutters ==
  ASSUME IInv, IInv', NEW p \in Procs,
         \/ Open(p) \/ Close(p) \/ Step(p) \/ Interrupt(p) \/ Verify(p)
         \/ \E e \in Entry : CallCommit(p, e)
         \/ \E K \in SUBSET Kinds : Read(p, K),
         ~WriteJournal(p)
  PROVE  UNCHANGED <<Decided, DecidedFiles>>
<1>1. CASE UNCHANGED <<ledger, records, journal, txdirs>>
  BY <1>1, OtherStutters DEF Pending
<1>2. CASE RecoverMark(p) \/ CommitMark(p) \/ Unlink(p)
  BY <1>2, FinishingStutters
<1>3. ASSUME NEW t \in TxIds, Mkdir(p, t) PROVE UNCHANGED <<Decided, DecidedFiles>>
  <2>1. journal[t] = NoJournal
    BY <1>3 DEF Mkdir, IInv, DirInv, Empty
  <2> QED
    BY <1>3, <2>1, EmptyNotPending DEF Mkdir
<1>4. CASE RecoverRmdir(p) \/ CommitRmdir(p)
  BY <1>4, EmptyNotPending DEF RecoverRmdir, CommitRmdir, Empty
<1>5. CASE PublishRecord(p)
  <2>1. /\ PendingTx(cur[p]) /\ cur[p] \in TxIds /\ records[journal[cur[p]].entry.id] = Nil
        /\ journal[cur[p]].entry.content # Nil
    BY <1>5, ConstantsAssumption DEF PublishRecord, Goto, IInv, PhaseInv, PublishingInv,
       PendingTx, TypeOK, Entry
  <2>2. /\ records' = [records EXCEPT ![journal[cur[p]].entry.id] = journal[cur[p]].entry.content]
        /\ UNCHANGED <<ledger, journal, cur>> /\ pc'[p] = "publishLedger"
    BY <1>5, <2>1 DEF PublishRecord, Publish, Goto, PendingTx, IInv, TypeOK
  <2>3. PICK t : t = cur[p]
    OBVIOUS
  <2>4. PendingTx(cur[p])'
    BY <2>2 DEF IInv, PhaseInv, PublishingInv
  <2>5. PendingTx(t)'
    BY <2>2, <2>3, <2>4 DEF PendingTx
  <2> QED
    BY <2>1, <2>2, <2>3, <2>5, PublishingStutters
<1>6. ASSUME NEW t \in TxIds, RecoverRecord(p, t) PROVE UNCHANGED <<Decided, DecidedFiles>>
  <2>1. PendingTx(t)
    BY <1>6 DEF RecoverRecord, IInv, TxInv, PublishedTx
  <2>2. /\ \/ UNCHANGED records
           \/ records' = [records EXCEPT ![journal[t].entry.id] = journal[t].entry.content]
        /\ UNCHANGED <<ledger, journal>> /\ pc'[p] = "recoverLedger" /\ cur'[p] = t
    <3>1. records[journal[t].entry.id] = Nil => recordStage[t] = journal[t].entry.content
      BY <2>1, ConstantsAssumption DEF PendingTx, Entry
    <3>2. pc'[p] = "recoverLedger" /\ cur'[p] = t
      BY <1>6 DEF RecoverRecord, Goto, IInv, TypeOK
    <3> QED
      BY <1>6, <3>1, <3>2 DEF RecoverRecord, Publish
  <2>3. PendingTx(cur[p])'
    BY <2>2 DEF IInv, PhaseInv, PublishingInv
  <2>4. PendingTx(t)'
    BY <2>2, <2>3 DEF PendingTx
  <2> QED
    BY <2>1, <2>2, <2>4, PublishingStutters
<1>7. CASE CommitLedger(p) \/ RecoverLedger(p)
  <2>1. /\ PendingTx(cur[p]) /\ cur[p] \in TxIds /\ cur[p] \in txdirs
        /\ records[journal[cur[p]].entry.id] = journal[cur[p]].entry.content
    BY <1>7 DEF CommitLedger, RecoverLedger, PublishLedger, Goto, IInv, PhaseInv, PublishingInv,
       PendingTx, TypeOK
  <2>2. /\ ledger' = Append(ledger, journal[cur[p]].entry)
        /\ UNCHANGED <<records, journal, cur, txdirs>>
    BY <1>7, <2>1 DEF CommitLedger, RecoverLedger, PublishLedger, PendingTx
  <2>3. Settled'
    <3>1. \A t \in txdirs : t = cur[p]
      BY <2>1 DEF IInv, DirInv
    <3>2. journal[cur[p]].before # ledger'
      BY <2>1, <2>2, AppendEntry DEF PendingTx, IInv, TypeOK
    <3> QED
      BY <2>2, <3>1, <3>2 DEF Settled, PendingTx
  <2>4. PICK t : t = cur[p]
    OBVIOUS
  <2> QED
    BY <2>1, <2>2, <2>3, <2>4, PublishingStutters
<1>8. CASE Recover(p)
  BY <1>1, <1>2, <1>4, <1>6, <1>7, <1>8 DEF Recover, ScanDone, Abandon, RecoverRefuse,
     RecoverPublished, RecoverIndex, Reindex, Opened, OpenRefused, Fail, disk
<1>9. CASE Commit(p)
  BY <1>1, <1>2, <1>3, <1>4, <1>5, <1>7, <1>9 DEF Commit, Duplicate, Fail, StageRecord,
     StageLedger, CommitIndex, Reindex, disk
<1> QED
  BY <1>1, <1>2, <1>8, <1>9 DEF Step, Open, CallCommit, Start, Close, Interrupt, Verify, Read,
     Acquire, LockTimeout, disk

\* The rename of journal.json is the step that decides: until then nothing of the
\* transaction exists for a reader, from then on nothing undoes it.
LEMMA JournalDecides ==
  ASSUME IInv, IInv', NEW p \in Procs, WriteJournal(p)
  PROVE  \E e \in Entry : Abstract!ACommit(e)
<1>1. /\ pc[p] = "journal" /\ cur[p] \in txdirs /\ cur[p] \in TxIds
      /\ \A t \in txdirs : t = cur[p]
      /\ journal[cur[p]] = NoJournal /\ op[p].entry \in Entry /\ Absent(op[p].entry.id)
  BY DEF WriteJournal, Goto, IInv, DirInv, OpInv, InBody, InTransaction, Staging, PhaseInv,
     StagingInv, TypeOK
<1>2. /\ journal'[cur[p]].entry = op[p].entry /\ pc'[p] = "publishRecord"
      /\ UNCHANGED <<ledger, records, cur, reply>>
  BY <1>1 DEF WriteJournal, Goto, IInv, TypeOK
<1>3. PICK t : t = cur[p]
  OBVIOUS
<1>4. Settled
  BY <1>1 DEF Settled, PendingTx, NoJournal
<1>5. Decided = ledger /\ DecidedFiles = records
  BY <1>4, DecidedOfSettled DEF SettledDecides
<1>6. PendingTx(cur[p])'
  BY <1>2 DEF IInv, PhaseInv, PublishingInv
<1>7. PendingTx(t)'
  BY <1>2, <1>3, <1>6 DEF PendingTx
<1>8. PendingDecides'
  BY DecidedOfPending, PTL
<1>9. /\ Decided' = Append(ledger, op[p].entry)
      /\ DecidedFiles' = [records EXCEPT ![op[p].entry.id] = op[p].entry.content]
  BY <1>1, <1>2, <1>3, <1>7, <1>8 DEF PendingDecides
<1>10. Abstract!ACommit(op[p].entry)
  BY <1>1, <1>2, <1>5, <1>9 DEF Abstract!ACommit, Abstract!Positions, Absent
<1> QED
  BY <1>1, <1>10

\* An answer describes the decided history.
LEMMA ToldAnswers ==
  ASSUME IInv, NEW p \in Procs, Told(p), UNCHANGED <<Decided, DecidedFiles>>
  PROVE  reply' = reply \/ Abstract!AReturnEntry(p) \/ Abstract!ARead(p)
           \/ Abstract!ARefuse(p) \/ Abstract!AOther(p)
<1>1. CASE reply' = reply
  BY <1>1
<1>2. ASSUME NEW c \in {"NONE", "OPENED", "VERIFIED", "TIMEOUT", "INTERRUPTED",
                        "RECOVERY_REQUIRED"},
             reply' = [reply EXCEPT ![p] = Answer(c)]
      PROVE  Abstract!AOther(p)
  BY <1>2 DEF Abstract!AOther, Abstract!Answer, Answer
<1>3. CASE Settled
  <2>1. Decided = ledger
    BY <1>3, DecidedOfSettled DEF SettledDecides
  <2>2. ASSUME NEW n \in 1..Len(ledger), reply' = [reply EXCEPT ![p] = EntryAnswer(n)]
        PROVE  Abstract!AReturnEntry(p)
    BY <2>1, <2>2 DEF Abstract!AReturnEntry, Abstract!EntryAnswer, EntryAnswer
  <2>3. ASSUME NEW K \in SUBSET Kinds,
               reply' = [reply EXCEPT ![p] =
                           [code |-> "READ", kinds |-> K, view |-> Selected(ledger, K)]]
        PROVE  Abstract!ARead(p)
    BY <2>1, <2>3 DEF Abstract!ARead, Abstract!Selected, Selected
  <2>4. ASSUME ledger # <<>>, reply' = [reply EXCEPT ![p] = Answer("RECORD_EXISTS")]
        PROVE  Abstract!ARefuse(p)
    BY <2>1, <2>4 DEF Abstract!ARefuse, Abstract!Answer, Answer
  <2> QED
    BY <1>1, <1>2, <1>3, <2>2, <2>3, <2>4 DEF Told
<1> QED
  BY <1>1, <1>2, <1>3 DEF Told

\* The journalled store, with crashes at every step, implements the atomic ledger
\* (ImplementsAtomicLedger): every step is one of its steps or a stutter.
THEOREM Refinement == Spec => ImplementsAtomicLedger
<1>1. Init => Abstract!AInit
  <2> SUFFICES ASSUME Init PROVE Abstract!AInit
    OBVIOUS
  <2>1. Pending = {}
    BY DEF Init, Pending
  <2> QED
    BY <2>1 DEF Init, Decided, DecidedFiles, Abstract!AInit, Abstract!Answer, Answer
<1>2. IInv /\ IInv' /\ OwnEntry /\ [Next]_vars => [Abstract!ANext]_(Abstract!absVars)
  <2> SUFFICES ASSUME IInv, IInv', OwnEntry, [Next]_vars
               PROVE  Abstract!ANext \/ UNCHANGED <<Decided, DecidedFiles, reply>>
    BY DEF Abstract!absVars
  <2>1. CASE UNCHANGED vars
    BY <2>1 DEF vars, disk, Decided, DecidedFiles, Pending
  <2>2. CASE Next
    <3>1. PICK p \in Procs :
            \/ Open(p) \/ Close(p) \/ Step(p) \/ Interrupt(p) \/ Verify(p)
            \/ \E e \in Entry : CallCommit(p, e)
            \/ \E K \in SUBSET Kinds : Read(p, K)
      BY <2>2 DEF Next
    <3>2. CASE WriteJournal(p)
      <4>1. \E e \in Entry : Abstract!ACommit(e)
        BY <3>2, JournalDecides
      <4> QED
        BY <4>1 DEF Abstract!ANext, Abstract!Entry, Entry
    <3>3. CASE ~WriteJournal(p)
      <4>1. UNCHANGED <<Decided, DecidedFiles>>
        BY <3>1, <3>3, NextStutters
      <4>2. Told(p)
        BY <3>1, NextTold
      <4> QED
        BY <4>1, <4>2, ToldAnswers DEF Abstract!ANext
    <3> QED
      BY <3>2, <3>3
  <2> QED
    BY <2>1, <2>2
<1> QED
  BY <1>1, <1>2, CommitReturnsItsOwn, Invariance, PTL DEF Spec, ImplementsAtomicLedger, Abstract!ASpec
=============================================================================
