------------------------ MODULE ForeignWritersProofs ------------------------
(***************************************************************************)
(* The store next to writers that do not use its transactions, for any     *)
(* number of processes, identities, contents and transactions: what the    *)
(* journal says stays true, and nothing is deleted that contradicts it.    *)
(* The invariant of module RecordStoreProofs does not hold here (a foreign *)
(* append leaves entries without files); this one is about the journal.    *)
(***************************************************************************)
EXTENDS ForeignWriters, RecordStoreProofs

-----------------------------------------------------------------------------
(* The inductive invariant *)

\* A journal describes one extension of the ledger that it was written for.
JournalInv ==
    \A t \in txdirs : journal[t] # NoJournal =>
      /\ journal[t].state \in {"PREPARED", "COMMITTED"}
      /\ journal[t].entry \in Entry
      /\ journal[t].before \in Seq(Entry)
      /\ journal[t].after = Append(journal[t].before, journal[t].entry)

\* OnlyPreparedBytes, of a journal that is really there.
JournalledBytes ==
    \A i \in Ids : records[i] # Nil =>
        \/ \E t \in txdirs : /\ journal[t] # NoJournal
                             /\ journal[t].entry = [id |-> i, content |-> records[i]]
        \/ \E n \in 1..Len(ledger) : ledger[n] = [id |-> i, content |-> records[i]]

\* The transaction of a process that is about to replace the ledger: nobody
\* else writes under the lock.
Prepared(t) ==
    /\ journal[t].state = "PREPARED"
    /\ journal[t].entry \in Entry
    /\ journal[t].before = ledger
    /\ journal[t].after = Append(ledger, journal[t].entry)
    /\ ledgerStage[t] = journal[t].after

PublicRecord(t) == records[journal[t].entry.id] = journal[t].entry.content

HeldInv(p) ==
    /\ pc[p] = "publishRecord" =>
         /\ Prepared(cur[p])
         /\ records[journal[cur[p]].entry.id] = Nil
         /\ recordStage[cur[p]] = journal[cur[p]].entry.content
    /\ pc[p] \in {"publishLedger", "recoverLedger"} =>
         Prepared(cur[p]) /\ PublicRecord(cur[p])
    /\ pc[p] \in {"mark", "recoverMark", "index", "recoverIndex"} =>
         /\ journal[cur[p]] # NoJournal
         /\ journal[cur[p]].after = ledger
         /\ PublicRecord(cur[p])
    /\ pc[p] \in {"index", "recoverIndex"} => journal[cur[p]].state = "COMMITTED"
    /\ pc[p] \in {"rmtree", "recoverRmtree"} =>
         \/ journal[cur[p]] = NoJournal
         \/ /\ journal[cur[p]].state = "COMMITTED"
            /\ journal[cur[p]].after = ledger
            /\ PublicRecord(cur[p])

HeldPhases == \A p \in Procs : StagingInv(p) /\ HeldInv(p)

FInv ==
    /\ TypeOK /\ LockInv /\ OpInv /\ DirInv
    /\ JournalInv /\ CommittedAsPrepared /\ JournalledBytes /\ HeldPhases

-----------------------------------------------------------------------------
(* Facts the steps share *)

\* An index names the ledger that it was built for.
LEMMA IndexBound == \A l : IndexOf(l).bound = l
  BY DEF IndexOf

\* What ledger, records and journals alone determine.
LEMMA ForeignDiskFrame ==
  ASSUME JournalInv, CommittedAsPrepared, JournalledBytes,
         UNCHANGED <<ledger, records, txdirs, journal>>
  PROVE  JournalInv' /\ CommittedAsPrepared' /\ JournalledBytes'
  BY DEF JournalInv, CommittedAsPrepared, JournalledBytes

\* A process that writes is alone under the lock, so that the others keep their
\* places.
LEMMA HeldFrame ==
  ASSUME FInv, NEW p \in Procs,
         \A q \in Procs \ {p} : pc'[q] = pc[q] /\ cur'[q] = cur[q] /\ op'[q] = op[q],
         lock = p \/ UNCHANGED <<ledger, records, recordStage, ledgerStage, journal>>,
         StagingInv(p)', HeldInv(p)'
  PROVE  HeldPhases'
<1> SUFFICES ASSUME NEW q \in Procs \ {p} PROVE StagingInv(q)' /\ HeldInv(q)'
  BY DEF HeldPhases
<1>1. CASE lock = p
  <2>1. pc'[q] \in Unlocked
    BY <1>1 DEF FInv, LockInv
  <2> QED
    BY <2>1 DEF StagingInv, HeldInv, Staging, Unlocked
<1>2. CASE UNCHANGED <<ledger, records, recordStage, ledgerStage, journal>>
  <2>1. StagingInv(q)'
    BY <1>2 DEF FInv, HeldPhases, StagingInv, Absent
  <2>2. HeldInv(q)'
    BY <1>2 DEF FInv, HeldPhases, HeldInv, Prepared, PublicRecord
  <2> QED
    BY <2>1, <2>2
<1> QED
  BY <1>1, <1>2

\* A process outside a transaction has nothing to keep.
LEMMA OutsideHeld ==
  ASSUME NEW p, pc[p] \notin InTransaction
  PROVE  StagingInv(p) /\ HeldInv(p)
  BY DEF StagingInv, HeldInv, InTransaction, Recovering, Staging, Publishing, Finishing

-----------------------------------------------------------------------------
(* Steps that leave the directory alone, but for the index *)

\* A call begins.
LEMMA ForeignStart ==
  ASSUME FInv, NEW p \in Procs, NEW from \in {"down", "idle"},
         NEW o \in {OpenOp} \cup {CommitOp(e) : e \in Entry}, Start(p, from, o)
  PROVE  FInv'
<1> USE DEF FInv, Start, Goto
<1>1. TypeOK'
  BY ConstantsAssumption DEF TypeOK, disk, Locations, OpenOp, CommitOp, Answer, Codes
<1>2. LockInv'
  BY DEF LockInv, TypeOK, Unlocked
<1>3. OpInv'
  BY DEF OpInv, TypeOK, OpenOp, CommitOp, InBody, Staging, Publishing, Finishing
<1>4. DirInv'
  BY DEF DirInv, TypeOK, disk, Empty, InTransaction, Recovering, Staging, Publishing, Finishing
<1>5. JournalInv' /\ CommittedAsPrepared' /\ JournalledBytes'
  BY ForeignDiskFrame DEF disk
<1>6. pc'[p] = "lock"
  BY DEF TypeOK
<1>7. StagingInv(p)' /\ HeldInv(p)'
  BY <1>6 DEF StagingInv, HeldInv, Staging
<1>8. HeldPhases'
  BY <1>7, HeldFrame DEF disk, TypeOK
<1> QED
  BY <1>1, <1>2, <1>3, <1>4, <1>5, <1>8

\* A call ends, an index is rebuilt perhaps, and the directory stays.
LEMMA ForeignEnd ==
  ASSUME FInv, NEW p \in Procs, NEW a, a.code \in Codes,
         NEW l \in {"down", "idle"}, End(p, a, l),
         UNCHANGED <<ledger, records, txdirs, recordStage, ledgerStage, journal>>,
         index' = index \/ index' = Nil \/ index' = IndexOf(ledger)
  PROVE  FInv'
<1> USE DEF FInv, End
<1>1. TypeOK'
  <2>1. index' = Nil \/ (index'.bound \in Seq(Entry) /\ index' = IndexOf(index'.bound))
    BY IndexBound DEF TypeOK
  <2> QED
    BY <2>1, ConstantsAssumption DEF TypeOK, Locations, NoOp
<1>2. LockInv'
  BY ConstantsAssumption DEF LockInv, TypeOK, Unlocked
<1>3. OpInv'
  BY DEF OpInv, TypeOK, NoOp, InBody, Staging, Publishing, Finishing
<1>4. DirInv'
  BY DEF DirInv, TypeOK, Empty, InTransaction, Recovering, Staging, Publishing, Finishing
<1>5. JournalInv' /\ CommittedAsPrepared' /\ JournalledBytes'
  BY ForeignDiskFrame
<1>6. pc'[p] \in Unlocked
  BY DEF TypeOK, Unlocked
<1>7. StagingInv(p)' /\ HeldInv(p)'
  BY <1>6 DEF StagingInv, HeldInv, Staging, Unlocked
<1>8. HeldPhases'
  BY <1>7, HeldFrame DEF TypeOK
<1> QED
  BY <1>1, <1>2, <1>3, <1>4, <1>5, <1>8

\* Taking the lock, reading, verifying, closing.
LEMMA ForeignIdle ==
  ASSUME FInv, NEW p \in Procs,
         Acquire(p) \/ Close(p) \/ Verify(p) \/ \E K \in SUBSET Kinds : Read(p, K)
  PROVE  FInv'
<1> USE DEF FInv
<1>0. /\ UNCHANGED <<disk, cur, op>>
      /\ \/ UNCHANGED <<pc, lock>>
         \/ Goto(p, "idle", "down") /\ UNCHANGED lock
         \/ Goto(p, "lock", "scan") /\ lock = Nil /\ lock' = p
      /\ reply' = reply \/ \E a : a.code \in Codes /\ reply' = [reply EXCEPT ![p] = a]
  BY DEF Acquire, Close, Verify, Read, Answer, Codes, ContradictionErrors, RecoveryErrors,
     VerifyError
<1>1. TypeOK'
  BY <1>0 DEF TypeOK, disk, Locations, Goto
<1>2. LockInv'
  BY <1>0, ConstantsAssumption DEF LockInv, TypeOK, Unlocked, Goto
<1>3. OpInv'
  BY <1>0 DEF OpInv, TypeOK, InBody, Staging, Publishing, Finishing, Goto
<1>4. DirInv'
  BY <1>0 DEF DirInv, TypeOK, disk, Empty, InTransaction, Recovering, Staging, Publishing,
     Finishing, Goto
<1>5. JournalInv' /\ CommittedAsPrepared' /\ JournalledBytes'
  BY <1>0, ForeignDiskFrame DEF disk
<1>6. StagingInv(p)' /\ HeldInv(p)'
  <2>1. CASE pc' = pc
    BY <1>0, <2>1 DEF disk, HeldPhases, StagingInv, HeldInv, Absent, Prepared, PublicRecord
  <2>2. CASE pc'[p] \in {"down", "scan"}
    BY <2>2 DEF StagingInv, HeldInv, Staging
  <2> QED
    BY <1>0, <2>1, <2>2 DEF Goto, TypeOK
<1>7. HeldPhases'
  BY <1>0, <1>6, HeldFrame DEF disk, Goto, TypeOK
<1> QED
  BY <1>1, <1>2, <1>3, <1>4, <1>5, <1>7

\* What recovery accepts is complete: published already, or prepared on the
\* ledger of now.
LEMMA AcceptedTx ==
  ASSUME FInv, NEW t \in txdirs, journal[t] # NoJournal, RecoveryError(t) = ""
  PROVE  /\ journal[t].entry \in Entry
         /\ RecordSource(t) = journal[t].entry.content
         /\ ledger = journal[t].before => Prepared(t)
         /\ ledger = journal[t].after => PublicRecord(t)
<1> DEFINE j == journal[t]
<1>1. /\ j.state \in {"PREPARED", "COMMITTED"} /\ j.entry \in Entry
      /\ j.before \in Seq(Entry) /\ j.after = Append(j.before, j.entry)
  BY DEF FInv, JournalInv
<1>2. RecordSource(t) = j.entry.content /\ j.entry.content # Nil
  BY <1>1, ConstantsAssumption DEF RecoveryError, Entry
<1>0. j.after # j.before
  <2>1. ASSUME NEW l \in Seq(Entry), NEW e \in Entry PROVE Append(l, e) # l
    BY AppendEntry
  <2> HIDE DEF j
  <2> QED
    BY <1>1, <2>1
<1>3. ASSUME ledger = j.before PROVE Prepared(t)
  BY <1>0, <1>1, <1>2, <1>3 DEF RecoveryError, Prepared
<1>4. ASSUME ledger = j.after PROVE PublicRecord(t)
  <2>1. records[j.entry.id] # Nil
    BY <1>0, <1>1, <1>2, <1>4 DEF RecoveryError
  <2> QED
    BY <1>2, <2>1 DEF RecordSource, PublicRecord
<1> QED
  BY <1>1, <1>2, <1>3, <1>4

\* The scan finds nothing, staging without a journal, or a published transaction.
LEMMA ForeignScan ==
  ASSUME FInv, NEW p \in Procs, NEW t,
         ScanDone(p) \/ Abandon(p, t) \/ RecoverPublished(p, t)
  PROVE  FInv'
<1> USE DEF FInv
<1>0. /\ UNCHANGED <<disk, lock, op, reply>>
      /\ \/ /\ Goto(p, "scan", "prepare") \/ Goto(p, "scan", "verify")
            /\ pc'[p] = "prepare" => op[p].call = "commit"
            /\ txdirs = {}
            /\ cur' = cur
         \/ /\ Goto(p, "scan", "recoverRmtree")
            /\ journal[t] = NoJournal
            /\ t \in txdirs
            /\ cur' = [cur EXCEPT ![p] = t]
         \/ /\ Goto(p, "scan", "recoverMark")
            /\ journal[t] # NoJournal
            /\ ledger = journal[t].after
            /\ PublicRecord(t)
            /\ t \in txdirs
            /\ cur' = [cur EXCEPT ![p] = t]
  BY AcceptedTx DEF ScanDone, Abandon, RecoverPublished, Goto, TypeOK
<1>1. TypeOK'
  BY <1>0 DEF TypeOK, disk, Locations, Goto
<1>2. LockInv'
  BY <1>0 DEF LockInv, TypeOK, Unlocked, Goto
<1>3. OpInv'
  BY <1>0 DEF OpInv, TypeOK, InBody, Staging, Publishing, Finishing, Goto
<1>4. DirInv'
  BY <1>0, <1>2 DEF LockInv, Unlocked, DirInv, TypeOK, disk, Empty, InTransaction, Recovering,
     Staging, Publishing, Finishing, Goto
<1>5. JournalInv' /\ CommittedAsPrepared' /\ JournalledBytes'
  BY <1>0, ForeignDiskFrame DEF disk
<1>6. StagingInv(p)' /\ HeldInv(p)'
  BY <1>0 DEF disk, Goto, TypeOK, StagingInv, HeldInv, Staging, PublicRecord
<1>7. HeldPhases'
  BY <1>0, <1>6, HeldFrame DEF disk, Goto, TypeOK
<1> QED
  BY <1>1, <1>2, <1>3, <1>4, <1>5, <1>7

\* The index is rebuilt.
LEMMA ForeignReindex ==
  ASSUME FInv, NEW p \in Procs, CommitIndex(p) \/ RecoverIndex(p)
  PROVE  FInv'
<1> USE DEF FInv, CommitIndex, RecoverIndex, Reindex, Goto
<1>1. TypeOK'
  BY IndexBound DEF TypeOK, Locations
<1>2. LockInv' /\ OpInv'
  BY DEF LockInv, OpInv, TypeOK, Unlocked, InBody, Staging, Publishing, Finishing
<1>3. DirInv'
  BY DEF LockInv, Unlocked, DirInv, TypeOK, Empty, InTransaction, Recovering,
     Staging, Publishing, Finishing
<1>4. JournalInv' /\ CommittedAsPrepared' /\ JournalledBytes'
  BY ForeignDiskFrame
<1>5. StagingInv(p)' /\ HeldInv(p)'
  <2>1. /\ journal[cur[p]] # NoJournal /\ journal[cur[p]].state = "COMMITTED"
        /\ journal[cur[p]].after = ledger /\ PublicRecord(cur[p])
    BY DEF HeldPhases, HeldInv
  <2>2. pc'[p] \in {"rmtree", "recoverRmtree"}
    BY DEF TypeOK
  <2> QED
    BY <2>1, <2>2 DEF HeldInv, StagingInv, Staging, PublicRecord
<1>6. HeldPhases'
  BY <1>5, HeldFrame DEF TypeOK
<1> QED
  BY <1>1, <1>2, <1>3, <1>4, <1>6

-----------------------------------------------------------------------------
(* Steps that change the directory *)

\* Dying or raising under the lock: journals, records and ledger stay.
LEMMA ForeignInterrupt ==
  ASSUME FInv, NEW p \in Procs, Interrupt(p)
  PROVE  FInv'
<1> USE DEF FInv, Interrupt, End, Home
<1>0. /\ recordStage' \in [TxIds -> Contents \cup {Nil, Torn}]
      /\ ledgerStage' \in [TxIds -> Seq(Entry) \cup {Nil, Torn}]
  BY DEF TypeOK
<1>1. TypeOK'
  BY <1>0 DEF TypeOK, Locations, NoOp, Answer, Codes
<1>2. LockInv'
  BY ConstantsAssumption DEF LockInv, TypeOK, Unlocked
<1>3. OpInv'
  BY DEF OpInv, TypeOK, NoOp, InBody, Staging, Publishing, Finishing
<1>4. DirInv'
  BY DEF LockInv, Unlocked, DirInv, TypeOK, Empty, InTransaction, Recovering,
     Staging, Publishing, Finishing
<1>5. JournalInv' /\ CommittedAsPrepared' /\ JournalledBytes'
  BY ForeignDiskFrame
<1>6. pc'[p] \in Unlocked
  BY DEF TypeOK, Unlocked
<1>7. StagingInv(p)' /\ HeldInv(p)'
  BY <1>6 DEF StagingInv, HeldInv, Staging, Unlocked
<1>8. HeldPhases'
  BY <1>7, HeldFrame DEF TypeOK
<1> QED
  BY <1>1, <1>2, <1>3, <1>4, <1>5, <1>8

\* Record and ledger image are staged; no journal names them yet.
LEMMA ForeignStage ==
  ASSUME FInv, NEW p \in Procs, StageRecord(p) \/ StageLedger(p)
  PROVE  FInv'
<1> DEFINE t == cur[p]  e == op[p].entry
<1> USE DEF FInv, StageRecord, StageLedger, Goto
<1>0. /\ t \in txdirs /\ t \in TxIds /\ lock = p
      /\ journal[t] = NoJournal
      /\ e \in Entry /\ e.content \in Contents
      /\ Append(ledger, e) \in Seq(Entry)
  <2>1. t \in txdirs /\ t \in TxIds /\ journal[t] = NoJournal /\ e \in Entry /\ lock = p
    BY DEF HeldPhases, StagingInv, DirInv, InTransaction, Staging, OpInv, InBody, TypeOK,
       LockInv, Unlocked
  <2> QED
    BY <2>1, AppendEntry DEF TypeOK, Entry
<1>1. /\ recordStage' \in [TxIds -> Contents \cup {Nil, Torn}]
      /\ ledgerStage' \in [TxIds -> Seq(Entry) \cup {Nil, Torn}]
      /\ \A u \in TxIds \ {t} : /\ recordStage'[u] = recordStage[u]
                                 /\ ledgerStage'[u] = ledgerStage[u]
  <2>1. CASE StageRecord(p)
    BY <1>0, <2>1 DEF TypeOK
  <2>2. CASE StageLedger(p)
    BY <1>0, <2>2 DEF TypeOK
  <2> QED
    BY <2>1, <2>2
<1>3. TypeOK'
  BY <1>1 DEF TypeOK, Locations
<1>4. LockInv' /\ OpInv'
  BY DEF LockInv, OpInv, TypeOK, Unlocked, InBody, Staging, Publishing, Finishing
<1>5. DirInv'
  BY <1>0, <1>1 DEF LockInv, Unlocked, DirInv, TypeOK, Empty, InTransaction, Recovering,
     Staging, Publishing, Finishing
<1>6. JournalInv' /\ CommittedAsPrepared' /\ JournalledBytes'
  BY ForeignDiskFrame
<1>7. StagingInv(p)' /\ HeldInv(p)'
  <2>1. /\ pc'[p] \in {"stageLedger", "journal"} /\ cur' = cur /\ op' = op
        /\ records' = records /\ ledger' = ledger /\ journal' = journal
        /\ records[e.id] = Nil /\ Absent(e.id)
        /\ recordStage'[t] = e.content
        /\ pc'[p] = "journal" => ledgerStage'[t] = Append(ledger, e)
    BY <1>0 DEF TypeOK, HeldPhases, StagingInv, Staging
  <2> QED
    BY <1>0, <2>1 DEF Absent, StagingInv, HeldInv, Staging
<1>8. HeldPhases'
  BY <1>0, <1>7, HeldFrame DEF TypeOK
<1> QED
  BY <1>3, <1>4, <1>5, <1>6, <1>8

\* The rename of journal.json prepares the transaction.
LEMMA ForeignWriteJournal ==
  ASSUME FInv, NEW p \in Procs, WriteJournal(p)
  PROVE  FInv'
<1> DEFINE t == cur[p]  e == op[p].entry
           j == [state |-> "PREPARED", entry |-> e,
                 before |-> ledger, after |-> Append(ledger, e)]
<1> USE DEF FInv, WriteJournal, Goto
<1>0. /\ t \in txdirs /\ t \in TxIds /\ lock = p
      /\ journal[t] = NoJournal
      /\ e \in Entry
      /\ ledger \in Seq(Entry)
      /\ records[e.id] = Nil
      /\ recordStage[t] = e.content
      /\ ledgerStage[t] = Append(ledger, e)
  BY DEF HeldPhases, StagingInv, DirInv, InTransaction, Staging, OpInv, InBody, TypeOK,
     LockInv, Unlocked
<1>1. j \in Journals /\ journal' = [journal EXCEPT ![t] = j]
  BY <1>0, AppendEntry DEF Journals
<1>3. /\ journal'[t] = j
      /\ \A u \in TxIds \ {t} : journal'[u] = journal[u]
  BY <1>0, <1>1 DEF TypeOK
<1>5. TypeOK'
  <2>1. journal' \in [TxIds -> Journals]
    BY <1>1 DEF TypeOK
  <2> QED
    BY <2>1 DEF TypeOK, Locations
<1>6. LockInv' /\ OpInv'
  BY DEF LockInv, OpInv, TypeOK, Unlocked, InBody, Staging, Publishing, Finishing
<1>7. DirInv'
  BY <1>0, <1>3 DEF LockInv, Unlocked, DirInv, TypeOK, Empty, InTransaction, Recovering,
     Staging, Publishing, Finishing
<1>8. JournalInv' /\ CommittedAsPrepared'
  BY <1>0, <1>3 DEF JournalInv, CommittedAsPrepared, DirInv
<1>9. JournalledBytes'
  BY <1>0 DEF JournalledBytes, DirInv
<1>10. StagingInv(p)' /\ HeldInv(p)'
  <2>1. pc'[p] = "publishRecord" /\ cur'[p] = t
    BY DEF TypeOK
  <2> QED
    BY <1>0, <1>3, <2>1 DEF StagingInv, HeldInv, Prepared, Staging
<1>11. HeldPhases'
  BY <1>0, <1>10, HeldFrame DEF TypeOK
<1> QED
  BY <1>5, <1>6, <1>7, <1>8, <1>9, <1>11

\* A record file appears with the bytes of the prepared transaction.
LEMMA RecordPublished ==
  ASSUME FInv, NEW t \in txdirs, Prepared(t), UNCHANGED <<ledger, txdirs, journal>>,
         \/ UNCHANGED records
         \/ records' = [records EXCEPT ![journal[t].entry.id] = journal[t].entry.content]
  PROVE  JournalInv' /\ CommittedAsPrepared' /\ JournalledBytes'
<1> USE DEF FInv
<1>1. JournalInv' /\ CommittedAsPrepared'
  BY DEF JournalInv, CommittedAsPrepared, DirInv, Prepared
<1>2. JournalledBytes'
  <2>1. journal[t] # NoJournal
    BY DEF Prepared, NoJournal
  <2>2. journal[t].entry = [id |-> journal[t].entry.id, content |-> journal[t].entry.content]
    BY DEF Prepared, Entry
  <2>3. \A i \in Ids : records'[i] = records[i] \/
           (i = journal[t].entry.id /\ records'[i] = journal[t].entry.content)
    BY DEF TypeOK
  <2> QED
    BY <2>1, <2>2, <2>3 DEF JournalledBytes
<1> QED
  BY <1>1, <1>2

\* The record of the prepared transaction becomes public.
LEMMA ForeignPublishRecord ==
  ASSUME FInv, NEW p \in Procs, PublishRecord(p)
  PROVE  FInv'
<1> DEFINE t == cur[p]  e == journal[t].entry
<1> USE DEF FInv
<1>0. /\ Prepared(t) /\ records[e.id] = Nil
      /\ t \in txdirs /\ t \in TxIds /\ lock = p
      /\ e \in Entry /\ e.id \in Ids /\ e.content \in Contents
      /\ recordStage[t] = e.content
  BY DEF PublishRecord, Goto, HeldPhases, HeldInv, Prepared, DirInv, InTransaction, Publishing,
     TypeOK, Entry, LockInv, Unlocked
<1>1. /\ records' = [records EXCEPT ![e.id] = e.content]
      /\ recordStage' = [recordStage EXCEPT ![t] = Nil]
      /\ Goto(p, "publishRecord", "publishLedger")
      /\ UNCHANGED <<ledger, index, txdirs, ledgerStage, journal, lock, cur, op, reply>>
  BY <1>0 DEF PublishRecord, Publish
<1>2. JournalInv' /\ CommittedAsPrepared' /\ JournalledBytes'
  BY <1>0, <1>1, RecordPublished
<1> HIDE DEF e
<1> USE DEF Goto
<1>3. /\ records' \in [Ids -> Contents \cup {Nil}]
      /\ recordStage' \in [TxIds -> Contents \cup {Nil, Torn}]
      /\ records'[e.id] = e.content
      /\ \A u \in TxIds \ {t} : recordStage'[u] = recordStage[u]
  BY <1>0, <1>1 DEF TypeOK
<1>5. TypeOK'
  BY <1>1, <1>3 DEF TypeOK, Locations
<1>6. LockInv' /\ OpInv'
  BY <1>1 DEF LockInv, OpInv, TypeOK, Unlocked, InBody, Staging, Publishing, Finishing
<1>7. DirInv'
  BY <1>0, <1>1, <1>3 DEF LockInv, Unlocked, DirInv, TypeOK, Empty, InTransaction, Recovering,
     Staging, Publishing, Finishing
<1>8. StagingInv(p)' /\ HeldInv(p)'
  <2>1. pc'[p] = "publishLedger" /\ cur'[p] = t /\ journal'[t].entry = e
    BY <1>1 DEF TypeOK, e
  <2> QED
    BY <1>0, <1>1, <1>3, <2>1 DEF StagingInv, HeldInv, Prepared, PublicRecord, Staging
<1>9. HeldPhases'
  BY <1>0, <1>1, <1>8, HeldFrame DEF TypeOK
<1> QED
  BY <1>2, <1>5, <1>6, <1>7, <1>9

\* Recovery publishes the record of a transaction that it accepted.
LEMMA ForeignRecoverRecord ==
  ASSUME FInv, NEW p \in Procs, NEW t \in TxIds, RecoverRecord(p, t)
  PROVE  FInv'
<1> DEFINE e == journal[t].entry
<1> USE DEF FInv
<1>0. /\ Prepared(t) /\ RecordSource(t) = e.content
      /\ t \in txdirs /\ e \in Entry /\ e.id \in Ids /\ e.content \in Contents
  BY AcceptedTx DEF RecoverRecord, Entry
<1>1. /\ Goto(p, "scan", "recoverLedger")
      /\ cur' = [cur EXCEPT ![p] = t]
      /\ UNCHANGED <<ledger, index, txdirs, ledgerStage, journal, lock, op, reply>>
      /\ lock = p
  BY DEF RecoverRecord, Goto, LockInv, Unlocked
<1>2. \/ /\ recordStage[t] = e.content
         /\ records' = [records EXCEPT ![e.id] = e.content]
         /\ recordStage' = [recordStage EXCEPT ![t] = Nil]
      \/ records[e.id] = e.content /\ UNCHANGED <<records, recordStage>>
  BY <1>0 DEF RecoverRecord, Publish, RecordSource
<1>3. JournalInv' /\ CommittedAsPrepared' /\ JournalledBytes'
  BY <1>0, <1>1, <1>2, RecordPublished
<1> HIDE DEF e
<1> USE DEF Goto
<1>4. /\ records' \in [Ids -> Contents \cup {Nil}]
      /\ recordStage' \in [TxIds -> Contents \cup {Nil, Torn}]
      /\ records'[e.id] = e.content
      /\ \A u \in TxIds \ {t} : recordStage'[u] = recordStage[u]
  BY <1>0, <1>2 DEF TypeOK
<1>5. TypeOK'
  BY <1>1, <1>4 DEF TypeOK, Locations
<1>6. LockInv' /\ OpInv'
  BY <1>1 DEF LockInv, OpInv, TypeOK, Unlocked, InBody, Staging, Publishing, Finishing
<1>7. DirInv'
  BY <1>0, <1>1, <1>4 DEF LockInv, Unlocked, DirInv, TypeOK, Empty, InTransaction, Recovering,
     Staging, Publishing, Finishing
<1>8. StagingInv(p)' /\ HeldInv(p)'
  <2>1. pc'[p] = "recoverLedger" /\ cur'[p] = t /\ journal'[t].entry = e
    BY <1>1 DEF TypeOK, e
  <2> QED
    BY <1>0, <1>1, <1>4, <2>1 DEF StagingInv, HeldInv, Prepared, PublicRecord, Staging
<1>9. HeldPhases'
  BY <1>1, <1>8, HeldFrame DEF TypeOK
<1> QED
  BY <1>3, <1>5, <1>6, <1>7, <1>9

\* An entry at the end of the ledger takes nothing from journals and records.
LEMMA LedgerExtended ==
  ASSUME FInv, NEW e \in Entry, ledger' = Append(ledger, e), UNCHANGED <<records, txdirs, journal>>
  PROVE  ledger' \in Seq(Entry) /\ JournalInv' /\ CommittedAsPrepared' /\ JournalledBytes'
<1>1. /\ ledger \in Seq(Entry) /\ ledger' \in Seq(Entry) /\ Len(ledger') = Len(ledger) + 1
      /\ \A n \in 1..Len(ledger) : n \in 1..Len(ledger') /\ ledger'[n] = ledger[n]
  BY AppendEntry DEF FInv, TypeOK
<1>2. JournalInv'
  BY DEF FInv, JournalInv
<1>3. CommittedAsPrepared'
  <2> SUFFICES ASSUME NEW t \in txdirs, journal[t].state = "COMMITTED",
                      NEW n \in 1..Len(journal[t].after)
               PROVE  /\ n <= Len(ledger') /\ ledger'[n] = journal[t].after[n]
                      /\ records[journal[t].entry.id] = journal[t].entry.content
    BY DEF FInv, CommittedAsPrepared
  <2>1. n <= Len(ledger) /\ ledger[n] = journal[t].after[n]
    BY DEF FInv, CommittedAsPrepared
  <2>2. n \in 1..Len(ledger)
    BY <1>1, <2>1
  <2> QED
    BY <1>1, <2>1, <2>2 DEF FInv, CommittedAsPrepared
<1>4. JournalledBytes'
  BY <1>1 DEF FInv, JournalledBytes
<1> QED
  BY <1>1, <1>2, <1>3, <1>4

\* ledger.jsonl is replaced by its extension.
LEMMA ForeignPublishLedger ==
  ASSUME FInv, NEW p \in Procs, CommitLedger(p) \/ RecoverLedger(p)
  PROVE  FInv'
<1> USE DEF FInv, CommitLedger, RecoverLedger, PublishLedger, Goto
<1>0. /\ Prepared(cur[p]) /\ PublicRecord(cur[p])
      /\ cur[p] \in txdirs /\ cur[p] \in TxIds /\ lock = p
      /\ journal[cur[p]].entry \in Entry
      /\ ledger' = Append(ledger, journal[cur[p]].entry)
      /\ ledger' = journal[cur[p]].after
  BY DEF HeldPhases, HeldInv, Prepared, DirInv, InTransaction, Publishing, Recovering, TypeOK,
     LockInv, Unlocked
<1>1. ledger' \in Seq(Entry) /\ JournalInv' /\ CommittedAsPrepared' /\ JournalledBytes'
  BY <1>0, LedgerExtended
<1>2. TypeOK'
  <2>1. ledgerStage' \in [TxIds -> Seq(Entry) \cup {Nil, Torn}]
    BY DEF TypeOK
  <2> QED
    BY <1>1, <2>1 DEF TypeOK, Locations
<1>3. LockInv' /\ OpInv'
  BY DEF LockInv, OpInv, TypeOK, Unlocked, InBody, Staging, Publishing, Finishing
<1>4. DirInv'
  BY DEF LockInv, Unlocked, DirInv, TypeOK, Empty, InTransaction, Recovering, Staging, Publishing,
     Finishing
<1>5. StagingInv(p)' /\ HeldInv(p)'
  <2>1. /\ pc'[p] \in {"mark", "recoverMark"} /\ cur' = cur
        /\ journal'[cur[p]] # NoJournal
    BY <1>0 DEF TypeOK, Prepared, NoJournal
  <2> QED
    BY <1>0, <2>1 DEF StagingInv, HeldInv, Staging, PublicRecord
<1>6. HeldPhases'
  BY <1>0, <1>5, HeldFrame DEF TypeOK
<1> QED
  BY <1>1, <1>2, <1>3, <1>4, <1>6

\* The journal of a transaction that is public is rewritten as COMMITTED.
LEMMA ForeignMark ==
  ASSUME FInv, NEW p \in Procs, CommitMark(p) \/ RecoverMark(p)
  PROVE  FInv'
<1> DEFINE t == cur[p]
<1> USE DEF FInv, CommitMark, RecoverMark, Mark, Goto
<1>0. /\ t \in txdirs /\ t \in TxIds /\ lock = p
      /\ journal[t] # NoJournal /\ journal[t].after = ledger /\ PublicRecord(t)
      /\ journal' = [journal EXCEPT ![t].state = "COMMITTED"]
      /\ UNCHANGED <<ledger, records, txdirs>>
  BY DEF HeldPhases, HeldInv, DirInv, InTransaction, Recovering, Finishing, TypeOK,
     LockInv, Unlocked
<1>1. /\ journal' \in [TxIds -> Journals]
      /\ journal'[t].state = "COMMITTED"
      /\ journal'[t].entry = journal[t].entry
      /\ journal'[t].before = journal[t].before
      /\ journal'[t].after = journal[t].after
      /\ \A u \in TxIds \ {t} : journal'[u] = journal[u]
  <2>1. journal[t] \in Journals /\ journal \in [TxIds -> Journals]
    BY <1>0 DEF TypeOK
  <2>2. /\ [journal[t] EXCEPT !.state = "COMMITTED"] \in Journals
        /\ journal' = [journal EXCEPT ![t] = [journal[t] EXCEPT !.state = "COMMITTED"]]
    BY <1>0, <2>1 DEF Journals
  <2>3. /\ journal'[t].state = "COMMITTED"
        /\ journal'[t].entry = journal[t].entry
        /\ journal'[t].before = journal[t].before
        /\ journal'[t].after = journal[t].after
    BY <1>0, <2>1, <2>2 DEF Journals
  <2> QED
    BY <1>0, <2>1, <2>2, <2>3
<1>2. journal'[t] # NoJournal
  BY <1>1 DEF NoJournal
<1>3. TypeOK'
  BY <1>1 DEF TypeOK, Locations
<1>4. LockInv' /\ OpInv'
  BY DEF LockInv, OpInv, TypeOK, Unlocked, InBody, Staging, Publishing, Finishing
<1>5. DirInv'
  BY <1>0, <1>1 DEF LockInv, Unlocked, DirInv, TypeOK, Empty, InTransaction, Recovering,
     Staging, Publishing, Finishing
<1>6. JournalInv'
  BY <1>0, <1>1 DEF JournalInv, DirInv
<1>7. CommittedAsPrepared'
  <2>1. \A u \in txdirs : u = t
    BY <1>0 DEF DirInv
  <2>2. \A n \in 1..Len(ledger) : n <= Len(ledger)
    BY DEF TypeOK
  <2> QED
    BY <1>0, <1>1, <2>1, <2>2 DEF CommittedAsPrepared, PublicRecord
<1>8. JournalledBytes'
  BY <1>0, <1>1, <1>2 DEF JournalledBytes, DirInv
<1>9. StagingInv(p)' /\ HeldInv(p)'
  <2>1. pc'[p] \in {"index", "recoverIndex"} /\ cur'[p] = t
    BY DEF TypeOK
  <2>2. PublicRecord(t)'
    BY <1>0, <1>1 DEF PublicRecord
  <2> QED
    BY <1>0, <1>1, <1>2, <2>1, <2>2 DEF StagingInv, HeldInv, Staging
<1>10. HeldPhases'
  BY <1>0, <1>9, HeldFrame DEF TypeOK
<1> QED
  BY <1>3, <1>4, <1>5, <1>6, <1>7, <1>8, <1>10

\* The entry of a COMMITTED journal is in the ledger.
LEMMA CommittedEntry ==
  ASSUME FInv, NEW t \in txdirs, journal[t].state = "COMMITTED"
  PROVE  \E n \in 1..Len(ledger) : ledger[n] = journal[t].entry
<1>1. /\ journal[t].entry \in Entry /\ journal[t].before \in Seq(Entry)
      /\ journal[t].after = Append(journal[t].before, journal[t].entry)
  BY DEF FInv, JournalInv, NoJournal
<1>2. /\ Len(journal[t].after) = Len(journal[t].before) + 1
      /\ journal[t].after[Len(journal[t].before) + 1] = journal[t].entry
      /\ Len(journal[t].before) \in Nat
  BY <1>1, AppendEntry
<1>3. /\ Len(journal[t].before) + 1 \in 1..Len(journal[t].after)
      /\ Len(ledger) \in Nat
  BY <1>2 DEF FInv, TypeOK
<1>4. /\ Len(journal[t].before) + 1 <= Len(ledger)
      /\ ledger[Len(journal[t].before) + 1] = journal[t].entry
  BY <1>2, <1>3 DEF FInv, CommittedAsPrepared
<1>5. Len(journal[t].before) + 1 \in 1..Len(ledger)
  BY <1>2, <1>3, <1>4
<1> QED
  BY <1>4, <1>5

\* One file of a finished or abandoned directory is removed.
LEMMA ForeignUnlink ==
  ASSUME FInv, NEW p \in Procs, Unlink(p)
  PROVE  FInv'
<1> DEFINE t == cur[p]
<1> USE DEF FInv
<1>0. /\ t \in txdirs /\ t \in TxIds /\ lock = p
      /\ journal[t] = NoJournal \/ journal[t].state = "COMMITTED"
      /\ pc[p] \in {"recoverRmtree", "rmtree"}
      /\ UNCHANGED <<ledger, records, index, txdirs, lock, pc, cur, op, reply>>
  BY DEF Unlink, HeldPhases, HeldInv, DirInv, InTransaction, Recovering, Finishing, TypeOK,
     LockInv, Unlocked
<1>1. /\ recordStage' \in [TxIds -> Contents \cup {Nil, Torn}]
      /\ ledgerStage' \in [TxIds -> Seq(Entry) \cup {Nil, Torn}]
      /\ journal' \in [TxIds -> Journals]
      /\ journal'[t] = journal[t] \/ journal'[t] = NoJournal
      /\ \A u \in TxIds \ {t} : /\ recordStage'[u] = recordStage[u]
                                 /\ ledgerStage'[u] = ledgerStage[u]
                                 /\ journal'[u] = journal[u]
  <2>1. NoJournal \in Journals
    BY DEF NoJournal, Journals
  <2> QED
    BY <1>0, <2>1 DEF Unlink, TypeOK
<1>2. TypeOK'
  BY <1>0, <1>1 DEF TypeOK
<1>3. LockInv' /\ OpInv'
  BY <1>0 DEF LockInv, OpInv
<1>4. DirInv'
  BY <1>0, <1>1 DEF DirInv, Empty
<1>5. JournalInv' /\ CommittedAsPrepared'
  <2>1. \A u \in txdirs : u = t
    BY <1>0 DEF DirInv
  <2>2. NoJournal.state # "COMMITTED"
    BY DEF NoJournal
  <2>3. JournalInv'
    BY <1>0, <1>1, <2>1 DEF JournalInv
  <2>4. CommittedAsPrepared'
    <3>1. CASE journal'[t] = NoJournal
      BY <1>0, <2>1, <2>2, <3>1 DEF CommittedAsPrepared
    <3>2. CASE journal'[t] = journal[t]
      BY <1>0, <2>1, <3>2 DEF CommittedAsPrepared
    <3> QED
      BY <1>1, <3>1, <3>2
  <2> QED
    BY <2>3, <2>4
<1>6. JournalledBytes'
  <2>1. journal[t] # NoJournal => \E n \in 1..Len(ledger) : ledger[n] = journal[t].entry
    BY <1>0, CommittedEntry
  <2>2. \A u \in txdirs : u = t
    BY <1>0 DEF DirInv
  <2> QED
    BY <1>0, <2>1, <2>2 DEF JournalledBytes
<1>7. StagingInv(p)' /\ HeldInv(p)'
  <2>1. journal[t] # NoJournal => journal[t].after = ledger /\ PublicRecord(t)
    BY <1>0 DEF HeldPhases, HeldInv
  <2>2. \/ journal'[t] = NoJournal
        \/ /\ journal'[t].state = "COMMITTED" /\ journal'[t].after = ledger
           /\ PublicRecord(t)'
    BY <1>0, <1>1, <2>1 DEF PublicRecord
  <2> QED
    BY <1>0, <2>2 DEF StagingInv, HeldInv, Staging
<1>8. HeldPhases'
  BY <1>0, <1>7, HeldFrame
<1> QED
  BY <1>2, <1>3, <1>4, <1>5, <1>6, <1>8

\* The empty directory is removed.
LEMMA ForeignRmdir ==
  ASSUME FInv, NEW p \in Procs, CommitRmdir(p) \/ RecoverRmdir(p)
  PROVE  FInv'
<1> DEFINE t == cur[p]
<1> USE DEF FInv
<1>0. /\ t \in txdirs /\ Empty(t)
      /\ txdirs' = txdirs \ {t}
      /\ UNCHANGED <<ledger, records, index, recordStage, ledgerStage, journal>>
      /\ pc[p] \in {"recoverRmtree", "rmtree"}
      /\ cur' = [cur EXCEPT ![p] = Nil]
  BY DEF CommitRmdir, RecoverRmdir, Goto, End, DirInv, InTransaction, Recovering, Finishing
<1>1. \/ /\ pc' = [pc EXCEPT ![p] = "idle"]
         /\ lock = p /\ lock' = Nil
         /\ op' = [op EXCEPT ![p] = NoOp]
         /\ \E a : a.code = "ENTRY" /\ reply' = [reply EXCEPT ![p] = a]
      \/ /\ pc' = [pc EXCEPT ![p] = "scan"]
         /\ UNCHANGED <<lock, op, reply>>
  BY <1>0 DEF CommitRmdir, RecoverRmdir, Goto, End, EntryAnswer, LockInv, Unlocked
<1>2. TypeOK'
  <2>1. DOMAIN reply' = Procs /\ \A q \in Procs : reply'[q].code \in Codes
    BY <1>1 DEF TypeOK, Codes
  <2>2. op' \in [Procs -> [call : {"none", "open", "commit"}, entry : Entry \cup {Nil}]]
    BY <1>1 DEF TypeOK, NoOp
  <2> QED
    BY <1>0, <1>1, <2>1, <2>2 DEF TypeOK, Locations
<1>3. LockInv'
  BY <1>0, <1>1, ConstantsAssumption DEF LockInv, TypeOK, Unlocked
<1>4. OpInv'
  BY <1>0, <1>1 DEF OpInv, TypeOK, NoOp, InBody, Staging, Publishing, Finishing
<1>5. txdirs' = {}
  BY <1>0 DEF DirInv
<1>6. \A q \in Procs : pc'[q] \in Unlocked \cup {"scan"}
  BY <1>0, <1>1 DEF LockInv, TypeOK, Unlocked
<1>7. DirInv'
  BY <1>0, <1>5, <1>6 DEF DirInv, Empty, Unlocked, InTransaction, Recovering,
     Staging, Publishing, Finishing
<1>8. JournalInv' /\ CommittedAsPrepared'
  BY <1>5 DEF JournalInv, CommittedAsPrepared
<1>9. JournalledBytes'
  BY <1>0 DEF JournalledBytes, DirInv, Empty
<1>10. HeldPhases'
  BY <1>6 DEF HeldPhases, StagingInv, HeldInv, Staging, Unlocked
<1> QED
  BY <1>2, <1>3, <1>4, <1>7, <1>8, <1>9, <1>10

\* A commit makes its directory, the only one.
LEMMA ForeignMkdir ==
  ASSUME FInv, NEW p \in Procs, NEW t \in TxIds, Mkdir(p, t)
  PROVE  FInv'
<1> USE DEF FInv, Mkdir, Goto
<1>0. txdirs = {} /\ txdirs' = {t} /\ Empty(t)
  BY DEF DirInv
<1>1. TypeOK'
  BY DEF TypeOK, Locations
<1>2. LockInv' /\ OpInv'
  BY DEF LockInv, OpInv, TypeOK, Unlocked, InBody, Staging, Publishing, Finishing
<1>3. DirInv'
  <2>1. \A q \in Procs : pc'[q] \in Unlocked \/ (pc'[q] = "stageRecord" /\ cur'[q] = t)
    BY DEF LockInv, TypeOK, Unlocked
  <2> QED
    BY <1>0, <2>1 DEF DirInv, Empty, Unlocked, InTransaction, Recovering, Staging,
       Publishing, Finishing
<1>4. JournalInv' /\ CommittedAsPrepared' /\ JournalledBytes'
  <2>1. journal'[t] = NoJournal /\ NoJournal.state # "COMMITTED"
    BY <1>0 DEF Empty, NoJournal
  <2> QED
    BY <1>0, <2>1 DEF JournalInv, CommittedAsPrepared, JournalledBytes
<1>5. HeldPhases'
  <2>1. /\ \A q \in Procs \ {p} : pc'[q] \in Unlocked
        /\ pc'[p] = "stageRecord" /\ cur'[p] = t
        /\ journal'[t] = NoJournal
        /\ records'[op'[p].entry.id] = Nil
        /\ Absent(op[p].entry.id)'
    BY <1>0 DEF LockInv, TypeOK, Unlocked, Empty, Positions, Absent
  <2> QED
    BY <2>1 DEF TypeOK, Unlocked, HeldPhases, StagingInv, HeldInv, Staging
<1> QED
  BY <1>1, <1>2, <1>3, <1>4, <1>5

-----------------------------------------------------------------------------
(* Writers outside the transactions *)

\* While nobody holds the lock, no process is in the middle of anything.
LEMMA NobodyHolds ==
  ASSUME FInv, lock = Nil, NEW q \in Procs
  PROVE  pc[q] \in Unlocked
  BY ConstantsAssumption DEF FInv, LockInv

\* A line appears without a record, or a stage is substituted.
LEMMA ForeignWrites ==
  ASSUME FInv, lock = Nil, UNCHANGED <<records, index, txdirs, journal, lock, pc, cur, op, reply>>,
         \/ /\ \E e \in Entry : ledger' = Append(ledger, e)
            /\ UNCHANGED <<recordStage, ledgerStage>>
         \/ /\ UNCHANGED ledger
            /\ recordStage' \in [TxIds -> Contents \cup {Nil, Torn}]
            /\ ledgerStage' \in [TxIds -> Seq(Entry) \cup {Nil, Torn}]
            /\ \A t \in TxIds : /\ recordStage[t] = Nil => recordStage'[t] = Nil
                                /\ ledgerStage[t] = Nil => ledgerStage'[t] = Nil
  PROVE  FInv'
<1> USE DEF FInv
<1>1. ledger' \in Seq(Entry) /\ JournalInv' /\ CommittedAsPrepared' /\ JournalledBytes'
  <2>1. CASE \E e \in Entry : ledger' = Append(ledger, e)
    BY <2>1, LedgerExtended
  <2>2. CASE UNCHANGED ledger
    BY <2>2, ForeignDiskFrame DEF TypeOK
  <2> QED
    BY <2>1, <2>2
<1>2. TypeOK'
  BY <1>1 DEF TypeOK
<1>3. LockInv' /\ OpInv'
  BY DEF LockInv, OpInv
<1>4. DirInv'
  BY DEF DirInv, Empty
<1>5. \A q \in Procs : pc'[q] \in Unlocked
  BY NobodyHolds
<1>6. HeldPhases'
  BY <1>5 DEF HeldPhases, StagingInv, HeldInv, Staging, Unlocked
<1> QED
  BY <1>1, <1>2, <1>3, <1>4, <1>6

\* Ledger.append and the substitution of staged bytes.
LEMMA ForeignSteps ==
  ASSUME FInv,
         \/ \E e \in Entry : LowLevelAppend(e)
         \/ \E t \in TxIds : SubstituteLedger(t) \/ \E c \in Contents : SubstituteRecord(t, c)
  PROVE  FInv'
<1>1. CASE \E e \in Entry : LowLevelAppend(e)
  BY <1>1, ForeignWrites DEF LowLevelAppend
<1>2. ASSUME NEW t \in TxIds, SubstituteLedger(t) PROVE FInv'
  <2>1. /\ recordStage \in [TxIds -> Contents \cup {Nil, Torn}]
        /\ ledgerStage' \in [TxIds -> Seq(Entry) \cup {Nil, Torn}]
        /\ \A u \in TxIds : ledgerStage[u] = Nil => ledgerStage'[u] = Nil
    BY <1>2 DEF SubstituteLedger, FInv, TypeOK
  <2> QED
    BY <1>2, <2>1, ForeignWrites DEF SubstituteLedger
<1>3. ASSUME NEW t \in TxIds, NEW c \in Contents, SubstituteRecord(t, c) PROVE FInv'
  <2>1. /\ recordStage' \in [TxIds -> Contents \cup {Nil, Torn}]
        /\ ledgerStage \in [TxIds -> Seq(Entry) \cup {Nil, Torn}]
        /\ \A u \in TxIds : recordStage[u] = Nil => recordStage'[u] = Nil
    BY <1>3, ConstantsAssumption DEF SubstituteRecord, FInv, TypeOK
  <2> QED
    BY <1>3, <2>1, ForeignWrites DEF SubstituteRecord
<1> QED
  BY <1>1, <1>2, <1>3

-----------------------------------------------------------------------------
(* The invariant holds *)

\* The initial state directory is empty.
LEMMA InitFInv == Init => FInv
<1> SUFFICES ASSUME Init PROVE FInv
  OBVIOUS
<1>1. TypeOK /\ LockInv /\ OpInv /\ DirInv
  BY InitIInv DEF IInv
<1>2. JournalInv /\ CommittedAsPrepared /\ JournalledBytes
  BY DEF Init, JournalInv, CommittedAsPrepared, JournalledBytes
<1>3. HeldPhases
  BY DEF Init, HeldPhases, StagingInv, HeldInv, Staging
<1> QED
  BY <1>1, <1>2, <1>3 DEF FInv

\* Every step of the store keeps it.
LEMMA StoreKeepsFInv ==
  ASSUME FInv, NEW p \in Procs,
         \/ Open(p) \/ Close(p) \/ Step(p) \/ Interrupt(p) \/ Verify(p)
         \/ \E e \in Entry : CallCommit(p, e)
         \/ \E K \in SUBSET Kinds : Read(p, K)
  PROVE  FInv'
<1>1. CASE Open(p) \/ \E e \in Entry : CallCommit(p, e)
  BY <1>1, ForeignStart DEF Open, CallCommit
<1>2. CASE Close(p) \/ Verify(p) \/ Acquire(p) \/ \E K \in SUBSET Kinds : Read(p, K)
  BY <1>2, ForeignIdle
<1>3. CASE Interrupt(p) \/ Unlink(p)
  BY <1>3, ForeignInterrupt, ForeignUnlink
<1>4. CASE \/ LockTimeout(p) \/ Opened(p) \/ OpenRefused(p) \/ Duplicate(p)
           \/ \E t \in TxIds : RecoverRefuse(p, t)
  <2>1. \A t : RecoveryError(t) # "" => RecoveryError(t) \in Codes
    BY DEF RecoveryError, Codes, ContradictionErrors, RecoveryErrors
  <2>2. \E a : a.code \in Codes /\ \E l \in {"down", "idle"} : End(p, a, l)
    BY <1>4, <2>1 DEF LockTimeout, Opened, OpenRefused, Duplicate, RecoverRefuse, Fail, Home,
       Answer, EntryAnswer, VerifyError, Codes, ContradictionErrors
  <2>3. /\ UNCHANGED <<ledger, records, txdirs, recordStage, ledgerStage, journal>>
        /\ index' = index \/ index' = Nil \/ index' = IndexOf(ledger)
    BY <1>4 DEF LockTimeout, Opened, OpenRefused, Duplicate, RecoverRefuse, Fail, disk
  <2> QED
    BY <2>2, <2>3, ForeignEnd
<1>5. CASE ScanDone(p) \/ \E t \in TxIds : Abandon(p, t) \/ RecoverPublished(p, t)
  BY <1>5, ForeignScan
<1>6. CASE \E t \in TxIds : RecoverRecord(p, t) \/ Mkdir(p, t)
  BY <1>6, ForeignRecoverRecord, ForeignMkdir
<1>7. CASE StageRecord(p) \/ StageLedger(p) \/ WriteJournal(p) \/ PublishRecord(p)
  BY <1>7, ForeignStage, ForeignWriteJournal, ForeignPublishRecord
<1>8. CASE \/ RecoverLedger(p) \/ RecoverMark(p) \/ RecoverIndex(p) \/ RecoverRmdir(p)
           \/ CommitLedger(p) \/ CommitMark(p) \/ CommitIndex(p) \/ CommitRmdir(p)
  BY <1>8, ForeignPublishLedger, ForeignMark, ForeignReindex, ForeignRmdir
<1>9. CASE Recover(p)
  BY <1>4, <1>5, <1>6, <1>8, <1>9 DEF Recover
<1>10. CASE Commit(p)
  BY <1>4, <1>6, <1>7, <1>8, <1>10 DEF Commit
<1> QED
  BY <1>1, <1>2, <1>3, <1>4, <1>9, <1>10 DEF Step

\* So does every other step.
LEMMA NextFInv == FInv /\ [ForeignNext]_vars => FInv'
<1> SUFFICES ASSUME FInv, [ForeignNext]_vars PROVE FInv'
  OBVIOUS
<1>1. CASE UNCHANGED vars
  <2>1. TypeOK' /\ LockInv' /\ OpInv'
    BY <1>1 DEF vars, disk, FInv, TypeOK, LockInv, OpInv
  <2>2. DirInv'
    BY <1>1 DEF vars, disk, FInv, DirInv, Empty
  <2>3. JournalInv' /\ CommittedAsPrepared' /\ JournalledBytes'
    BY <1>1, ForeignDiskFrame DEF vars, disk, FInv
  <2>4. HeldPhases'
    BY <1>1 DEF vars, disk, FInv, HeldPhases, StagingInv, HeldInv, Prepared, PublicRecord, Absent
  <2> QED
    BY <2>1, <2>2, <2>3, <2>4 DEF FInv
<1>2. CASE Next
  BY <1>2, StoreKeepsFInv DEF Next
<1> QED
  BY <1>1, <1>2, ForeignSteps DEF ForeignNext

\* The invariant holds in every state the store and its neighbours reach.
THEOREM ForeignInvariance == ForeignSpec => []FInv
  BY InitFInv, NextFInv, PTL DEF ForeignSpec

\* A journal says COMMITTED only of a transaction that is in the ledger as it was
\* prepared, with its record (CommittedAsPrepared).
THEOREM NeverRebased == ForeignSpec => []CommittedAsPrepared
<1>1. FInv => CommittedAsPrepared
  BY DEF FInv
<1> QED
  BY <1>1, ForeignInvariance, PTL

\* No substituted bytes become a record: every record file is the one of a
\* journalled entry or of an entry of the ledger (OnlyPreparedBytes).
THEOREM NoForeignBytes == ForeignSpec => []OnlyPreparedBytes
<1>1. FInv => OnlyPreparedBytes
  BY DEF FInv, JournalledBytes, OnlyPreparedBytes
<1> QED
  BY <1>1, ForeignInvariance, PTL

-----------------------------------------------------------------------------
(* What no step does *)

\* Next to foreign writers, too, the ledger is only extended and a record only
\* appears where there was none.
LEMMA ForeignExtends == FInv /\ [ForeignNext]_vars => Extends
<1> SUFFICES ASSUME FInv, [ForeignNext]_vars PROVE Extends
  OBVIOUS
<1>1. ASSUME NEW p \in Procs, CommitLedger(p) \/ RecoverLedger(p) PROVE Extends
  BY <1>1 DEF Extends, CommitLedger, RecoverLedger, PublishLedger, Goto, FInv, HeldPhases,
     HeldInv, Prepared
<1>2. ASSUME NEW p \in Procs, PublishRecord(p) PROVE Extends
  <2>1. records[journal[cur[p]].entry.id] = Nil
    BY <1>2 DEF PublishRecord, Goto, FInv, HeldPhases, HeldInv
  <2> QED
    BY <1>2, <2>1 DEF Extends, PublishRecord, Publish, FInv, TypeOK
<1>3. ASSUME NEW p \in Procs, NEW t \in TxIds, RecoverRecord(p, t) PROVE Extends
  BY <1>3 DEF Extends, RecoverRecord, Publish, FInv, TypeOK
<1>4. ASSUME NEW p \in Procs, Recover(p) PROVE Extends
  BY <1>1, <1>3, <1>4 DEF Extends, Recover, ScanDone, Abandon, RecoverRefuse,
     RecoverPublished, RecoverMark, Mark, RecoverIndex, Reindex, RecoverRmdir, Opened,
     OpenRefused, Fail, disk
<1>5. ASSUME NEW p \in Procs, Commit(p) PROVE Extends
  BY <1>1, <1>2, <1>5 DEF Extends, Commit, Duplicate, Fail, Mkdir, StageRecord, StageLedger,
     WriteJournal, CommitMark, Mark, CommitIndex, Reindex, CommitRmdir, disk
<1>6. ASSUME NEW p \in Procs,
             \/ Open(p) \/ Close(p) \/ Interrupt(p) \/ Verify(p)
             \/ Acquire(p) \/ LockTimeout(p) \/ Unlink(p)
             \/ \E e \in Entry : CallCommit(p, e)
             \/ \E K \in SUBSET Kinds : Read(p, K)
      PROVE  Extends
  BY <1>6 DEF Extends, Open, CallCommit, Start, Close, Interrupt, Verify, Acquire,
     LockTimeout, Unlink, Read, disk
<1>7. CASE UNCHANGED vars
  BY <1>7 DEF Extends, vars, disk
<1>8. CASE \/ \E e \in Entry : LowLevelAppend(e)
           \/ \E t \in TxIds : SubstituteLedger(t) \/ \E c \in Contents : SubstituteRecord(t, c)
  BY <1>8 DEF Extends, LowLevelAppend, SubstituteLedger, SubstituteRecord
<1> QED
  BY <1>4, <1>5, <1>6, <1>7, <1>8 DEF ForeignNext, Next, Step

\* History stays append-only next to writers that do not use the transactions
\* (AppendOnly).
THEOREM ForeignHistoryAppendOnly == ForeignSpec => AppendOnly
<1>1. FInv /\ [ForeignNext]_vars => [Extends]_vars
  BY ForeignExtends
<1> QED
  BY <1>1, ForeignInvariance, PTL DEF ForeignSpec, AppendOnly, Extends

\* What ContradictionKept says of a step and one transaction.
Kept(t) ==
    LET j == journal[t]
    IN  /\ Contradicted(t) =>
             \/ /\ journal'[t] = j
                /\ recordStage'[t] = recordStage[t]
                /\ ledgerStage'[t] = ledgerStage[t]
             \/ Substituted(t)
        /\ journal'[t] = NoJournal => Complete(t)
        /\ recordStage'[t] # recordStage[t] =>
             \/ Complete(t)
             \/ recordStage[t] = j.entry.content /\ records'[j.entry.id] = j.entry.content
             \/ Substituted(t)
        /\ ledgerStage'[t] # ledgerStage[t] =>
             \/ Complete(t)
             \/ ledger = j.before /\ ledger' = j.after
             \/ Substituted(t)

KeepsContradiction == \A t \in TxIds : journal[t] # NoJournal => Kept(t)

\* What a step leaves alone it keeps.
LEMMA KeptFrame ==
  ASSUME NEW t, journal[t] # NoJournal,
         journal'[t] = journal[t], recordStage'[t] = recordStage[t],
         ledgerStage'[t] = ledgerStage[t]
  PROVE  Kept(t)
  BY DEF Kept

\* A transaction that is on its way, or published, contradicts nothing.
LEMMA ConsistentTx ==
  ASSUME FInv, NEW t \in txdirs, journal[t] # NoJournal,
         \/ /\ Prepared(t)
            /\ \/ PublicRecord(t)
               \/ records[journal[t].entry.id] = Nil /\ recordStage[t] = journal[t].entry.content
         \/ journal[t].after = ledger /\ PublicRecord(t)
  PROVE  ~Contradicted(t)
<1> DEFINE j == journal[t]
<1>1. /\ j.entry \in Entry /\ j.entry.content # Nil
      /\ j.before \in Seq(Entry) /\ j.after = Append(j.before, j.entry)
  BY ConstantsAssumption DEF FInv, JournalInv, Entry
<1>2. j.after # j.before
  <2>1. ASSUME NEW l \in Seq(Entry), NEW e \in Entry PROVE Append(l, e) # l
    BY AppendEntry
  <2> HIDE DEF j
  <2> QED
    BY <1>1, <2>1
<1> QED
  BY <1>1, <1>2 DEF Contradicted, Prepared, PublicRecord

\* Stages are written before there is a journal, published from the prepared
\* transaction, and removed with the journal once it is complete.
LEMMA NextKeeps == FInv /\ [ForeignNext]_vars => KeepsContradiction
<1> SUFFICES ASSUME FInv, [ForeignNext]_vars,
                    NEW t \in TxIds, journal[t] # NoJournal
             PROVE  Kept(t)
  BY DEF KeepsContradiction
<1>1. CASE UNCHANGED <<journal, recordStage, ledgerStage>>
  BY <1>1, KeptFrame
<1>2. ASSUME NEW p \in Procs,
             WriteJournal(p) \/ StageRecord(p) \/ StageLedger(p) \/ Interrupt(p)
      PROVE  Kept(t)
  <2>1. CASE pc[p] \in {"journal", "stageRecord", "stageLedger"}
    <3>1. t # cur[p]
      BY <2>1 DEF FInv, HeldPhases, StagingInv, Staging
    <3> QED
      BY <1>2, <3>1, KeptFrame DEF WriteJournal, StageRecord, StageLedger, Interrupt, FInv, TypeOK
  <2>2. CASE pc[p] \notin {"journal", "stageRecord", "stageLedger"}
    BY <1>1, <1>2, <2>2 DEF WriteJournal, StageRecord, StageLedger, Interrupt, Goto
  <2> QED
    BY <2>1, <2>2
<1>3. ASSUME NEW p \in Procs, PublishRecord(p) PROVE Kept(t)
  <2>1. CASE t = cur[p]
    <3>1. /\ Prepared(t) /\ records[journal[t].entry.id] = Nil
          /\ recordStage[t] = journal[t].entry.content
          /\ t \in txdirs /\ journal[t].entry.id \in Ids
      BY <1>3, <2>1 DEF PublishRecord, Goto, FInv, HeldPhases, HeldInv, Prepared, DirInv,
         InTransaction, Publishing, Entry
    <3>2. ~Contradicted(t)
      BY <3>1, ConsistentTx
    <3>3. records'[journal[t].entry.id] = journal[t].entry.content
      BY <1>3, <2>1, <3>1 DEF PublishRecord, Publish, FInv, TypeOK
    <3>4. journal' = journal /\ ledgerStage' = ledgerStage
      BY <1>3 DEF PublishRecord
    <3> QED
      BY <3>1, <3>2, <3>3, <3>4 DEF Kept
  <2>2. CASE t # cur[p]
    BY <1>3, <2>2, KeptFrame DEF PublishRecord, Publish, FInv, TypeOK
  <2> QED
    BY <2>1, <2>2
<1>4. ASSUME NEW p \in Procs, NEW u \in TxIds, RecoverRecord(p, u) PROVE Kept(t)
  <2>1. CASE t = u /\ recordStage' # recordStage
    <3>1. /\ Prepared(t) /\ RecordSource(t) = journal[t].entry.content
          /\ t \in txdirs /\ journal[t].entry.id \in Ids
          /\ records[journal[t].entry.id] = Nil
      BY <1>4, <2>1, AcceptedTx DEF RecoverRecord, Entry
    <3>2. recordStage[t] = journal[t].entry.content
      BY <3>1 DEF RecordSource
    <3>3. ~Contradicted(t)
      BY <3>1, <3>2, ConsistentTx
    <3>4. records'[journal[t].entry.id] = journal[t].entry.content
      BY <1>4, <2>1, <3>1, <3>2 DEF RecoverRecord, Publish, FInv, TypeOK
    <3>5. journal' = journal /\ ledgerStage' = ledgerStage
      BY <1>4 DEF RecoverRecord
    <3> QED
      BY <3>2, <3>3, <3>4, <3>5 DEF Kept
  <2>2. CASE t # u \/ recordStage' = recordStage
    BY <1>4, <2>2, KeptFrame DEF RecoverRecord, Publish, FInv, TypeOK
  <2> QED
    BY <2>1, <2>2
<1>5. ASSUME NEW p \in Procs, CommitLedger(p) \/ RecoverLedger(p) PROVE Kept(t)
  <2>1. CASE t = cur[p]
    <3>1. Prepared(t) /\ PublicRecord(t) /\ t \in txdirs
      BY <1>5, <2>1 DEF CommitLedger, RecoverLedger, PublishLedger, Goto, FInv, HeldPhases,
         HeldInv, DirInv, InTransaction, Publishing, Recovering
    <3>2. ~Contradicted(t)
      BY <3>1, ConsistentTx
    <3>3. ledger = journal[t].before /\ ledger' = journal[t].after
      BY <1>5, <2>1, <3>1 DEF CommitLedger, RecoverLedger, PublishLedger, Prepared
    <3>4. journal' = journal /\ recordStage' = recordStage
      BY <1>5 DEF CommitLedger, RecoverLedger, PublishLedger
    <3> QED
      BY <3>2, <3>3, <3>4 DEF Kept
  <2>2. CASE t # cur[p]
    BY <1>5, <2>2, KeptFrame DEF CommitLedger, RecoverLedger, PublishLedger, FInv, TypeOK
  <2> QED
    BY <2>1, <2>2
<1>6. ASSUME NEW p \in Procs, CommitMark(p) \/ RecoverMark(p) PROVE Kept(t)
  <2>1. CASE t = cur[p]
    <3>1. journal[t].after = ledger /\ PublicRecord(t) /\ t \in txdirs
      BY <1>6, <2>1 DEF CommitMark, RecoverMark, Mark, Goto, FInv, HeldPhases, HeldInv, DirInv,
         InTransaction, Finishing, Recovering
    <3>2. ~Contradicted(t)
      BY <3>1, ConsistentTx
    <3>3. journal'[t].state = "COMMITTED"
      <4>1. journal[t] \in Journals /\ journal \in [TxIds -> Journals]
        BY DEF FInv, TypeOK
      <4>2. journal'[t] = [journal[t] EXCEPT !.state = "COMMITTED"]
        BY <1>6, <2>1, <4>1 DEF CommitMark, RecoverMark, Mark
      <4> QED
        BY <4>1, <4>2 DEF Journals
    <3>4. recordStage' = recordStage /\ ledgerStage' = ledgerStage
      BY <1>6 DEF CommitMark, RecoverMark, Mark
    <3> QED
      BY <3>2, <3>3, <3>4 DEF Kept, NoJournal
  <2>2. CASE t # cur[p]
    BY <1>6, <2>2, KeptFrame DEF CommitMark, RecoverMark, Mark, FInv, TypeOK
  <2> QED
    BY <2>1, <2>2
<1>7. ASSUME NEW p \in Procs, Unlink(p) PROVE Kept(t)
  <2>1. CASE t = cur[p]
    <3>1. /\ t \in txdirs /\ journal[t].state = "COMMITTED"
          /\ journal[t].after = ledger /\ PublicRecord(t)
      BY <1>7, <2>1 DEF Unlink, FInv, HeldPhases, HeldInv, DirInv, InTransaction, Recovering,
         Finishing
    <3>2. ~Contradicted(t)
      BY <3>1, ConsistentTx
    <3>3. Complete(t)
      BY <3>1, CommittedEntry DEF Complete
    <3> QED
      BY <3>2, <3>3 DEF Kept
  <2>2. CASE t # cur[p]
    BY <1>7, <2>2, KeptFrame DEF Unlink, FInv, TypeOK
  <2> QED
    BY <2>1, <2>2
<1>8. ASSUME NEW p \in Procs, Recover(p) PROVE Kept(t)
  BY <1>1, <1>4, <1>5, <1>6, <1>8 DEF Recover, ScanDone, Abandon, RecoverRefuse,
     RecoverPublished, RecoverIndex, Reindex, RecoverRmdir, Opened, OpenRefused, Fail, disk
<1>9. ASSUME NEW p \in Procs, Commit(p) PROVE Kept(t)
  BY <1>1, <1>2, <1>3, <1>5, <1>6, <1>9 DEF Commit, Duplicate, Fail, Mkdir, CommitIndex,
     Reindex, CommitRmdir, disk
<1>10. ASSUME NEW p \in Procs,
             \/ Open(p) \/ Close(p) \/ Verify(p)
             \/ Acquire(p) \/ LockTimeout(p)
             \/ \E e \in Entry : CallCommit(p, e)
             \/ \E K \in SUBSET Kinds : Read(p, K)
      PROVE  Kept(t)
  BY <1>1, <1>10 DEF Open, CallCommit, Start, Close, Verify, Acquire, LockTimeout, Read, disk
<1>11. CASE UNCHANGED vars
  BY <1>1, <1>11 DEF vars, disk
<1>12. ASSUME NEW e \in Entry, LowLevelAppend(e) PROVE Kept(t)
  BY <1>1, <1>12 DEF LowLevelAppend
<1>13. ASSUME NEW u \in TxIds, Substituted(u) PROVE Kept(t)
  <2>1. CASE t = u
    BY <1>13, <2>1 DEF Kept, Substituted, SubstituteRecord, SubstituteLedger
  <2>2. CASE t # u
    BY <1>13, <2>2, KeptFrame DEF Substituted, SubstituteRecord, SubstituteLedger, FInv, TypeOK
  <2> QED
    BY <2>1, <2>2
<1> QED
  BY <1>2, <1>7, <1>8, <1>9, <1>10, <1>11, <1>12, <1>13 DEF ForeignNext, Next, Step, Substituted

\* What contradicts a journal is neither completed nor removed, and stages and
\* journals go only by being published or after that (ContradictionKept).
THEOREM ContradictionStays == ForeignSpec => ContradictionKept
<1>1. FInv /\ [ForeignNext]_vars => [KeepsContradiction]_vars
  BY NextKeeps
<1> QED
  BY <1>1, ForeignInvariance, PTL DEF ForeignSpec, ContradictionKept, KeepsContradiction, Kept

\* What ReadsWholeHistory says of a step.
ReadsAll ==
    \A p \in Procs :
      reply'[p] # reply[p] /\ reply'[p].code = "READ" =>
        reply'[p].view = Selected(ledger, reply'[p].kinds)

\* An answer that is not a selection.
LEMMA AnswersElse ==
  ASSUME FInv, NEW p \in Procs,
         reply' = reply \/ \E a : a.code # "READ" /\ reply' = [reply EXCEPT ![p] = a]
  PROVE  ReadsAll
  BY DEF ReadsAll, FInv, TypeOK

\* Only a read answers with a selection, and that is one of the ledger on disk.
LEMMA NextReadsAll == FInv /\ [ForeignNext]_vars => ReadsAll
<1> SUFFICES ASSUME FInv, [ForeignNext]_vars PROVE ReadsAll
  OBVIOUS
<1>1. CASE UNCHANGED reply
  BY <1>1 DEF ReadsAll
<1>2. ASSUME NEW p \in Procs, NEW K \in SUBSET Kinds, Read(p, K) PROVE ReadsAll
  <2>1. CASE txdirs # {}
    BY <1>2, <2>1, AnswersElse DEF Read, Answer
  <2>2. CASE txdirs = {}
    <3>1. SelectWithIndex(K) = Selected(ledger, K)
      BY SelectionAgrees DEF FInv
    <3>2. reply' = [reply EXCEPT ![p] =
                      [code |-> "READ", kinds |-> K, view |-> Selected(ledger, K)]]
      BY <1>2, <2>2, <3>1 DEF Read
    <3> QED
      BY <3>2 DEF ReadsAll, FInv, TypeOK
  <2> QED
    BY <2>1, <2>2
<1>3. ASSUME NEW p \in Procs, Recover(p) PROVE ReadsAll
  <2>1. ASSUME NEW t \in TxIds, RecoverRefuse(p, t) PROVE ReadsAll
    <3>1. RecoveryError(t) # "READ"
      BY DEF RecoveryError
    <3> QED
      BY <2>1, <3>1, AnswersElse DEF RecoverRefuse, Fail, End, Answer
  <2>2. CASE Opened(p) \/ OpenRefused(p)
    BY <2>2, AnswersElse DEF Opened, OpenRefused, Fail, End, Answer, VerifyError
  <2> QED
    BY <1>1, <1>3, <2>1, <2>2 DEF Recover, ScanDone, Abandon, RecoverRecord, RecoverPublished,
       RecoverLedger, PublishLedger, RecoverMark, Mark, RecoverIndex, Reindex, RecoverRmdir
<1>4. ASSUME NEW p \in Procs, Commit(p) PROVE ReadsAll
  <2>1. CASE Duplicate(p) \/ CommitRmdir(p)
    BY <2>1, AnswersElse DEF Duplicate, CommitRmdir, Fail, End, Answer, EntryAnswer
  <2> QED
    BY <1>1, <1>4, <2>1 DEF Commit, Mkdir, StageRecord, StageLedger, WriteJournal,
       PublishRecord, CommitLedger, PublishLedger, CommitMark, Mark, CommitIndex, Reindex
<1>5. ASSUME NEW p \in Procs,
             \/ Open(p) \/ Close(p) \/ Interrupt(p) \/ Verify(p)
             \/ Acquire(p) \/ LockTimeout(p) \/ Unlink(p)
             \/ \E e \in Entry : CallCommit(p, e)
      PROVE  ReadsAll
  BY <1>5, AnswersElse DEF Open, CallCommit, Start, Close, Interrupt, Verify, VerifyError,
     Acquire, LockTimeout, Unlink, End, Answer
<1>6. CASE UNCHANGED vars
  BY <1>1, <1>6 DEF vars
<1>7. CASE \/ \E e \in Entry : LowLevelAppend(e)
           \/ \E t \in TxIds : SubstituteLedger(t) \/ \E c \in Contents : SubstituteRecord(t, c)
  BY <1>1, <1>7 DEF LowLevelAppend, SubstituteLedger, SubstituteRecord
<1> QED
  BY <1>2, <1>3, <1>4, <1>5, <1>6, <1>7 DEF ForeignNext, Next, Step

\* A read returns what the ledger on disk holds of the kinds asked for, even when
\* the index was built for an older ledger (ReadsWholeHistory).
THEOREM ReadsComplete == ForeignSpec => ReadsWholeHistory
<1>1. FInv /\ [ForeignNext]_vars => [ReadsAll]_vars
  BY NextReadsAll
<1> QED
  BY <1>1, ForeignInvariance, PTL DEF ForeignSpec, ReadsWholeHistory, ReadsAll
=============================================================================
