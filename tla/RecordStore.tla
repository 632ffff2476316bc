---------------------------- MODULE RecordStore -----------------------------
(***************************************************************************)
(* LocalRecordStore and Ledger: processes that share one state directory   *)
(* commit a record file and a ledger line through a journalled             *)
(* transaction, under the ledger.lock file lock, and may die or raise at   *)
(* every step.                                                             *)
(*                                                                         *)
(* A SHA-256 digest is modelled by the value it digests, so "the ledger    *)
(* has digest before" is ledger = before, and the hash chain of a ledger   *)
(* is the sequence itself.  A pair of a ledger kind and a record identity  *)
(* is one member of Ids; KindOf gives its kind.                            *)
(***************************************************************************)
EXTENDS Naturals, Sequences

CONSTANTS
    Procs,      \* operating-system processes that open the state directory
    TxIds,      \* names of transaction directories (uuid4)
    Ids,        \* record identities
    Contents,   \* canonical record bytes
    Kinds,      \* ledger kinds
    KindOf,     \* the kind of every identity
    Nil,        \* no file, no process, no transaction
    Torn        \* a file whose write was cut short

ASSUME ConstantsAssumption ==
    /\ KindOf \in [Ids -> Kinds]
    /\ Nil \notin Procs \cup TxIds \cup Ids \cup Contents
    /\ Torn \notin Contents
    /\ Nil # Torn
    /\ Nil \notin Seq([id : Ids, content : Contents])

VARIABLES
    ledger,       \* ledger.jsonl
    records,      \* the immutable record files
    index,        \* ledger-index.json
    txdirs,       \* directories under transactions/
    recordStage,  \* <txid>/record.stage
    ledgerStage,  \* <txid>/ledger.stage
    journal,      \* <txid>/journal.json
    lock,         \* holder of ledger.lock
    pc,           \* where each process is
    cur,          \* the transaction directory a process works on
    op,           \* the call a process executes
    reply         \* what the last call of a process returned or raised

disk == <<ledger, records, index, txdirs, recordStage, ledgerStage, journal>>
vars == <<disk, lock, pc, cur, op, reply>>

Entry == [id : Ids, content : Contents]

Positions(l, i) == {n \in 1..Len(l) : l[n].id = i}

Selected(l, K) ==
    [n \in {m \in 1..Len(l) : KindOf[l[m].id] \in K} |-> l[n]]

\* What a call returns or raises: a code, the kinds asked for, and entries.
Answer(c) == [code |-> c, kinds |-> {}, view |-> [n \in {} |-> Nil]]
EntryAnswer(n) == [code |-> "ENTRY", kinds |-> {}, view |-> [m \in {n} |-> ledger[m]]]

NoJournal == [state |-> "ABSENT", entry |-> Nil, before |-> <<>>, after |-> <<>>]
Journals ==
    [state : {"ABSENT", "PREPARED", "COMMITTED"}, entry : Entry \cup {Nil},
     before : Seq(Entry), after : Seq(Entry)]

\* Index data is computed from, and bound to, one ledger image.
IndexOf(l) ==
    [bound |-> l, byKind |-> [k \in Kinds |-> DOMAIN Selected(l, {k})]]

NoOp == [call |-> "none", entry |-> Nil]
OpenOp == [call |-> "open", entry |-> Nil]
CommitOp(e) == [call |-> "commit", entry |-> e]

\* Where a process goes when its call ends in an error: a constructor that
\* raises leaves no store behind, a failed commit leaves it open.
Home(p) == IF op[p].call = "open" THEN "down" ELSE "idle"

Init ==
    /\ ledger = <<>>
    /\ records = [i \in Ids |-> Nil]
    /\ index = Nil
    /\ txdirs = {}
    /\ recordStage = [t \in TxIds |-> Nil]
    /\ ledgerStage = [t \in TxIds |-> Nil]
    /\ journal = [t \in TxIds |-> NoJournal]
    /\ lock = Nil
    /\ pc = [p \in Procs |-> "down"]
    /\ cur = [p \in Procs |-> Nil]
    /\ op = [p \in Procs |-> NoOp]
    /\ reply = [p \in Procs |-> Answer("NONE")]

-----------------------------------------------------------------------------
(* Calls, the file lock and errors *)

Goto(p, from, to) == pc[p] = from /\ pc' = [pc EXCEPT ![p] = to]

\* The call of p ends with answer a and p goes to l; `with self.lock` exits.
End(p, a, l) ==
    /\ reply' = [reply EXCEPT ![p] = a]
    /\ pc' = [pc EXCEPT ![p] = l]
    /\ op' = [op EXCEPT ![p] = NoOp]
    /\ cur' = [cur EXCEPT ![p] = Nil]
    /\ lock' = IF lock = p THEN Nil ELSE lock

Start(p, from, o) ==
    /\ Goto(p, from, "lock")
    /\ op' = [op EXCEPT ![p] = o]
    /\ reply' = [reply EXCEPT ![p] = Answer("NONE")]
    /\ UNCHANGED <<disk, lock, cur>>

\* A process constructs the store, which recovers on open.
Open(p) == Start(p, "down", OpenOp)

\* commit() has validated type, version, identity and size of the record.
CallCommit(p, e) == Start(p, "idle", CommitOp(e))

\* A process that is in no call ends; opening again is a new process.
Close(p) ==
    /\ Goto(p, "idle", "down")
    /\ reply' = [reply EXCEPT ![p] = Answer("NONE")]
    /\ UNCHANGED <<disk, lock, cur, op>>

\* Fault: the lock is not exclusive.
AcquireShared(p) ==
    /\ Goto(p, "lock", "scan")
    /\ lock' = p
    /\ UNCHANGED <<disk, cur, op, reply>>

Acquire(p) ==
    /\ Goto(p, "lock", "scan")
    /\ lock = Nil
    /\ lock' = p
    /\ UNCHANGED <<disk, cur, op, reply>>

\* FileLock gives up after its timeout while another process holds the lock.
LockTimeout(p) ==
    /\ pc[p] = "lock"
    /\ lock # Nil
    /\ End(p, Answer("TIMEOUT"), Home(p))
    /\ UNCHANGED disk

\* A process is killed, or a system call or failpoint raises, at any step
\* under the lock; the stage being written may be left torn.
Interrupt(p) ==
    /\ lock = p
    /\ \E l \in {"down", Home(p)} : End(p, Answer("INTERRUPTED"), l)
    /\ \/ UNCHANGED <<recordStage, ledgerStage>>
       \/ /\ pc[p] = "stageRecord"
          /\ recordStage' = [recordStage EXCEPT ![cur[p]] = Torn]
          /\ UNCHANGED ledgerStage
       \/ /\ pc[p] = "stageLedger"
          /\ ledgerStage' = [ledgerStage EXCEPT ![cur[p]] = Torn]
          /\ UNCHANGED recordStage
    /\ UNCHANGED <<ledger, records, index, txdirs, journal>>

\* A step under the lock ends the call with an error.
Fail(p, code) == End(p, Answer(code), Home(p)) /\ UNCHANGED disk

-----------------------------------------------------------------------------
(* _recover_unlocked: what every commit and every open does first *)

\* No transaction directory is left.
ScanDone(p) ==
    /\ txdirs = {}
    /\ Goto(p, "scan", IF op[p].call = "commit" THEN "prepare" ELSE "verify")
    /\ UNCHANGED <<disk, lock, cur, op, reply>>

\* Fault: a transaction that is not yet COMMITTED is taken for abandoned.
AbandonPrepared(p, t) ==
    /\ t \in txdirs
    /\ journal[t].state # "COMMITTED"
    /\ Goto(p, "scan", "recoverRmtree")
    /\ cur' = [cur EXCEPT ![p] = t]
    /\ UNCHANGED <<disk, lock, op, reply>>

\* Staging without a journal is abandoned.
Abandon(p, t) ==
    /\ t \in txdirs
    /\ journal[t] = NoJournal
    /\ Goto(p, "scan", "recoverRmtree")
    /\ cur' = [cur EXCEPT ![p] = t]
    /\ UNCHANGED <<disk, lock, op, reply>>

\* Fault: recovery looks only at the stage.
RecordSourceStage(t) == recordStage[t]

\* Fault: recovery does not compare the bytes of the record.
RecordSourceUnchecked(t) == journal[t].entry.content

\* The bytes recovery takes for the record: the final file before the stage.
RecordSource(t) ==
    LET i == journal[t].entry.id
    IN  IF records[i] # Nil THEN records[i] ELSE recordStage[t]

\* Why _recover_transaction_unlocked refuses transaction t; "" if it does not.
RecoveryError(t) ==
    LET j == journal[t]
    IN  CASE RecordSource(t) = Nil -> "RECOVERY_AMBIGUOUS"
          [] RecordSource(t) # Nil /\ RecordSource(t) # j.entry.content
               -> "RECOVERY_STAGE_MISMATCH"
          [] RecordSource(t) = j.entry.content /\ ledger = j.before
               -> IF j.state = "COMMITTED" \/ ledgerStage[t] = Nil
                  THEN "RECOVERY_AMBIGUOUS"
                  ELSE IF ledgerStage[t] # j.after
                       THEN "RECOVERY_STAGE_MISMATCH" ELSE ""
          [] RecordSource(t) = j.entry.content /\ ledger = j.after
               -> IF records[j.entry.id] = Nil THEN "RECOVERY_AMBIGUOUS" ELSE ""
          [] OTHER -> "RECOVERY_LEDGER_CONFLICT"

\* Fault: a stage that is not what the journal says is removed on the way out.
RecoverRefuseTidily(p, t) ==
    /\ pc[p] = "scan"
    /\ t \in txdirs
    /\ journal[t] # NoJournal
    /\ RecoveryError(t) # ""
    /\ End(p, Answer(RecoveryError(t)), Home(p))
    /\ recordStage' = [recordStage EXCEPT ![t] =
                         IF RecoveryError(t) = "RECOVERY_STAGE_MISMATCH" THEN Nil ELSE @]
    /\ UNCHANGED <<ledger, records, index, txdirs, ledgerStage, journal>>

RecoverRefuse(p, t) ==
    /\ pc[p] = "scan"
    /\ t \in txdirs
    /\ journal[t] # NoJournal
    /\ RecoveryError(t) # ""
    /\ Fail(p, RecoveryError(t))

Publish(t) ==
    LET e == journal[t].entry
    IN  /\ records' = [records EXCEPT ![e.id] = recordStage[t]]
        /\ recordStage' = [recordStage EXCEPT ![t] = Nil]

\* Fault: the staged ledger is published whatever the ledger is now.
RecoverRecordBlindly(p, t) ==
    /\ t \in txdirs
    /\ journal[t] # NoJournal
    /\ ledgerStage[t] = journal[t].after
    /\ recordStage[t] = journal[t].entry.content
    /\ Goto(p, "scan", "recoverMark")
    /\ cur' = [cur EXCEPT ![p] = t]
    /\ ledger' = ledgerStage[t]
    /\ ledgerStage' = [ledgerStage EXCEPT ![t] = Nil]
    /\ Publish(t)
    /\ UNCHANGED <<index, txdirs, journal, lock, op, reply>>

\* The old ledger: the recorded transaction is completed from its stages.
RecoverRecord(p, t) ==
    /\ t \in txdirs
    /\ journal[t] # NoJournal
    /\ RecoveryError(t) = ""
    /\ ledger = journal[t].before
    /\ Goto(p, "scan", "recoverLedger")
    /\ cur' = [cur EXCEPT ![p] = t]
    /\ IF records[journal[t].entry.id] = Nil
       THEN Publish(t) ELSE UNCHANGED <<records, recordStage>>
    /\ UNCHANGED <<ledger, index, txdirs, ledgerStage, journal, lock, op, reply>>

\* Fault: a transaction that is not the old ledger's is taken for published.
RecoverPublishedUnchecked(p, t) ==
    /\ t \in txdirs
    /\ journal[t] # NoJournal
    /\ ledger # journal[t].before
    /\ Goto(p, "scan", "recoverMark")
    /\ cur' = [cur EXCEPT ![p] = t]
    /\ UNCHANGED <<disk, lock, op, reply>>

\* The new ledger and record are already public.
RecoverPublished(p, t) ==
    /\ t \in txdirs
    /\ journal[t] # NoJournal
    /\ RecoveryError(t) = ""
    /\ ledger = journal[t].after
    /\ Goto(p, "scan", "recoverMark")
    /\ cur' = [cur EXCEPT ![p] = t]
    /\ UNCHANGED <<disk, lock, op, reply>>

\* os.replace(ledger.stage, ledger.jsonl), after the predecessor was compared.
PublishLedger(p, from, to) ==
    LET t == cur[p]
    IN  /\ Goto(p, from, to)
        /\ ledger = journal[t].before
        /\ ledger' = ledgerStage[t]
        /\ ledgerStage' = [ledgerStage EXCEPT ![t] = Nil]
        /\ UNCHANGED <<records, index, txdirs, recordStage, journal,
                       lock, cur, op, reply>>

RecoverLedger(p) == PublishLedger(p, "recoverLedger", "recoverMark")

\* The journal is rewritten as COMMITTED.
Mark(p, from, to) ==
    /\ Goto(p, from, to)
    /\ journal' = [journal EXCEPT ![cur[p]].state = "COMMITTED"]
    /\ UNCHANGED <<ledger, records, index, txdirs, recordStage, ledgerStage,
                   lock, cur, op, reply>>

RecoverMark(p) == Mark(p, "recoverMark", "recoverIndex")

\* _rebuild_index_unlocked
Reindex(p, from, to) ==
    /\ Goto(p, from, to)
    /\ index' = IndexOf(ledger)
    /\ UNCHANGED <<ledger, records, txdirs, recordStage, ledgerStage, journal,
                   lock, cur, op, reply>>

RecoverIndex(p) == Reindex(p, "recoverIndex", "recoverRmtree")

\* shutil.rmtree unlinks the files of the directory one at a time, in any
\* order ...
Unlink(p) ==
    /\ pc[p] \in {"recoverRmtree", "rmtree"}
    /\ LET t == cur[p]
       IN  \/ /\ recordStage[t] # Nil
              /\ recordStage' = [recordStage EXCEPT ![t] = Nil]
              /\ UNCHANGED <<ledgerStage, journal>>
           \/ /\ ledgerStage[t] # Nil
              /\ ledgerStage' = [ledgerStage EXCEPT ![t] = Nil]
              /\ UNCHANGED <<recordStage, journal>>
           \/ /\ journal[t] # NoJournal
              /\ journal' = [journal EXCEPT ![t] = NoJournal]
              /\ UNCHANGED <<recordStage, ledgerStage>>
    /\ UNCHANGED <<ledger, records, index, txdirs, lock, pc, cur, op, reply>>

Empty(t) == recordStage[t] = Nil /\ ledgerStage[t] = Nil /\ journal[t] = NoJournal

\* Fault: the emptied directory stays.
RecoverNoRmdir(p) ==
    /\ Goto(p, "recoverRmtree", "scan")
    /\ Empty(cur[p])
    /\ cur' = [cur EXCEPT ![p] = Nil]
    /\ UNCHANGED <<disk, lock, op, reply>>

\* ... and removes the directory last.  Recovery looks for the next one.
RecoverRmdir(p) ==
    /\ Goto(p, "recoverRmtree", "scan")
    /\ Empty(cur[p])
    /\ txdirs' = txdirs \ {cur[p]}
    /\ cur' = [cur EXCEPT ![p] = Nil]
    /\ UNCHANGED <<ledger, records, index, recordStage, ledgerStage, journal,
                   lock, op, reply>>

-----------------------------------------------------------------------------
(* recover(): the rest of an open *)

\* _verify_immutable_records_unlocked
MissingFile == \E n \in 1..Len(ledger) : records[ledger[n].id] = Nil
WrongFile ==
    \E n \in 1..Len(ledger) : records[ledger[n].id] # ledger[n].content

VerifyError ==
    IF MissingFile THEN "RECORD_FILE_MISSING"
    ELSE IF WrongFile THEN "RECORD_FILE_MISMATCH" ELSE ""

Opened(p) ==
    /\ pc[p] = "verify"
    /\ VerifyError = ""
    /\ index' = IF index = Nil THEN Nil ELSE IndexOf(ledger)
    /\ End(p, Answer("OPENED"), "idle")
    /\ UNCHANGED <<ledger, records, txdirs, recordStage, ledgerStage, journal>>

OpenRefused(p) ==
    /\ pc[p] = "verify"
    /\ VerifyError # ""
    /\ Fail(p, VerifyError)

-----------------------------------------------------------------------------
(* commit(): the body of the transaction *)

\* _resolve_duplicate: the identity has a file or an entry already.
Duplicate(p) ==
    LET e == op[p].entry
        found == Positions(ledger, e.id)
    IN  /\ pc[p] = "prepare"
        /\ records[e.id] # Nil \/ found # {}
        /\ \/ /\ records[e.id] = Nil \/ ~\E n \in found : found = {n}
              /\ Fail(p, "RECORD_STORAGE_CONFLICT")
           \/ \E n \in found :
                /\ records[e.id] # Nil /\ found = {n}
                /\ IF records[e.id] = e.content /\ ledger[n] = e
                   THEN End(p, EntryAnswer(n), "idle") /\ UNCHANGED disk
                   ELSE Fail(p, "RECORD_EXISTS")

\* Fault: the identity is not looked up before a new transaction.
MkdirUnchecked(p, t) ==
    /\ Goto(p, "prepare", "stageRecord")
    /\ t \notin txdirs
    /\ txdirs' = txdirs \cup {t}
    /\ cur' = [cur EXCEPT ![p] = t]
    /\ UNCHANGED <<ledger, records, index, recordStage, ledgerStage,
                   journal, lock, op, reply>>

Mkdir(p, t) ==
    LET e == op[p].entry
    IN  /\ Goto(p, "prepare", "stageRecord")
        /\ records[e.id] = Nil
        /\ Positions(ledger, e.id) = {}
        /\ t \notin txdirs
        /\ txdirs' = txdirs \cup {t}
        /\ cur' = [cur EXCEPT ![p] = t]
        /\ UNCHANGED <<ledger, records, index, recordStage, ledgerStage,
                       journal, lock, op, reply>>

\* Fault: a short os.write is not continued.
StageRecordShort(p) ==
    /\ Goto(p, "stageRecord", "stageLedger")
    /\ \E b \in {op[p].entry.content, Torn} :
          recordStage' = [recordStage EXCEPT ![cur[p]] = b]
    /\ UNCHANGED <<ledger, records, index, txdirs, ledgerStage, journal,
                   lock, cur, op, reply>>

StageRecord(p) ==
    /\ Goto(p, "stageRecord", "stageLedger")
    /\ recordStage' = [recordStage EXCEPT ![cur[p]] = op[p].entry.content]
    /\ UNCHANGED <<ledger, records, index, txdirs, ledgerStage, journal,
                   lock, cur, op, reply>>

StageLedger(p) ==
    /\ Goto(p, "stageLedger", "journal")
    /\ ledgerStage' = [ledgerStage EXCEPT ![cur[p]] = Append(ledger, op[p].entry)]
    /\ UNCHANGED <<ledger, records, index, txdirs, recordStage, journal,
                   lock, cur, op, reply>>

\* The journal appears whole, by rename.
WriteJournal(p) ==
    /\ Goto(p, "journal", "publishRecord")
    /\ journal' = [journal EXCEPT ![cur[p]] =
                     [state |-> "PREPARED", entry |-> op[p].entry,
                      before |-> ledger, after |-> Append(ledger, op[p].entry)]]
    /\ UNCHANGED <<ledger, records, index, txdirs, recordStage, ledgerStage,
                   lock, cur, op, reply>>

PublishRecord(p) ==
    /\ Goto(p, "publishRecord", "publishLedger")
    /\ Publish(cur[p])
    /\ UNCHANGED <<ledger, index, txdirs, ledgerStage, journal, lock, cur, op, reply>>

CommitMark(p) == Mark(p, "mark", "index")
CommitIndex(p) == Reindex(p, "index", "rmtree")

\* Fault: the caller is answered while the record is public and the ledger
\* is not.
CommitLedgerEarly(p) ==
    /\ pc[p] = "publishLedger"
    /\ End(p, [code |-> "ENTRY", kinds |-> {},
               view |-> [n \in {Len(ledger) + 1} |-> journal[cur[p]].entry]], "idle")
    /\ UNCHANGED disk

CommitLedger(p) == PublishLedger(p, "publishLedger", "mark")

\* The transaction directory is gone; the caller gets the new entry.
CommitRmdir(p) ==
    /\ pc[p] = "rmtree"
    /\ Empty(cur[p])
    /\ txdirs' = txdirs \ {cur[p]}
    /\ End(p, EntryAnswer(Len(ledger)), "idle")
    /\ UNCHANGED <<ledger, records, index, recordStage, ledgerStage, journal>>

-----------------------------------------------------------------------------
(* Readers: Ledger.records, records_for and verify, atomic under the lock *)

\* Fault: the index is used although it was built for another ledger.
SelectWithStaleIndex(K) ==
    IF index # Nil
    THEN [n \in UNION {index.byKind[k] : k \in K} |-> ledger[n]]
    ELSE Selected(ledger, K)

\* The index is used only when it is bound to the ledger that was read.
SelectWithIndex(K) ==
    IF index # Nil /\ index.bound = ledger
    THEN [n \in UNION {index.byKind[k] : k \in K} |-> ledger[n]]
    ELSE Selected(ledger, K)

\* Fault: a read does not look for unresolved transactions.
ReadUnrecovered(p, K) ==
    /\ pc[p] = "idle"
    /\ lock = Nil
    /\ reply' = [reply EXCEPT ![p] =
                   [code |-> "READ", kinds |-> K, view |-> SelectWithIndex(K)]]
    /\ UNCHANGED <<disk, lock, pc, cur, op>>

Read(p, K) ==
    /\ pc[p] = "idle"
    /\ lock = Nil
    /\ reply' = [reply EXCEPT ![p] =
                   IF txdirs # {} THEN Answer("RECOVERY_REQUIRED")
                   ELSE [code |-> "READ", kinds |-> K, view |-> SelectWithIndex(K)]]
    /\ UNCHANGED <<disk, lock, pc, cur, op>>

Verify(p) ==
    /\ pc[p] = "idle"
    /\ lock = Nil
    /\ reply' = [reply EXCEPT ![p] =
                   IF txdirs # {} THEN Answer("RECOVERY_REQUIRED")
                   ELSE IF VerifyError # "" THEN Answer(VerifyError)
                   ELSE Answer("VERIFIED")]
    /\ UNCHANGED <<disk, lock, pc, cur, op>>

-----------------------------------------------------------------------------

Recover(p) ==
    \/ ScanDone(p)
    \/ \E t \in TxIds : \/ Abandon(p, t) \/ RecoverRefuse(p, t)
                        \/ RecoverRecord(p, t) \/ RecoverPublished(p, t)
    \/ RecoverLedger(p) \/ RecoverMark(p) \/ RecoverIndex(p) \/ RecoverRmdir(p)
    \/ Opened(p) \/ OpenRefused(p)

Commit(p) ==
    \/ Duplicate(p) \/ \E t \in TxIds : Mkdir(p, t)
    \/ StageRecord(p) \/ StageLedger(p) \/ WriteJournal(p)
    \/ PublishRecord(p) \/ CommitLedger(p) \/ CommitMark(p) \/ CommitIndex(p)
    \/ CommitRmdir(p)

\* What a process does by itself once it has been called.
Step(p) == Acquire(p) \/ LockTimeout(p) \/ Recover(p) \/ Commit(p) \/ Unlink(p)

Next ==
    \E p \in Procs :
       \/ Open(p) \/ Close(p) \/ Step(p) \/ Interrupt(p) \/ Verify(p)
       \/ \E e \in Entry : CallCommit(p, e)
       \/ \E K \in SUBSET Kinds : Read(p, K)

Spec == Init /\ [][Next]_vars

\* A process that is inside a call keeps running; nobody has to call.
FairSpec == Spec /\ \A p \in Procs : WF_vars(Step(p))
-----------------------------------------------------------------------------
(* Properties *)

Locations ==
    {"down", "idle", "lock", "scan", "recoverLedger", "recoverMark",
     "recoverIndex", "recoverRmtree", "verify", "prepare", "stageRecord",
     "stageLedger", "journal", "publishRecord", "publishLedger", "mark",
     "index", "rmtree"}

RecoveryErrors ==
    {"RECOVERY_AMBIGUOUS", "RECOVERY_STAGE_MISMATCH", "RECOVERY_LEDGER_CONFLICT"}
ContradictionErrors ==
    RecoveryErrors \cup
    {"RECORD_STORAGE_CONFLICT", "RECORD_FILE_MISSING", "RECORD_FILE_MISMATCH"}
Codes ==
    {"NONE", "OPENED", "VERIFIED", "ENTRY", "READ", "TIMEOUT", "INTERRUPTED",
     "RECOVERY_REQUIRED", "RECORD_EXISTS"} \cup ContradictionErrors

\* Every variable of the store and of its processes has its type.
TypeOK ==
    /\ ledger \in Seq(Entry)
    /\ records \in [Ids -> Contents \cup {Nil}]
    /\ \/ index = Nil
       \/ index.bound \in Seq(Entry) /\ index = IndexOf(index.bound)
    /\ txdirs \subseteq TxIds
    /\ recordStage \in [TxIds -> Contents \cup {Nil, Torn}]
    /\ ledgerStage \in [TxIds -> Seq(Entry) \cup {Nil, Torn}]
    /\ journal \in [TxIds -> Journals]
    /\ lock \in Procs \cup {Nil}
    /\ pc \in [Procs -> Locations]
    /\ cur \in [Procs -> TxIds \cup {Nil}]
    /\ op \in [Procs -> [call : {"none", "open", "commit"}, entry : Entry \cup {Nil}]]
    /\ DOMAIN reply = Procs
    /\ \A p \in Procs : reply[p].code \in Codes

\* docs/storage.md: recovery converges to no record and no entry, or to one
\* record and one entry.  With no transaction directory left, the record
\* files are exactly the ledger, each identity occurring once.
OldOrNew ==
    txdirs = {} =>
      /\ \A n \in 1..Len(ledger) : records[ledger[n].id] = ledger[n].content
      /\ \A i \in Ids :
            records[i] # Nil => \E n \in 1..Len(ledger) : Positions(ledger, i) = {n}

\* Crashes and raised errors of cooperating processes alone never leave a
\* state that recovery, duplicate resolution or verification refuses: no
\* interruption of commit() or of recovery itself wedges the store.
CrashesNeverWedge == \A p \in Procs : reply[p].code \notin ContradictionErrors

\* An entry that commit() or a read has returned is on disk, at the sequence
\* number it was returned with and with its record file, as long as the
\* caller holds it, whatever crashes follow.
RepliesDurable ==
    \A p \in Procs : \A n \in DOMAIN reply[p].view :
        /\ n \in 1..Len(ledger)
        /\ ledger[n] = reply[p].view[n]
        /\ records[ledger[n].id] = ledger[n].content

\* _assert_expected_ledger and _assert_recovery_predecessor never find the
\* ledger changed: when a process is about to replace ledger.jsonl, the
\* staged image extends the current ledger by exactly the journalled entry,
\* and no other transaction is unresolved.
PublishExtends ==
    \A p \in Procs :
        pc[p] \in {"publishLedger", "recoverLedger"} =>
          /\ journal[cur[p]].before = ledger
          /\ ledgerStage[cur[p]] = Append(ledger, journal[cur[p]].entry)
          /\ txdirs = {cur[p]}

\* History is append-only: a step extends the ledger by at most one entry,
\* and a record file, once there, is never replaced or removed.
AppendOnly ==
    [][/\ ledger' = ledger \/ \E e \in Entry : ledger' = Append(ledger, e)
       /\ \A i \in Ids : records[i] # Nil => records'[i] = records[i]]_vars

\* The decided log: a PREPARED journal on the old ledger is already decided,
\* because every later recovery completes it and none abandons it.
Pending == {t \in txdirs : journal[t].state = "PREPARED" /\ journal[t].before = ledger}

Decided ==
    IF Pending = {} THEN ledger ELSE journal[CHOOSE t \in Pending : TRUE].after

DecidedFiles ==
    [i \in Ids |->
       IF \E t \in Pending : journal[t].entry.id = i
       THEN (journal[CHOOSE t \in Pending : TRUE]).entry.content
       ELSE records[i]]

Abstract == INSTANCE AtomicLedger WITH log <- Decided, files <- DecidedFiles

\* The journalled store implements the atomic ledger: record and entry are
\* decided together by the rename of journal.json, and every answer a caller
\* gets describes the decided history at that instant.
ImplementsAtomicLedger == Abstract!ASpec

\* Every open and every commit ends, by a result or by an error: the lock is
\* always released and the recovery loop makes progress.
EveryCallReturns ==
    \A p \in Procs : pc[p] \notin {"idle", "down"} ~> pc[p] \in {"idle", "down"}
=============================================================================
