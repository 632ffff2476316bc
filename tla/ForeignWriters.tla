--------------------------- MODULE ForeignWriters ---------------------------
(***************************************************************************)
(* The record store next to writers that do not use its transactions:      *)
(* Ledger.append, the low-level append kept for compatibility, and an      *)
(* environment that substitutes bytes staged by an interrupted commit.     *)
(* The store may then refuse to work, but must never build on the          *)
(* contradiction or delete the evidence of it.                             *)
(***************************************************************************)
EXTENDS RecordStore

CONSTANT MaxLedger      \* Append, which could go on for ever, happens below this length

ASSUME MaxLedgerAssumption == MaxLedger \in Nat

\* Ledger.append: one line under the lock, with no companion file, no index
\* and no look at unresolved transactions.
LowLevelAppend(e) ==
    /\ lock = Nil
    /\ Len(ledger) < MaxLedger
    /\ ledger' = Append(ledger, e)
    /\ UNCHANGED <<records, index, txdirs, recordStage, ledgerStage, journal,
                   lock, pc, cur, op, reply>>

\* Staged record bytes are replaced while no cooperating process is at work.
SubstituteRecord(t, c) ==
    /\ lock = Nil
    /\ recordStage[t] \in Contents
    /\ recordStage' = [recordStage EXCEPT ![t] = c]
    /\ UNCHANGED <<ledger, records, index, txdirs, ledgerStage, journal,
                   lock, pc, cur, op, reply>>

\* The staged ledger image loses its last line or disappears.
SubstituteLedger(t) ==
    /\ lock = Nil
    /\ ledgerStage[t] \notin {Nil, Torn}
    /\ \E s \in {Torn, Nil} : ledgerStage' = [ledgerStage EXCEPT ![t] = s]
    /\ UNCHANGED <<ledger, records, index, txdirs, recordStage, journal,
                   lock, pc, cur, op, reply>>

ForeignNext ==
    \/ Next
    \/ \E e \in Entry : LowLevelAppend(e)
    \/ \E t \in TxIds : SubstituteLedger(t) \/ \E c \in Contents : SubstituteRecord(t, c)

ForeignSpec == Init /\ [][ForeignNext]_vars

-----------------------------------------------------------------------------

\* docs/storage.md: recovery never rebases a prepared transaction onto a
\* different head.  A journal says COMMITTED only when the ledger begins with
\* exactly the image that was prepared and the record holds the journalled
\* bytes, whatever was appended or substituted in between.
CommittedAsPrepared ==
    \A t \in txdirs :
        LET j == journal[t]
        IN  j.state = "COMMITTED" =>
              /\ \A n \in 1..Len(j.after) : n <= Len(ledger) /\ ledger[n] = j.after[n]
              /\ records[j.entry.id] = j.entry.content

\* The journal was marked and the ledger holds its entry.
Complete(t) ==
    /\ journal[t].state = "COMMITTED"
    /\ journal[t].entry \in {ledger[n] : n \in 1..Len(ledger)}

\* What is on disk is not what transaction t prepared: its ledger image no
\* longer follows the ledger, or the record or the staged ledger is not its own.
Contradicted(t) ==
    LET j == journal[t]
    IN  /\ j # NoJournal
        /\ \/ ledger \notin {j.before, j.after}
           \/ records[j.entry.id] \notin {Nil, j.entry.content}
           \/ records[j.entry.id] = Nil /\ recordStage[t] # j.entry.content
           \/ ledger = j.before /\ (j.state = "COMMITTED" \/ ledgerStage[t] # j.after)
           \/ ledger = j.after /\ records[j.entry.id] = Nil

Substituted(t) == SubstituteLedger(t) \/ \E c \in Contents : SubstituteRecord(t, c)

\* docs/storage.md: contradictory material is not deleted.  While what is on
\* disk contradicts a journal, no step of the store marks or removes the
\* journal or touches a stage beside it.  Otherwise a stage beside a journal
\* goes only by becoming the record or the ledger that was journalled, and
\* stages and journal may all go once the transaction is complete.  Only the
\* other program that substitutes stages is exempt.
ContradictionKept ==
    [][\A t \in TxIds : journal[t] # NoJournal =>
         LET j == journal[t]
         IN  /\ Contradicted(t) =>
                  \/ /\ journal'[t] = j
                     /\ recordStage'[t] = recordStage[t]
                     /\ ledgerStage'[t] = ledgerStage[t]
                  \/ Substituted(t)
             /\ journal'[t] = NoJournal => Complete(t)
             /\ recordStage'[t] # recordStage[t] =>
                  \/ Complete(t)
                  \/ recordStage[t] = j.entry.content /\ records'[j.entry.id] = j.entry.content
                  \/ Substituted(t)
             /\ ledgerStage'[t] # ledgerStage[t] =>
                  \/ Complete(t)
                  \/ ledger = j.before /\ ledger' = j.after
                  \/ Substituted(t)]_vars

\* A read by kind returns every ledger entry of the kinds asked for, in the
\* ledger that is on disk, even when the index was built for an older one.
ReadsWholeHistory ==
    [][\A p \in Procs :
         reply'[p] # reply[p] /\ reply'[p].code = "READ" =>
            reply'[p].view = Selected(ledger, reply'[p].kinds)]_vars

\* No answer depends on a record that was substituted: a record file holds
\* the bytes of a journalled entry or, once its journal is gone, of an entry
\* of the ledger.
OnlyPreparedBytes ==
    \A i \in Ids : records[i] # Nil =>
        \/ \E t \in txdirs : journal[t].entry = [id |-> i, content |-> records[i]]
        \/ \E n \in 1..Len(ledger) : ledger[n] = [id |-> i, content |-> records[i]]
=============================================================================
