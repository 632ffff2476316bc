---------------------------- MODULE AtomicLedger ----------------------------
(***************************************************************************)
(* What LocalRecordStore promises to the rest of Forge: one log of typed   *)
(* records.  A record enters the log and becomes a file in one step, an    *)
(* identity enters at most once, nothing is ever removed or rewritten, and *)
(* every answer given to a caller describes the log at that instant.       *)
(***************************************************************************)
EXTENDS Naturals, Sequences

CONSTANTS Procs, Ids, Contents, Kinds, KindOf, Nil

VARIABLES log, files, reply

absVars == <<log, files, reply>>

Entry == [id : Ids, content : Contents]

\* The sequence numbers at which identity i occurs in history l.
Positions(l, i) == {n \in 1..Len(l) : l[n].id = i}

\* The entries of history l whose kind is in K, by sequence number.
Selected(l, K) ==
    [n \in {m \in 1..Len(l) : KindOf[l[m].id] \in K} |-> l[n]]

\* What a call returns or raises: a code, the kinds asked for, and entries.
Answer(c) == [code |-> c, kinds |-> {}, view |-> [n \in {} |-> Nil]]
EntryAnswer(l, n) == [code |-> "ENTRY", kinds |-> {}, view |-> [m \in {n} |-> l[m]]]

AInit ==
    /\ log = <<>>
    /\ files = [i \in Ids |-> Nil]
    /\ reply = [p \in Procs |-> Answer("NONE")]

\* A new identity is decided: the log and the file change together.
ACommit(e) ==
    /\ Positions(log, e.id) = {}
    /\ log' = Append(log, e)
    /\ files' = [files EXCEPT ![e.id] = e.content]
    /\ UNCHANGED reply

\* A caller is handed an entry that the log holds.
AReturnEntry(p) ==
    /\ \E n \in 1..Len(log) :
          reply' = [reply EXCEPT ![p] = EntryAnswer(log, n)]
    /\ UNCHANGED <<log, files>>

\* A caller reads the part of the log that has the kinds K.
ARead(p) ==
    /\ \E K \in SUBSET Kinds :
          reply' = [reply EXCEPT ![p] =
                      [code |-> "READ", kinds |-> K, view |-> Selected(log, K)]]
    /\ UNCHANGED <<log, files>>

\* An immutable identity is refused only when the log already has it.
ARefuse(p) ==
    /\ log # <<>>
    /\ reply' = [reply EXCEPT ![p] = Answer("RECORD_EXISTS")]
    /\ UNCHANGED <<log, files>>

\* Calls start, time out, fail or find work that has to be recovered first.
AOther(p) ==
    /\ \E c \in {"NONE", "OPENED", "VERIFIED", "TIMEOUT", "INTERRUPTED",
                 "RECOVERY_REQUIRED"} :
          reply' = [reply EXCEPT ![p] = Answer(c)]
    /\ UNCHANGED <<log, files>>

ANext ==
    \/ \E e \in Entry : ACommit(e)
    \/ \E p \in Procs : AReturnEntry(p) \/ ARead(p) \/ ARefuse(p) \/ AOther(p)

ASpec == AInit /\ [][ANext]_absVars
=============================================================================
