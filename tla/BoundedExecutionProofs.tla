----------------------- MODULE BoundedExecutionProofs -----------------------
(***************************************************************************)
(* Proofs about module BoundedExecution, for every cap, chunk, pipe size,  *)
(* request and output bound.  A complete receipt describes the whole       *)
(* output because bytes are conserved on their way from the command to the *)
(* collector, and a stream is only dropped at an end of file, after which  *)
(* nobody can write to it any more.                                        *)
(***************************************************************************)
EXTENDS BoundedExecution, TLAPS

\* The capture of a stream after k bytes.
Counts(cp, k, limit) ==
    /\ cp.observed = k
    /\ cp.retained = Least(k, limit)
    /\ cp.limit_hit <=> k > limit
    /\ cp.possible <=> k <= limit

Captures == [observed : Nat, retained : Nat, limit_hit : BOOLEAN, possible : BOOLEAN]

\* A reader that feeds its buffer to a capture, and what the capture has of it.
Feeding == {"retain", "limit"}
Ahead(s, stages) == IF reader[s] \in stages THEN buf[s] ELSE 0

\* The capture of a stream, one assignment of feed after the other.
Captured(s) ==
    /\ capture[s].observed = chunks[s] + Ahead(s, Feeding)
    /\ capture[s].retained = Least(chunks[s] + Ahead(s, {"limit"}), Cap[s])
    /\ capture[s].limit_hit <=> chunks[s] > Cap[s]
    /\ capture[s].possible <=> chunks[s] <= Cap[s]

\* A byte written is in the pipe, in a reader's buffer, or collected; the
\* capture has counted what was collected.
Conserved ==
    \A s \in Streams :
        /\ written[s] = pipe[s] + buf[s] + chunks[s]
        /\ Captured(s)

\* The stream has ended, all of it is collected and it fits its cap.
Whole(s) == Eof(s) /\ buf[s] = 0 /\ chunks[s] <= Cap[s]

\* Which streams the collectors have let go of, and why.
Collecting ==
    /\ platform = "posix" => \A s \in Streams : reader[s] = "off" /\ buf[s] = 0
    /\ pc \in {"loop", "poll", "read"} =>
         /\ platform = "posix"
         /\ \A s \in Streams : chunks[s] <= Cap[s] /\ (s \notin registered => Whole(s))
    /\ pc = "poll" => registered # {}
    /\ pc = "read" => events # <<>>
    /\ \A s \in Streams :
         /\ reader[s] = "over" => chunks[s] > Cap[s]
         /\ reader[s] \in {"reading"} \cup Feeding => chunks[s] <= Cap[s]
         /\ reader[s] \in Feeding => buf[s] > 0
         /\ reader[s] = "ended" => Whole(s) \/ (overflow /\ chunks[s] > Cap[s])
    /\ overflow => \E s \in Streams : chunks[s] > Cap[s]

\* The parent makes the snapshots of an observation while readers may feed.
Snapping == {"retained", "truncated", "observed"}

\* How the exception under way relates to what happened.
Ending ==
    /\ pc \in {"start", "stdin", "loop", "poll", "read", "nt", "ntDeadline", "wait"} =>
         error = "none"
    /\ pc \in {"start", "stdin"} => \A s \in Streams : reader[s] = "off" /\ chunks[s] = 0
    /\ pc \in {"term", "termWait", "killWait"} => error # "none"
    /\ pc \in {"wait", "finally", "report", "session", "done"} /\ error = "none" =>
         \A s \in Streams : Whole(s)
    /\ pc \in {"finally", "report", "session", "done"} /\ error = "none" => LeaderGone
    /\ pc \in {"report", "session", "done"} \cup Snapping /\ error # "TimeoutExpired" => LeaderGone
    /\ pc \in Snapping => ~Quiet /\ error # "TimeoutExpired"
    /\ pc = "start" => LeaderGone
    /\ error = "OUTPUT_LIMIT" => \E s \in Streams : chunks[s] > Cap[s]

\* Which fields of the snapshots have been read.
Passed(s) == pc \in {"session", "done"} \/ (pc \in Snapping /\ shot = "stderr" /\ s = "stdout")
RetainedRead(s) == Passed(s) \/ (pc \in {"truncated", "observed"} /\ s = shot)
TruncatedRead(s) == Passed(s) \/ (pc = "observed" /\ s = shot)

StreamReports == [total : Int, observed : Nat, retained : Nat, truncated : {"no", "yes", "unknown"}]

\* What the observation says of each stream at any time: it never calls one
\* truncated that is not, and counts no more than there is.
Modest ==
    /\ DOMAIN observation = {"error", "termination", "started_at", "streams"}
    /\ observation.streams \in [Streams -> StreamReports]
    /\ \A s \in Streams :
         /\ observation.streams[s].truncated = "yes" => chunks[s] > Cap[s]
         /\ observation.streams[s].retained <= capture[s].retained
         /\ Passed(s) /\ observation.streams[s].truncated = "yes" =>
              observation.streams[s].observed > Cap[s]

\* After an OUTPUT_LIMIT some stream that overflowed is reported as such.
Named ==
    pc \in Snapping \cup {"session", "done"} /\ error = "OUTPUT_LIMIT" =>
        \E s \in Streams :
            /\ chunks[s] > Cap[s]
            /\ RetainedRead(s) => observation.streams[s].retained = Cap[s]
            /\ TruncatedRead(s) => observation.streams[s].truncated = "yes"

\* What it says when it is finished.
Final ==
    Observed =>
        /\ error = "none" <=> Completed(observation)
        /\ error = "none" => observation.started_at # "never"
        /\ \A s \in Streams :
             /\ error = "none" => /\ observation.streams[s].total = chunks[s]
                                  /\ observation.streams[s].truncated = "no"
             /\ Quiet /\ observation.streams[s].truncated = "yes" =>
                  observation.streams[s].retained = Cap[s]

\* Before Report there is none.
Unmade ==
    pc \notin Snapping \cup {"session", "done"} => observation = NoObservation /\ shot = "stdout"

Observation ==
    /\ Modest /\ Named /\ Final /\ Unmade
    /\ pc \in Snapping => ~Completed(observation)

IInv == TypeOK /\ Conserved /\ Collecting /\ Ending /\ Observation

-----------------------------------------------------------------------------
\* Feeding bytes to a capture counts them, up to the limit and beyond.
LEMMA FeedCounts ==
    ASSUME NEW k \in Nat, NEW n \in Nat, NEW limit \in Nat,
           NEW cp \in Captures, Counts(cp, k, limit)
    PROVE  /\ Feed(cp, n, limit) \in Captures
           /\ Counts(Feed(cp, n, limit), k + n, limit)
<1> DEFINE c1 == Count(cp, n)
           c2 == Retain(c1, n, limit)
<1>1. /\ c1 \in Captures /\ c1.observed = k + n /\ c1.retained = cp.retained
      /\ c1.limit_hit = cp.limit_hit /\ c1.possible = cp.possible
  BY DEF Count, Counts, Captures
<1>2. /\ c2 \in Captures /\ c2.observed = k + n /\ c2.retained = Least(k + n, limit)
      /\ c2.limit_hit = cp.limit_hit /\ c2.possible = cp.possible
  <2> HIDE DEF c1
  <2> QED BY <1>1 DEF Retain, Counts, Captures, Least
<1>3. Feed(cp, n, limit) = Limit(c2, limit)
  BY DEF Feed
<1> HIDE DEF c2
<1>4. /\ Limit(c2, limit) \in Captures
      /\ Limit(c2, limit).observed = k + n /\ Limit(c2, limit).retained = Least(k + n, limit)
      /\ Limit(c2, limit).limit_hit <=> cp.limit_hit \/ k + n > limit
      /\ Limit(c2, limit).possible <=> cp.possible /\ k + n <= limit
  BY <1>2 DEF Limit, Captures
<1> QED BY <1>3, <1>4 DEF Counts

\* While no reader feeds it, a capture counts what was collected.
LEMMA CaptureCounts ==
    ASSUME TypeOK, Conserved, NEW s \in Streams, reader[s] \notin Feeding
    PROVE  capture[s] \in Captures /\ Counts(capture[s], chunks[s], Cap[s])
<1>1. Ahead(s, Feeding) = 0 /\ Ahead(s, {"limit"}) = 0
  BY DEF Ahead, Feeding
<1> QED BY <1>1 DEF TypeOK, Captures, Conserved, Captured, Counts

\* Marking a capture above its limit changes nothing.
LEMMA MarkKeeps ==
    ASSUME NEW k \in Nat, NEW limit \in Nat, k > limit,
           NEW cp \in Captures, Counts(cp, k, limit)
    PROVE  MarkLimit(cp) \in Captures /\ Counts(MarkLimit(cp), k, limit)
<1>1. MarkLimit(cp) \in Captures
  BY DEF MarkLimit, Captures
<1>2. MarkLimit(cp).observed = k /\ MarkLimit(cp).retained = Least(k, limit)
  BY DEF MarkLimit, Counts, Captures
<1>3. MarkLimit(cp).limit_hit /\ ~MarkLimit(cp).possible
  BY DEF MarkLimit, Captures
<1>4. ~(k <= limit)
  OBVIOUS
<1> QED BY <1>1, <1>2, <1>3, <1>4 DEF Counts

\* The streams of a round are read one after the other.
LEMMA RoundSteps ==
    ASSUME NEW r \in Rounds, r # <<>>
    PROVE  /\ Head(r) \in Streams /\ Tail(r) \in Rounds
           /\ Len(r) # 1 => Tail(r) # <<>>
<1>1. CASE r = <<"stdout">> BY <1>1 DEF Rounds, Streams
<1>2. CASE r = <<"stderr">> BY <1>2 DEF Rounds, Streams
<1>3. CASE r = <<"stdout", "stderr">> BY <1>3 DEF Rounds, Streams
<1>4. CASE r = <<"stderr", "stdout">> BY <1>4 DEF Rounds, Streams
<1> QED BY <1>1, <1>2, <1>3, <1>4 DEF Rounds

\* The capture of stream s now counts k bytes.
Recounted(s, k) ==
    \E cp \in Captures : Counts(cp, k, Cap[s]) /\ capture' = [capture EXCEPT ![s] = cp]

\* n bytes of stream s go from its pipe to the collector, which stops above
\* the cap.
Moves(s, n) ==
    /\ n > 0 /\ n <= pipe[s]
    /\ pipe' = [pipe EXCEPT ![s] = @ - n]
    /\ chunks' = [chunks EXCEPT ![s] = @ + n]
    /\ Recounted(s, chunks[s] + n)
    /\ \/ /\ chunks[s] + n > Cap[s]
          /\ error' = "OUTPUT_LIMIT" /\ pc' = "term" /\ events' = events
       \/ /\ chunks[s] + n <= Cap[s]
          /\ error' = error /\ events' \in Rounds
          /\ pc' \in {"loop", "read"} /\ (pc' = "read" => events' # <<>>)

\* A read moves n > 0 bytes of one stream from its pipe to the collector.
LEMMA ReadMoves ==
    ASSUME TypeOK, Conserved, Collecting, ReadData
    PROVE  \E s \in Streams, n \in Nat : Moves(s, n)
<1> USE ExecutionAssumption
<1> DEFINE s == Head(events)
           n == Least(pipe[s], Chunk)
<1>1. s \in Streams /\ Tail(events) \in Rounds /\ (Len(events) # 1 => Tail(events) # <<>>)
  BY RoundSteps DEF TypeOK, Collecting, ReadData
<1>0. reader[s] \notin Feeding
  BY <1>1 DEF ReadData, TypeOK, Collecting, Feeding
<1>2. /\ pipe[s] \in Nat /\ chunks[s] \in Nat /\ Cap[s] \in Nat
      /\ Counts(capture[s], chunks[s], Cap[s])
  <2> HIDE DEF s
  <2>1. pipe[s] \in Nat /\ chunks[s] \in Nat /\ Cap[s] \in Nat
    BY <1>1 DEF TypeOK
  <2> QED BY <1>0, <1>1, <2>1, CaptureCounts
<1>3. n \in Nat /\ n <= pipe[s]
  BY <1>2 DEF Least
<1> DEFINE cp == Feed(capture[s], n, Cap[s])
<1>4. cp \in Captures /\ Counts(cp, chunks[s] + n, Cap[s])
  BY <1>1, <1>2, <1>3, FeedCounts DEF TypeOK, Captures
<1>5. chunks[s] + n > Cap[s] =>
        MarkLimit(cp) \in Captures /\ Counts(MarkLimit(cp), chunks[s] + n, Cap[s])
  <2> HIDE DEF cp
  <2> HAVE chunks[s] + n > Cap[s]
  <2> QED BY <1>2, <1>3, <1>4, MarkKeeps
<1> HIDE DEF n
<1>6. /\ n > 0
      /\ pipe' = [pipe EXCEPT ![s] = @ - n]
      /\ chunks' = [chunks EXCEPT ![s] = @ + n]
  BY DEF ReadData, n
<1>9. Recounted(s, chunks[s] + n)
  <2>1. capture' = [capture EXCEPT ![s] = IF chunks[s] + n > Cap[s] THEN MarkLimit(cp) ELSE cp]
    BY DEF ReadData, Over, n
  <2> HIDE DEF cp
  <2> QED BY <1>4, <1>5, <2>1 DEF Recounted
<1>7. CASE chunks[s] + n > Cap[s]
  <2>1. error' = "OUTPUT_LIMIT" /\ pc' = "term" /\ events' = events
    BY <1>7 DEF ReadData, Over, Raise, n
  <2> QED BY <1>1, <1>3, <1>6, <1>9, <1>7, <2>1 DEF Moves
<1>8. CASE ~(chunks[s] + n > Cap[s])
  <2>1. error' = error /\ events' = Tail(events) /\ pc' = IF Len(events) = 1 THEN "loop" ELSE "read"
    BY <1>8 DEF ReadData, Over, NextEvent, n
  <2>2. chunks[s] + n <= Cap[s]
    BY <1>2, <1>3, <1>8
  <2> QED BY <1>1, <1>3, <1>6, <1>9, <2>1, <2>2 DEF Moves
<1> QED BY <1>7, <1>8

\* A reader that fills its buffer takes bytes off the pipe.
LEMMA FillMoves ==
    ASSUME TypeOK, NEW s \in Streams, ReaderFill(s)
    PROVE  \E n \in Nat :
             /\ n > 0 /\ n <= pipe[s] /\ n <= Chunk - buf[s]
             /\ pipe' = [pipe EXCEPT ![s] = pipe[s] - n]
             /\ buf' = [buf EXCEPT ![s] = buf[s] + n]
<1> DEFINE n == Least(pipe[s], Chunk - buf[s])
<1>1. n \in Nat /\ n > 0 /\ n <= pipe[s] /\ n <= Chunk - buf[s]
  BY ExecutionAssumption DEF ReaderFill, TypeOK, Least
<1>2. pipe' = [pipe EXCEPT ![s] = pipe[s] - n] /\ buf' = [buf EXCEPT ![s] = buf[s] + n]
  BY DEF ReaderFill
<1> HIDE DEF n
<1> QED BY <1>1, <1>2

\* A reader that reports the overflow counts nothing new.
LEMMA ReaderCounts ==
    ASSUME TypeOK, Conserved, Collecting, NEW s \in Streams, ReaderOverflow(s)
    PROVE  Recounted(s, chunks[s])
<1>1. /\ capture[s] \in Captures /\ Counts(capture[s], chunks[s], Cap[s])
      /\ chunks[s] \in Nat /\ Cap[s] \in Nat
  BY ExecutionAssumption, CaptureCounts DEF ReaderOverflow, TypeOK, Feeding
<1>2. chunks[s] > Cap[s]
  BY DEF ReaderOverflow, Collecting
<1>3. MarkLimit(capture[s]) \in Captures /\ Counts(MarkLimit(capture[s]), chunks[s], Cap[s])
  BY <1>1, <1>2, MarkKeeps
<1>4. capture' = [capture EXCEPT ![s] = MarkLimit(capture[s])]
  BY DEF ReaderOverflow
<1> QED BY <1>3, <1>4 DEF Recounted

\* What a reader that feeds its buffer makes of the capture, one assignment
\* after the other; the other captures are left alone.
LEMMA FeedSteps ==
    ASSUME TypeOK, Conserved, Collecting, NEW s \in Streams,
           ReaderDeliver(s) \/ ReaderRetain(s) \/ ReaderLimit(s)
    PROVE  /\ capture' \in [Streams -> Captures]
           /\ \A t \in Streams : capture'[t].retained <= Cap[t]
           /\ \A t \in Streams \ {s} : capture'[t] = capture[t]
           /\ capture[s].retained <= capture'[s].retained
           /\ Captured(s)'
<1> USE ExecutionAssumption
<1>1. /\ capture[s] \in Captures /\ chunks[s] \in Nat /\ buf[s] \in Nat /\ Cap[s] \in Nat
      /\ capture[s].retained <= Cap[s] /\ Captured(s) /\ chunks[s] <= Cap[s] /\ buf[s] > 0
  <2>1. /\ capture[s] \in Captures /\ chunks[s] \in Nat /\ buf[s] \in Nat /\ Cap[s] \in Nat
        /\ capture[s].retained <= Cap[s] /\ Captured(s)
    BY DEF TypeOK, Captures, Conserved
  <2>2. reader[s] \in {"reading"} \cup Feeding /\ (reader[s] \in Feeding \/ buf[s] > 0)
    BY DEF ReaderDeliver, ReaderRetain, ReaderLimit, Feeding
  <2>3. chunks[s] <= Cap[s] /\ buf[s] > 0
    BY <2>2 DEF Collecting
  <2> QED BY <2>1, <2>3
<1>2. ASSUME NEW cp \in Captures, capture' = [capture EXCEPT ![s] = cp],
             cp.retained <= Cap[s], capture[s].retained <= cp.retained, Captured(s)'
      PROVE  /\ capture' \in [Streams -> Captures]
             /\ \A t \in Streams : capture'[t].retained <= Cap[t]
             /\ \A t \in Streams \ {s} : capture'[t] = capture[t]
             /\ capture[s].retained <= capture'[s].retained
             /\ Captured(s)'
  BY <1>2 DEF TypeOK, Captures
<1>3. CASE ReaderDeliver(s)
  <2> DEFINE cp == Count(capture[s], buf[s])
  <2>1. /\ cp \in Captures /\ cp.observed = chunks[s] + buf[s] /\ cp.retained = capture[s].retained
        /\ cp.limit_hit = capture[s].limit_hit /\ cp.possible = capture[s].possible
    BY <1>1, <1>3 DEF ReaderDeliver, Count, Captures, Captured, Ahead, Feeding
  <2>2. capture' = [capture EXCEPT ![s] = cp]
    BY <1>3 DEF ReaderDeliver
  <2> HIDE DEF cp
  <2>3. /\ capture'[s] = cp /\ reader[s] = "reading" /\ reader'[s] = "retain"
        /\ UNCHANGED <<chunks, buf>>
    BY <1>3, <2>2 DEF ReaderDeliver, TypeOK
  <2>4. Captured(s)'
    BY <1>1, <2>1, <2>3 DEF Captured, Ahead, Feeding
  <2>5. cp.retained <= Cap[s] /\ capture[s].retained <= cp.retained
    BY <1>1, <2>1 DEF Captures
  <2> QED BY <1>2, <2>1, <2>2, <2>4, <2>5
<1>4. CASE ReaderRetain(s)
  <2> DEFINE cp == Retain(capture[s], buf[s], Cap[s])
  <2>1. /\ cp \in Captures /\ cp.observed = capture[s].observed
        /\ cp.retained = Least(chunks[s] + buf[s], Cap[s])
        /\ cp.limit_hit = capture[s].limit_hit /\ cp.possible = capture[s].possible
    BY <1>1, <1>4 DEF ReaderRetain, Retain, Captures, Captured, Ahead, Feeding, Least
  <2>2. capture' = [capture EXCEPT ![s] = cp]
    BY <1>4 DEF ReaderRetain
  <2>3. cp.retained <= Cap[s] /\ capture[s].retained <= cp.retained
    BY <1>1, <1>4, <2>1 DEF ReaderRetain, Captured, Ahead, Least
  <2> HIDE DEF cp
  <2>4. /\ capture'[s] = cp /\ reader[s] = "retain" /\ reader'[s] = "limit"
        /\ UNCHANGED <<chunks, buf>>
    BY <1>4, <2>2 DEF ReaderRetain, TypeOK
  <2>5. Captured(s)'
    BY <1>1, <2>1, <2>4 DEF Captured, Ahead, Feeding
  <2> QED BY <1>2, <2>1, <2>2, <2>3, <2>5
<1>5. CASE ReaderLimit(s)
  <2> DEFINE cp == Limit(capture[s], Cap[s])
  <2>1. /\ capture[s].observed = chunks[s] + buf[s]
        /\ capture[s].retained = Least(chunks[s] + buf[s], Cap[s])
        /\ ~capture[s].limit_hit /\ capture[s].possible
    BY <1>1, <1>5 DEF ReaderLimit, Captured, Ahead, Feeding
  <2>2. /\ cp \in Captures /\ cp.observed = chunks[s] + buf[s]
        /\ cp.retained = Least(chunks[s] + buf[s], Cap[s])
        /\ cp.limit_hit <=> chunks[s] + buf[s] > Cap[s]
        /\ cp.possible <=> chunks[s] + buf[s] <= Cap[s]
    BY <1>1, <2>1 DEF Limit, Captures
  <2>3. capture' = [capture EXCEPT ![s] = cp]
    BY <1>5 DEF ReaderLimit
  <2> HIDE DEF cp
  <2>4. /\ capture'[s] = cp /\ reader'[s] \in {"over", "reading"}
        /\ chunks'[s] = chunks[s] + buf[s] /\ buf'[s] = 0
    BY <1>5, <2>3 DEF ReaderLimit, TypeOK
  <2>5. Captured(s)'
    BY <1>1, <2>2, <2>4 DEF Captured, Ahead, Feeding
  <2>6. cp.retained <= Cap[s] /\ capture[s].retained <= cp.retained
    BY <1>1, <2>1, <2>2 DEF Captures, Least
  <2> QED BY <1>2, <2>2, <2>3, <2>5, <2>6
<1> QED BY <1>3, <1>4, <1>5

\* A recount keeps the captures and touches one of them.
LEMMA RecountKeeps ==
    ASSUME TypeOK, NEW s \in Streams, NEW k \in Nat, Recounted(s, k)
    PROVE  /\ capture' \in [Streams -> Captures]
           /\ \A t \in Streams : capture'[t].retained <= Cap[t]
           /\ Counts(capture'[s], k, Cap[s])
           /\ \A t \in Streams \ {s} : capture'[t] = capture[t]
<1>1. PICK cp \in Captures : Counts(cp, k, Cap[s]) /\ capture' = [capture EXCEPT ![s] = cp]
  BY DEF Recounted
<1>2. cp.retained <= Cap[s]
  BY <1>1, ExecutionAssumption DEF Counts, Least
<1> QED BY <1>1, <1>2 DEF TypeOK, Captures

\* The first state of a run satisfies the invariant.
LEMMA Initial == Init => IInv
<1> SUFFICES ASSUME Init PROVE IInv OBVIOUS
<1> USE ExecutionAssumption
<1>1. TypeOK
  <2>1. open \in [Streams -> SUBSET alive] /\ listening \subseteq alive /\ alive \subseteq Children
    BY DEF Init
  <2>2. signals \in [Children -> {"none", "TERM", "KILL"}] /\ events \in Rounds
    BY DEF Init, Rounds
  <2>3. /\ capture \in [Streams -> [observed : Nat, retained : Nat,
                                   limit_hit : BOOLEAN, possible : BOOLEAN]]
        /\ \A s \in Streams : capture[s].retained <= Cap[s]
    BY DEF Init, NoCapture
  <2>4. inbox \in 0..PipeSize /\ unsent \in Nat
    BY DEF Init
  <2>5. /\ pipe \in [Streams -> 0..PipeSize] /\ buf \in [Streams -> 0..Chunk]
        /\ written \in [Streams -> Nat] /\ chunks \in [Streams -> Nat]
    BY DEF Init, Empty
  <2> QED BY <2>1, <2>2, <2>3, <2>4, <2>5 DEF Init, TypeOK, ErrorCodes, Streams
<1>2. Conserved
  BY DEF Init, Conserved, Captured, Ahead, Feeding, Empty, NoCapture, Least
<1>3. Collecting
  BY DEF Init, Collecting, Feeding, Empty
<1>4. Ending
  BY DEF Init, Ending, Empty, LeaderGone, Snapping
<1>5. Observation
  <2>1. Modest
    BY DEF Init, Modest, NoObservation, NoCapture, StreamReports, Unknown
  <2>2. Named /\ Final /\ Unmade /\ pc \notin Snapping
    BY DEF Init, Named, Final, Unmade, Observed, Snapping
  <2> QED BY <2>1, <2>2 DEF Observation
<1> QED BY <1>1, <1>2, <1>3, <1>4, <1>5 DEF IInv
-----------------------------------------------------------------------------
\* Every step keeps the types.
LEMMA TypeStep == IInv /\ [Next]_vars => TypeOK'
<1> SUFFICES ASSUME IInv, [Next]_vars PROVE TypeOK' OBVIOUS
<1> USE ExecutionAssumption
<1>1. CASE StartFails
  BY <1>1 DEF StartFails, IInv, TypeOK, ErrorCodes, child, collector, result
<1>2. CASE Popen
  BY <1>2 DEF Popen, IInv, TypeOK, Children, control, collector, result
<1>3. CASE WriteStdin
  BY <1>3 DEF WriteStdin, IInv, TypeOK, collector, result
<1>4. CASE Collect
  <2>1. inbox' \in 0..PipeSize /\ listening' \subseteq alive' /\ registered' \subseteq Streams
    BY <1>4 DEF Collect, IInv, TypeOK
  <2>2. reader' \in [Streams -> {"off", "reading", "retain", "limit", "over", "ended"}]
    BY <1>4 DEF Collect, IInv, TypeOK
  <2> QED BY <1>4, <2>1, <2>2 DEF Collect, IInv, TypeOK, control, result
<1>5. CASE LoopEnd
  BY <1>5 DEF LoopEnd, IInv, TypeOK, control, child, collector, result
<1>6. CASE LoopDeadline
  BY <1>6 DEF LoopDeadline, Raise, IInv, TypeOK, ErrorCodes, child, collector, result
<1>7. CASE Select
  BY <1>7 DEF Select, Orders, IInv, TypeOK, control, child, result
<1>8. CASE Poll
  BY <1>8 DEF Poll, Orders, Rounds, IInv, TypeOK, control, child, result
<1>9. CASE ReadEof
  <2>1. Tail(events) \in Rounds
    BY <1>9, RoundSteps DEF ReadEof, IInv, TypeOK, Collecting
  <2> QED BY <1>9, <2>1 DEF ReadEof, NextEvent, IInv, TypeOK, control, child, result
<1>10. CASE ReadData
  <2>1. PICK s \in Streams, n \in Nat : Moves(s, n)
    BY <1>10, ReadMoves DEF IInv
  <2>2. pipe' \in [Streams -> 0..PipeSize] /\ chunks' \in [Streams -> Nat]
    <3>1. /\ pipe' = [pipe EXCEPT ![s] = @ - n] /\ n <= pipe[s]
          /\ chunks' = [chunks EXCEPT ![s] = @ + n]
      BY <2>1 DEF Moves
    <3>2. pipe \in [Streams -> 0..PipeSize] /\ chunks \in [Streams -> Nat]
      BY DEF IInv, TypeOK
    <3> QED BY <3>1, <3>2
  <2>3. capture' \in [Streams -> Captures] /\ \A t \in Streams : capture'[t].retained <= Cap[t]
    <3>1. chunks[s] + n \in Nat
      BY DEF IInv, TypeOK
    <3> QED BY <2>1, <3>1, RecountKeeps DEF IInv, Moves
  <2>4. error' \in {error, "OUTPUT_LIMIT"} /\ events' \in Rounds /\ pc' \in {"loop", "read", "term"}
    <3>1. events \in Rounds
      BY DEF IInv, TypeOK
    <3> QED BY <2>1, <3>1 DEF Moves
  <2> QED BY <1>10, <2>2, <2>3, <2>4 DEF ReadData, IInv, TypeOK, ErrorCodes, Captures, result
<1>11. CASE NtOverflow
  BY <1>11 DEF NtOverflow, Raise, IInv, TypeOK, ErrorCodes, child, collector, result
<1>12. CASE NtJoin
  BY <1>12 DEF NtJoin, ReadersAlive, IInv, TypeOK, control, child, collector, result
<1>13. CASE NtDeadline
  BY <1>13 DEF NtDeadline, Raise, IInv, TypeOK, ErrorCodes, child, collector, result
<1>14. CASE TermPoll
  BY <1>14 DEF TermPoll, Returned, IInv, TypeOK, control, child, collector, result
<1>15. CASE TermSignal
  BY <1>15 DEF TermSignal, Signal, Targets, IInv, TypeOK, control, child, collector, result
<1>16. CASE TermWaited
  BY <1>16 DEF TermWaited, Returned, IInv, TypeOK, control, child, collector, result
<1>17. CASE TermKill
  BY <1>17 DEF TermKill, Signal, Targets, IInv, TypeOK, control, child, collector, result
<1>18. CASE TermExpired
  BY <1>18 DEF TermExpired, IInv, TypeOK, ErrorCodes, child, collector, result
<1>19. CASE Wait
  BY <1>19 DEF Wait, IInv, TypeOK, control, child, collector, result
<1>20. CASE WaitExpired
  BY <1>20 DEF WaitExpired, Raise, IInv, TypeOK, ErrorCodes, child, collector, result
<1>21. CASE Finally
  BY <1>21 DEF Finally, IInv, TypeOK, child, collector, result
<1>22. CASE Escape
  BY <1>22 DEF Escape, IInv, TypeOK, control, child, collector, result
<1>23. CASE Report
  BY <1>23 DEF Report, IInv, TypeOK, control, child, collector
<1>24. CASE Session
  BY <1>24 DEF Session, IInv, TypeOK, control, child, collector
<1>25. CASE Tick
  BY <1>25 DEF Tick, IInv, TypeOK, control, child, collector, result
<1>26. CASE Finished
  BY <1>26 DEF Finished, IInv, TypeOK, vars, control, child, collector, result
<1>27. CASE Fork
  BY <1>27 DEF Fork, CanAct, IInv, TypeOK, Children, control, collector, result
<1>28. ASSUME NEW s \in Streams, ReaderFill(s) PROVE TypeOK'
  <2>1. pipe' \in [Streams -> 0..PipeSize] /\ buf' \in [Streams -> 0..Chunk]
    <3>1. PICK n \in Nat :
            /\ n > 0 /\ n <= pipe[s] /\ n <= Chunk - buf[s]
            /\ pipe' = [pipe EXCEPT ![s] = pipe[s] - n]
            /\ buf' = [buf EXCEPT ![s] = buf[s] + n]
      BY <1>28, FillMoves DEF IInv
    <3> QED BY <3>1 DEF IInv, TypeOK
  <2> QED BY <1>28, <2>1 DEF ReaderFill, IInv, TypeOK, control, result
<1>29. ASSUME NEW s \in Streams, ReaderDeliver(s) \/ ReaderRetain(s) \/ ReaderLimit(s) PROVE TypeOK'
  <2>1. capture' \in [Streams -> Captures] /\ \A t \in Streams : capture'[t].retained <= Cap[t]
    BY <1>29, FeedSteps DEF IInv
  <2>2. /\ buf' \in [Streams -> 0..Chunk] /\ chunks' \in [Streams -> Nat]
        /\ reader' \in [Streams -> {"off", "reading", "retain", "limit", "over", "ended"}]
    <3>1. /\ buf \in [Streams -> 0..Chunk] /\ chunks \in [Streams -> Nat] /\ buf[s] \in Nat
          /\ reader \in [Streams -> {"off", "reading", "retain", "limit", "over", "ended"}]
      BY DEF IInv, TypeOK
    <3>2. CASE ReaderDeliver(s) \/ ReaderRetain(s)
      BY <3>1, <3>2 DEF ReaderDeliver, ReaderRetain
    <3>3. CASE ReaderLimit(s)
      BY <3>1, <3>3 DEF ReaderLimit
    <3> QED BY <1>29, <3>2, <3>3
  <2>3. UNCHANGED <<control, pc, late, signals, child, registered, events, overflow, result>>
    BY <1>29 DEF ReaderDeliver, ReaderRetain, ReaderLimit
  <2> QED BY <2>1, <2>2, <2>3 DEF IInv, TypeOK, Captures, control, child, result
<1>30. ASSUME NEW s \in Streams, ReaderEof(s) PROVE TypeOK'
  BY <1>30 DEF ReaderEof, IInv, TypeOK, control, child, result
<1>31. ASSUME NEW s \in Streams, ReaderOverflow(s) PROVE TypeOK'
  <2>1. capture' \in [Streams -> Captures] /\ \A t \in Streams : capture'[t].retained <= Cap[t]
    BY <1>31, ReaderCounts, RecountKeeps DEF IInv, TypeOK
  <2> QED BY <1>31, <2>1 DEF ReaderOverflow, IInv, TypeOK, Captures, control, child, result
<1>32. ASSUME NEW c \in Children, ChildReadStdin(c) PROVE TypeOK'
  BY <1>32 DEF ChildReadStdin, CanAct, IInv, TypeOK, control, collector, result
<1>33. ASSUME NEW c \in Children, ChildCloseStdin(c) PROVE TypeOK'
  BY <1>33 DEF ChildCloseStdin, CanAct, IInv, TypeOK, control, collector, result
<1>34. ASSUME NEW c \in Children, ChildExit(c) PROVE TypeOK'
  BY <1>34 DEF ChildExit, End, CanAct, IInv, TypeOK, control, collector, result
<1>35. ASSUME NEW c \in Children, ChildKilled(c) PROVE TypeOK'
  BY <1>35 DEF ChildKilled, End, IInv, TypeOK, control, collector, result
<1>36. ASSUME NEW c \in Children, NEW s \in Streams, ChildWrite(c, s) PROVE TypeOK'
  <2>1. pipe' \in [Streams -> 0..PipeSize] /\ written' \in [Streams -> Nat]
    BY <1>36 DEF ChildWrite, IInv, TypeOK
  <2> QED BY <1>36, <2>1 DEF ChildWrite, IInv, TypeOK, control, collector, result
<1>37. ASSUME NEW c \in Children, NEW s \in Streams, ChildClose(c, s) PROVE TypeOK'
  BY <1>37 DEF ChildClose, CanAct, IInv, TypeOK, control, collector, result
<1>38. CASE UNCHANGED vars
  BY <1>38 DEF vars, control, child, collector, result, IInv, TypeOK
<1>39. CASE ReadRetained
  BY <1>39 DEF ReadRetained, IInv, TypeOK, Streams, control, child, collector
<1>40. CASE ReadTruncated
  BY <1>40 DEF ReadTruncated, IInv, TypeOK, Streams, control, child, collector
<1>41. CASE ReadObserved
  BY <1>41 DEF ReadObserved, IInv, TypeOK, Streams, control, child, collector
<1> QED BY <1>1, <1>2, <1>3, <1>4, <1>5, <1>6, <1>7, <1>8, <1>9, <1>10, <1>11, <1>12, <1>13,
    <1>14, <1>15, <1>16, <1>17, <1>18, <1>19, <1>20, <1>21, <1>22, <1>23, <1>24, <1>25, <1>26,
    <1>27, <1>28, <1>29, <1>30, <1>31, <1>32, <1>33, <1>34, <1>35, <1>36, <1>37, <1>38, <1>39,
    <1>40, <1>41 DEF Next, ParentStep, ReaderStep, ChildStep

\* Every step conserves bytes.
LEMMA ConservedStep == IInv /\ [Next]_vars => Conserved'
<1> SUFFICES ASSUME IInv, [Next]_vars PROVE Conserved' OBVIOUS
<1> USE ExecutionAssumption
<1>1. CASE StartFails
  BY <1>1 DEF StartFails, IInv, Conserved, Captured, Ahead, child, collector, result
<1>2. CASE Popen
  BY <1>2 DEF Popen, IInv, Conserved, Captured, Ahead, control, collector, result
<1>3. CASE WriteStdin
  BY <1>3 DEF WriteStdin, IInv, Conserved, Captured, Ahead, collector, result
<1>4. CASE Collect
  <2>1. \A t \in Streams : reader[t] \notin Feeding /\ reader'[t] \notin Feeding
    BY <1>4 DEF Collect, IInv, TypeOK, Ending, Feeding
  <2>2. UNCHANGED <<written, pipe, buf, chunks, capture>>
    BY <1>4 DEF Collect
  <2> QED BY <2>1, <2>2 DEF IInv, Conserved, Captured, Ahead, Feeding
<1>5. CASE LoopEnd
  BY <1>5 DEF LoopEnd, IInv, Conserved, Captured, Ahead, control, child, collector, result
<1>6. CASE LoopDeadline
  BY <1>6 DEF LoopDeadline, Raise, IInv, Conserved, Captured, Ahead, child, collector, result
<1>7. CASE Select
  BY <1>7 DEF Select, Orders, IInv, Conserved, Captured, Ahead, control, child, result
<1>8. CASE Poll
  BY <1>8 DEF Poll, Orders, Rounds, IInv, Conserved, Captured, Ahead, control, child, result
<1>9. CASE ReadEof
  BY <1>9 DEF ReadEof, NextEvent, IInv, Conserved, Captured, Ahead, control, child, result
<1>10. CASE ReadData
  <2>1. PICK s \in Streams, n \in Nat : Moves(s, n)
    BY <1>10, ReadMoves DEF IInv
  <2>2. chunks[s] + n \in Nat
    BY DEF IInv, TypeOK
  <2>3. Counts(capture'[s], chunks[s] + n, Cap[s]) /\ \A t \in Streams \ {s} : capture'[t] = capture[t]
    BY <2>1, <2>2, RecountKeeps DEF IInv, Moves
  <2>4. UNCHANGED <<written, buf>>
    BY <1>10 DEF ReadData
  <2>5. ASSUME NEW t \in Streams PROVE written'[t] = pipe'[t] + buf'[t] + chunks'[t]
    <3>1. /\ pipe \in [Streams -> 0..PipeSize] /\ chunks \in [Streams -> Nat]
          /\ buf[t] \in Nat /\ written[t] = pipe[t] + buf[t] + chunks[t]
      BY DEF IInv, TypeOK, Conserved
    <3>2. pipe'[t] + chunks'[t] = pipe[t] + chunks[t] /\ pipe'[t] \in Int /\ chunks'[t] \in Int
      BY <2>1, <3>1 DEF Moves
    <3> QED BY <2>4, <3>1, <3>2
  <2>6. ASSUME NEW t \in Streams PROVE Captured(t)'
    <3>1. reader'[t] = reader[t] /\ reader[t] = "off"
      BY <1>10 DEF ReadData, IInv, Collecting
    <3>2. CASE t = s
      <4>1. chunks'[s] = chunks[s] + n
        BY <2>1 DEF Moves, IInv, TypeOK
      <4> QED BY <2>2, <2>3, <3>1, <3>2, <4>1 DEF Captured, Ahead, Feeding, Counts
    <3>3. CASE t # s
      <4>1. chunks'[t] = chunks[t] /\ capture'[t] = capture[t] /\ buf'[t] = buf[t]
        BY <2>1, <2>3, <2>4, <3>3 DEF Moves, IInv, TypeOK
      <4> QED BY <3>1, <4>1 DEF IInv, Conserved, Captured, Ahead, Feeding
    <3> QED BY <3>2, <3>3
  <2> QED BY <2>5, <2>6 DEF Conserved
<1>11. CASE NtOverflow
  BY <1>11 DEF NtOverflow, Raise, IInv, Conserved, Captured, Ahead, child, collector, result
<1>12. CASE NtJoin
  BY <1>12 DEF NtJoin, ReadersAlive, IInv, Conserved, Captured, Ahead, control, child,
      collector, result
<1>13. CASE NtDeadline
  BY <1>13 DEF NtDeadline, Raise, IInv, Conserved, Captured, Ahead, child, collector, result
<1>14. CASE TermPoll
  BY <1>14 DEF TermPoll, Returned, IInv, Conserved, Captured, Ahead, control, child,
      collector, result
<1>15. CASE TermSignal
  BY <1>15 DEF TermSignal, Signal, Targets, IInv, Conserved, Captured, Ahead, control, child,
      collector, result
<1>16. CASE TermWaited
  BY <1>16 DEF TermWaited, Returned, IInv, Conserved, Captured, Ahead, control, child,
      collector, result
<1>17. CASE TermKill
  BY <1>17 DEF TermKill, Signal, Targets, IInv, Conserved, Captured, Ahead, control, child,
      collector, result
<1>18. CASE TermExpired
  BY <1>18 DEF TermExpired, IInv, Conserved, Captured, Ahead, child, collector, result
<1>19. CASE Wait
  BY <1>19 DEF Wait, IInv, Conserved, Captured, Ahead, control, child, collector, result
<1>20. CASE WaitExpired
  BY <1>20 DEF WaitExpired, Raise, IInv, Conserved, Captured, Ahead, child, collector, result
<1>21. CASE Finally
  BY <1>21 DEF Finally, IInv, Conserved, Captured, Ahead, child, collector, result
<1>22. CASE Escape
  BY <1>22 DEF Escape, IInv, Conserved, Captured, Ahead, control, child, collector, result
<1>23. CASE Report
  BY <1>23 DEF Report, IInv, Conserved, Captured, Ahead, control, child, collector
<1>24. CASE Session
  BY <1>24 DEF Session, IInv, Conserved, Captured, Ahead, control, child, collector
<1>25. CASE Tick
  BY <1>25 DEF Tick, IInv, Conserved, Captured, Ahead, control, child, collector, result
<1>26. CASE Finished
  BY <1>26 DEF Finished, IInv, Conserved, Captured, Ahead, vars, control, child, collector, result
<1>27. CASE Fork
  BY <1>27 DEF Fork, CanAct, IInv, Conserved, Captured, Ahead, control, collector, result
<1>28. ASSUME NEW s \in Streams, ReaderFill(s) PROVE Conserved'
  <2>1. PICK n \in Nat :
            /\ n > 0 /\ n <= pipe[s] /\ n <= Chunk - buf[s]
            /\ pipe' = [pipe EXCEPT ![s] = pipe[s] - n]
            /\ buf' = [buf EXCEPT ![s] = buf[s] + n]
    BY <1>28, FillMoves DEF IInv
  <2>2. ASSUME NEW t \in Streams PROVE written'[t] = pipe'[t] + buf'[t] + chunks'[t]
    BY <1>28, <2>1 DEF ReaderFill, IInv, TypeOK, Conserved
  <2>3. ASSUME NEW t \in Streams PROVE Captured(t)'
    <3>1. UNCHANGED <<capture, reader, chunks>> /\ reader[s] \notin Feeding
      BY <1>28 DEF ReaderFill, Feeding
    <3>2. t # s => buf'[t] = buf[t]
      BY <2>1 DEF IInv, TypeOK
    <3> QED BY <3>1, <3>2 DEF IInv, Conserved, Captured, Ahead, Feeding
  <2> QED BY <2>2, <2>3 DEF Conserved
<1>29. ASSUME NEW s \in Streams, ReaderDeliver(s) \/ ReaderRetain(s) \/ ReaderLimit(s) PROVE Conserved'
  <2>1. Captured(s)' /\ \A t \in Streams \ {s} : capture'[t] = capture[t]
    BY <1>29, FeedSteps DEF IInv
  <2>2. \A t \in Streams \ {s} : reader'[t] = reader[t] /\ buf'[t] = buf[t] /\ chunks'[t] = chunks[t]
    BY <1>29 DEF ReaderDeliver, ReaderRetain, ReaderLimit, IInv, TypeOK
  <2>3. \A t \in Streams \ {s} : Captured(t)'
    BY <2>1, <2>2 DEF IInv, Conserved, Captured, Ahead
  <2>4. UNCHANGED <<written, pipe>> /\ buf'[s] + chunks'[s] = buf[s] + chunks[s]
    BY <1>29 DEF ReaderDeliver, ReaderRetain, ReaderLimit, child, IInv, TypeOK
  <2>5. ASSUME NEW t \in Streams PROVE written'[t] = pipe'[t] + buf'[t] + chunks'[t]
    <3>1. CASE t = s
      <4>1. buf'[s] \in Nat /\ chunks'[s] \in Nat
        BY <1>29 DEF ReaderDeliver, ReaderRetain, ReaderLimit, IInv, TypeOK
      <4> QED BY <2>4, <3>1, <4>1 DEF IInv, TypeOK, Conserved
    <3>2. CASE t # s
      BY <2>2, <2>4, <3>2 DEF IInv, Conserved
    <3> QED BY <3>1, <3>2
  <2> QED BY <2>1, <2>3, <2>5 DEF Conserved
<1>30. ASSUME NEW s \in Streams, ReaderEof(s) PROVE Conserved'
  <2>1. \A t \in Streams : reader'[t] \in Feeding \/ reader[t] \in Feeding => reader'[t] = reader[t]
    BY <1>30 DEF ReaderEof, IInv, TypeOK, Feeding
  <2>2. UNCHANGED <<written, pipe, buf, chunks, capture>>
    BY <1>30 DEF ReaderEof, child
  <2> QED BY <2>1, <2>2 DEF IInv, Conserved, Captured, Ahead, Feeding
<1>31. ASSUME NEW s \in Streams, ReaderOverflow(s) PROVE Conserved'
  <2>1. chunks[s] \in Nat
    BY DEF IInv, TypeOK
  <2>2. /\ Counts(capture'[s], chunks[s], Cap[s])
        /\ \A t \in Streams \ {s} : capture'[t] = capture[t]
    BY <1>31, <2>1, ReaderCounts, RecountKeeps DEF IInv
  <2>3. UNCHANGED <<written, pipe, buf, chunks>> /\ reader'[s] = "ended"
    BY <1>31 DEF ReaderOverflow, child, IInv, TypeOK
  <2>4. \A t \in Streams \ {s} : reader'[t] = reader[t]
    BY <1>31 DEF ReaderOverflow, IInv, TypeOK
  <2>5. Captured(s)'
    BY <2>1, <2>2, <2>3 DEF Captured, Ahead, Feeding, Counts
  <2> QED BY <2>2, <2>3, <2>4, <2>5 DEF IInv, Conserved, Captured, Ahead
<1>32. ASSUME NEW c \in Children, ChildReadStdin(c) PROVE Conserved'
  BY <1>32 DEF ChildReadStdin, CanAct, IInv, Conserved, Captured, Ahead, control, collector,
      result
<1>33. ASSUME NEW c \in Children, ChildCloseStdin(c) PROVE Conserved'
  BY <1>33 DEF ChildCloseStdin, CanAct, IInv, Conserved, Captured, Ahead, control, collector,
      result
<1>34. ASSUME NEW c \in Children, ChildExit(c) PROVE Conserved'
  BY <1>34 DEF ChildExit, End, CanAct, IInv, Conserved, Captured, Ahead, control, collector,
      result
<1>35. ASSUME NEW c \in Children, ChildKilled(c) PROVE Conserved'
  BY <1>35 DEF ChildKilled, End, IInv, Conserved, Captured, Ahead, control, collector, result
<1>36. ASSUME NEW c \in Children, NEW s \in Streams, ChildWrite(c, s) PROVE Conserved'
  BY <1>36 DEF ChildWrite, CanAct, IInv, Conserved, Captured, Ahead, TypeOK, control,
      collector, result
<1>37. ASSUME NEW c \in Children, NEW s \in Streams, ChildClose(c, s) PROVE Conserved'
  BY <1>37 DEF ChildClose, CanAct, IInv, Conserved, Captured, Ahead, control, collector, result
<1>38. CASE UNCHANGED vars
  BY <1>38 DEF vars, control, child, collector, result, IInv, Conserved, Captured, Ahead
<1>39. CASE ReadRetained
  BY <1>39 DEF ReadRetained, IInv, Conserved, Captured, Ahead, control, child, collector
<1>40. CASE ReadTruncated
  BY <1>40 DEF ReadTruncated, IInv, Conserved, Captured, Ahead, control, child, collector
<1>41. CASE ReadObserved
  BY <1>41 DEF ReadObserved, IInv, Conserved, Captured, Ahead, control, child, collector
<1> QED BY <1>1, <1>2, <1>3, <1>4, <1>5, <1>6, <1>7, <1>8, <1>9, <1>10, <1>11, <1>12, <1>13,
    <1>14, <1>15, <1>16, <1>17, <1>18, <1>19, <1>20, <1>21, <1>22, <1>23, <1>24, <1>25, <1>26,
    <1>27, <1>28, <1>29, <1>30, <1>31, <1>32, <1>33, <1>34, <1>35, <1>36, <1>37, <1>38, <1>39,
    <1>40, <1>41 DEF Next, ParentStep, ReaderStep, ChildStep

\* Every step keeps what is known of the collectors.
LEMMA CollectingStep == IInv /\ [Next]_vars => Collecting'
<1> SUFFICES ASSUME IInv, [Next]_vars PROVE Collecting' OBVIOUS
<1> USE ExecutionAssumption
<1>1. CASE StartFails
  BY <1>1 DEF StartFails, IInv, Collecting, Whole, Eof, child, collector, result
<1>2. CASE Popen
  BY <1>2 DEF Popen, IInv, Collecting, Whole, Eof, Ending, control, collector, result
<1>3. CASE WriteStdin
  BY <1>3 DEF WriteStdin, IInv, Collecting, Whole, Eof, collector, result
<1>4. CASE Collect
  <2>1. \A t \in Streams : reader[t] = "off" /\ chunks[t] = 0 /\ chunks[t] <= Cap[t]
    BY <1>4 DEF Collect, IInv, Ending
  <2>2. \A t \in Streams : Whole(t)' <=> Whole(t)
    BY <1>4 DEF Collect, Whole, Eof
  <2>3. CASE platform = "posix"
    BY <1>4, <2>1, <2>2, <2>3 DEF Collect, IInv, Collecting, Feeding, control
  <2>4. CASE platform = "nt"
    BY <1>4, <2>1, <2>2, <2>4 DEF Collect, IInv, Collecting, Feeding, control
  <2> QED BY <1>4, <2>3, <2>4 DEF Collect
<1>5. CASE LoopEnd
  BY <1>5 DEF LoopEnd, IInv, Collecting, Whole, Eof, control, child, collector, result
<1>6. CASE LoopDeadline
  BY <1>6 DEF LoopDeadline, Raise, IInv, Collecting, Whole, Eof, child, collector, result
<1>7. CASE Select
  BY <1>7 DEF Select, Orders, IInv, Collecting, Whole, Eof, control, child, result
<1>8. CASE Poll
  BY <1>8 DEF Poll, Orders, Rounds, IInv, Collecting, Whole, Eof, control, child, result
<1>9. CASE ReadEof
  <2>1. Head(events) \in Streams /\ (Len(events) # 1 => Tail(events) # <<>>)
    BY <1>9, RoundSteps DEF ReadEof, IInv, TypeOK, Collecting
  <2>2. platform = "posix" /\ Whole(Head(events))
    BY <1>9, <2>1 DEF ReadEof, IInv, Collecting, Whole
  <2>3. \A t \in Streams : Whole(t)' <=> Whole(t)
    BY <1>9 DEF ReadEof, Whole, Eof, child
  <2>4. pc' \in {"loop", "read"} /\ (pc' = "read" => events' # <<>>)
    BY <1>9, <2>1 DEF ReadEof, NextEvent
  <2> QED BY <1>9, <2>2, <2>3, <2>4 DEF ReadEof, IInv, Collecting, control
<1>10. CASE ReadData
  <2>1. PICK s \in Streams, n \in Nat : Moves(s, n)
    BY <1>10, ReadMoves DEF IInv
  <2>2. platform = "posix" /\ ~overflow /\ \A t \in Streams : chunks[t] <= Cap[t]
    <3>1. platform = "posix" /\ \A t \in Streams : chunks[t] <= Cap[t]
      BY <1>10 DEF ReadData, IInv, Collecting
    <3>2. \A t \in Streams : ~(chunks[t] > Cap[t])
      BY <3>1 DEF IInv, TypeOK
    <3> QED BY <3>1, <3>2 DEF IInv, Collecting
  <2>3. UNCHANGED <<platform, reader, buf, overflow, open, registered>>
    BY <1>10 DEF ReadData
  <2>4. s \in registered
    BY <1>10, <2>1 DEF ReadData, Moves, IInv, TypeOK, Collecting, Whole, Eof
  <2>5. \A t \in Streams \ {s} : chunks'[t] = chunks[t] /\ pipe'[t] = pipe[t]
    BY <2>1 DEF Moves, IInv, TypeOK
  <2>6. \A t \in Streams \ {s} : Whole(t)' <=> Whole(t)
    BY <2>3, <2>5 DEF Whole, Eof
  <2>7. pc' \in {"loop", "read"} => \A t \in Streams : chunks'[t] <= Cap[t]
    BY <2>1, <2>2, <2>5 DEF Moves, IInv, TypeOK
  <2>8. pc' \in {"loop", "read", "term"} /\ (pc' = "read" => events' # <<>>)
    BY <2>1 DEF Moves
  <2>9. \A t \in Streams : t \notin registered => Whole(t)
    BY <1>10 DEF ReadData, IInv, Collecting
  <2>10. \A t \in Streams : reader[t] = "off" /\ buf[t] = 0
    BY <2>2 DEF IInv, Collecting
  <2> QED BY <2>2, <2>3, <2>4, <2>6, <2>7, <2>8, <2>9, <2>10 DEF Collecting, Feeding
<1>11. CASE NtOverflow
  BY <1>11 DEF NtOverflow, Raise, IInv, Collecting, Whole, Eof, child, collector, result
<1>12. CASE NtJoin
  BY <1>12 DEF NtJoin, ReadersAlive, IInv, Collecting, Whole, Eof, control, child, collector,
      result
<1>13. CASE NtDeadline
  BY <1>13 DEF NtDeadline, Raise, IInv, Collecting, Whole, Eof, child, collector, result
<1>14. CASE TermPoll
  BY <1>14 DEF TermPoll, Returned, IInv, Collecting, Whole, Eof, control, child, collector,
      result
<1>15. CASE TermSignal
  BY <1>15 DEF TermSignal, Signal, Targets, IInv, Collecting, Whole, Eof, control, child,
      collector, result
<1>16. CASE TermWaited
  BY <1>16 DEF TermWaited, Returned, IInv, Collecting, Whole, Eof, control, child, collector,
      result
<1>17. CASE TermKill
  BY <1>17 DEF TermKill, Signal, Targets, IInv, Collecting, Whole, Eof, control, child,
      collector, result
<1>18. CASE TermExpired
  BY <1>18 DEF TermExpired, IInv, Collecting, Whole, Eof, child, collector, result
<1>19. CASE Wait
  BY <1>19 DEF Wait, IInv, Collecting, Whole, Eof, control, child, collector, result
<1>20. CASE WaitExpired
  BY <1>20 DEF WaitExpired, Raise, IInv, Collecting, Whole, Eof, child, collector, result
<1>21. CASE Finally
  BY <1>21 DEF Finally, IInv, Collecting, Whole, Eof, child, collector, result
<1>22. CASE Escape
  BY <1>22 DEF Escape, IInv, Collecting, Whole, Eof, control, child, collector, result
<1>23. CASE Report
  BY <1>23 DEF Report, IInv, Collecting, Whole, Eof, control, child, collector
<1>24. CASE Session
  BY <1>24 DEF Session, IInv, Collecting, Whole, Eof, control, child, collector
<1>25. CASE Tick
  BY <1>25 DEF Tick, IInv, Collecting, Whole, Eof, control, child, collector, result
<1>26. CASE Finished
  BY <1>26 DEF Finished, IInv, Collecting, Whole, Eof, vars, control, child, collector, result
<1>27. CASE Fork
  BY <1>27 DEF Fork, CanAct, IInv, Collecting, Whole, Eof, control, collector, result
<1>28. ASSUME NEW s \in Streams, ReaderFill(s) PROVE Collecting'
  <2>1. platform # "posix" /\ pc \notin {"loop", "poll", "read"}
    BY <1>28 DEF ReaderFill, IInv, Collecting
  <2>2. PICK n \in Nat :
            /\ n > 0 /\ n <= pipe[s] /\ n <= Chunk - buf[s]
            /\ pipe' = [pipe EXCEPT ![s] = pipe[s] - n]
            /\ buf' = [buf EXCEPT ![s] = buf[s] + n]
    BY <1>28, FillMoves DEF IInv
  <2>3. \A t \in Streams \ {s} : Whole(t)' <=> Whole(t)
    BY <1>28, <2>2 DEF ReaderFill, Whole, Eof, IInv, TypeOK
  <2>4. \A t \in Streams \ {s} : buf'[t] = buf[t]
    BY <2>2 DEF IInv, TypeOK
  <2>5. reader[s] = "reading" /\ UNCHANGED <<platform, pc, overflow, chunks, reader>>
    BY <1>28 DEF ReaderFill, control
  <2> QED BY <2>1, <2>3, <2>4, <2>5 DEF IInv, Collecting, Feeding
<1>29. ASSUME NEW s \in Streams, ReaderDeliver(s) \/ ReaderRetain(s) \/ ReaderLimit(s) PROVE Collecting'
  <2>1. platform # "posix" /\ pc \notin {"loop", "poll", "read"}
    BY <1>29 DEF ReaderDeliver, ReaderRetain, ReaderLimit, IInv, Collecting
  <2>2. ASSUME NEW t \in Streams, t # s
        PROVE  /\ Whole(t)' <=> Whole(t)
               /\ chunks'[t] = chunks[t] /\ reader'[t] = reader[t] /\ buf'[t] = buf[t]
    <3>1. chunks'[t] = chunks[t] /\ reader'[t] = reader[t] /\ buf'[t] = buf[t]
      BY <1>29, <2>2 DEF ReaderDeliver, ReaderRetain, ReaderLimit, IInv, TypeOK
    <3>2. UNCHANGED <<pipe, open>>
      BY <1>29 DEF ReaderDeliver, ReaderRetain, ReaderLimit, child
    <3> QED BY <3>1, <3>2 DEF Whole, Eof
  <2>3. reader[s] \in {"reading"} \cup Feeding /\ buf[s] > 0 /\ chunks[s] <= Cap[s]
    BY <1>29 DEF ReaderDeliver, ReaderRetain, ReaderLimit, IInv, Collecting, Feeding
  <2>4. /\ reader'[s] \in {"over", "reading"} \cup Feeding
        /\ reader'[s] = "over" => chunks'[s] > Cap[s]
        /\ reader'[s] \in {"reading"} \cup Feeding => chunks'[s] <= Cap[s]
        /\ reader'[s] \in Feeding => buf'[s] > 0
    <3>1. CASE ReaderDeliver(s) \/ ReaderRetain(s)
      BY <2>3, <3>1 DEF ReaderDeliver, ReaderRetain, IInv, TypeOK, Feeding
    <3>2. CASE ReaderLimit(s)
      BY <2>3, <3>2 DEF ReaderLimit, Over, IInv, TypeOK, Feeding
    <3> QED BY <1>29, <3>1, <3>2
  <2>5. \A t \in Streams : chunks[t] > Cap[t] => chunks'[t] > Cap[t]
    <3>1. ~(chunks[s] > Cap[s])
      BY <2>3 DEF IInv, TypeOK
    <3> QED BY <2>2, <3>1
  <2>6. UNCHANGED <<platform, pc, overflow>>
    BY <1>29 DEF ReaderDeliver, ReaderRetain, ReaderLimit, control
  <2>7. ASSUME NEW t \in Streams
        PROVE  /\ reader'[t] = "over" => chunks'[t] > Cap[t]
               /\ reader'[t] \in {"reading"} \cup Feeding => chunks'[t] <= Cap[t]
               /\ reader'[t] \in Feeding => buf'[t] > 0
               /\ reader'[t] = "ended" => Whole(t)' \/ (overflow' /\ chunks'[t] > Cap[t])
    <3>1. CASE t = s
      BY <2>4, <3>1 DEF Feeding
    <3>2. CASE t # s
      BY <2>2, <2>6, <3>2 DEF IInv, Collecting
    <3> QED BY <3>1, <3>2
  <2>8. overflow' => \E t \in Streams : chunks'[t] > Cap[t]
    BY <2>5, <2>6 DEF IInv, Collecting
  <2> QED BY <2>1, <2>6, <2>7, <2>8 DEF Collecting
<1>30. ASSUME NEW s \in Streams, ReaderEof(s) PROVE Collecting'
  <2>1. platform # "posix" /\ pc \notin {"loop", "poll", "read"}
    BY <1>30 DEF ReaderEof, IInv, Collecting
  <2>2. UNCHANGED <<chunks, buf>> /\ \A t \in Streams : Whole(t)' <=> Whole(t)
    BY <1>30 DEF ReaderEof, Whole, Eof, child
  <2>3. reader'[s] = "ended" /\ \A t \in Streams \ {s} : reader'[t] = reader[t]
    BY <1>30 DEF ReaderEof, IInv, TypeOK
  <2>4. Whole(s)
    BY <1>30 DEF ReaderEof, Whole, IInv, Collecting
  <2>5. UNCHANGED <<platform, pc, overflow>>
    BY <1>30 DEF ReaderEof, control
  <2> QED BY <2>1, <2>2, <2>3, <2>4, <2>5 DEF IInv, Collecting, Feeding
<1>31. ASSUME NEW s \in Streams, ReaderOverflow(s) PROVE Collecting'
  <2>1. platform # "posix" /\ pc \notin {"loop", "poll", "read"}
    BY <1>31 DEF ReaderOverflow, IInv, Collecting
  <2>2. UNCHANGED <<chunks, buf>> /\ \A t \in Streams : Whole(t)' <=> Whole(t)
    BY <1>31 DEF ReaderOverflow, Whole, Eof, child
  <2>3. reader'[s] = "ended" /\ \A t \in Streams \ {s} : reader'[t] = reader[t]
    BY <1>31 DEF ReaderOverflow, IInv, TypeOK
  <2>4. chunks[s] > Cap[s]
    BY <1>31 DEF ReaderOverflow, IInv, Collecting
  <2>5. UNCHANGED <<platform, pc>> /\ overflow'
    BY <1>31 DEF ReaderOverflow, control
  <2> QED BY <2>1, <2>2, <2>3, <2>4, <2>5 DEF IInv, Collecting, Feeding
<1>32. ASSUME NEW c \in Children, ChildReadStdin(c) PROVE Collecting'
  BY <1>32 DEF ChildReadStdin, CanAct, IInv, Collecting, Whole, Eof, control, collector, result
<1>33. ASSUME NEW c \in Children, ChildCloseStdin(c) PROVE Collecting'
  BY <1>33 DEF ChildCloseStdin, CanAct, IInv, Collecting, Whole, Eof, control, collector, result
<1>34. ASSUME NEW c \in Children, ChildExit(c) PROVE Collecting'
  BY <1>34 DEF ChildExit, End, CanAct, IInv, Collecting, Whole, Eof, control, collector, result
<1>35. ASSUME NEW c \in Children, ChildKilled(c) PROVE Collecting'
  BY <1>35 DEF ChildKilled, End, IInv, Collecting, Whole, Eof, control, collector, result
<1>36. ASSUME NEW c \in Children, NEW s \in Streams, ChildWrite(c, s) PROVE Collecting'
  <2>1. ~Whole(s)
    BY <1>36 DEF ChildWrite, Whole, Eof
  <2>2. \A t \in Streams \ {s} : Whole(t)' <=> Whole(t)
    BY <1>36 DEF ChildWrite, Whole, Eof, IInv, TypeOK, collector
  <2> QED BY <1>36, <2>1, <2>2 DEF ChildWrite, IInv, Collecting, control, collector
<1>37. ASSUME NEW c \in Children, NEW s \in Streams, ChildClose(c, s) PROVE Collecting'
  <2>1. \A t \in Streams : Whole(t) => Whole(t)'
    BY <1>37 DEF ChildClose, Whole, Eof, IInv, TypeOK, collector
  <2> QED BY <1>37, <2>1 DEF ChildClose, IInv, Collecting, control, collector
<1>38. CASE UNCHANGED vars
  BY <1>38 DEF vars, control, child, collector, result, IInv, Collecting, Whole, Eof
<1>39. CASE ReadRetained
  BY <1>39 DEF ReadRetained, IInv, Collecting, Whole, Eof, control, child, collector
<1>40. CASE ReadTruncated
  BY <1>40 DEF ReadTruncated, IInv, Collecting, Whole, Eof, control, child, collector
<1>41. CASE ReadObserved
  BY <1>41 DEF ReadObserved, IInv, Collecting, Whole, Eof, control, child, collector
<1> QED BY <1>1, <1>2, <1>3, <1>4, <1>5, <1>6, <1>7, <1>8, <1>9, <1>10, <1>11, <1>12, <1>13,
    <1>14, <1>15, <1>16, <1>17, <1>18, <1>19, <1>20, <1>21, <1>22, <1>23, <1>24, <1>25, <1>26,
    <1>27, <1>28, <1>29, <1>30, <1>31, <1>32, <1>33, <1>34, <1>35, <1>36, <1>37, <1>38, <1>39,
    <1>40, <1>41 DEF Next, ParentStep, ReaderStep, ChildStep

\* Every step keeps what is known of the exception under way.
LEMMA EndingStep == IInv /\ [Next]_vars => Ending'
<1> SUFFICES ASSUME IInv, [Next]_vars PROVE Ending' OBVIOUS
<1> USE ExecutionAssumption
<1>1. CASE StartFails
  BY <1>1 DEF StartFails, IInv, Ending, Snapping, Whole, Eof, LeaderGone, Quiet, child,
      collector, result
<1>2. CASE Popen
  BY <1>2 DEF Popen, IInv, Ending, Snapping, Whole, Eof, LeaderGone, Quiet, control,
      collector, result
<1>3. CASE WriteStdin
  BY <1>3 DEF WriteStdin, IInv, Ending, Snapping, Whole, Eof, LeaderGone, Quiet, collector, result
<1>4. CASE Collect
  BY <1>4 DEF Collect, IInv, Ending, Snapping, Whole, Eof, LeaderGone, Quiet, control, result
<1>5. CASE LoopEnd
  BY <1>5 DEF LoopEnd, IInv, Ending, Snapping, Whole, Eof, LeaderGone, Quiet, Collecting,
      TypeOK, control, child, collector, result
<1>6. CASE LoopDeadline
  BY <1>6 DEF LoopDeadline, Raise, IInv, Ending, Snapping, Whole, Eof, LeaderGone, Quiet,
      child, collector, result
<1>7. CASE Select
  BY <1>7 DEF Select, Orders, IInv, Ending, Snapping, Whole, Eof, LeaderGone, Quiet, control,
      child, result
<1>8. CASE Poll
  BY <1>8 DEF Poll, Orders, Rounds, IInv, Ending, Snapping, Whole, Eof, LeaderGone, Quiet,
      control, child, result
<1>9. CASE ReadEof
  BY <1>9 DEF ReadEof, NextEvent, IInv, Ending, Snapping, Whole, Eof, LeaderGone, Quiet,
      control, child, result
<1>10. CASE ReadData
  <2>1. PICK s \in Streams, n \in Nat : Moves(s, n)
    BY <1>10, ReadMoves DEF IInv
  <2>2. error = "none"
    BY <1>10 DEF ReadData, IInv, Ending
  <2>3. CASE chunks[s] + n > Cap[s]
    <3>0. ~(chunks[s] + n <= Cap[s])
      BY <2>3 DEF IInv, TypeOK
    <3>1. error' = "OUTPUT_LIMIT" /\ pc' = "term"
      BY <2>1, <3>0 DEF Moves
    <3>2. chunks'[s] > Cap[s]
      BY <2>1, <2>3 DEF Moves, IInv, TypeOK
    <3> QED BY <3>1, <3>2 DEF Ending, Snapping
  <2>4. CASE ~(chunks[s] + n > Cap[s])
    <3>1. error' = "none" /\ pc' \in {"loop", "read"}
      BY <2>1, <2>2, <2>4 DEF Moves
    <3> QED BY <3>1 DEF Ending, Snapping
  <2> QED BY <2>3, <2>4
<1>11. CASE NtOverflow
  BY <1>11 DEF NtOverflow, Raise, IInv, Ending, Snapping, Whole, Eof, LeaderGone, Quiet,
      Collecting, TypeOK, child, collector, result
<1>12. CASE NtJoin
  BY <1>12 DEF NtJoin, ReadersAlive, IInv, Ending, Snapping, Whole, Eof, LeaderGone, Quiet,
      Collecting, TypeOK, control, child, collector, result
<1>13. CASE NtDeadline
  BY <1>13 DEF NtDeadline, Raise, IInv, Ending, Snapping, Whole, Eof, LeaderGone, Quiet,
      child, collector, result
<1>14. CASE TermPoll
  BY <1>14 DEF TermPoll, Returned, IInv, Ending, Snapping, Whole, Eof, LeaderGone, Quiet,
      control, child, collector, result
<1>15. CASE TermSignal
  BY <1>15 DEF TermSignal, Signal, Targets, IInv, Ending, Snapping, Whole, Eof, LeaderGone,
      Quiet, control, child, collector, result
<1>16. CASE TermWaited
  BY <1>16 DEF TermWaited, Returned, IInv, Ending, Snapping, Whole, Eof, LeaderGone, Quiet,
      control, child, collector, result
<1>17. CASE TermKill
  BY <1>17 DEF TermKill, Signal, Targets, IInv, Ending, Snapping, Whole, Eof, LeaderGone,
      Quiet, control, child, collector, result
<1>18. CASE TermExpired
  BY <1>18 DEF TermExpired, IInv, Ending, Snapping, Whole, Eof, LeaderGone, Quiet, child,
      collector, result
<1>19. CASE Wait
  BY <1>19 DEF Wait, IInv, Ending, Snapping, Whole, Eof, LeaderGone, Quiet, control, child,
      collector, result
<1>20. CASE WaitExpired
  BY <1>20 DEF WaitExpired, Raise, IInv, Ending, Snapping, Whole, Eof, LeaderGone, Quiet,
      child, collector, result
<1>21. CASE Finally
  BY <1>21 DEF Finally, IInv, Ending, Snapping, Whole, Eof, LeaderGone, Quiet, child,
      collector, result
<1>22. CASE Escape
  BY <1>22 DEF Escape, IInv, Ending, Snapping, Whole, Eof, LeaderGone, Quiet, control, child,
      collector, result
<1>23. CASE Report
  BY <1>23 DEF Report, IInv, Ending, Snapping, Whole, Eof, LeaderGone, Quiet, control, child,
      collector
<1>24. CASE Session
  BY <1>24 DEF Session, IInv, Ending, Snapping, Whole, Eof, LeaderGone, Quiet, control, child,
      collector
<1>25. CASE Tick
  BY <1>25 DEF Tick, IInv, Ending, Snapping, Whole, Eof, LeaderGone, Quiet, control, child,
      collector, result
<1>26. CASE Finished
  BY <1>26 DEF Finished, IInv, Ending, Snapping, Whole, Eof, LeaderGone, Quiet, vars, control,
      child, collector, result
<1>27. CASE Fork
  BY <1>27 DEF Fork, CanAct, IInv, Ending, Snapping, Whole, Eof, LeaderGone, Quiet, control,
      collector, result
<1>28. ASSUME NEW s \in Streams, ReaderFill(s) PROVE Ending'
  <2>1. pipe[s] # 0 /\ ~Whole(s)
    BY <1>28 DEF ReaderFill, Whole, Eof, IInv, TypeOK
  <2> QED BY <1>28, <2>1 DEF ReaderFill, IInv, Ending, LeaderGone, Quiet, control
<1>29. ASSUME NEW s \in Streams, ReaderDeliver(s) \/ ReaderRetain(s) \/ ReaderLimit(s) PROVE Ending'
  <2>1. pc \notin {"start", "stdin"} /\ ~Whole(s) /\ chunks[s] <= Cap[s]
    <3>1. reader[s] \in {"reading"} \cup Feeding /\ (reader[s] \in Feeding \/ buf[s] > 0)
      BY <1>29 DEF ReaderDeliver, ReaderRetain, ReaderLimit, Feeding
    <3>2. chunks[s] <= Cap[s] /\ buf[s] > 0
      BY <3>1 DEF IInv, Collecting
    <3>3. pc \notin {"start", "stdin"}
      BY <3>1 DEF IInv, Ending, Feeding
    <3> QED BY <3>2, <3>3 DEF Whole
  <2>2. \A t \in Streams \ {s} : chunks'[t] = chunks[t]
    BY <1>29 DEF ReaderDeliver, ReaderRetain, ReaderLimit, IInv, TypeOK
  <2>3. ~(chunks[s] > Cap[s])
    BY <2>1 DEF IInv, TypeOK
  <2>4. \A t \in Streams : chunks[t] > Cap[t] => chunks'[t] > Cap[t]
    BY <2>2, <2>3
  <2>5. UNCHANGED <<pc, error, alive, platform>>
    BY <1>29 DEF ReaderDeliver, ReaderRetain, ReaderLimit, control, child
  <2> QED BY <2>1, <2>4, <2>5 DEF IInv, Ending, Snapping, LeaderGone, Quiet
<1>30. ASSUME NEW s \in Streams, ReaderEof(s) PROVE Ending'
  BY <1>30 DEF ReaderEof, IInv, Ending, Snapping, Whole, Eof, LeaderGone, Quiet, control,
      child, result
<1>31. ASSUME NEW s \in Streams, ReaderOverflow(s) PROVE Ending'
  BY <1>31 DEF ReaderOverflow, MarkLimit, IInv, Ending, Snapping, Whole, Eof, LeaderGone,
      Quiet, control, child, result
<1>32. ASSUME NEW c \in Children, ChildReadStdin(c) PROVE Ending'
  BY <1>32 DEF ChildReadStdin, CanAct, IInv, Ending, Snapping, Whole, Eof, LeaderGone, Quiet,
      control, collector, result
<1>33. ASSUME NEW c \in Children, ChildCloseStdin(c) PROVE Ending'
  BY <1>33 DEF ChildCloseStdin, CanAct, IInv, Ending, Snapping, Whole, Eof, LeaderGone, Quiet,
      control, collector, result
<1>34. ASSUME NEW c \in Children, ChildExit(c) PROVE Ending'
  BY <1>34 DEF ChildExit, End, CanAct, IInv, Ending, Snapping, Whole, Eof, LeaderGone, Quiet,
      control, collector, result
<1>35. ASSUME NEW c \in Children, ChildKilled(c) PROVE Ending'
  BY <1>35 DEF ChildKilled, End, IInv, Ending, Snapping, Whole, Eof, LeaderGone, Quiet,
      control, collector, result
<1>36. ASSUME NEW c \in Children, NEW s \in Streams, ChildWrite(c, s) PROVE Ending'
  BY <1>36 DEF ChildWrite, CanAct, IInv, Ending, Snapping, Whole, Eof, LeaderGone, Quiet,
      control, collector, result
<1>37. ASSUME NEW c \in Children, NEW s \in Streams, ChildClose(c, s) PROVE Ending'
  BY <1>37 DEF ChildClose, CanAct, IInv, Ending, Snapping, Whole, Eof, LeaderGone, Quiet,
      control, collector, result
<1>38. CASE UNCHANGED vars
  BY <1>38 DEF vars, control, child, collector, result, IInv, Ending, Snapping, Whole, Eof,
      LeaderGone, Quiet
<1>39. CASE ReadRetained
  BY <1>39 DEF ReadRetained, IInv, Ending, Snapping, Whole, Eof,
      LeaderGone, Quiet, control, child, collector
<1>40. CASE ReadTruncated
  BY <1>40 DEF ReadTruncated, IInv, Ending, Snapping, Whole, Eof,
      LeaderGone, Quiet, control, child, collector
<1>41. CASE ReadObserved
  BY <1>41 DEF ReadObserved, IInv, Ending, Snapping, Whole, Eof,
      LeaderGone, Quiet, control, child, collector
<1> QED BY <1>1, <1>2, <1>3, <1>4, <1>5, <1>6, <1>7, <1>8, <1>9, <1>10, <1>11, <1>12, <1>13,
    <1>14, <1>15, <1>16, <1>17, <1>18, <1>19, <1>20, <1>21, <1>22, <1>23, <1>24, <1>25, <1>26,
    <1>27, <1>28, <1>29, <1>30, <1>31, <1>32, <1>33, <1>34, <1>35, <1>36, <1>37, <1>38, <1>39,
    <1>40, <1>41 DEF Next, ParentStep, ReaderStep, ChildStep

\* Before the observation, the parent hands nothing over.
LEMMA NotYetObserved ==
    ASSUME ParentStep, ~Report, ~ReadRetained, ~ReadTruncated, ~ReadObserved, ~Session, ~Escape
    PROVE  /\ pc \notin Snapping \cup {"session", "done"}
           /\ pc' \notin Snapping \cup {"session", "done"}
           /\ UNCHANGED result
<1>1. CASE StartFails \/ Popen \/ WriteStdin \/ Collect \/ LoopEnd \/ LoopDeadline \/ Select \/ Poll
  BY <1>1 DEF StartFails, Popen, WriteStdin, Collect, LoopEnd, LoopDeadline, Select, Poll, Raise,
     Snapping
<1>2. CASE ReadEof \/ ReadData
  BY <1>2 DEF ReadEof, ReadData, NextEvent, Raise, Snapping
<1>3. CASE NtOverflow \/ NtJoin \/ NtDeadline \/ Wait \/ WaitExpired \/ Finally
  BY <1>3 DEF NtOverflow, NtJoin, NtDeadline, Wait, WaitExpired, Finally, Raise, Snapping
<1>4. CASE TermPoll \/ TermSignal \/ TermWaited \/ TermKill \/ TermExpired
  BY <1>4 DEF TermPoll, TermSignal, TermWaited, TermKill, TermExpired, Returned, Snapping
<1> QED BY <1>1, <1>2, <1>3, <1>4 DEF ParentStep

\* A reader takes nothing back, and adds nothing to a stream that has ended.
LEMMA ReaderGrows ==
    ASSUME IInv, NEW s \in Streams, ReaderStep(s), NEW t \in Streams
    PROVE  /\ chunks[t] > Cap[t] => chunks'[t] > Cap[t]
           /\ capture[t].retained <= capture'[t].retained
           /\ Whole(s) => chunks'[t] = chunks[t] /\ capture'[t].retained = capture[t].retained
           /\ UNCHANGED <<platform, pc, error, observation, shot, session>>
<1> USE ExecutionAssumption
<1>1. /\ chunks[t] \in Nat /\ Cap[t] \in Nat /\ capture[t].retained \in Nat
      /\ capture \in [Streams -> Captures] /\ chunks \in [Streams -> Nat] /\ buf[s] \in Nat
  BY DEF IInv, TypeOK, Captures
<1>2. CASE ReaderFill(s) \/ ReaderEof(s)
  BY <1>1, <1>2 DEF ReaderFill, ReaderEof, control, result
<1>3. CASE ReaderDeliver(s) \/ ReaderRetain(s) \/ ReaderLimit(s)
  <2>1. ~Whole(s)
    BY <1>3 DEF ReaderDeliver, ReaderRetain, ReaderLimit, IInv, Collecting, Feeding, Whole
  <2>2. capture[t].retained <= capture'[t].retained
    <3>1. CASE t = s
      BY <1>3, <3>1, FeedSteps DEF IInv
    <3>2. CASE t # s
      <4>1. capture'[t] = capture[t]
        BY <1>3, <3>2, FeedSteps DEF IInv
      <4> QED BY <1>1, <4>1
    <3> QED BY <3>1, <3>2
  <2>3. chunks[t] > Cap[t] => chunks'[t] > Cap[t]
    <3>1. CASE ReaderLimit(s)
      BY <1>1, <3>1 DEF ReaderLimit
    <3>2. CASE ReaderDeliver(s) \/ ReaderRetain(s)
      BY <3>2 DEF ReaderDeliver, ReaderRetain
    <3> QED BY <1>3, <3>1, <3>2
  <2>4. UNCHANGED <<platform, pc, error, observation, shot, session>>
    BY <1>3 DEF ReaderDeliver, ReaderRetain, ReaderLimit, control, result
  <2> QED BY <2>1, <2>2, <2>3, <2>4
<1>4. CASE ReaderOverflow(s)
  <2>1. UNCHANGED <<platform, pc, error, observation, shot, session, chunks>>
    BY <1>4 DEF ReaderOverflow, control, result
  <2>2. capture'[t].retained = capture[t].retained
    BY <1>1, <1>4 DEF ReaderOverflow, MarkLimit, Captures
  <2> QED BY <1>1, <2>1, <2>2
<1> QED BY <1>2, <1>3, <1>4 DEF ReaderStep

\* The capture of a stream above its cap says so, holds the cap and counts more.
LEMMA OverflowCaptured ==
    ASSUME TypeOK, Conserved, Collecting, NEW s \in Streams
    PROVE  /\ capture[s].limit_hit <=> chunks[s] > Cap[s]
           /\ chunks[s] > Cap[s] => capture[s].retained = Cap[s] /\ capture[s].observed > Cap[s]
<1> USE ExecutionAssumption
<1>1. Captured(s) /\ chunks[s] \in Nat /\ Cap[s] \in Nat /\ buf[s] \in Nat
  BY DEF TypeOK, Conserved
<1>2. ASSUME chunks[s] > Cap[s] PROVE reader[s] \notin Feeding
  <2>1. ~(chunks[s] <= Cap[s])
    BY <1>1, <1>2
  <2> QED BY <2>1 DEF Collecting
<1> QED BY <1>1, <1>2 DEF Captured, Ahead, Feeding, Least

\* What is done to the streams does not undo an observation.
LEMMA ObservationStays ==
    ASSUME IInv, UNCHANGED <<platform, pc, error, observation, shot>>,
           \A t \in Streams : chunks[t] > Cap[t] => chunks'[t] > Cap[t],
           \A t \in Streams : capture[t].retained <= capture'[t].retained,
           capture' \in [Streams -> Captures],
           Observed /\ error = "none" => \A t \in Streams : chunks'[t] = chunks[t]
    PROVE  Observation'
<1>1. Modest'
  <2>1. \A t \in Streams : /\ observation.streams[t].retained \in Nat
                           /\ capture[t].retained \in Nat /\ capture'[t].retained \in Nat
    BY DEF IInv, TypeOK, Captures, Observation, Modest, StreamReports
  <2>2. \A t \in Streams : observation.streams[t].retained <= capture'[t].retained
    BY <2>1 DEF IInv, Observation, Modest
  <2> QED BY <2>2 DEF IInv, Observation, Modest, Passed
<1>2. Named'
  BY DEF IInv, Observation, Named, RetainedRead, TruncatedRead, Passed
<1>3. Final'
  BY DEF IInv, Observation, Final, Observed, Quiet
<1> QED BY <1>1, <1>2, <1>3 DEF IInv, Observation, Unmade

\* The observation is made at once when nothing feeds the captures; otherwise it
\* is begun.
LEMMA ReportStep ==
    ASSUME IInv, Report
    PROVE  Observation'
<1> USE ExecutionAssumption
<1>1. /\ pc = "report" /\ error # "TimeoutExpired" /\ shot = "stdout"
      /\ UNCHANGED <<platform, error, chunks, capture, shot>>
  BY DEF Report, control, collector, IInv, Observation, Unmade, Snapping
<1>2. /\ DOMAIN observation' = {"error", "termination", "started_at", "streams"}
      /\ error = "none" => observation'.termination \in {"completed", "nonzero-exit", "signal"}
      /\ error # "none" =>
           observation'.termination \in {"timeout", "output-limit", "internal-runner-error"}
      /\ error = "none" => observation'.started_at # "never"
      /\ observation'.streams = IF Quiet
                                THEN [s \in Streams |-> Snapshot(capture[s], error = "none")]
                                ELSE NoObservation.streams
  BY DEF Report
<1>3. /\ DOMAIN observation' = {"error", "termination", "started_at", "streams"}
      /\ Completed(observation') <=> error = "none"
      /\ error = "none" => observation'.started_at # "never"
      /\ observation'.streams = IF Quiet
                                THEN [s \in Streams |-> Snapshot(capture[s], error = "none")]
                                ELSE NoObservation.streams
  BY <1>2 DEF Completed
<1>4. \A s \in Streams : capture[s] \in Captures
  BY DEF IInv, TypeOK, Captures
<1>5. CASE Quiet
  <2>1. pc' = "session" /\ Quiet'
    BY <1>1, <1>5 DEF Report, Quiet
  <2>2. ASSUME NEW s \in Streams
        PROVE  /\ observation'.streams[s] = Snapshot(capture[s], error = "none")
               /\ observation'.streams[s] \in StreamReports
               /\ observation'.streams[s].observed = capture[s].observed
               /\ observation'.streams[s].retained = capture[s].retained
               /\ observation'.streams[s].truncated = "yes" =>
                    /\ chunks[s] > Cap[s]
                    /\ observation'.streams[s].observed > Cap[s]
                    /\ observation'.streams[s].retained = Cap[s]
               /\ chunks[s] > Cap[s] /\ error # "none" =>
                    /\ observation'.streams[s].retained = Cap[s]
                    /\ observation'.streams[s].truncated = "yes"
    <3>1. observation'.streams[s] = Snapshot(capture[s], error = "none")
      BY <1>3, <1>5
    <3>2. /\ Snapshot(capture[s], error = "none") \in StreamReports
          /\ Snapshot(capture[s], error = "none").observed = capture[s].observed
          /\ Snapshot(capture[s], error = "none").retained = capture[s].retained
          /\ Snapshot(capture[s], error = "none").truncated = "yes" => capture[s].limit_hit
          /\ capture[s].limit_hit /\ error # "none" =>
               Snapshot(capture[s], error = "none").truncated = "yes"
      BY <1>4 DEF Snapshot, StreamReports, Captures, Unknown
    <3> QED BY <3>1, <3>2, OverflowCaptured DEF IInv
  <2>3. ASSUME NEW s \in Streams, error = "none"
        PROVE  /\ observation'.streams[s].total = chunks[s]
               /\ observation'.streams[s].truncated = "no"
    <3>1. Whole(s)
      BY <1>1, <2>3 DEF IInv, Ending
    <3>2. reader[s] \notin Feeding /\ chunks[s] <= Cap[s]
      BY <3>1 DEF Whole, IInv, Collecting
    <3>3. capture[s].possible /\ capture[s].observed = chunks[s]
      BY <3>2, CaptureCounts DEF IInv, Counts
    <3>4. observation'.streams[s] = Snapshot(capture[s], error = "none")
      BY <2>2
    <3> QED BY <2>3, <3>3, <3>4 DEF Snapshot
  <2>4. observation'.streams \in [Streams -> StreamReports]
    <3>1. observation'.streams = [s \in Streams |-> Snapshot(capture[s], error = "none")]
      BY <1>3, <1>5
    <3>2. \A s \in Streams : Snapshot(capture[s], error = "none") \in StreamReports
      BY <2>2
    <3> QED BY <3>1, <3>2
  <2>5. Modest'
    <3>1. \A s \in Streams : capture[s].retained \in Nat
      BY <1>4 DEF Captures
    <3> QED BY <1>1, <1>3, <2>2, <2>4, <3>1 DEF Modest
  <2>6. Named'
    <3> SUFFICES ASSUME error = "OUTPUT_LIMIT"
                 PROVE  \E s \in Streams :
                          /\ chunks[s] > Cap[s]
                          /\ observation'.streams[s].retained = Cap[s]
                          /\ observation'.streams[s].truncated = "yes"
      BY <1>1 DEF Named
    <3>1. PICK s \in Streams : chunks[s] > Cap[s]
      BY DEF IInv, Ending
    <3> QED BY <2>2, <3>1
  <2>7. Final'
    BY <1>1, <1>3, <2>2, <2>3 DEF Final
  <2> QED BY <2>1, <2>5, <2>6, <2>7 DEF Observation, Unmade, Snapping
<1>6. CASE ~Quiet
  <2>1. pc' = "retained" /\ error # "none" /\ observation'.streams = NoObservation.streams
    BY <1>1, <1>3, <1>6 DEF Report, Quiet
  <2>2. \A s \in Streams : ~Passed(s)' /\ ~RetainedRead(s)' /\ ~TruncatedRead(s)'
    BY <1>1, <2>1 DEF Passed, RetainedRead, TruncatedRead
  <2>3. Modest'
    <3>1. \A s \in Streams : capture'[s].retained \in Nat
      BY <1>1, <1>4 DEF Captures
    <3> QED BY <1>3, <2>1, <2>2, <3>1 DEF Modest, NoObservation, StreamReports, Unknown
  <2>4. Named'
    BY <1>1, <2>2 DEF Named, IInv, Ending
  <2>5. Final' /\ Unmade' /\ ~Completed(observation')
    BY <1>1, <1>3, <2>1 DEF Final, Observed, Unmade, Snapping
  <2> QED BY <2>3, <2>4, <2>5 DEF Observation
<1> QED BY <1>5, <1>6

\* One field of the snapshot that is being made has been read.
Noted(report) ==
    /\ shot \in Streams /\ report \in StreamReports
    /\ observation' = [observation EXCEPT !.streams = [@ EXCEPT ![shot] = report]]
    /\ UNCHANGED <<platform, error, chunks, capture>>

\* What a read leaves as it was.
LEMMA NotedElsewhere ==
    ASSUME Modest, NEW report, Noted(report)
    PROVE  /\ DOMAIN observation' = {"error", "termination", "started_at", "streams"}
           /\ observation'.streams \in [Streams -> StreamReports]
           /\ observation'.streams[shot] = report
           /\ \A s \in Streams : s # shot => observation'.streams[s] = observation.streams[s]
           /\ Completed(observation') <=> Completed(observation)
BY DEF Modest, Noted, Completed

\* The retained length of the stream that is read is what the capture has by now.
LEMMA ReadRetainedStep ==
    ASSUME IInv, ReadRetained
    PROVE  Observation'
<1> USE ExecutionAssumption
<1> DEFINE report == [observation.streams[shot] EXCEPT !.retained = capture[shot].retained]
<1>1. /\ pc = "retained" /\ pc' = "truncated" /\ shot' = shot /\ shot \in Streams
      /\ Modest /\ Named /\ ~Completed(observation) /\ error # "none"
      /\ capture \in [Streams -> Captures] /\ observation.streams[shot] \in StreamReports
  BY DEF ReadRetained, IInv, TypeOK, Captures, Observation, Modest, Ending, Snapping, Quiet
<1>2. /\ report \in StreamReports /\ report.retained = capture[shot].retained
      /\ report.observed = observation.streams[shot].observed
      /\ report.truncated = observation.streams[shot].truncated
  BY <1>1 DEF StreamReports, Captures
<1>3. Noted(report)
  BY <1>1, <1>2 DEF ReadRetained, Noted, control, collector, Modest
<1> HIDE DEF report
<1>4. /\ DOMAIN observation' = {"error", "termination", "started_at", "streams"}
      /\ observation'.streams \in [Streams -> StreamReports]
      /\ observation'.streams[shot] = report
      /\ \A s \in Streams : s # shot => observation'.streams[s] = observation.streams[s]
      /\ ~Completed(observation')
      /\ UNCHANGED <<platform, error, chunks, capture>>
  BY <1>1, <1>3, NotedElsewhere DEF Noted
<1>5. \A s \in Streams : Passed(s)' <=> Passed(s)
  BY <1>1 DEF Passed, Snapping
<1>6. Modest'
  <2>1. capture[shot].retained <= capture[shot].retained
    BY <1>1 DEF Captures
  <2> QED BY <1>1, <1>2, <1>4, <1>5, <2>1 DEF Modest
<1>7. Named'
  <2> SUFFICES ASSUME error = "OUTPUT_LIMIT"
               PROVE  \E s \in Streams :
                        /\ chunks[s] > Cap[s]
                        /\ RetainedRead(s)' => observation'.streams[s].retained = Cap[s]
                        /\ TruncatedRead(s)' => observation'.streams[s].truncated = "yes"
    BY <1>4 DEF Named
  <2>1. PICK s \in Streams :
          /\ chunks[s] > Cap[s]
          /\ RetainedRead(s) => observation.streams[s].retained = Cap[s]
          /\ TruncatedRead(s) => observation.streams[s].truncated = "yes"
    BY <1>1 DEF Named, Snapping
  <2>2. capture[s].retained = Cap[s]
    BY <2>1, OverflowCaptured DEF IInv
  <2> QED BY <1>1, <1>2, <1>4, <1>5, <2>1, <2>2 DEF RetainedRead, TruncatedRead
<1> QED BY <1>1, <1>4, <1>6, <1>7 DEF Observation, Final, Observed, Unmade, Snapping

\* It is called truncated when its limit has been hit by then.
LEMMA ReadTruncatedStep ==
    ASSUME IInv, ReadTruncated
    PROVE  Observation'
<1> USE ExecutionAssumption
<1> DEFINE report == [observation.streams[shot] EXCEPT !.truncated =
                         IF capture[shot].limit_hit THEN "yes" ELSE "unknown"]
<1>1. /\ pc = "truncated" /\ pc' = "observed" /\ shot' = shot /\ shot \in Streams
      /\ Modest /\ Named /\ ~Completed(observation) /\ error # "none"
      /\ observation.streams[shot] \in StreamReports
  BY DEF ReadTruncated, IInv, TypeOK, Observation, Modest, Ending, Snapping, Quiet
<1>2. /\ report \in StreamReports /\ report.retained = observation.streams[shot].retained
      /\ report.observed = observation.streams[shot].observed
      /\ report.truncated = "yes" <=> capture[shot].limit_hit
  BY <1>1 DEF StreamReports
<1>3. Noted(report)
  BY <1>1, <1>2 DEF ReadTruncated, Noted, control, collector, Modest
<1> HIDE DEF report
<1>4. /\ DOMAIN observation' = {"error", "termination", "started_at", "streams"}
      /\ observation'.streams \in [Streams -> StreamReports]
      /\ observation'.streams[shot] = report
      /\ \A s \in Streams : s # shot => observation'.streams[s] = observation.streams[s]
      /\ ~Completed(observation')
      /\ UNCHANGED <<platform, error, chunks, capture>>
  BY <1>1, <1>3, NotedElsewhere DEF Noted
<1>5. \A s \in Streams : (Passed(s)' <=> Passed(s)) /\ (Passed(s) => s # shot)
  BY <1>1 DEF Passed, Snapping
<1>6. Modest'
  <2>1. capture[shot].limit_hit => chunks[shot] > Cap[shot]
    BY <1>1, OverflowCaptured DEF IInv
  <2> QED BY <1>1, <1>2, <1>4, <1>5, <2>1 DEF Modest
<1>7. Named'
  <2> SUFFICES ASSUME error = "OUTPUT_LIMIT"
               PROVE  \E s \in Streams :
                        /\ chunks[s] > Cap[s]
                        /\ RetainedRead(s)' => observation'.streams[s].retained = Cap[s]
                        /\ TruncatedRead(s)' => observation'.streams[s].truncated = "yes"
    BY <1>4 DEF Named
  <2>1. PICK s \in Streams :
          /\ chunks[s] > Cap[s]
          /\ RetainedRead(s) => observation.streams[s].retained = Cap[s]
          /\ TruncatedRead(s) => observation.streams[s].truncated = "yes"
    BY <1>1 DEF Named, Snapping
  <2>2. capture[s].limit_hit
    BY <2>1, OverflowCaptured DEF IInv
  <2> QED BY <1>1, <1>2, <1>4, <1>5, <2>1, <2>2 DEF RetainedRead, TruncatedRead
<1> QED BY <1>1, <1>4, <1>6, <1>7 DEF Observation, Final, Observed, Unmade, Snapping

\* At last the bytes are counted; then the other stream follows, or the session.
LEMMA ReadObservedStep ==
    ASSUME IInv, ReadObserved
    PROVE  Observation'
<1> USE ExecutionAssumption
<1> DEFINE report == [observation.streams[shot] EXCEPT !.observed = capture[shot].observed]
<1>1. /\ pc = "observed" /\ shot \in Streams
      /\ Modest /\ Named /\ ~Completed(observation) /\ error # "none" /\ ~Quiet
      /\ capture \in [Streams -> Captures] /\ observation.streams[shot] \in StreamReports
  BY DEF ReadObserved, IInv, TypeOK, Captures, Observation, Modest, Ending, Snapping, Quiet
<1>2. /\ report \in StreamReports /\ report.observed = capture[shot].observed
      /\ report.retained = observation.streams[shot].retained
      /\ report.truncated = observation.streams[shot].truncated
  BY <1>1 DEF StreamReports, Captures
<1>3. Noted(report)
  BY <1>1, <1>2 DEF ReadObserved, Noted, control, collector, Modest
<1>8. \/ shot = "stdout" /\ shot' = "stderr" /\ pc' = "retained"
      \/ shot = "stderr" /\ shot' = "stderr" /\ pc' = "session"
  BY <1>1 DEF ReadObserved, Streams
<1> HIDE DEF report
<1>4. /\ DOMAIN observation' = {"error", "termination", "started_at", "streams"}
      /\ observation'.streams \in [Streams -> StreamReports]
      /\ observation'.streams[shot] = report
      /\ \A s \in Streams : s # shot => observation'.streams[s] = observation.streams[s]
      /\ ~Completed(observation')
      /\ UNCHANGED <<platform, error, chunks, capture>>
  BY <1>1, <1>3, NotedElsewhere DEF Noted
<1>5. ASSUME NEW s \in Streams
      PROVE  /\ Passed(s)' <=> Passed(s) \/ s = shot
             /\ Passed(s)' <=> RetainedRead(s)'
             /\ Passed(s)' <=> TruncatedRead(s)'
             /\ s = shot => RetainedRead(s) /\ TruncatedRead(s)
             /\ Passed(s) => RetainedRead(s) /\ TruncatedRead(s)
  BY <1>1, <1>8 DEF Passed, RetainedRead, TruncatedRead, Snapping, Streams
<1>6. Modest'
  <2>1. chunks[shot] > Cap[shot] => capture[shot].observed > Cap[shot]
    BY <1>1, OverflowCaptured DEF IInv
  <2> QED BY <1>1, <1>2, <1>4, <1>5, <2>1 DEF Modest
<1>7. Named'
  <2> SUFFICES ASSUME error = "OUTPUT_LIMIT"
               PROVE  \E s \in Streams :
                        /\ chunks[s] > Cap[s]
                        /\ RetainedRead(s)' => observation'.streams[s].retained = Cap[s]
                        /\ TruncatedRead(s)' => observation'.streams[s].truncated = "yes"
    BY <1>4 DEF Named
  <2>1. PICK s \in Streams :
          /\ chunks[s] > Cap[s]
          /\ RetainedRead(s) => observation.streams[s].retained = Cap[s]
          /\ TruncatedRead(s) => observation.streams[s].truncated = "yes"
    BY <1>1 DEF Named, Snapping
  <2> QED BY <1>2, <1>4, <1>5, <2>1
<1>9. Final' /\ Unmade'
  BY <1>1, <1>4, <1>8 DEF Final, Unmade, Snapping, Quiet
<1> QED BY <1>4, <1>6, <1>7, <1>9 DEF Observation

\* Every step keeps what is known of the observation.
LEMMA ObservationStep == IInv /\ [Next]_vars => Observation'
<1> SUFFICES ASSUME IInv, [Next]_vars PROVE Observation' OBVIOUS
<1> USE ExecutionAssumption
<1>0. TypeOK'
  BY TypeStep
<1>1. CASE /\ ParentStep /\ ~Report /\ ~ReadRetained /\ ~ReadTruncated /\ ~ReadObserved
           /\ ~Session /\ ~Escape
  <2>1. /\ observation' = NoObservation /\ shot' = "stdout"
        /\ pc' \notin Snapping \cup {"session", "done"}
    BY <1>1, NotYetObserved DEF IInv, Observation, Unmade, result
  <2>2. Modest'
    BY <1>0, <2>1 DEF Modest, NoObservation, StreamReports, Unknown, TypeOK
  <2> QED BY <2>1, <2>2 DEF Observation, Named, Final, Observed, Unmade
<1>2. CASE Report
  BY <1>2, ReportStep
<1>3. CASE ReadRetained
  BY <1>3, ReadRetainedStep
<1>4. CASE ReadTruncated
  BY <1>4, ReadTruncatedStep
<1>5. CASE ReadObserved
  BY <1>5, ReadObservedStep
<1>6. CASE Session
  <2>1. /\ pc = "session" /\ pc' = "done"
        /\ UNCHANGED <<platform, error, observation, shot, chunks, capture>>
    BY <1>6 DEF Session, control, collector
  <2>2. Modest' /\ Named' /\ Final'
    BY <2>1 DEF IInv, Observation, Modest, Named, Final, Observed, Quiet, Passed, RetainedRead,
       TruncatedRead
  <2> QED BY <2>1, <2>2 DEF Observation, Unmade, Snapping
<1>7. CASE Escape
  <2>1. /\ error' = "TimeoutExpired" /\ pc' = "done" /\ observation' = NoObservation
    BY <1>7 DEF Escape, control, result, IInv, Observation, Unmade, Snapping
  <2>2. Modest'
    BY <1>0, <2>1 DEF Modest, NoObservation, StreamReports, Unknown, TypeOK
  <2> QED BY <2>1, <2>2 DEF Observation, Named, Final, Observed, Unmade, Snapping
<1>8. ASSUME NEW s \in Streams, ReaderStep(s) PROVE Observation'
  <2>1. capture' \in [Streams -> Captures]
    BY <1>0 DEF TypeOK, Captures
  <2>2. Observed /\ error = "none" => \A t \in Streams : chunks'[t] = chunks[t]
    BY <1>8, ReaderGrows DEF Observed, IInv, Ending
  <2> QED BY <1>8, <2>1, <2>2, ReaderGrows, ObservationStays
<1>9. CASE ChildStep \/ Fork \/ Tick \/ UNCHANGED vars \/ \E c \in Children : ChildKilled(c)
  <2>1. UNCHANGED <<platform, pc, error, observation, shot, chunks, capture>>
    BY <1>9 DEF ChildStep, ChildReadStdin, ChildCloseStdin, ChildExit, ChildKilled, ChildWrite,
       ChildClose, End, Fork, Tick, vars, control, collector, result
  <2>2. /\ \A t \in Streams : capture[t].retained <= capture'[t].retained
        /\ capture' \in [Streams -> Captures]
    BY <2>1 DEF IInv, TypeOK, Captures
  <2> QED BY <2>1, <2>2, ObservationStays
<1> QED BY <1>1, <1>2, <1>3, <1>4, <1>5, <1>6, <1>7, <1>8, <1>9 DEF Next, Finished

\* The invariant is inductive.
LEMMA Inductive == IInv /\ [Next]_vars => IInv'
BY TypeStep, ConservedStep, CollectingStep, EndingStep, ObservationStep DEF IInv

-----------------------------------------------------------------------------
\* Every reachable state of a run satisfies the invariant (run_bounded with
\* its two collectors, _terminate, the observation).
THEOREM Invariance == Spec => []IInv
BY Initial, Inductive, PTL DEF Spec

\* Types and bounds hold for ever: no pipe, buffer or retained prefix outgrows
\* its limit (_StreamCapture.feed, os.read).
THEOREM Types == Spec => []TypeOK
<1>1. IInv => TypeOK
  BY DEF IInv
<1> QED BY <1>1, Invariance, PTL

\* A complete receipt was made of the whole output of a command that has exited
\* and of pipes nobody holds any more (run_bounded, _completeness).
THEOREM CompleteReceipts == Spec => []CompleteMeansWhole
<1>1. IInv => CompleteMeansWhole
  <2> SUFFICES ASSUME IInv, Observed, Complete(observation)
               PROVE  /\ LeaderGone
                      /\ \A s \in Streams :
                           /\ Eof(s)
                           /\ observation.streams[s].total = written[s]
                           /\ written[s] <= Cap[s]
    BY DEF CompleteMeansWhole
  <2>1. error = "none"
    BY DEF IInv, Observation, Final, Complete
  <2>2. LeaderGone /\ \A s \in Streams : Whole(s)
    BY <2>1 DEF Observed, IInv, Ending
  <2>3. ASSUME NEW s \in Streams
        PROVE  observation.streams[s].total = written[s] /\ written[s] <= Cap[s]
    <3>1. written[s] = chunks[s]
      BY <2>2 DEF Whole, Eof, IInv, TypeOK, Conserved
    <3> QED BY <2>1, <2>2, <3>1 DEF Whole, IInv, Observation, Final
  <2> QED BY <2>2, <2>3 DEF Whole
<1> QED BY <1>1, Invariance, PTL

\* A result without error has a complete receipt; an OUTPUT_LIMIT names a stream of
\* which the cap is retained; truncation is reported only of output above the cap,
\* and on posix with the whole cap retained (_StreamCapture.snapshot).
THEOREM HonestTruncation == Spec => []TruncationHonest
<1>1. IInv => TruncationHonest
  <2> SUFFICES ASSUME IInv, Observed
               PROVE  /\ error = "none" <=> Complete(observation)
                      /\ error = "OUTPUT_LIMIT" =>
                           \E s \in Streams : /\ observation.streams[s].truncated = "yes"
                                             /\ observation.streams[s].retained = Cap[s]
                      /\ \A s \in Streams : observation.streams[s].truncated = "yes" =>
                           /\ written[s] > Cap[s] /\ observation.streams[s].observed > Cap[s]
                           /\ platform = "posix" => observation.streams[s].retained = Cap[s]
    BY DEF TruncationHonest
  <2>1. error = "none" <=> Complete(observation)
    <3>1. Complete(observation) => error = "none"
      BY DEF IInv, Observation, Final, Complete
    <3>2. error = "none" => Complete(observation)
      BY DEF IInv, Observation, Final, Complete, TypeOK, Unknown
    <3> QED BY <3>1, <3>2
  <2>2. ASSUME NEW s \in Streams, observation.streams[s].truncated = "yes"
        PROVE  /\ written[s] > Cap[s] /\ observation.streams[s].observed > Cap[s]
               /\ platform = "posix" => observation.streams[s].retained = Cap[s]
    <3>1. chunks[s] > Cap[s] /\ observation.streams[s].observed > Cap[s]
      BY <2>2 DEF IInv, Observation, Modest, Passed, Observed
    <3>2. platform = "posix" => observation.streams[s].retained = Cap[s]
      BY <2>2 DEF IInv, Observation, Final, Quiet
    <3>3. written[s] >= chunks[s] /\ Cap[s] \in Nat /\ chunks[s] \in Nat /\ written[s] \in Nat
      BY ExecutionAssumption DEF IInv, TypeOK, Conserved
    <3> QED BY <3>1, <3>2, <3>3
  <2>3. ASSUME error = "OUTPUT_LIMIT"
        PROVE  \E s \in Streams : /\ observation.streams[s].truncated = "yes"
                                  /\ observation.streams[s].retained = Cap[s]
    BY <2>3 DEF IInv, Observation, Named, Observed, RetainedRead, TruncatedRead, Passed
  <2> QED BY <2>1, <2>2, <2>3
<1> QED BY <1>1, Invariance, PTL

\* A runner that answers has outlived the process it started (_terminate and
\* the finally clause of run_bounded).
THEOREM NoLeaderLeft == Spec => []LeaderNeverOutlives
<1>1. IInv => LeaderNeverOutlives
  BY DEF IInv, Ending, LeaderNeverOutlives, Observed
<1> QED BY <1>1, Invariance, PTL

-----------------------------------------------------------------------------
\* From the observation on, what is handed over is what was observed: the capture
\* until the session is built, the session afterwards.  Where a reader may go on
\* feeding the capture, it begins with what was observed.
Handed ==
    Observed =>
        /\ pc = "session" /\ Quiet =>
             \A s \in Streams : observation.streams[s].retained = capture[s].retained
        /\ pc = "done" =>
             \A s \in Streams :
                /\ Quiet => session[s] = observation.streams[s].retained
                /\ observation.streams[s].retained <= session[s] /\ session[s] <= Cap[s]

\* Every step hands over what was observed.
LEMMA HandedStep == IInv /\ Handed /\ [Next]_vars => Handed'
<1> SUFFICES ASSUME IInv, Handed, [Next]_vars PROVE Handed' OBVIOUS
<1>1. CASE /\ ParentStep /\ ~Report /\ ~ReadRetained /\ ~ReadTruncated /\ ~ReadObserved
           /\ ~Session /\ ~Escape
  BY <1>1, NotYetObserved DEF Handed
<1>2. CASE Report
  <2>1. pc' \in {"session", "retained"} /\ UNCHANGED <<capture, platform, error>>
    BY <1>2 DEF Report, collector, control
  <2>2. \A s \in Streams : Quiet => observation'.streams[s].retained = capture[s].retained
    BY <1>2 DEF Report, Snapshot
  <2> QED BY <2>1, <2>2 DEF Handed, Quiet
<1>3. CASE ReadRetained \/ ReadTruncated \/ ReadObserved
  <2>1. ~Quiet /\ UNCHANGED <<platform, error>> /\ pc' # "done"
    BY <1>3 DEF ReadRetained, ReadTruncated, ReadObserved, control, IInv, Ending, Snapping
  <2> QED BY <2>1 DEF Handed, Quiet
<1>4. CASE Session
  <2>1. /\ pc = "session" /\ pc' = "done"
        /\ UNCHANGED <<platform, error, observation>>
        /\ session' = [s \in Streams |->
                         IF error = "none" THEN chunks[s] ELSE capture[s].retained]
    BY <1>4 DEF Session, control
  <2>2. ASSUME NEW s \in Streams, error = "none" PROVE chunks[s] = capture[s].retained
    <3>1. Whole(s)
      BY <2>1, <2>2 DEF IInv, Ending
    <3>2. reader[s] \notin Feeding /\ chunks[s] <= Cap[s]
      BY <3>1 DEF Whole, IInv, Collecting
    <3> QED BY <3>2, CaptureCounts, ExecutionAssumption DEF IInv, Counts, Least
  <2>3. \A s \in Streams : session'[s] = capture[s].retained
    BY <2>1, <2>2
  <2>4. \A s \in Streams : /\ observation.streams[s].retained <= capture[s].retained
                           /\ capture[s].retained <= Cap[s]
    BY DEF IInv, Observation, Modest, TypeOK
  <2>5. Observed' => Observed
    BY <2>1 DEF Observed
  <2> QED BY <2>1, <2>3, <2>4, <2>5 DEF Handed, Quiet
<1>5. CASE Escape
  BY <1>5 DEF Escape, control, Handed, Observed
<1>6. ASSUME NEW s \in Streams, ReaderStep(s) PROVE Handed'
  <2>1. UNCHANGED <<platform, error, pc, observation, session>>
    BY <1>6, ReaderGrows DEF Streams
  <2>2. ASSUME pc = "session", Quiet
        PROVE  \A u \in Streams : capture'[u].retained = capture[u].retained
    <3>1. reader[s] # "off"
      BY <1>6 DEF ReaderStep, ReaderFill, ReaderDeliver, ReaderRetain, ReaderLimit, ReaderEof,
         ReaderOverflow
    <3>2. Whole(s)
      BY <2>2, <3>1 DEF Quiet, IInv, Collecting, Ending
    <3> QED BY <1>6, <3>2, ReaderGrows
  <2> QED BY <2>1, <2>2 DEF Handed, Observed, Quiet
<1>7. CASE ChildStep \/ Fork \/ Tick \/ UNCHANGED vars \/ \E c \in Children : ChildKilled(c)
  <2>1. UNCHANGED <<platform, error, pc, observation, session, capture>>
    BY <1>7 DEF ChildStep, ChildReadStdin, ChildCloseStdin, ChildExit, ChildKilled, ChildWrite,
       ChildClose, End, Fork, Tick, vars, control, collector, result
  <2> QED BY <2>1 DEF Handed, Observed, Quiet
<1> QED BY <1>1, <1>2, <1>3, <1>4, <1>5, <1>6, <1>7 DEF Next, Finished

\* The bytes handed to the caller are the bytes that the observation counts; on nt
\* after an error they begin with those and stay within the cap (SessionAgrees).
THEOREM SessionObserved == Spec => []SessionAgrees
<1>1. Init => Handed
  BY DEF Init, Handed, Observed
<1>2. Handed => SessionAgrees
  BY DEF Handed, SessionAgrees
<1> QED BY <1>1, <1>2, HandedStep, Invariance, PTL DEF Spec
=============================================================================
