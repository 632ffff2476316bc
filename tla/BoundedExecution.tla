-------------------------- MODULE BoundedExecution --------------------------
(***************************************************************************)
(* run_bounded and the runners above it: Forge starts a declared command,  *)
(* writes its request, collects two pipes up to their caps until a         *)
(* deadline, terminates what is left, and makes an observation of what it  *)
(* saw.  The command (the leader of a process group) may start a           *)
(* descendant that inherits its pipes; both act on their own.              *)
(*                                                                         *)
(* Bytes are counted, not named: a pipe keeps its order and has one        *)
(* reader, so the n-th byte read is the n-th written.  The clock is one    *)
(* flag, late, set when the deadline has passed.  platform is os.name: on  *)
(* "posix" the parent selects on the pipes, on "nt" a reader thread per    *)
(* pipe collects and the parent joins them.                                *)
(***************************************************************************)
EXTENDS Integers, Sequences

CONSTANTS
    Platforms,    \* values of os.name
    Cap,          \* output_cap and stderr_cap
    Chunk,        \* the 65536 bytes asked of one read
    PipeSize,     \* capacity of a pipe
    StdinSizes,   \* lengths of a request
    MaxOutput     \* bound: bytes a command writes to a stream

Streams == {"stdout", "stderr"}
Children == {"leader", "descendant"}

ASSUME ExecutionAssumption ==
    /\ Platforms \subseteq {"posix", "nt"}
    /\ Cap \in [Streams -> Nat \ {0}]
    /\ Chunk \in Nat \ {0}
    /\ PipeSize \in Nat \ {0}
    /\ StdinSizes \subseteq Nat
    /\ MaxOutput \in [Streams -> Nat]

VARIABLES
    platform,
    pc,           \* where the parent is
    stage,        \* who called _terminate
    error,        \* the exception under way
    late,         \* the deadline has passed
    unsent,       \* bytes of the request still to write
    inbox,        \* bytes in the request pipe
    listening,    \* children that hold its read end
    alive,        \* children that run
    forked,       \* the descendant has been started
    signals,      \* the strongest signal sent to each child
    open,         \* children that hold the write end of each stream
    pipe,         \* bytes in each pipe
    written,      \* bytes ever written to each stream
    registered,   \* streams in the selector
    events,       \* streams left to read in this round
    chunks,       \* bytes collected of each stream
    capture,      \* _StreamCapture of each stream
    reader,       \* state of each reader thread
    buf,          \* bytes a reader has, short of a whole chunk
    overflow,     \* the overflow event
    observation,
    shot,         \* the stream that a snapshot is being made of
    session

child == <<inbox, listening, alive, forked, open, pipe, written>>
collector == <<registered, events, chunks, capture, reader, buf, overflow>>
control == <<platform, stage, error, unsent>>
result == <<observation, shot, session>>
vars == <<control, pc, late, signals, child, collector, result>>

ErrorCodes == {"none", "COMMAND_START", "TIMEOUT", "OUTPUT_LIMIT", "TimeoutExpired"}
Unknown == -1
Empty == [s \in Streams |-> 0]
NoCapture == [observed |-> 0, retained |-> 0, limit_hit |-> FALSE, possible |-> TRUE]
NoObservation == [error |-> "none", termination |-> "none", started_at |-> "never",
    streams |-> [s \in Streams |->
        [total |-> Unknown, observed |-> 0, retained |-> 0, truncated |-> "unknown"]]]

Least(a, b) == IF a <= b THEN a ELSE b
LeaderGone == "leader" \notin alive
Eof(s) == open[s] = {} /\ pipe[s] = 0

Init ==
    /\ platform \in Platforms
    /\ unsent \in StdinSizes
    /\ pc = "start" /\ stage = "try" /\ error = "none" /\ late = FALSE
    /\ inbox = 0 /\ listening = {} /\ alive = {} /\ forked = FALSE
    /\ signals = [c \in Children |-> "none"]
    /\ open = [s \in Streams |-> {}]
    /\ pipe = Empty /\ written = Empty /\ chunks = Empty /\ buf = Empty
    /\ registered = {} /\ events = <<>> /\ overflow = FALSE
    /\ reader = [s \in Streams |-> "off"]
    /\ capture = [s \in Streams |-> NoCapture]
    /\ observation = NoObservation /\ shot = "stdout" /\ session = Empty

-----------------------------------------------------------------------------
(* The command and its descendant.  Once the parent has its result nothing *)
(* they do is seen.                                                        *)

CanAct(c) == c \in alive /\ signals[c] # "KILL" /\ pc # "done"

ChildWrite(c, s) ==
    /\ CanAct(c) /\ c \in open[s]
    /\ pipe[s] < PipeSize /\ written[s] < MaxOutput[s]
    /\ pipe' = [pipe EXCEPT ![s] = @ + 1]
    /\ written' = [written EXCEPT ![s] = @ + 1]
    /\ UNCHANGED <<control, pc, late, signals, inbox, listening, alive, forked, open, collector, result>>

ChildClose(c, s) ==
    /\ CanAct(c) /\ c \in open[s]
    /\ open' = [open EXCEPT ![s] = @ \ {c}]
    /\ UNCHANGED <<control, pc, late, signals, inbox, listening, alive, forked, pipe, written, collector, result>>

ChildReadStdin(c) ==
    /\ CanAct(c) /\ c \in listening /\ inbox > 0
    /\ inbox' = inbox - 1
    /\ UNCHANGED <<control, pc, late, signals, listening, alive, forked, open, pipe, written, collector, result>>

ChildCloseStdin(c) ==
    /\ CanAct(c) /\ c \in listening
    /\ listening' = listening \ {c}
    /\ UNCHANGED <<control, pc, late, signals, inbox, alive, forked, open, pipe, written, collector, result>>

Fork ==
    /\ CanAct("leader") /\ ~forked
    /\ forked' = TRUE
    /\ alive' = alive \cup {"descendant"}
    /\ open' = [s \in Streams |->
        IF "leader" \in open[s] THEN open[s] \cup {"descendant"} ELSE open[s]]
    /\ listening' = IF "leader" \in listening THEN listening \cup {"descendant"} ELSE listening
    /\ UNCHANGED <<control, pc, late, signals, inbox, pipe, written, collector, result>>

End(c) ==
    /\ alive' = alive \ {c}
    /\ open' = [s \in Streams |-> open[s] \ {c}]
    /\ listening' = listening \ {c}
    /\ UNCHANGED <<control, pc, late, signals, inbox, forked, pipe, written, collector, result>>

\* A child exits by itself, or obeys SIGTERM; it may also ignore it.
ChildExit(c) == CanAct(c) /\ End(c)

\* SIGKILL, or TerminateProcess, takes effect.
ChildKilled(c) == c \in alive /\ signals[c] = "KILL" /\ pc # "done" /\ End(c)

ChildStep == \E c \in Children :
    \/ ChildReadStdin(c)
    \/ ChildCloseStdin(c)
    \/ ChildExit(c)
    \/ \E s \in Streams : ChildWrite(c, s) \/ ChildClose(c, s)

-----------------------------------------------------------------------------
(* Popen and the request.                                                  *)

StartFails ==
    /\ pc = "start"
    /\ error' = "COMMAND_START" /\ pc' = "report"
    /\ UNCHANGED <<platform, stage, unsent, late, signals, child, collector, result>>

Popen ==
    /\ pc = "start"
    /\ pc' = "stdin"
    /\ alive' = {"leader"} /\ listening' = {"leader"}
    /\ open' = [s \in Streams |-> {"leader"}]
    /\ UNCHANGED <<control, late, signals, inbox, forked, pipe, written, collector, result>>

\* The write blocks while the pipe is full: no deadline runs out here.
WriteStdin ==
    /\ pc = "stdin" /\ unsent > 0 /\ listening # {} /\ inbox < PipeSize
    /\ unsent' = unsent - 1 /\ inbox' = inbox + 1
    /\ UNCHANGED <<platform, pc, stage, error, late, signals, listening, alive, forked,
                   open, pipe, written, collector, result>>

\* The request is written, or BrokenPipeError is swallowed and the rest of it is
\* dropped.  What the command reads of it afterwards is not followed.
Collect ==
    /\ pc = "stdin" /\ (unsent = 0 \/ listening = {})
    /\ unsent' = 0 /\ inbox' = 0 /\ listening' = {}
    /\ \/ /\ platform = "posix"
          /\ pc' = "loop" /\ registered' = Streams /\ UNCHANGED reader
       \/ /\ platform = "nt"
          /\ pc' = "nt" /\ reader' = [s \in Streams |-> "reading"] /\ UNCHANGED registered
    /\ UNCHANGED <<platform, stage, error, late, signals, alive, forked, open, pipe, written,
                   events, chunks, capture, buf, overflow, result>>

\* The clock: on posix the deadline counts from before Popen, on nt from Collect.
\* It is followed for as long as somebody looks at it.
Tick ==
    /\ ~late
    /\ pc \in {"stdin", "loop", "poll", "read", "nt", "ntDeadline", "wait"}
    /\ platform = "nt" => pc # "stdin"
    /\ late' = TRUE
    /\ UNCHANGED <<control, pc, signals, child, collector, result>>

-----------------------------------------------------------------------------
(* The observation of a stream.                                            *)

\* Fault: everything is retained.
FeedUncapped(cp, n, limit) == [
    observed  |-> cp.observed + n,
    retained  |-> cp.retained + n,
    limit_hit |-> cp.limit_hit \/ cp.observed + n > limit,
    possible  |-> cp.possible /\ cp.observed + n <= limit]

\* The three assignments of feed, in their order.
Count(cp, n) == [cp EXCEPT !.observed = @ + n]
Retain(cp, n, limit) == [cp EXCEPT !.retained = @ + Least(n, limit - @)]
Limit(cp, limit) ==
    [cp EXCEPT !.limit_hit = @ \/ cp.observed > limit,
               !.possible = @ /\ cp.observed <= limit]

Feed(cp, n, limit) == Limit(Retain(Count(cp, n), n, limit), limit)

\* Fault: a stream that fills its cap exactly is taken to exceed it.
OverAtCap(s, n) == chunks[s] + n >= Cap[s]

Over(s, n) == chunks[s] + n > Cap[s]

MarkLimit(cp) == [cp EXCEPT !.limit_hit = TRUE, !.possible = FALSE]

\* With nobody feeding the capture; where somebody may be, see ReadRetained.
Snapshot(cp, complete) == [
    total     |-> IF complete /\ cp.possible THEN cp.observed ELSE Unknown,
    observed  |-> cp.observed,
    retained  |-> cp.retained,
    truncated |-> IF complete /\ cp.possible THEN "no"
                  ELSE IF cp.limit_hit THEN "yes" ELSE "unknown"]

-----------------------------------------------------------------------------
(* _terminate, called from inside the try, from its handler, from its      *)
(* finally, or from the Windows collector.                                 *)

\* Who a signal reaches: the process group on posix, the leader alone on nt.
Targets == IF platform = "posix" THEN alive ELSE alive \cap {"leader"}

Signal(sig) == signals' = [c \in Children |-> IF c \in Targets THEN sig ELSE signals[c]]

\* What follows a _terminate that returns, and one whose last wait expires.
Returned == pc' = IF stage = "finally" \/ platform = "nt" THEN "report" ELSE "finally"

TermPoll ==
    /\ pc = "term" /\ LeaderGone
    /\ Returned
    /\ UNCHANGED <<control, late, signals, child, collector, result>>

TermSignal ==
    /\ pc = "term" /\ ~LeaderGone
    /\ Signal(IF platform = "posix" THEN "TERM" ELSE "KILL")
    /\ pc' = "termWait"
    /\ UNCHANGED <<control, late, child, collector, result>>

TermWaited ==
    /\ pc \in {"termWait", "killWait"} /\ LeaderGone
    /\ Returned
    /\ UNCHANGED <<control, late, signals, child, collector, result>>

\* Fault: the return of _terminate does not wait for the killed leader.
TermKillNoWait ==
    /\ pc = "termWait" /\ ~LeaderGone
    /\ Signal("KILL")
    /\ Returned
    /\ UNCHANGED <<control, late, child, collector, result>>

\* Fault: a leader that ignores SIGTERM is waited for.
TermKillNever == pc = "termWait" /\ ~LeaderGone /\ UNCHANGED vars

TermKill ==
    /\ pc = "termWait" /\ ~LeaderGone
    /\ Signal("KILL")
    /\ pc' = "killWait"
    /\ UNCHANGED <<control, late, child, collector, result>>

\* The leader outlives SIGKILL by two seconds: TimeoutExpired leaves _terminate.
TermExpired ==
    /\ pc = "killWait" /\ ~LeaderGone
    /\ \/ /\ platform = "posix" /\ stage = "try"
          /\ stage' = "handler" /\ error' = "TIMEOUT" /\ pc' = "term"
       \/ /\ platform = "posix" /\ stage = "handler"
          /\ error' = "TimeoutExpired" /\ pc' = "finally" /\ UNCHANGED stage
       \/ /\ platform = "nt" \/ stage = "finally"
          /\ error' = "TimeoutExpired" /\ pc' = "report" /\ UNCHANGED stage
    /\ UNCHANGED <<platform, unsent, late, signals, child, collector, result>>

Raise(code) == error' = code /\ pc' = "term"

-----------------------------------------------------------------------------
(* The selector loop.                                                      *)

Ready == {s \in registered : pipe[s] > 0 \/ open[s] = {}}
Rounds == {<<>>, <<"stdout">>, <<"stderr">>, <<"stdout", "stderr">>, <<"stderr", "stdout">>}
Orders(S) == {o \in Rounds : {o[i] : i \in DOMAIN o} = S}

LoopEnd ==
    /\ pc = "loop" /\ registered = {}
    /\ pc' = "wait"
    /\ UNCHANGED <<control, late, signals, child, collector, result>>

LoopDeadline ==
    /\ pc = "loop" /\ registered # {} /\ late
    /\ Raise("TIMEOUT")
    /\ UNCHANGED <<platform, stage, unsent, late, signals, child, collector, result>>

Select ==
    /\ pc = "loop" /\ registered # {} /\ ~late
    /\ \/ /\ Ready # {}
          /\ events' \in Orders(Ready) /\ pc' = "read"
       \/ /\ Ready = {}
          /\ pc' = "poll" /\ UNCHANGED events
    /\ UNCHANGED <<control, late, signals, child, registered, chunks, capture, reader, buf, overflow, result>>

\* Fault: the exit of the leader ends the collection.
PollForgets ==
    /\ pc = "poll"
    /\ registered' = IF LeaderGone THEN {} ELSE registered
    /\ pc' = "loop"
    /\ UNCHANGED <<control, late, signals, child, events, chunks, capture, reader, buf, overflow, result>>

\* No event in time: once the leader has exited every pipe is read, ready or not.
Poll ==
    /\ pc = "poll"
    /\ \/ /\ LeaderGone
          /\ events' \in Orders(registered) \ {<<"stderr", "stdout">>} /\ pc' = "read"
       \/ ~LeaderGone /\ pc' = "loop" /\ UNCHANGED events
    /\ UNCHANGED <<control, late, signals, child, registered, chunks, capture, reader, buf, overflow, result>>

NextEvent ==
    /\ events' = Tail(events)
    /\ pc' = IF Len(events) = 1 THEN "loop" ELSE "read"

ReadEof ==
    /\ pc = "read" /\ Eof(Head(events))
    /\ registered' = registered \ {Head(events)}
    /\ NextEvent
    /\ UNCHANGED <<control, late, signals, child, chunks, capture, reader, buf, overflow, result>>

\* os.read blocks while the pipe is empty and somebody holds its write end.
ReadData ==
    /\ pc = "read"
    /\ LET s == Head(events)
           n == Least(pipe[s], Chunk)
           over == Over(s, n)
           cp == Feed(capture[s], n, Cap[s])
       IN /\ n > 0
          /\ pipe' = [pipe EXCEPT ![s] = @ - n]
          /\ chunks' = [chunks EXCEPT ![s] = @ + n]
          /\ capture' = [capture EXCEPT ![s] = IF over THEN MarkLimit(cp) ELSE cp]
          /\ IF over THEN Raise("OUTPUT_LIMIT") /\ UNCHANGED events
                     ELSE NextEvent /\ UNCHANGED error
    /\ UNCHANGED <<platform, stage, unsent, late, signals, inbox, listening, alive, forked,
                   open, written, registered, reader, buf, overflow, result>>

-----------------------------------------------------------------------------
(* The Windows collector: its reader threads and its loop.                 *)

\* A buffered read keeps reading until it has a chunk or the end.
ReaderFill(s) ==
    /\ pc # "done" /\ reader[s] = "reading" /\ pipe[s] > 0 /\ buf[s] < Chunk
    /\ LET n == Least(pipe[s], Chunk - buf[s])
       IN /\ pipe' = [pipe EXCEPT ![s] = @ - n]
          /\ buf' = [buf EXCEPT ![s] = @ + n]
    /\ UNCHANGED <<control, pc, late, signals, inbox, listening, alive, forked, open, written,
                   registered, events, chunks, capture, reader, overflow, result>>

\* The thread feeds what it has read, one assignment after the other: the
\* parent may be reading the capture.
ReaderDeliver(s) ==
    /\ pc # "done" /\ reader[s] = "reading" /\ buf[s] > 0 /\ (buf[s] = Chunk \/ Eof(s))
    /\ capture' = [capture EXCEPT ![s] = Count(@, buf[s])]
    /\ reader' = [reader EXCEPT ![s] = "retain"]
    /\ UNCHANGED <<control, pc, late, signals, child, registered, events, chunks, buf, overflow, result>>

ReaderRetain(s) ==
    /\ pc # "done" /\ reader[s] = "retain"
    /\ capture' = [capture EXCEPT ![s] = Retain(@, buf[s], Cap[s])]
    /\ reader' = [reader EXCEPT ![s] = "limit"]
    /\ UNCHANGED <<control, pc, late, signals, child, registered, events, chunks, buf, overflow, result>>

\* The collected bytes are counted here: nobody reads them before the thread ends.
ReaderLimit(s) ==
    /\ pc # "done" /\ reader[s] = "limit"
    /\ capture' = [capture EXCEPT ![s] = Limit(@, Cap[s])]
    /\ buf' = [buf EXCEPT ![s] = 0]
    /\ chunks' = [chunks EXCEPT ![s] = @ + buf[s]]
    /\ reader' = [reader EXCEPT ![s] = IF Over(s, buf[s]) THEN "over" ELSE "reading"]
    /\ UNCHANGED <<control, pc, late, signals, child, registered, events, overflow, result>>

ReaderEof(s) ==
    /\ pc # "done" /\ reader[s] = "reading" /\ buf[s] = 0 /\ Eof(s)
    /\ reader' = [reader EXCEPT ![s] = "ended"]
    /\ UNCHANGED <<control, pc, late, signals, child, registered, events, chunks, capture, buf, overflow, result>>

ReaderOverflow(s) ==
    /\ pc # "done" /\ reader[s] = "over"
    /\ capture' = [capture EXCEPT ![s] = MarkLimit(@)]
    /\ overflow' = TRUE
    /\ reader' = [reader EXCEPT ![s] = "ended"]
    /\ UNCHANGED <<control, pc, late, signals, child, registered, events, chunks, buf, result>>

ReaderStep(s) ==
    \/ ReaderFill(s) \/ ReaderDeliver(s) \/ ReaderRetain(s) \/ ReaderLimit(s)
    \/ ReaderEof(s) \/ ReaderOverflow(s)

ReadersAlive == \E s \in Streams : reader[s] # "ended"

\* raise_if_overflowed, in the loop and once more after it.
NtOverflow ==
    /\ pc = "nt" /\ overflow
    /\ Raise("OUTPUT_LIMIT")
    /\ UNCHANGED <<platform, stage, unsent, late, signals, child, collector, result>>

NtJoin ==
    /\ pc = "nt" /\ ~overflow
    /\ pc' = IF ReadersAlive THEN "ntDeadline" ELSE "wait"
    /\ UNCHANGED <<control, late, signals, child, collector, result>>

NtDeadline ==
    /\ pc = "ntDeadline"
    /\ IF late THEN Raise("TIMEOUT") ELSE pc' = "nt" /\ UNCHANGED error
    /\ UNCHANGED <<platform, stage, unsent, late, signals, child, collector, result>>

-----------------------------------------------------------------------------
(* The last wait, the finally clause, and the observation.                 *)

Wait ==
    /\ pc = "wait" /\ LeaderGone
    /\ pc' = IF platform = "posix" THEN "finally" ELSE "report"
    /\ UNCHANGED <<control, late, signals, child, collector, result>>

WaitExpired ==
    /\ pc = "wait" /\ ~LeaderGone /\ late
    /\ Raise("TIMEOUT") /\ stage' = "handler"
    /\ UNCHANGED <<platform, unsent, late, signals, child, collector, result>>

Finally ==
    /\ pc = "finally"
    /\ IF LeaderGone THEN pc' = "report" /\ UNCHANGED stage
                     ELSE pc' = "term" /\ stage' = "finally"
    /\ UNCHANGED <<platform, error, unsent, late, signals, child, collector, result>>

\* TimeoutExpired is no ForgeError: it passes through the runner.
Escape ==
    /\ pc = "report" /\ error = "TimeoutExpired"
    /\ pc' = "done"
    /\ UNCHANGED <<control, late, signals, child, collector, result>>

\* The captures stand still: there are no reader threads, or they have ended.
Quiet == platform = "posix" \/ error = "none"

\* builder.completed, or builder.failed; an exit status is left to the command.
\* On nt after an error the readers go on, and the snapshots take their time.
Report ==
    /\ pc = "report" /\ error # "TimeoutExpired"
    /\ \E t \in CASE error = "none" -> {"completed", "nonzero-exit", "signal"}
                  [] error = "TIMEOUT" -> {"timeout"}
                  [] error = "OUTPUT_LIMIT" -> {"output-limit"}
                  [] OTHER -> {"internal-runner-error"} :
          observation' = [error |-> error, termination |-> t,
              started_at |-> IF error = "COMMAND_START" THEN "never" ELSE "known",
              streams |-> IF Quiet
                          THEN [s \in Streams |-> Snapshot(capture[s], error = "none")]
                          ELSE NoObservation.streams]
    /\ pc' = IF Quiet THEN "session" ELSE "retained"
    /\ UNCHANGED <<control, late, signals, child, collector, shot, session>>

\* snapshot(complete=False): first the length of the retained bytes, ...
ReadRetained ==
    /\ pc = "retained"
    /\ observation' = [observation EXCEPT !.streams[shot].retained = capture[shot].retained]
    /\ pc' = "truncated"
    /\ UNCHANGED <<control, late, signals, child, collector, shot, session>>

\* ... later limit_hit, ...
ReadTruncated ==
    /\ pc = "truncated"
    /\ observation' = [observation EXCEPT !.streams[shot].truncated =
                          IF capture[shot].limit_hit THEN "yes" ELSE "unknown"]
    /\ pc' = "observed"
    /\ UNCHANGED <<control, late, signals, child, collector, shot, session>>

\* ... and at last the count; first of stdout, then of stderr.
ReadObserved ==
    /\ pc = "observed"
    /\ observation' = [observation EXCEPT !.streams[shot].observed = capture[shot].observed]
    /\ IF shot = "stdout" THEN shot' = "stderr" /\ pc' = "retained"
                          ELSE pc' = "session" /\ UNCHANGED shot
    /\ UNCHANGED <<control, late, signals, child, collector, session>>

\* Fault: what was collected is handed over, cap or not.
SessionChunks ==
    /\ pc = "session"
    /\ session' = chunks
    /\ pc' = "done"
    /\ UNCHANGED <<control, late, signals, child, collector, observation, shot>>

\* builder.session: the collected bytes, or what the captures retain by now.
Session ==
    /\ pc = "session"
    /\ session' = [s \in Streams |-> IF error = "none" THEN chunks[s] ELSE capture[s].retained]
    /\ pc' = "done"
    /\ UNCHANGED <<control, late, signals, child, collector, observation, shot>>

ParentStep ==
    \/ StartFails \/ Popen \/ WriteStdin \/ Collect
    \/ LoopEnd \/ LoopDeadline \/ Select \/ Poll \/ ReadEof \/ ReadData
    \/ NtOverflow \/ NtJoin \/ NtDeadline
    \/ TermPoll \/ TermSignal \/ TermWaited \/ TermKill \/ TermExpired
    \/ Wait \/ WaitExpired \/ Finally \/ Escape
    \/ Report \/ ReadRetained \/ ReadTruncated \/ ReadObserved \/ Session

Finished == pc = "done" /\ UNCHANGED vars

Next ==
    \/ ParentStep
    \/ \E s \in Streams : ReaderStep(s)
    \/ ChildStep \/ Fork
    \/ \E c \in Children : ChildKilled(c)
    \/ Tick
    \/ Finished

Spec == Init /\ [][Next]_vars

\* The operating system runs the parent and its threads, the clock advances,
\* and a killed process dies.  Nothing is assumed of the command.
FairSpec ==
    /\ Spec
    /\ WF_vars(ParentStep)
    /\ \A s \in Streams : WF_vars(ReaderStep(s))
    /\ \A c \in Children : WF_vars(ChildKilled(c))
    /\ WF_vars(Tick)

-----------------------------------------------------------------------------
(* What a receipt made of the observation says.                            *)

Completed(o) == o.termination \in {"completed", "nonzero-exit", "signal"}

Complete(o) ==
    /\ Completed(o) /\ o.started_at # "never"
    /\ \A s \in Streams : o.streams[s].total # Unknown /\ o.streams[s].truncated # "unknown"

Observed == pc \in {"session", "done"} /\ error # "TimeoutExpired"

\* Every byte count is within its pipe, its cap or its bound.
TypeOK ==
    /\ platform \in Platforms
    /\ pc \in {"start", "stdin", "loop", "poll", "read", "nt", "ntDeadline", "wait", "term",
               "termWait", "killWait", "finally", "report", "retained", "truncated", "observed",
               "session", "done"}
    /\ stage \in {"try", "handler", "finally"}
    /\ error \in ErrorCodes
    /\ late \in BOOLEAN /\ forked \in BOOLEAN /\ overflow \in BOOLEAN
    /\ unsent \in Nat /\ inbox \in 0..PipeSize
    /\ alive \subseteq Children /\ listening \subseteq alive
    /\ signals \in [Children -> {"none", "TERM", "KILL"}]
    /\ open \in [Streams -> SUBSET alive]
    /\ pipe \in [Streams -> 0..PipeSize] /\ buf \in [Streams -> 0..Chunk]
    /\ written \in [Streams -> Nat] /\ chunks \in [Streams -> Nat]
    /\ registered \subseteq Streams
    /\ events \in Rounds
    /\ reader \in [Streams -> {"off", "reading", "retain", "limit", "over", "ended"}]
    /\ shot \in Streams
    /\ capture \in [Streams ->
        [observed : Nat, retained : Nat, limit_hit : BOOLEAN, possible : BOOLEAN]]
    /\ \A s \in Streams : capture[s].retained <= Cap[s]

\* A receipt that counts as complete was made of the whole output: nobody can
\* write any more, every byte written was collected, none of the two streams is
\* above its cap, and the command has exited (run_bounded returning a result).
CompleteMeansWhole ==
    Observed /\ Complete(observation) =>
        /\ LeaderGone
        /\ \A s \in Streams :
            /\ Eof(s)
            /\ observation.streams[s].total = written[s]
            /\ written[s] <= Cap[s]

\* A run that ends without an error has a complete receipt; a run that ends with
\* OUTPUT_LIMIT has a stream that is called truncated and of which the cap is
\* retained; and a stream is called truncated only when the command wrote, and the
\* observation counts, more than the cap.  That the retained bytes fill the cap is
\* so of every truncated stream on posix; on nt a reader thread may feed one
\* between the reads of its snapshot (_StreamCapture against the caps of
\* run_bounded).
TruncationHonest ==
    Observed =>
        /\ error = "none" <=> Complete(observation)
        /\ error = "OUTPUT_LIMIT" =>
             \E s \in Streams : /\ observation.streams[s].truncated = "yes"
                               /\ observation.streams[s].retained = Cap[s]
        /\ \A s \in Streams : observation.streams[s].truncated = "yes" =>
             /\ written[s] > Cap[s] /\ observation.streams[s].observed > Cap[s]
             /\ platform = "posix" => observation.streams[s].retained = Cap[s]

\* When a runner answers at all, with a result or a ForgeError, the process it
\* started no longer runs (_terminate, on each of its paths).
LeaderNeverOutlives == Observed => LeaderGone

\* The output handed to the caller is the output the observation counts and
\* digests.  On nt after an error a reader thread goes on feeding the capture
\* between failed() and session(): then it begins with what was counted and may
\* go on, up to the cap.
SessionAgrees ==
    pc = "done" /\ Observed =>
        \A s \in Streams :
            /\ Quiet => session[s] = observation.streams[s].retained
            /\ observation.streams[s].retained <= session[s] /\ session[s] <= Cap[s]

\* Every run ends, whatever the command does, provided its request fits into
\* the pipe and, on posix, no descendant keeps a pipe for ever after the leader
\* has exited (the deadline of run_bounded and of collect_windows_pipes).
EveryRunEnds ==
    /\ unsent <= PipeSize
    /\ platform = "nt" \/ (LeaderGone ~> \A s \in Streams : open[s] = {})
    => <>(pc = "done")
=============================================================================
