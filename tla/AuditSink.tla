------------------------------ MODULE AuditSink ------------------------------
(***************************************************************************)
(* The durable audit path of one host: RequestAuditRecorder, the bounded   *)
(* asynchronous sink with its writer thread, the append-only JSONL file    *)
(* and the readiness latch (finance_agent_core/observability.py and        *)
(* fastapi_backend/app/audit_runtime.py).                                  *)
(*                                                                         *)
(* Request threads of one invocation share its recorder; the writer thread *)
(* is the only one to touch the file; any number of callers may close the  *)
(* sink; health requests run concurrently on a thread pool.  The process   *)
(* may crash at any point and be started again over the same file.         *)
(*                                                                         *)
(* Abstractions: an event is its process run, its invocation and its       *)
(* sequence number; a counter is kept as zero or not zero (alarms);        *)
(* monotonic time is the fact that no progress was made for the stall      *)
(* timeout; a line of the file is whole or torn.                           *)
(***************************************************************************)
EXTENDS Naturals, Sequences

CONSTANTS
  Threads,      \* threads that emit events
  Invocations,  \* server invocations, each with one recorder
  InvocationOf, \* the invocation a thread works for
  Closers,      \* callers of AuditRuntimeState.close
  Pollers,      \* concurrent health requests
  Capacity,     \* queue_capacity
  MaxEvents,    \* bound: events an invocation emits in one run
  MaxRuns,      \* bound: starts of the process
  Nothing       \* "no item"

ASSUME SinkAssumption ==
  /\ InvocationOf \in [Threads -> Invocations]
  /\ Capacity \in Nat \ {0}
  /\ MaxEvents \in Nat
  /\ MaxRuns \in Nat \ {0}

Sentinel == [kind |-> "sentinel"]
Event == [kind : {"event"}, run : 1..MaxRuns, inv : Invocations, no : 1..MaxEvents]
ASSUME NothingAssumption == Nothing \notin Event \cup {Sentinel}

VARIABLES
  up,            \* the process runs
  run,           \* how many times it was started
  sequence,      \* _AuditInvocationState.event_sequence
  draft,         \* sequence number of the thread that holds the emit_lock, or 0
  queue,         \* _queue
  accepting,     \* _accepting
  writer,        \* where the writer thread is
  item,          \* what it took from the queue
  deliveryFailed,\* _delivery_failed
  sentinelIn,    \* _sentinel_enqueued
  flush,         \* _flush_completed and _flush_succeeded
  alarms,        \* the failure counters that are not zero
  stalled,       \* no downstream progress for stall_timeout_seconds
  closing,       \* where each close() call is
  upstream,      \* its upstream_drained argument
  verdict,       \* what it returned
  serving,       \* AuditRuntimeState._started
  degraded,      \* AuditRuntimeState._degraded_latched
  polling,       \* where each health request is
  late,          \* it began after a degraded answer had been given
  health,        \* what it answered
  file           \* the lines of the JSONL file

emitVars == <<sequence, draft>>
sinkVars == <<queue, accepting, writer, item, deliveryFailed, sentinelIn, flush>>
closeVars == <<closing, upstream, verdict>>
pollVars == <<polling, late, health>>
vars == <<up, run, emitVars, sinkVars, alarms, stalled, closeVars, serving, degraded,
          pollVars, file>>

Alarms == {"dropped", "downstream", "sink", "flush"}
Raise(a) == alarms' = alarms \cup a

\* _closed is set together with _flush_completed.
Closed == flush # "pending"
\* _pending_enqueued_at: accepted events not yet settled.
Unsettled == (item # Nothing /\ item # Sentinel) \/ \E i \in 1..Len(queue) : queue[i] # Sentinel

-----------------------------------------------------------------------------
(***************************************************************************)
(* A start of the process: a fresh sink over the file that is there.       *)
(***************************************************************************)
\* _validate_existing_audit_tail: only the last line is looked at.
TailUnchecked == TRUE
TailValid == file # <<>> => file[Len(file)].state = "whole"

Init ==
  /\ up = TRUE /\ run = 1 /\ file = <<>>
  /\ sequence = [i \in Invocations |-> 0] /\ draft = [t \in Threads |-> 0]
  /\ queue = <<>> /\ accepting = TRUE /\ writer = "unstarted" /\ item = Nothing
  /\ deliveryFailed = FALSE /\ sentinelIn = FALSE /\ flush = "pending"
  /\ alarms = {} /\ stalled = FALSE
  /\ closing = [c \in Closers |-> "out"] /\ upstream = [c \in Closers |-> TRUE]
  /\ verdict = [c \in Closers |-> "none"]
  /\ serving = FALSE /\ degraded = FALSE
  /\ polling = [p \in Pollers |-> "out"] /\ late = [p \in Pollers |-> FALSE]
  /\ health = [p \in Pollers |-> "none"]

\* The lines a write can leave: the whole record, or a part of it without its
\* newline.  Bytes written after a torn line continue that line.
WholeLine == [state |-> "whole", event |-> item, runs |-> {run}]
TornLine == [state |-> "torn", event |-> Nothing, runs |-> {run}]
Continued(torn, line) ==
  [state |-> IF line.state = "whole" THEN "corrupt" ELSE "torn",
   event |-> Nothing, runs |-> torn.runs \cup line.runs]
Write(line) ==
  file' = IF file # <<>> /\ file[Len(file)].state = "torn"
          THEN [file EXCEPT ![Len(file)] = Continued(@, line)]
          ELSE Append(file, line)

\* The process stops; a write under way may have got any part out.
Crash ==
  /\ up /\ run < MaxRuns
  /\ up' = FALSE
  /\ \/ UNCHANGED file
     \/ writer = "emitting" /\ (Write(WholeLine) \/ Write(TornLine))
  /\ UNCHANGED <<run, emitVars, sinkVars, alarms, stalled, closeVars, serving, degraded,
                 pollVars>>

\* AppendOnlyJsonlAuditSink refuses a file whose last line is not a record.
Restart ==
  /\ ~up /\ TailValid
  /\ up' = TRUE /\ run' = run + 1
  /\ sequence' = [i \in Invocations |-> 0] /\ draft' = [t \in Threads |-> 0]
  /\ queue' = <<>> /\ accepting' = TRUE /\ writer' = "unstarted" /\ item' = Nothing
  /\ deliveryFailed' = FALSE /\ sentinelIn' = FALSE /\ flush' = "pending"
  /\ alarms' = {} /\ stalled' = FALSE
  /\ closing' = [c \in Closers |-> "out"] /\ upstream' = [c \in Closers |-> TRUE]
  /\ verdict' = [c \in Closers |-> "none"]
  /\ serving' = FALSE /\ degraded' = FALSE
  /\ polling' = [p \in Pollers |-> "out"] /\ late' = [p \in Pollers |-> FALSE]
  /\ health' = [p \in Pollers |-> "none"]
  /\ UNCHANGED file

\* AuditRuntimeState.start in the lifespan, before any request and any close.
Start ==
  /\ up /\ ~serving
  /\ \A c \in Closers : closing[c] = "out" /\ verdict[c] = "none"
  /\ serving' = TRUE
  /\ writer' = "idle"
  /\ UNCHANGED <<up, run, emitVars, queue, accepting, item, deliveryFailed, sentinelIn,
                 flush, alarms, stalled, closeVars, degraded, pollVars, file>>

-----------------------------------------------------------------------------
(***************************************************************************)
(* Emission.  The recorder holds its emit_lock from the allocation of the  *)
(* sequence number to the end of the bounded enqueue.                      *)
(***************************************************************************)
EmitLockFree(t) ==
  \A u \in Threads : InvocationOf[u] = InvocationOf[t] => draft[u] = 0

AllocateUnlocked(t) ==
  LET i == InvocationOf[t] IN
  /\ up /\ serving
  /\ draft[t] = 0 /\ sequence[i] < MaxEvents
  /\ sequence' = [sequence EXCEPT ![i] = @ + 1]
  /\ draft' = [draft EXCEPT ![t] = sequence[i] + 1]
  /\ UNCHANGED <<up, run, sinkVars, alarms, stalled, closeVars, serving, degraded,
                 pollVars, file>>

Allocate(t) ==
  LET i == InvocationOf[t] IN
  /\ up /\ serving
  /\ EmitLockFree(t) /\ sequence[i] < MaxEvents
  /\ sequence' = [sequence EXCEPT ![i] = @ + 1]
  /\ draft' = [draft EXCEPT ![t] = sequence[i] + 1]
  /\ UNCHANGED <<up, run, sinkVars, alarms, stalled, closeVars, serving, degraded,
                 pollVars, file>>

Draft(t) == [kind |-> "event", run |-> run, inv |-> InvocationOf[t], no |-> draft[t]]

EnqueueSilently(t) ==
  /\ up /\ draft[t] # 0
  /\ draft' = [draft EXCEPT ![t] = 0]
  /\ IF accepting /\ Len(queue) < Capacity
     THEN /\ queue' = Append(queue, Draft(t))
          /\ stalled' = (Unsettled /\ stalled)
     ELSE UNCHANGED <<queue, stalled>>
  /\ UNCHANGED <<up, run, sequence, accepting, writer, item, deliveryFailed, sentinelIn,
                 flush, alarms, closeVars, serving, degraded, pollVars, file>>

EnqueueUnguarded(t) ==
  /\ up /\ draft[t] # 0
  /\ draft' = [draft EXCEPT ![t] = 0]
  /\ IF Len(queue) < Capacity
     THEN /\ queue' = Append(queue, Draft(t))
          /\ stalled' = (Unsettled /\ stalled)
          /\ UNCHANGED alarms
     ELSE Raise({"dropped"}) /\ UNCHANGED <<queue, stalled>>
  /\ UNCHANGED <<up, run, sequence, accepting, writer, item, deliveryFailed, sentinelIn,
                 flush, closeVars, serving, degraded, pollVars, file>>

\* BoundedAsyncAuditSink.emit, under the state lock.
Enqueue(t) ==
  /\ up /\ draft[t] # 0
  /\ draft' = [draft EXCEPT ![t] = 0]
  /\ IF accepting /\ Len(queue) < Capacity
     THEN /\ queue' = Append(queue, Draft(t))
          /\ stalled' = (Unsettled /\ stalled)
          /\ UNCHANGED alarms
     ELSE Raise({"dropped"}) /\ UNCHANGED <<queue, stalled>>
  /\ UNCHANGED <<up, run, sequence, accepting, writer, item, deliveryFailed, sentinelIn,
                 flush, closeVars, serving, degraded, pollVars, file>>

\* emit_lazy: the event could not be built or is not a safe payload.
Reject(t) ==
  /\ up /\ draft[t] # 0
  /\ draft' = [draft EXCEPT ![t] = 0]
  /\ Raise({"sink"})
  /\ UNCHANGED <<up, run, sequence, sinkVars, stalled, closeVars, serving, degraded,
                 pollVars, file>>

-----------------------------------------------------------------------------
(***************************************************************************)
(* The writer thread.                                                      *)
(***************************************************************************)
Take ==
  /\ up /\ writer = "idle" /\ queue # <<>>
  /\ item' = Head(queue) /\ queue' = Tail(queue)
  /\ writer' = IF Head(queue) = Sentinel THEN "finishing" ELSE "emitting"
  /\ UNCHANGED <<up, run, emitVars, accepting, deliveryFailed, sentinelIn, flush, alarms,
                 stalled, closeVars, serving, degraded, pollVars, file>>

\* The file took the record; the fsync may still fail.
EmitWhole(synced) ==
  /\ up /\ writer = "emitting"
  /\ Write(WholeLine)
  /\ writer' = "settling"
  /\ deliveryFailed' = (deliveryFailed \/ ~synced)
  /\ Raise(IF synced THEN {} ELSE {"sink", "downstream"})
  /\ UNCHANGED <<up, run, emitVars, queue, accepting, item, sentinelIn, flush, stalled,
                 closeVars, serving, degraded, pollVars>>

EmitBrokenUnnoticed ==
  /\ up /\ writer = "emitting"
  /\ UNCHANGED file \/ Write(TornLine)
  /\ writer' = "settling"
  /\ UNCHANGED deliveryFailed
  /\ Raise({"sink"})
  /\ UNCHANGED <<up, run, emitVars, queue, accepting, item, sentinelIn, flush, stalled,
                 closeVars, serving, degraded, pollVars>>

\* os.write raised, before or after some of the bytes.
EmitBroken ==
  /\ up /\ writer = "emitting"
  /\ UNCHANGED file \/ Write(TornLine)
  /\ writer' = "settling"
  /\ deliveryFailed' = TRUE
  /\ Raise({"sink", "downstream"})
  /\ UNCHANGED <<up, run, emitVars, queue, accepting, item, sentinelIn, flush, stalled,
                 closeVars, serving, degraded, pollVars>>

\* The finally block of _run.
Settle ==
  /\ up /\ writer = "settling"
  /\ item' = Nothing
  /\ writer' = "idle"
  /\ stalled' = FALSE
  /\ UNCHANGED <<up, run, emitVars, queue, accepting, deliveryFailed, sentinelIn, flush,
                 alarms, closeVars, serving, degraded, pollVars, file>>

\* _finish_downstream; the downstream close may raise.
FinishForgetsDrops(closeFailed) ==
  /\ up /\ writer = "finishing"
  /\ LET clean == ~closeFailed /\ ~deliveryFailed IN
     /\ flush' = IF clean THEN "succeeded" ELSE "failed"
     /\ Raise((IF clean THEN {} ELSE {"flush"}) \cup (IF closeFailed THEN {"sink"} ELSE {}))
  /\ accepting' = FALSE
  /\ writer' = "exiting"
  /\ UNCHANGED <<up, run, emitVars, queue, item, deliveryFailed, sentinelIn, stalled,
                 closeVars, serving, degraded, pollVars, file>>

FinishDownstream(closeFailed) ==
  /\ up /\ writer = "finishing"
  /\ LET clean == ~closeFailed /\ ~deliveryFailed /\ "dropped" \notin alarms IN
     /\ flush' = IF clean THEN "succeeded" ELSE "failed"
     /\ Raise((IF clean THEN {} ELSE {"flush"}) \cup (IF closeFailed THEN {"sink"} ELSE {}))
  /\ accepting' = FALSE
  /\ writer' = "exiting"
  /\ UNCHANGED <<up, run, emitVars, queue, item, deliveryFailed, sentinelIn, stalled,
                 closeVars, serving, degraded, pollVars, file>>

\* The thread ends, after its terminal section or because an exception left
\* that section unexecuted.
Exit ==
  /\ up /\ writer \in {"finishing", "exiting"}
  /\ writer' = "dead"
  /\ item' = Nothing
  /\ UNCHANGED <<up, run, emitVars, queue, accepting, deliveryFailed, sentinelIn, flush,
                 alarms, stalled, closeVars, serving, degraded, pollVars, file>>

-----------------------------------------------------------------------------
(***************************************************************************)
(* close(): one caller at a time, each step within the caller's deadline.  *)
(***************************************************************************)
CloseLockFree == \A c \in Closers : closing[c] \notin {"putting", "joining"}

\* Return from the sink and from AuditRuntimeState.close.
Return(c, clean) ==
  LET drained == upstream[c] /\ clean IN
  /\ closing' = [closing EXCEPT ![c] = "out"]
  /\ verdict' = [verdict EXCEPT ![c] = IF drained THEN "drained" ELSE "lost"]
  /\ degraded' = (degraded \/ ~drained)

EnterClose(c, drained) ==
  /\ up /\ closing[c] = "out" /\ verdict[c] = "none"
  /\ closing' = [closing EXCEPT ![c] = "entered"]
  /\ upstream' = [upstream EXCEPT ![c] = drained]
  /\ UNCHANGED <<up, run, emitVars, sinkVars, alarms, stalled, verdict, serving, degraded,
                 pollVars, file>>

\* The sink was closed before.
CloseAgain(c) ==
  /\ up /\ closing[c] = "entered" /\ CloseLockFree /\ Closed
  /\ Return(c, flush = "succeeded")
  /\ UNCHANGED <<up, run, emitVars, sinkVars, alarms, stalled, upstream, serving, pollVars,
                 file>>

\* Stop accepting and see that a writer runs.
StopAccepting(c) ==
  /\ up /\ closing[c] = "entered" /\ CloseLockFree /\ ~Closed
  /\ accepting' = FALSE
  /\ writer' = IF writer = "unstarted" THEN "idle" ELSE writer
  /\ closing' = [closing EXCEPT ![c] = IF sentinelIn THEN "joining" ELSE "putting"]
  /\ UNCHANGED <<up, run, emitVars, queue, item, deliveryFailed, sentinelIn, flush, alarms,
                 stalled, upstream, verdict, serving, degraded, pollVars, file>>

PutSentinel(c) ==
  /\ up /\ closing[c] = "putting" /\ Len(queue) < Capacity
  /\ queue' = Append(queue, Sentinel)
  /\ sentinelIn' = TRUE
  /\ closing' = [closing EXCEPT ![c] = "joining"]
  /\ UNCHANGED <<up, run, emitVars, accepting, writer, item, deliveryFailed, flush, alarms,
                 stalled, upstream, verdict, serving, degraded, pollVars, file>>

\* The deadline passes at the lock, at the queue or in the join.
CloseTimesOut(c) ==
  /\ up /\ closing[c] # "out"
  /\ closing[c] = "entered" => ~CloseLockFree
  /\ closing[c] = "joining" => writer # "dead"
  /\ Raise({"flush"})
  /\ Return(c, FALSE)
  /\ UNCHANGED <<up, run, emitVars, sinkVars, stalled, upstream, serving, pollVars, file>>

\* The writer is gone: its own verdict, or a stable failure if it left none.
CloseJoined(c) ==
  /\ up /\ closing[c] = "joining" /\ writer = "dead"
  /\ flush' = IF Closed THEN flush ELSE "failed"
  /\ Raise(IF Closed THEN {} ELSE {"flush"})
  /\ Return(c, flush = "succeeded")
  /\ UNCHANGED <<up, run, emitVars, queue, accepting, writer, item, deliveryFailed,
                 sentinelIn, stalled, upstream, serving, pollVars, file>>

-----------------------------------------------------------------------------
(***************************************************************************)
(* Readiness.                                                              *)
(***************************************************************************)
\* The downstream hangs on an accepted event for the stall timeout.
StallTimeout ==
  /\ up /\ Unsettled /\ ~stalled
  /\ stalled' = TRUE
  /\ UNCHANGED <<up, run, emitVars, sinkVars, alarms, closeVars, serving, degraded,
                 pollVars, file>>

Answer(p, h) ==
  /\ polling' = [polling EXCEPT ![p] = "out"]
  /\ health' = [health EXCEPT ![p] = h]

\* status(): the latch first.
PollBegins(p) ==
  /\ up /\ serving /\ polling[p] = "out" /\ health[p] = "none"
  /\ late' = [late EXCEPT ![p] = \E q \in Pollers : health[q] = "degraded"]
  /\ IF degraded
     THEN Answer(p, "degraded")
     ELSE polling' = [polling EXCEPT ![p] = "looking"] /\ UNCHANGED health
  /\ UNCHANGED <<up, run, emitVars, sinkVars, alarms, stalled, closeVars, serving, degraded,
                 file>>

\* Then one snapshot of the sink.
Healthy ==
  /\ accepting /\ ~Closed /\ writer \notin {"unstarted", "dead"}
  /\ alarms = {} /\ ~(Unsettled /\ stalled)

PollLooks(p) ==
  /\ up /\ polling[p] = "looking"
  /\ IF Healthy
     THEN Answer(p, "ok")
     ELSE polling' = [polling EXCEPT ![p] = "latching"] /\ UNCHANGED health
  /\ UNCHANGED <<up, run, emitVars, sinkVars, alarms, stalled, closeVars, serving, degraded,
                 late, file>>

PollLatchesNothing(p) ==
  /\ up /\ polling[p] = "latching"
  /\ Answer(p, "degraded")
  /\ UNCHANGED <<up, run, emitVars, sinkVars, alarms, stalled, closeVars, serving, degraded,
                 late, file>>
PollLatches(p) ==
  /\ up /\ polling[p] = "latching"
  /\ degraded' = TRUE
  /\ Answer(p, "degraded")
  /\ UNCHANGED <<up, run, emitVars, sinkVars, alarms, stalled, closeVars, serving, late, file>>

-----------------------------------------------------------------------------
Emission(t) == Allocate(t) \/ Enqueue(t) \/ Reject(t)
Writer ==
  \/ Take \/ (\E synced \in BOOLEAN : EmitWhole(synced)) \/ EmitBroken \/ Settle
  \/ (\E failed \in BOOLEAN : FinishDownstream(failed)) \/ Exit
CloseStep(c) ==
  CloseAgain(c) \/ StopAccepting(c) \/ PutSentinel(c) \/ CloseTimesOut(c) \/ CloseJoined(c)
PollStep(p) == PollLooks(p) \/ PollLatches(p)

Next ==
  \/ Start \/ Crash \/ Restart \/ StallTimeout \/ Writer
  \/ \E t \in Threads : Emission(t)
  \/ \E c \in Closers : CloseStep(c) \/ (\E d \in BOOLEAN : EnterClose(c, d))
  \/ \E p \in Pollers : PollBegins(p) \/ PollStep(p)

Spec == Init /\ [][Next]_vars

-----------------------------------------------------------------------------
(***************************************************************************)
(* Properties.                                                             *)
(***************************************************************************)

\* Every variable keeps the shape of the Python object it stands for.
TypeOK ==
  /\ up \in BOOLEAN /\ run \in 1..MaxRuns
  /\ sequence \in [Invocations -> 0..MaxEvents]
  /\ draft \in [Threads -> 0..MaxEvents]
  /\ queue \in Seq(Event \cup {Sentinel}) /\ Len(queue) <= Capacity
  /\ accepting \in BOOLEAN
  /\ writer \in {"unstarted", "idle", "emitting", "settling", "finishing", "exiting", "dead"}
  /\ item \in Event \cup {Sentinel, Nothing}
  /\ deliveryFailed \in BOOLEAN /\ sentinelIn \in BOOLEAN
  /\ flush \in {"pending", "succeeded", "failed"}
  /\ alarms \subseteq Alarms /\ stalled \in BOOLEAN
  /\ closing \in [Closers -> {"out", "entered", "putting", "joining"}]
  /\ upstream \in [Closers -> BOOLEAN]
  /\ verdict \in [Closers -> {"none", "drained", "lost"}]
  /\ serving \in BOOLEAN /\ degraded \in BOOLEAN
  /\ polling \in [Pollers -> {"out", "looking", "latching"}]
  /\ late \in [Pollers -> BOOLEAN]
  /\ health \in [Pollers -> {"none", "ok", "degraded"}]
  /\ file \in Seq([state : {"whole", "torn", "corrupt"}, event : Event \cup {Nothing},
                   runs : SUBSET (1..MaxRuns)])

\* What the lines of the file hold: a record, or nothing a reader can use; and
\* the accepted events on their way to it, the sentinel being the last entry.
Found(line) == IF line.state = "whole" THEN line.event ELSE Nothing
Records == [n \in 1..Len(file) |-> Found(file[n])]
Accepted ==
  IF queue # <<>> /\ queue[Len(queue)] = Sentinel THEN SubSeq(queue, 1, Len(queue) - 1) ELSE queue
OnItsWay ==
  IF up THEN (IF writer = "emitting" THEN <<item>> ELSE <<>>) \o Accepted ELSE <<>>

\* The audit trail of this run, and where it has the events of an invocation.
Trail == Records \o OnItsWay
Mine(i) ==
  {n \in 1..Len(Trail) : Trail[n] \in Event /\ Trail[n].run = run /\ Trail[n].inv = i}

\* Concurrent threads of one invocation never put its events into the file out
\* of sequence, and no event is ever there twice.
TrailInSequence ==
  \A i \in Invocations : \A m, n \in Mine(i) : m < n => Trail[m].no < Trail[n].no

\* An event with a number of this invocation is still in the hands of a thread,
\* or it is in the file or on its way to it.
Accounted(i, no) ==
  \/ \E t \in Threads : InvocationOf[t] = i /\ draft[t] = no
  \/ \E n \in Mine(i) : Trail[n].no = no

\* An event whose emit call is over is in the file, on its way to it, or its
\* loss shows in a counter: readiness can be trusted.
NoSilentLoss ==
  up /\ alarms = {} => \A i \in Invocations : \A no \in 1..sequence[i] : Accounted(i, no)

\* A flush that succeeded, and so every close that reports a drained trail,
\* speaks the truth: nothing is on its way any more, and every number that was
\* handed out is in the file or still in the hands of a thread whose emit the
\* closed sink will refuse.  The exception is an emission that never became an
\* event: it is counted in the sink failures, which the flush does not look at.
DrainedMeansDurable ==
  [][flush # "succeeded" /\ flush' = "succeeded" =>
       /\ OnItsWay = <<>>
       /\ "sink" \notin alarms =>
            \A i \in Invocations : \A no \in 1..sequence[i] : Accounted(i, no)]_vars

\* When the writer leaves, nothing it accepted stays behind in the queue.
NothingStranded ==
  up /\ writer \in {"finishing", "exiting", "dead"} => queue = <<>>

\* A crash can tear the last line only: no line ever mixes two runs.
CrashBoundary == \A n \in 1..Len(file) : \E r \in 1..MaxRuns : file[n].runs = {r}

\* "The degraded state therefore latches until process restart": a health
\* request that begins after a degraded answer is degraded, too.
LatchHolds == \A p \in Pollers : late[p] /\ health[p] # "none" => health[p] = "degraded"

\* The threads implement the ordered, honest log.
Contract ==
  INSTANCE AuditLog
    WITH Events <- Event, Spoiled <- Nothing,
         backlog <- OnItsWay, log <- Records,
         lossy <- (deliveryFailed \/ "dropped" \in alarms),
         seal <- (IF flush = "pending" THEN "open"
                  ELSE IF flush = "succeeded" THEN "clean" ELSE "lossy")
ImplementsAuditLog == Contract!Spec

=============================================================================
