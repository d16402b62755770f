----------------------------- MODULE AuditTrail -----------------------------
(***************************************************************************)
(* Who may write into the audit trail of an invocation, and when the       *)
(* process may stop writing: the transport middleware (app/http_audit.py), *)
(* the worker barrier and the drain of app/request_execution.py, the       *)
(* Schema Shadow worker (retrieval/schema_shadow.py) and the shutdown      *)
(* cascade of the lifespan (app/main.py).                                  *)
(*                                                                         *)
(* A transport attempt is one HTTP request to /answer; its recorder is its *)
(* invocation.  It launches an Agent worker or joins the one of another    *)
(* GET; the worker's events, and the shadow tasks it submits, go to the    *)
(* invocation that launched it.  Route code, executor threads, the shadow  *)
(* thread and the draining thread interleave; a callback of a finished     *)
(* worker runs on the worker's thread, one registered later on the event   *)
(* loop at once.                                                           *)
(*                                                                         *)
(* Abstractions: a worker has the name of the attempt that launched it; an *)
(* event is its stage; the sink (module AuditSink) accepts an event or     *)
(* loses it; single-flight, replay and eviction (module RequestExecution)  *)
(* are the choice of a worker to join; deadlines may pass at any time.     *)
(***************************************************************************)
EXTENDS Naturals, Sequences

CONSTANTS
  Attempts,       \* transport attempts
  Gets,           \* those that use GET /answer
  MaxInflight,    \* admission limit
  MaxNotes,       \* bound: events of one worker
  ShadowCapacity, \* queue_capacity of the shadow observer
  Loop            \* the event loop's thread, as the runner of a callback

ASSUME TrailAssumption ==
  /\ Gets \subseteq Attempts
  /\ Loop \notin Attempts /\ "release" \notin Attempts
  /\ MaxInflight \in Nat \ {0}
  /\ MaxNotes \in Nat
  /\ ShadowCapacity \in Nat \ {0}

VARIABLES
  task,       \* where the coroutine of an attempt is
  work,       \* the worker it awaits, or Loop for none
  job,        \* Future of the worker an attempt launched
  notes,      \* events it has emitted
  callbacks,  \* its done-callbacks still to run: "release", or the attempt
              \* whose barrier tracks it
  pending,    \* RequestAuditWorkerBarrier._pending, by attempt
  terminal,   \* _terminal_callback, _terminal_dispatched and how far the
              \* dispatch got
  runner,     \* the thread that dispatches it
  drainHeld,  \* _drain_registered
  active,     \* _ProcessAdmission._active
  unwritten,  \* _PendingAuditTerminals._active
  shadowOpen, \* AsyncSchemaLinkShadowObserver._accepting
  submitted,  \* the worker has offered its trace to the observer
  backlog,    \* _queue of the observer
  observing,  \* the task its thread has taken, or Loop for none
  thread,     \* the observer's thread: "none", "alive", "dead"
  stopping,   \* _stop
  stage,      \* where the lifespan is
  drained,    \* the conjunction of the drain verdicts so far
  sinkOpen,   \* the sink accepts
  lossy,      \* the sink dropped an event
  trail       \* emitted stages of an invocation in event_sequence order

taskVars == <<task, work>>
jobVars == <<job, notes, callbacks, active>>
barrierVars == <<pending, terminal, runner, drainHeld, unwritten>>
shadowVars == <<shadowOpen, submitted, backlog, observing, thread, stopping>>
lifeVars == <<stage, drained, sinkOpen>>
trailVars == <<lossy, trail>>
vars == <<taskVars, jobVars, barrierVars, shadowVars, lifeVars, trailVars>>

\* Route code between two awaits; the loop runs nothing else meanwhile.
Segment == {"releasing", "tracking", "attaching", "looking", "cancelling", "aborting",
            "finishing", "dispatching"}
LoopFree == \A q \in Attempts : task[q] \notin Segment

Finished(w) == job[w] \in {"served", "failed"}
Unfinished(w) == job[w] \in {"queued", "running"}

Init ==
  /\ task = [r \in Attempts |-> "new"]
  /\ work = [r \in Attempts |-> Loop]
  /\ job = [r \in Attempts |-> "none"]
  /\ notes = [r \in Attempts |-> 0]
  /\ callbacks = [r \in Attempts |-> <<>>]
  /\ active = 0
  /\ pending = [r \in Attempts |-> {}]
  /\ terminal = [r \in Attempts |-> "open"]
  /\ runner = [r \in Attempts |-> Loop]
  /\ drainHeld = [r \in Attempts |-> FALSE]
  /\ unwritten = 0
  /\ shadowOpen = TRUE
  /\ submitted = [r \in Attempts |-> FALSE]
  /\ backlog = <<>>
  /\ observing = Loop
  /\ thread = "none"
  /\ stopping = FALSE
  /\ stage = "serving"
  /\ drained = TRUE
  /\ sinkOpen = TRUE
  /\ lossy = FALSE
  /\ trail = [r \in Attempts |-> <<>>]

\* RequestAuditRecorder.emit: the event takes the next number of the
\* invocation; a full or closed sink loses it.
Emit(i, s) ==
  /\ trail' = [trail EXCEPT ![i] = Append(@, s)]
  /\ lossy' \in {lossy, TRUE}
  /\ ~sinkOpen => lossy'

Goto(r, where) == task' = [task EXCEPT ![r] = where]

-----------------------------------------------------------------------------
(***************************************************************************)
(* The route: AnswerHttpAuditMiddleware and the handlers of POST and GET.  *)
(***************************************************************************)
Arrive(r) ==
  /\ task[r] = "new" /\ stage = "serving" /\ LoopFree
  /\ Goto(r, "routing")
  /\ Emit(r, "started")
  /\ UNCHANGED <<work, jobVars, barrierVars, shadowVars, lifeVars>>

\* Invalid input, identity conflict, overload: a response without a worker.
Refuse(r) ==
  /\ task[r] = "routing" /\ LoopFree
  /\ Goto(r, "responding")
  /\ UNCHANGED <<work, jobVars, barrierVars, shadowVars, lifeVars, trailVars>>

Launch(r) ==
  /\ task[r] = "routing" /\ LoopFree /\ active < MaxInflight
  /\ Goto(r, "releasing")
  /\ work' = [work EXCEPT ![r] = r]
  /\ job' = [job EXCEPT ![r] = "queued"]
  /\ active' = active + 1
  /\ UNCHANGED <<notes, callbacks, barrierVars, shadowVars, lifeVars, trailVars>>

\* Join a running execution of the same key, or replay a finished one; a
\* cancelled one is forgotten before the loop is free again.
Join(r, w) ==
  /\ task[r] = "routing" /\ LoopFree
  /\ {r, w} \subseteq Gets /\ job[w] \notin {"none", "cancelled"}
  /\ Goto(r, "tracking")
  /\ work' = [work EXCEPT ![r] = w]
  /\ UNCHANGED <<jobVars, barrierVars, shadowVars, lifeVars, trailVars>>

\* future.add_done_callback(_release_admission)
RegisterRelease(r) ==
  /\ task[r] = "releasing"
  /\ Goto(r, "tracking")
  /\ IF Unfinished(r)
     THEN callbacks' = [callbacks EXCEPT ![r] = Append(@, "release")] /\ UNCHANGED active
     ELSE active' = active - 1 /\ UNCHANGED callbacks
  /\ UNCHANGED <<work, job, notes, barrierVars, shadowVars, lifeVars, trailVars>>

\* RequestAuditWorkerBarrier.track, the locked section.
TrackUnheld(r) ==
  /\ task[r] = "tracking"
  /\ Goto(r, "attaching")
  /\ pending' = [pending EXCEPT ![r] = {work[r]}]
  /\ UNCHANGED <<work, jobVars, terminal, runner, drainHeld, unwritten, shadowVars, lifeVars,
                 trailVars>>
Track(r) ==
  /\ task[r] = "tracking"
  /\ Goto(r, "attaching")
  /\ pending' = [pending EXCEPT ![r] = {work[r]}]
  /\ drainHeld' = [drainHeld EXCEPT ![r] = TRUE]
  /\ unwritten' = unwritten + 1
  /\ UNCHANGED <<work, jobVars, terminal, runner, shadowVars, lifeVars, trailVars>>

\* ... and its add_done_callback after the lock.
Attach(r) ==
  /\ task[r] = "attaching"
  /\ IF Unfinished(work[r])
     THEN /\ callbacks' = [callbacks EXCEPT ![work[r]] = Append(@, r)]
          /\ UNCHANGED pending
     ELSE /\ pending' = [pending EXCEPT ![r] = {}]
          /\ UNCHANGED callbacks
  /\ Goto(r, IF r \in Gets THEN "looking" ELSE "awaiting")
  /\ UNCHANGED <<work, job, notes, active, terminal, runner, drainHeld, unwritten, shadowVars,
                 lifeVars, trailVars>>

\* A result for the handler; a GET records its DTO at once.
Receive(r) ==
  /\ Goto(r, IF job[work[r]] = "served" THEN "serving" ELSE "responding")
  /\ IF r \in Gets /\ job[work[r]] = "served"
     THEN Emit(r, "event") ELSE UNCHANGED trailVars
  /\ UNCHANGED <<work, jobVars, barrierVars, shadowVars, lifeVars>>

\* A GET first asks future.done(): the worker may be over by now, whether or
\* not it has run its callbacks.
Look(r) ==
  /\ task[r] = "looking" /\ Finished(work[r])
  /\ Receive(r)
LookAway(r) ==
  /\ task[r] = "looking" /\ ~Finished(work[r])
  /\ Goto(r, "awaiting")
  /\ UNCHANGED <<work, jobVars, barrierVars, shadowVars, lifeVars, trailVars>>

\* The worker has yet to run the barrier's callback for r.
Awaited(r) ==
  \E n \in DOMAIN callbacks[work[r]] : callbacks[work[r]][n] = r

\* asyncio.wrap_future wakes the handler in a callback that was registered
\* after the barrier's.
Deliver(r) ==
  /\ task[r] = "awaiting" /\ LoopFree
  /\ Finished(work[r]) /\ ~Awaited(r)
  /\ Receive(r)

\* Another waiter's timeout cancelled the queued Future: CancelledError.
DeliverCancelled(r) ==
  /\ task[r] = "awaiting" /\ LoopFree
  /\ job[work[r]] = "cancelled" /\ ~Awaited(r)
  /\ Goto(r, "finishing")
  /\ UNCHANGED <<work, jobVars, barrierVars, shadowVars, lifeVars, trailVars>>

\* future.cancel(): a queued Future is cancelled and its callbacks run on the
\* loop before the handler goes on; a running one does not notice.
CancelWork(r, then) ==
  IF job[work[r]] = "queued"
  THEN job' = [job EXCEPT ![work[r]] = "cancelled"] /\ Goto(r, then)
  ELSE UNCHANGED job /\ Goto(r, IF then = "cancelling" THEN "responding" ELSE "finishing")

Timeout(r) ==
  /\ task[r] = "awaiting" /\ LoopFree
  /\ CancelWork(r, "cancelling")
  /\ UNCHANGED <<work, notes, callbacks, active, barrierVars, shadowVars, lifeVars, trailVars>>

\* The coroutine is cancelled while it waits for the worker; only a POST
\* cancels the worker with it.
Abort(r) ==
  /\ task[r] = "awaiting" /\ LoopFree
  /\ IF r \in Gets THEN Goto(r, "finishing") /\ UNCHANGED job ELSE CancelWork(r, "aborting")
  /\ UNCHANGED <<work, notes, callbacks, active, barrierVars, shadowVars, lifeVars, trailVars>>

RunnerBusy(x) ==
  \E q \in Attempts : runner[q] = x /\ terminal[q] \in {"emitting", "emitted"}

Cancelled(r) ==
  /\ task[r] \in {"cancelling", "aborting"}
  /\ callbacks[work[r]] = <<>> /\ ~RunnerBusy(Loop)
  /\ Goto(r, IF task[r] = "cancelling" THEN "responding" ELSE "finishing")
  /\ UNCHANGED <<work, jobVars, barrierVars, shadowVars, lifeVars, trailVars>>

\* audited_send, http.response.start; a served answer records its serialization.
SendStart(r) ==
  /\ task[r] \in {"responding", "serving"} /\ LoopFree
  /\ Goto(r, "sending")
  /\ IF task[r] = "serving" THEN Emit(r, "event") ELSE UNCHANGED trailVars
  /\ UNCHANGED <<work, jobVars, barrierVars, shadowVars, lifeVars>>

\* The final body frame was accepted, or the send, the handler or the
\* coroutine failed at one of its awaits: request_terminal.
Respond(r) ==
  /\ task[r] \in {"routing", "responding", "serving", "sending"} /\ LoopFree
  /\ Goto(r, "finishing")
  /\ UNCHANGED <<work, jobVars, barrierVars, shadowVars, lifeVars, trailVars>>

-----------------------------------------------------------------------------
(***************************************************************************)
(* The barrier: the terminal is deferred until the tracked worker settled. *)
(***************************************************************************)
DeferNothing(r) ==
  /\ task[r] = "finishing"
  /\ terminal' = [terminal EXCEPT ![r] = "emitting"]
  /\ runner' = [runner EXCEPT ![r] = Loop]
  /\ Goto(r, "dispatching")
  /\ UNCHANGED <<work, jobVars, pending, drainHeld, unwritten, shadowVars, lifeVars, trailVars>>
DeferTerminal(r) ==
  /\ task[r] = "finishing"
  /\ IF pending[r] # {}
     THEN /\ terminal' = [terminal EXCEPT ![r] = "deferred"]
          /\ Goto(r, "closed")
          /\ UNCHANGED runner
     ELSE /\ terminal' = [terminal EXCEPT ![r] = "emitting"]
          /\ runner' = [runner EXCEPT ![r] = Loop]
          /\ Goto(r, "dispatching")
  /\ UNCHANGED <<work, jobVars, pending, drainHeld, unwritten, shadowVars, lifeVars, trailVars>>

\* _dispatch_terminal: the callback, then the drain registration.
EmitTerminal(r) ==
  /\ terminal[r] = "emitting"
  /\ terminal' = [terminal EXCEPT ![r] = "emitted"]
  /\ Emit(r, "terminal")
  /\ UNCHANGED <<taskVars, jobVars, pending, runner, drainHeld, unwritten, shadowVars, lifeVars>>

ReleaseUnheld(r) ==
  /\ terminal[r] = "emitted"
  /\ terminal' = [terminal EXCEPT ![r] = "over"]
  /\ drainHeld' = [drainHeld EXCEPT ![r] = FALSE]
  /\ unwritten' = unwritten - 1
  /\ Goto(r, IF task[r] = "dispatching" THEN "closed" ELSE task[r])
  /\ UNCHANGED <<work, jobVars, pending, runner, shadowVars, lifeVars, trailVars>>
ReleaseTerminal(r) ==
  /\ terminal[r] = "emitted"
  /\ terminal' = [terminal EXCEPT ![r] = "over"]
  /\ drainHeld' = [drainHeld EXCEPT ![r] = FALSE]
  /\ unwritten' = IF drainHeld[r] THEN unwritten - 1 ELSE unwritten
  /\ Goto(r, IF task[r] = "dispatching" THEN "closed" ELSE task[r])
  /\ UNCHANGED <<work, jobVars, pending, runner, shadowVars, lifeVars, trailVars>>

-----------------------------------------------------------------------------
(***************************************************************************)
(* The Agent worker on its executor thread.                                *)
(***************************************************************************)
Start(w) ==
  /\ job[w] = "queued"
  /\ job' = [job EXCEPT ![w] = "running"]
  /\ UNCHANGED <<taskVars, notes, callbacks, active, barrierVars, shadowVars, lifeVars,
                 trailVars>>

Note(w) ==
  /\ job[w] = "running" /\ notes[w] < MaxNotes
  /\ notes' = [notes EXCEPT ![w] = @ + 1]
  /\ Emit(w, "event")
  /\ UNCHANGED <<taskVars, job, callbacks, active, barrierVars, shadowVars, lifeVars>>

\* AsyncSchemaLinkShadowObserver.submit, from RoutedFinanceAgent._answer_once;
\* the first accepted task starts the observer's thread.
Submit(w) ==
  /\ job[w] = "running" /\ ~submitted[w]
  /\ submitted' = [submitted EXCEPT ![w] = TRUE]
  /\ IF shadowOpen /\ thread # "dead" /\ Len(backlog) < ShadowCapacity
     THEN backlog' = Append(backlog, w)
     ELSE UNCHANGED backlog
  /\ thread' = IF shadowOpen /\ thread = "none" THEN "alive" ELSE thread
  /\ UNCHANGED <<taskVars, jobVars, barrierVars, shadowOpen, observing, stopping, lifeVars,
                 trailVars>>

Finish(w) ==
  /\ job[w] = "running"
  /\ \E how \in {"served", "failed"} : job' = [job EXCEPT ![w] = how]
  /\ UNCHANGED <<taskVars, notes, callbacks, active, barrierVars, shadowVars, lifeVars,
                 trailVars>>

\* Who runs the done-callbacks of w, one after the other.
CallbackThread(w) == IF job[w] = "cancelled" THEN Loop ELSE w
CallbackDue(w) ==
  /\ ~Unfinished(w) /\ callbacks[w] # <<>>
  /\ ~RunnerBusy(CallbackThread(w))

\* _release_admission
RunRelease(w) ==
  /\ CallbackDue(w) /\ Head(callbacks[w]) = "release"
  /\ callbacks' = [callbacks EXCEPT ![w] = Tail(@)]
  /\ active' = active - 1
  /\ UNCHANGED <<taskVars, job, notes, barrierVars, shadowVars, lifeVars, trailVars>>

\* _worker_settled, the locked section
SettleForgets(w) ==
  /\ CallbackDue(w) /\ Head(callbacks[w]) # "release"
  /\ callbacks' = [callbacks EXCEPT ![w] = Tail(@)]
  /\ pending' = [pending EXCEPT ![Head(callbacks[w])] = @ \ {w}]
  /\ UNCHANGED <<taskVars, job, notes, active, terminal, runner, drainHeld, unwritten,
                 shadowVars, lifeVars, trailVars>>
Settle(w) ==
  /\ CallbackDue(w) /\ Head(callbacks[w]) # "release"
  /\ callbacks' = [callbacks EXCEPT ![w] = Tail(@)]
  /\ LET r == Head(callbacks[w])
         last == terminal[r] = "deferred" /\ pending[r] \subseteq {w}
     IN /\ pending' = [pending EXCEPT ![r] = @ \ {w}]
        /\ terminal' = [terminal EXCEPT ![r] = IF last THEN "emitting" ELSE @]
        /\ runner' = [runner EXCEPT ![r] = IF last THEN CallbackThread(w) ELSE @]
  /\ UNCHANGED <<taskVars, job, notes, active, drainHeld, unwritten, shadowVars, lifeVars,
                 trailVars>>

-----------------------------------------------------------------------------
(***************************************************************************)
(* The observer's thread.                                                  *)
(***************************************************************************)
Observe ==
  /\ thread = "alive" /\ observing = Loop /\ backlog # <<>>
  /\ observing' = Head(backlog)
  /\ backlog' = Tail(backlog)
  /\ UNCHANGED <<taskVars, jobVars, barrierVars, shadowOpen, submitted, thread, stopping,
                 lifeVars, trailVars>>

\* observe_with_audit, then the task is counted as completed.
Observed ==
  /\ observing # Loop
  /\ Emit(observing, "shadow")
  /\ observing' = Loop
  /\ UNCHANGED <<taskVars, jobVars, barrierVars, shadowOpen, submitted, backlog, thread,
                 stopping, lifeVars>>

ObserverExits ==
  /\ thread = "alive" /\ observing = Loop /\ stopping /\ backlog = <<>>
  /\ thread' = "dead"
  /\ UNCHANGED <<taskVars, jobVars, barrierVars, shadowOpen, submitted, backlog, observing,
                 stopping, lifeVars, trailVars>>

-----------------------------------------------------------------------------
(***************************************************************************)
(* The lifespan after the server has finished its connections: each stage  *)
(* gets what is left of one deadline, which may be nothing.                *)
(***************************************************************************)
Shutdown(from, to, ok) ==
  /\ stage = from /\ stage' = to
  /\ drained' = (drained /\ ok)

BeginShutdown ==
  /\ \A r \in Attempts : task[r] \in {"new", "closed"}
  /\ Shutdown("serving", "workers", TRUE)
  /\ UNCHANGED <<taskVars, jobVars, barrierVars, shadowVars, sinkOpen, trailVars>>

\* wait_for_request_workers
WorkersIdle ==
  /\ active = 0
  /\ Shutdown("workers", "terminals", TRUE)
  /\ UNCHANGED <<taskVars, jobVars, barrierVars, shadowVars, sinkOpen, trailVars>>

TerminalsIdle ==
  /\ unwritten = 0
  /\ Shutdown("terminals", "shadow", TRUE)
  /\ UNCHANGED <<taskVars, jobVars, barrierVars, shadowVars, sinkOpen, trailVars>>

WaitsForever == FALSE
WaitTimesOut ==
  /\ \/ active # 0 /\ Shutdown("workers", "shadow", FALSE)
     \/ unwritten # 0 /\ Shutdown("terminals", "shadow", FALSE)
  /\ UNCHANGED <<taskVars, jobVars, barrierVars, shadowVars, sinkOpen, trailVars>>

\* AsyncSchemaLinkShadowObserver.shutdown: refuse, drain, stop, join.  A wait
\* may end with the deadline before what it waits for is true.
RefuseShadows ==
  /\ Shutdown("shadow", "draining", TRUE)
  /\ shadowOpen' = FALSE
  /\ UNCHANGED <<taskVars, jobVars, barrierVars, submitted, backlog, observing, thread,
                 stopping, sinkOpen, trailVars>>

ShadowsDrain ==
  /\ Shutdown("draining", "joining", backlog = <<>> /\ observing = Loop)
  /\ stopping' = TRUE
  /\ UNCHANGED <<taskVars, jobVars, barrierVars, shadowOpen, submitted, backlog, observing,
                 thread, sinkOpen, trailVars>>

ObserverJoins ==
  /\ Shutdown("joining", "audit", thread # "alive")
  /\ UNCHANGED <<taskVars, jobVars, barrierVars, shadowVars, sinkOpen, trailVars>>

\* BoundedAsyncAuditSink.close: a dropped event, a failed delivery or the
\* deadline makes it report a trail that is not drained.
CloseSink ==
  /\ Shutdown("audit", "flushing", TRUE)
  /\ sinkOpen' = FALSE
  /\ UNCHANGED <<taskVars, jobVars, barrierVars, shadowVars, trailVars>>

Flush(ok) ==
  /\ ok => ~lossy
  /\ Shutdown("flushing", "over", ok)
  /\ UNCHANGED <<taskVars, jobVars, barrierVars, shadowVars, sinkOpen, trailVars>>

-----------------------------------------------------------------------------
Handler(r) ==
  \/ Refuse(r) \/ Launch(r) \/ (\E w \in Attempts : Join(r, w))
  \/ RegisterRelease(r) \/ Track(r) \/ Attach(r)
  \/ Look(r) \/ LookAway(r)
  \/ Deliver(r) \/ DeliverCancelled(r) \/ Timeout(r) \/ Cancelled(r)
  \/ SendStart(r) \/ Respond(r) \/ DeferTerminal(r)
Dispatch(r) == EmitTerminal(r) \/ ReleaseTerminal(r)
Callback(w) == RunRelease(w) \/ Settle(w)
Agent(w) == Note(w) \/ Submit(w) \/ Finish(w)
Observer == Observe \/ Observed \/ ObserverExits
Lifespan ==
  \/ WorkersIdle \/ TerminalsIdle \/ WaitTimesOut
  \/ RefuseShadows \/ ShadowsDrain \/ ObserverJoins
  \/ CloseSink \/ \E ok \in BOOLEAN : Flush(ok)

Next ==
  \/ \E r \in Attempts :
       \/ Arrive(r) \/ Handler(r) \/ Abort(r) \/ Dispatch(r)
       \/ Start(r) \/ Agent(r) \/ Callback(r)
  \/ Observer \/ BeginShutdown \/ Lifespan

Spec == Init /\ [][Next]_vars

(***************************************************************************)
(* Fairness: the event loop, the executor's threads, the observer's thread *)
(* and the lifespan run; an await has a deadline.  Nothing is assumed of   *)
(* arrivals, of cancellations, or of how long the Agent works.             *)
(***************************************************************************)
Fairness ==
  /\ \A r \in Attempts :
       WF_vars(Handler(r)) /\ WF_vars(Dispatch(r)) /\ WF_vars(Start(r)) /\ WF_vars(Callback(r))
  /\ WF_vars(Observer)
  /\ WF_vars(Lifespan)
FairSpec == Spec /\ Fairness

-----------------------------------------------------------------------------
(***************************************************************************)
(* Properties.                                                             *)
(***************************************************************************)
Stages == {"started", "event", "shadow", "terminal"}

\* Every variable has the shape of what it stands for; no counter underflows.
TypeOK ==
  /\ task \in [Attempts -> Segment \cup {"new", "routing", "awaiting", "responding", "serving",
                                         "sending", "closed"}]
  /\ work \in [Attempts -> Attempts \cup {Loop}]
  /\ job \in [Attempts -> {"none", "queued", "running", "served", "failed", "cancelled"}]
  /\ notes \in [Attempts -> 0..MaxNotes]
  /\ callbacks \in [Attempts -> Seq(Attempts \cup {"release"})]
  /\ active \in 0..MaxInflight
  /\ pending \in [Attempts -> SUBSET Attempts]
  /\ terminal \in [Attempts -> {"open", "deferred", "emitting", "emitted", "over"}]
  /\ runner \in [Attempts -> Attempts \cup {Loop}]
  /\ drainHeld \in [Attempts -> BOOLEAN]
  /\ unwritten \in Nat
  /\ shadowOpen \in BOOLEAN /\ submitted \in [Attempts -> BOOLEAN]
  /\ backlog \in Seq(Attempts) /\ Len(backlog) <= ShadowCapacity
  /\ observing \in Attempts \cup {Loop}
  /\ thread \in {"none", "alive", "dead"} /\ stopping \in BOOLEAN
  /\ stage \in {"serving", "workers", "terminals", "shadow", "draining", "joining", "audit",
                "flushing", "over"}
  /\ drained \in BOOLEAN /\ sinkOpen \in BOOLEAN /\ lossy \in BOOLEAN
  /\ trail \in [Attempts -> Seq(Stages)]

Wrote(r, s) == \E n \in DOMAIN trail[r] : trail[r][n] = s

\* "Drain workers and their deferred Audit terminals before sink shutdown":
\* when wait_for_request_workers has returned True, no Agent worker runs and
\* every attempt that arrived has written its terminal, whichever thread wrote
\* it and however late.
QuietOnceWaited ==
  stage \in {"shadow", "draining", "joining", "audit", "flushing", "over"} /\ drained =>
    \A r \in Attempts :
      ~Unfinished(r) /\ (task[r] # "new" => Wrote(r, "terminal"))

\* The trail obeys the lifecycle rules of the audit validator: one start, one
\* terminal, after it nothing but shadow events; and a shutdown that reports a
\* drained trail leaves no attempt open, no event lost and none to come.
Contract ==
  INSTANCE InvocationLifecycle
    WITH Invocations <- Attempts, log <- trail, lost <- lossy,
         seal <- (IF stage # "over" THEN "open"
                  ELSE IF drained THEN "complete" ELSE "incomplete")
ImplementsInvocationLifecycle == Contract!Spec

\* A terminal waits for nothing but a running worker its attempt tracks.
TerminalNotForgotten ==
  \A r \in Attempts :
    []<>(\/ task[r] = "new" \/ Wrote(r, "terminal")
         \/ \E w \in pending[r] : job[w] = "running")

\* The shutdown ends, whatever the Agent workers do.
ShutdownEnds == stage # "serving" ~> stage = "over"

=============================================================================
