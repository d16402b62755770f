--------------------------- MODULE RequestExecution ---------------------------
(***************************************************************************)
(* Public answer execution of the FastAPI process:                         *)
(* fastapi_backend/app/request_execution.py.                               *)
(*                                                                         *)
(* Two kinds of thread act.  The single event-loop thread runs the route   *)
(* coroutines; between two awaits it is not preempted by another route.    *)
(* The finance-answer executor threads run the Agent operation and then    *)
(* the done-callbacks of its Future.  A Future is named by the call that   *)
(* submitted it, so a call c is also the name of the worker it started.    *)
(*                                                                         *)
(* Abstractions: keys and inputs stand for their SHA-256 values; the       *)
(* admission telemetry (peak, accepted, rejected) is left out; monotonic() *)
(* is seen through two facts only, the order of completions (stamp) and    *)
(* how far the replay TTL has advanced over that order (horizon, and seen  *)
(* for the time a GET read before it had the registry lock); an outcome is *)
(* only safe (cache_result accepts it) or unsafe (a retryable result or an *)
(* exception).                                                             *)
(***************************************************************************)
EXTENDS Naturals, FiniteSets

CONSTANTS
  Calls,        \* transport attempts that reach the route
  Keys,         \* request keys (question_id)
  Inputs,       \* request inputs (question)
  Traffic,      \* which request each call carries: the traffics considered
  MaxInflight,  \* official_answer_max_inflight
  PoolSize,     \* threads of _PROCESS_EXECUTOR
  MaxReplay,    \* max_replay_entries
  None          \* "no flight"

GetRequest == [route : {"get"}, key : Keys, input : Inputs]
PostRequest == [route : {"post"}]

ASSUME ConstantsAssumption ==
  /\ IsFiniteSet(Calls)
  /\ Traffic \subseteq [Calls -> GetRequest \cup PostRequest]
  /\ MaxInflight \in Nat \ {0}
  /\ PoolSize \in Nat \ {0}
  /\ MaxInflight <= PoolSize
  /\ MaxReplay \in Nat \ {0}
  /\ None \notin Calls

VARIABLES
  req,       \* request carried by each call
  phase,     \* where the event loop is with each call
  board,     \* the Future a call waits on or reads
  disp,      \* RequestExecutionDisposition returned to the call
  answer,    \* how execute() ended for the call
  fut,       \* state of the Future a call submitted
  outcome,   \* what the operation of that Future returned or raised
  callbacks, \* done-callbacks appended to the Future and not yet invoked
  expired,   \* deadline.remaining_seconds() is 0
  stop,      \* deadline.cancel_event is set
  unsettled, \* calls whose Audit barrier still holds their Future
  active,    \* _ProcessAdmission._active
  idle,      \* _ProcessAdmission._idle.is_set()
  flight,    \* _entries: the Future registered under each key
  stamp,     \* _entries: completed_at in completion order, 0 while running
  clock,     \* last completion stamp handed out
  horizon,   \* stamps up to here are older than the replay TTL
  seen       \* how far it reached at the time that the GET which is entering
             \* has read; 0 while none is

callVars == <<req, phase, board, disp, answer>>
futureVars == <<fut, outcome, callbacks, expired, stop>>
admissionVars == <<active, idle>>
entryVars == <<flight, stamp, clock, horizon, seen>>
vars == <<callVars, futureVars, unsettled, admissionVars, entryVars>>

Phases == {"new", "entering", "registering", "indexing", "tracking", "looking",
           "waiting", "unwinding", "closed"}
Outcomes == {"safe", "unsafe"}
Callbacks == {<<"release">>, <<"complete">>}
             \cup {<<"notify", c>> : c \in Calls}

(***************************************************************************)
(* The event loop holds one call between its first look at the clock and   *)
(* its await; no other route coroutine runs meanwhile.                     *)
(***************************************************************************)
Synchronous ==
  {"entering", "registering", "indexing", "tracking", "looking", "unwinding"}
LoopFree == \A c \in Calls : phase[c] \notin Synchronous

IsGet(c) == req[c].route = "get"
Done(f) == fut[f] \in {"finished", "cancelled"}
Unfinished(f) == fut[f] \in {"queued", "running"}

-----------------------------------------------------------------------------
(***************************************************************************)
(* The bounded replay cache.                                               *)
(***************************************************************************)

\* The keys _prune_locked(now) leaves, h being how far the TTL reaches at now:
\* first the expired entries go, then as many of the oldest completed ones as
\* the registry overflows by, counting the running entries too.
Live(fl, st, h) == {k \in Keys : fl[k] # None /\ ~(st[k] > 0 /\ st[k] <= h)}
Older(k, fl, st, h) ==
  {j \in Live(fl, st, h) : st[j] > 0 /\ st[j] < st[k]}
KeptOneFewer(fl, st, h) ==
  {k \in Live(fl, st, h) :
     \/ st[k] = 0
     \/ Cardinality(Older(k, fl, st, h)) + MaxReplay > Cardinality(Live(fl, st, h))}
Kept(fl, st, h) ==
  {k \in Live(fl, st, h) :
     \/ st[k] = 0
     \/ Cardinality(Older(k, fl, st, h)) + MaxReplay >= Cardinality(Live(fl, st, h))}

PruneExpiredOnly(fl, st, h) ==
  /\ flight' = [k \in Keys |-> IF k \in Live(fl, st, h) THEN fl[k] ELSE None]
  /\ stamp' = [k \in Keys |-> IF k \in Live(fl, st, h) THEN st[k] ELSE 0]
Prune(fl, st, h) ==
  /\ flight' = [k \in Keys |-> IF k \in Kept(fl, st, h) THEN fl[k] ELSE None]
  /\ stamp' = [k \in Keys |-> IF k \in Kept(fl, st, h) THEN st[k] ELSE 0]

-----------------------------------------------------------------------------
(***************************************************************************)
(* Effects of the done-callbacks, whichever thread invokes them.           *)
(***************************************************************************)

\* _release_admission
ReleaseSlotStaysBusy ==
  /\ active' = active - 1
  /\ UNCHANGED idle
ReleaseSlot ==
  /\ active' = active - 1
  /\ idle' = (active = 1 \/ idle)

\* _complete: keep a safe result, forget everything else.  It reads the clock
\* under the lock and prunes as of then.
CacheableAnyResult(f) == fut[f] = "finished"
Cacheable(f) == fut[f] = "finished" /\ outcome[f] = "safe"

Complete(f) ==
  LET k == req[f].key IN
  IF flight[k] # f
  THEN UNCHANGED entryVars
  ELSE /\ UNCHANGED <<horizon, seen>>
       /\ IF Cacheable(f)
          THEN /\ clock' = clock + 1
               /\ Prune(flight, [stamp EXCEPT ![k] = clock + 1], horizon)
          ELSE /\ flight' = [flight EXCEPT ![k] = None]
               /\ UNCHANGED <<stamp, clock>>

-----------------------------------------------------------------------------
Init ==
  /\ req \in Traffic
  /\ phase = [c \in Calls |-> "new"]
  /\ board = [c \in Calls |-> None]
  /\ disp = [c \in Calls |-> "none"]
  /\ answer = [c \in Calls |-> "none"]
  /\ fut = [c \in Calls |-> "unborn"]
  /\ outcome = [c \in Calls |-> "none"]
  /\ callbacks = [c \in Calls |-> {}]
  /\ expired = [c \in Calls |-> FALSE]
  /\ stop = [c \in Calls |-> FALSE]
  /\ unsettled = {}
  /\ active = 0
  /\ idle = TRUE
  /\ flight = [k \in Keys |-> None]
  /\ stamp = [k \in Keys |-> 0]
  /\ clock = 0
  /\ horizon = 0
  /\ seen = 0

(***************************************************************************)
(* Admission: the synchronous head of execute() and                        *)
(* execute_bounded_request().  A GET reads the clock, waits for the lock   *)
(* that the executor threads take to complete, and then prunes the         *)
(* registry as of the time it has read.                                    *)
(***************************************************************************)
Close(c, verdict) ==
  /\ phase' = [phase EXCEPT ![c] = "closed"]
  /\ answer' = [answer EXCEPT ![c] = verdict]

ReadClock(c) ==
  /\ phase[c] = "new" /\ LoopFree
  /\ IsGet(c)
  /\ phase' = [phase EXCEPT ![c] = "entering"]
  /\ seen' = horizon
  /\ UNCHANGED <<req, board, disp, answer, futureVars, unsettled, admissionVars,
                 flight, stamp, clock, horizon>>

\* A GET has the lock, or a POST is at the head of execute_bounded_request().
Arrives(c) ==
  IF IsGet(c) THEN phase[c] = "entering" ELSE phase[c] = "new" /\ LoopFree

\* _ProcessAdmission.try_acquire
HasCapacity == active < MaxInflight

\* What the lookup after the prune finds.
Registered(c) ==
  IF req[c].key \in Kept(flight, stamp, seen) THEN flight[req[c].key] ELSE None

SameInputUnchecked(f, c) == TRUE
SameInput(f, c) == req[f].input = req[c].input

\* The entry exists for a different input: RequestIdentityConflictError.
Conflict(c) ==
  /\ Arrives(c) /\ IsGet(c)
  /\ Registered(c) # None
  /\ ~SameInput(Registered(c), c)
  /\ Prune(flight, stamp, seen)
  /\ Close(c, "conflict")
  /\ seen' = 0
  /\ UNCHANGED <<req, board, disp, futureVars, unsettled, admissionVars,
                 clock, horizon>>

\* The entry exists for this input: share its Future.
Board(c) ==
  LET f == Registered(c) IN
  /\ Arrives(c) /\ IsGet(c)
  /\ f # None
  /\ SameInput(f, c)
  /\ Prune(flight, stamp, seen)
  /\ board' = [board EXCEPT ![c] = f]
  /\ disp' = [disp EXCEPT ![c] = IF Done(f) THEN "replayed" ELSE "joined"]
  /\ phase' = [phase EXCEPT ![c] = "tracking"]
  /\ seen' = 0
  /\ UNCHANGED <<req, answer, futureVars, unsettled, admissionVars,
                 clock, horizon>>

PruneIfGet(c) ==
  IF IsGet(c) THEN Prune(flight, stamp, seen) ELSE UNCHANGED <<flight, stamp>>

\* No entry and no capacity: RequestOverloadedError, nothing submitted.
Overload(c) ==
  /\ Arrives(c)
  /\ IsGet(c) => Registered(c) = None
  /\ ~HasCapacity
  /\ PruneIfGet(c)
  /\ Close(c, "overloaded")
  /\ seen' = 0
  /\ UNCHANGED <<req, board, disp, futureVars, unsettled, admissionVars,
                 clock, horizon>>

\* The slot is taken and given back when submit() raises.
SubmitRaises(c) ==
  /\ Arrives(c)
  /\ IsGet(c) => Registered(c) = None
  /\ HasCapacity
  /\ PruneIfGet(c)
  /\ Close(c, "failure")
  /\ seen' = 0
  /\ UNCHANGED <<req, board, disp, futureVars, unsettled, admissionVars,
                 clock, horizon>>

\* Submit a worker; a GET registers it before the lock is released.
Launch(c) ==
  /\ Arrives(c)
  /\ IsGet(c) => Registered(c) = None
  /\ HasCapacity
  /\ active' = active + 1
  /\ idle' = FALSE
  /\ fut' = [fut EXCEPT ![c] = "queued"]
  /\ board' = [board EXCEPT ![c] = c]
  /\ disp' = [disp EXCEPT ![c] = "executed"]
  /\ phase' = [phase EXCEPT ![c] = "registering"]
  /\ IF IsGet(c)
     THEN /\ flight' = [k \in Keys |-> IF k = req[c].key THEN c
                          ELSE IF k \in Kept(flight, stamp, seen) THEN flight[k] ELSE None]
          /\ stamp' = [k \in Keys |-> IF k \in Kept(flight, stamp, seen) /\ k # req[c].key
                                      THEN stamp[k] ELSE 0]
     ELSE UNCHANGED <<flight, stamp>>
  /\ seen' = 0
  /\ UNCHANGED <<req, answer, outcome, callbacks, expired, stop, unsettled,
                 clock, horizon>>

(***************************************************************************)
(* add_done_callback: appended while the Future is pending, invoked at     *)
(* once by the caller when the worker has already finished.                *)
(***************************************************************************)
Attach(f, cbs) == callbacks' = [callbacks EXCEPT ![f] = @ \cup cbs]

RegisterReleaseLosesRace(c) ==
  /\ phase[c] = "registering"
  /\ phase' = [phase EXCEPT ![c] = IF IsGet(c) THEN "indexing" ELSE "tracking"]
  /\ IF Done(c) THEN UNCHANGED callbacks ELSE Attach(c, {<<"release">>})
  /\ UNCHANGED <<req, board, disp, answer, fut, outcome, expired, stop,
                 unsettled, admissionVars, entryVars>>

RegisterRelease(c) ==
  /\ phase[c] = "registering"
  /\ phase' = [phase EXCEPT ![c] = IF IsGet(c) THEN "indexing" ELSE "tracking"]
  /\ IF Done(c)
     THEN ReleaseSlot /\ UNCHANGED callbacks
     ELSE Attach(c, {<<"release">>}) /\ UNCHANGED admissionVars
  /\ UNCHANGED <<req, board, disp, answer, fut, outcome, expired, stop,
                 unsettled, entryVars>>

RegisterComplete(c) ==
  /\ phase[c] = "indexing"
  /\ phase' = [phase EXCEPT ![c] = "tracking"]
  /\ IF Done(c)
     THEN Complete(c) /\ UNCHANGED callbacks
     ELSE Attach(c, {<<"complete">>}) /\ UNCHANGED entryVars
  /\ UNCHANGED <<req, board, disp, answer, fut, outcome, expired, stop,
                 unsettled, admissionVars>>

\* What a call gets from a Future that is done.
Verdict(f) == IF fut[f] = "cancelled" THEN "aborted" ELSE "result"

\* Track the Future in the call's Audit barrier.  On an unfinished Future the
\* barrier and the awaitable are two more callbacks; on a finished one the
\* barrier settles at once, a GET returns the result directly and a POST has
\* its awaitable posted to the event loop.
TrackUnfinished(c) ==
  /\ phase[c] = "tracking" /\ Unfinished(board[c])
  /\ phase' = [phase EXCEPT ![c] = IF IsGet(c) THEN "looking" ELSE "waiting"]
  /\ unsettled' = unsettled \cup {c}
  /\ Attach(board[c], {<<"notify", c>>})
  /\ UNCHANGED <<req, board, disp, answer, fut, outcome, expired, stop,
                 admissionVars, entryVars>>

TrackDone(c) ==
  /\ phase[c] = "tracking" /\ Done(board[c])
  /\ IF IsGet(c)
     THEN Close(c, Verdict(board[c]))
     ELSE /\ phase' = [phase EXCEPT ![c] = "waiting"]
          /\ UNCHANGED answer
  /\ UNCHANGED <<req, board, disp, futureVars, unsettled, admissionVars, entryVars>>

\* A GET that has tracked an unfinished Future looks whether it is done by now,
\* whichever of its callbacks have run.
Look(c) ==
  /\ phase[c] = "looking"
  /\ IF Done(board[c])
     THEN Close(c, Verdict(board[c]))
     ELSE phase' = [phase EXCEPT ![c] = "waiting"] /\ UNCHANGED answer
  /\ UNCHANGED <<req, board, disp, futureVars, unsettled, admissionVars, entryVars>>

(***************************************************************************)
(* Executor threads.  A thread is busy until the callbacks it invokes      *)
(* after set_result have all run.                                          *)
(***************************************************************************)
BusyThreads ==
  {f \in Calls : fut[f] = "running" \/ (fut[f] = "finished" /\ callbacks[f] # {})}

Start(f) ==
  /\ fut[f] = "queued"
  /\ Cardinality(BusyThreads) < PoolSize
  /\ fut' = [fut EXCEPT ![f] = "running"]
  /\ UNCHANGED <<callVars, outcome, callbacks, expired, stop, unsettled,
                 admissionVars, entryVars>>

\* set_result or set_exception.  The operation may end at any time, whether
\* or not it noticed the deadline.
Finish(f, o) ==
  /\ fut[f] = "running"
  /\ fut' = [fut EXCEPT ![f] = "finished"]
  /\ outcome' = [outcome EXCEPT ![f] = o]
  /\ UNCHANGED <<callVars, callbacks, expired, stop, unsettled,
                 admissionVars, entryVars>>

Invoke(f, cb) ==
  /\ Done(f)
  /\ cb \in callbacks[f]
  /\ callbacks' = [callbacks EXCEPT ![f] = @ \ {cb}]

RunRelease(f) ==
  /\ Invoke(f, <<"release">>)
  /\ ReleaseSlot
  /\ UNCHANGED <<callVars, fut, outcome, expired, stop, unsettled, entryVars>>

RunComplete(f) ==
  /\ <<"release">> \notin callbacks[f]
  /\ Invoke(f, <<"complete">>)
  /\ Complete(f)
  /\ UNCHANGED <<callVars, fut, outcome, expired, stop, unsettled, admissionVars>>

OwnerCallbacksRan(f) == callbacks[f] \cap {<<"release">>, <<"complete">>} = {}

\* The two callbacks of a call that tracked f, back to back on one thread:
\* its Audit barrier lets go of the Future, and wrap_future posts the
\* completion to the event loop.
RunNotify(f, c) ==
  /\ OwnerCallbacksRan(f)
  /\ Invoke(f, <<"notify", c>>)
  /\ unsettled' = unsettled \ {c}
  /\ UNCHANGED <<callVars, fut, outcome, expired, stop, admissionVars, entryVars>>

\* The completion of the Future a call waits on reached the event loop.
Woken(c) == Done(board[c]) /\ <<"notify", c>> \notin callbacks[board[c]]

(***************************************************************************)
(* The await: a result, the shared deadline, or cancellation of the call.  *)
(***************************************************************************)
Deliver(c) ==
  /\ phase[c] = "waiting" /\ LoopFree
  /\ Woken(c)
  /\ Close(c, Verdict(board[c]))
  /\ UNCHANGED <<req, board, disp, futureVars, unsettled, admissionVars, entryVars>>

\* future.cancel() succeeds on a queued Future only; its callbacks then run
\* on the event-loop thread before the handler goes on.
CancelWork(c, verdict) ==
  LET f == board[c] IN
  /\ stop' = [stop EXCEPT ![f] = TRUE]
  /\ answer' = [answer EXCEPT ![c] = verdict]
  /\ IF fut[f] = "queued"
     THEN /\ fut' = [fut EXCEPT ![f] = "cancelled"]
          /\ phase' = [phase EXCEPT ![c] = "unwinding"]
     ELSE /\ phase' = [phase EXCEPT ![c] = "closed"]
          /\ UNCHANGED fut
  /\ UNCHANGED <<req, board, disp, outcome, callbacks, expired, unsettled,
                 admissionVars, entryVars>>

TimeoutOwnBudgetOnly(c) ==
  /\ phase[c] = "waiting" /\ LoopFree
  /\ expired[c]
  /\ CancelWork(c, "timeout")

TimeoutForgetsKey(c) ==
  /\ phase[c] = "waiting" /\ LoopFree /\ IsGet(c)
  /\ expired[board[c]]
  /\ Close(c, "timeout")
  /\ stop' = [stop EXCEPT ![board[c]] = TRUE]
  /\ flight' = [flight EXCEPT ![req[c].key] = None]
  /\ UNCHANGED <<req, board, disp, fut, outcome, callbacks, expired, unsettled,
                 admissionVars, stamp, clock, horizon, seen>>

\* TimeoutError: the wait may lose to a result that is already on its way.
Timeout(c) ==
  /\ phase[c] = "waiting" /\ LoopFree
  /\ expired[board[c]]
  /\ CancelWork(c, "timeout")

\* CancelledError in a POST cancels the work it alone waits for.
AbortPost(c) ==
  /\ phase[c] = "waiting" /\ LoopFree /\ ~IsGet(c)
  /\ CancelWork(c, "aborted")

AbortGetLikePost(c) ==
  /\ phase[c] = "waiting" /\ LoopFree /\ IsGet(c)
  /\ CancelWork(c, "aborted")

\* CancelledError in a GET keeps the shared execution alive.
AbortGet(c) ==
  /\ phase[c] = "waiting" /\ LoopFree /\ IsGet(c)
  /\ Close(c, "aborted")
  /\ UNCHANGED <<req, board, disp, futureVars, unsettled, admissionVars, entryVars>>

FinishUnwind(c) ==
  /\ phase[c] = "unwinding"
  /\ callbacks[board[c]] = {}
  /\ phase' = [phase EXCEPT ![c] = "closed"]
  /\ UNCHANGED <<req, board, disp, answer, futureVars, unsettled,
                 admissionVars, entryVars>>

(***************************************************************************)
(* Time.  A deadline matters while its work is unfinished or awaited.      *)
(***************************************************************************)
Awaited(f) == \E c \in Calls : board[c] = f /\ phase[c] = "waiting"

DeadlinePasses(f) ==
  /\ Unfinished(f) \/ Awaited(f)
  /\ ~expired[f]
  /\ expired' = [expired EXCEPT ![f] = TRUE]
  /\ UNCHANGED <<callVars, fut, outcome, callbacks, stop, unsettled,
                 admissionVars, entryVars>>

ReplayAges ==
  /\ \E h \in (horizon + 1)..clock : horizon' = h
  /\ UNCHANGED <<callVars, futureVars, unsettled, admissionVars,
                 flight, stamp, clock, seen>>

Admit(c) == Conflict(c) \/ Board(c) \/ Overload(c) \/ SubmitRaises(c) \/ Launch(c)
Enter(c) == phase[c] = "entering" /\ Admit(c)
Register(c) == RegisterRelease(c) \/ RegisterComplete(c)
Track(c) == TrackUnfinished(c) \/ TrackDone(c) \/ Look(c)
Notify(f) == \E c \in Calls : RunNotify(f, c)

Next ==
  \/ \E c \in Calls :
       \/ ReadClock(c) \/ Admit(c) \/ Register(c) \/ Track(c)
       \/ Deliver(c) \/ Timeout(c) \/ AbortPost(c) \/ AbortGet(c) \/ FinishUnwind(c)
  \/ \E f \in Calls :
       \/ Start(f) \/ (\E o \in Outcomes : Finish(f, o))
       \/ RunRelease(f) \/ RunComplete(f) \/ Notify(f)
       \/ DeadlinePasses(f)
  \/ ReplayAges

Spec == Init /\ [][Next]_vars

(***************************************************************************)
(* Fairness.  The event loop and the executor threads keep running and     *)
(* time passes.  Arrivals and cancellations owe nothing, and nothing is    *)
(* assumed here of the operation itself.                                   *)
(***************************************************************************)
LoopFairness ==
  \A c \in Calls :
    /\ WF_vars(Enter(c)) /\ WF_vars(Register(c)) /\ WF_vars(Track(c))
    /\ WF_vars(Deliver(c)) /\ WF_vars(Timeout(c)) /\ WF_vars(FinishUnwind(c))
    /\ WF_vars(DeadlinePasses(c))

WorkerFairness ==
  \A f \in Calls :
    /\ WF_vars(Start(f))
    /\ WF_vars(RunRelease(f)) /\ WF_vars(RunComplete(f)) /\ WF_vars(Notify(f))

FairSpec == Spec /\ LoopFairness /\ WorkerFairness

-----------------------------------------------------------------------------
(***************************************************************************)
(* Properties.                                                             *)
(***************************************************************************)

\* Every variable keeps the shape of the Python object it stands for.
TypeOK ==
  /\ req \in Traffic
  /\ phase \in [Calls -> Phases]
  /\ board \in [Calls -> Calls \cup {None}]
  /\ disp \in [Calls -> {"none", "executed", "joined", "replayed"}]
  /\ answer \in [Calls -> {"none", "result", "failure", "timeout", "overloaded",
                           "conflict", "aborted"}]
  /\ fut \in [Calls -> {"unborn", "queued", "running", "finished", "cancelled"}]
  /\ outcome \in [Calls -> Outcomes \cup {"none"}]
  /\ callbacks \in [Calls -> SUBSET Callbacks]
  /\ expired \in [Calls -> BOOLEAN]
  /\ stop \in [Calls -> BOOLEAN]
  /\ unsettled \subseteq Calls
  /\ active \in Nat
  /\ idle \in BOOLEAN
  /\ flight \in [Keys -> Calls \cup {None}]
  /\ stamp \in [Keys -> Nat]
  /\ clock \in Nat
  /\ horizon \in Nat
  /\ seen \in Nat

\* A worker holds its admission slot until _release_admission ran for it.
HoldsSlot(f) == phase[f] = "registering" \/ <<"release">> \in callbacks[f]
SlotHolders == {f \in Calls : HoldsSlot(f)}

\* The admission counter is exactly the number of submitted workers whose
\* release callback has not run, on whichever thread it runs, and the idle
\* Event the shutdown waits on says the same (no leak, no underflow).
AdmissionAccounting ==
  /\ active = Cardinality(SlotHolders)
  /\ idle <=> active = 0

\* No interleaving of admissions and completions lets more Agent operations
\* be unfinished than the configured limit.
WorkWithinLimit == Cardinality({f \in Calls : Unfinished(f)}) <= MaxInflight

\* Running duplicates share one worker: evictions, expiries, timeouts and
\* aborts never let a second worker start for a key whose worker is not done.
SingleFlight ==
  \A f, g \in Calls :
    /\ Unfinished(f) /\ IsGet(f)
    /\ Unfinished(g) /\ IsGet(g)
    /\ req[f].key = req[g].key
    => f = g

\* A registry entry outlives its worker's completion callback only when the
\* result is a safe one; until then the callback is still to come.
CacheOnlySafe ==
  \A k \in Keys :
    flight[k] # None =>
      IF stamp[k] > 0
      THEN fut[flight[k]] = "finished" /\ outcome[flight[k]] = "safe"
      ELSE \/ phase[flight[k]] \in {"registering", "indexing"}
           \/ <<"complete">> \in callbacks[flight[k]]

\* A call only ever waits on, or reads, the Future of its own key and input,
\* however often the key was evicted and registered again.
ServedOwnQuestion ==
  \A c \in Calls :
    board[c] # None => req[board[c]] = req[c] /\ (~IsGet(c) => board[c] = c)

\* The registry holds at most max_replay_entries completed results.
ReplayBound == Cardinality({k \in Keys : stamp[k] > 0}) <= MaxReplay

\* Closing a GET connection never stops the execution others may share, nor
\* hides it from them: a GET's cancel_event is set by its deadline alone, and
\* its worker stays registered under its key until it is done.
SharedWorkSurvivesAbort ==
  \A f \in Calls : IsGet(f) =>
    /\ stop[f] => expired[f]
    /\ Unfinished(f) => flight[req[f].key] = f

\* The Audit barrier of a call holds its Future until that Future is done,
\* also after the call was answered, timed out or went away.
BarrierHoldsUnfinished ==
  \A c \in Calls :
    /\ phase[c] \in {"looking", "waiting", "unwinding", "closed"}
    /\ board[c] # None
    /\ Unfinished(board[c])
    => c \in unsettled

\* The entry under j is of a worker still to complete, or completed after k's.
Newer(j, k) == stamp[j] = 0 \/ (stamp[k] > 0 /\ stamp[j] > stamp[k])

\* A safe result leaves the replay cache only when its TTL has passed or when
\* max_replay_entries entries stay that are running or newer: also a prune as
\* of a time read before another thread completed never drops a fresh result
\* where an older one would do.
EvictedForCause ==
  [][\A k \in Keys :
       flight[k] # None /\ flight'[k] # flight[k] /\ Cacheable(flight[k]) =>
         \/ stamp[k] > 0 /\ stamp[k] <= horizon
         \/ MaxReplay <= Cardinality({j \in Keys \ {k} : flight'[j] = flight[j]
                                        /\ flight[j] # None /\ Newer(j, k)})]_vars

\* "while retryable failures are removed so the evaluator's next attempt can
\* execute again": what a call is given as a replay is a safe completion.
ReplaysOnlySafe ==
  \A c \in Calls : disp[c] = "replayed" => outcome[board[c]] = "safe"

\* The coordinator implements the contract its docstring states.
Leg(f) ==
  IF ~IsGet(f) \/ fut[f] = "unborn" THEN "parked"
  ELSE IF Unfinished(f) THEN "running" ELSE "over"
Contract ==
  INSTANCE SharedExecution
    WITH ask <- req, desk <- flight,
         leg <- [f \in Calls |-> Leg(f)],
         seat <- [c \in Calls |-> IF IsGet(c) THEN board[c] ELSE None]
ImplementsSharedExecution == Contract!Spec

\* Every admitted call is answered, even when its worker never returns.
CallAnswered ==
  \A c \in Calls : (phase[c] = "waiting") ~> (phase[c] = "closed")

\* deadline.py: an operation whose deadline passed or was cancelled returns.
OperationsStop ==
  \A f \in Calls :
    (fut[f] = "running" /\ (expired[f] \/ stop[f])) ~> (fut[f] = "finished")

\* If operations stop at their deadline, every slot comes back and every
\* Audit barrier settles, which is what the lifespan shutdown waits for.
WorkDrains ==
  OperationsStop => (active > 0 \/ unsettled # {}) ~> (active = 0 /\ unsettled = {})

=============================================================================
