--------------------------- MODULE AuditSinkProofs ---------------------------
(***************************************************************************)
(* Proofs about AuditSink, for any number of threads, invocations, close   *)
(* calls, health requests and restarts, and any capacity.                  *)
(*                                                                         *)
(* Stopped is why nothing is stranded: the sentinel is the last entry of a *)
(* queue that no longer accepts, it is put once, and the writer leaves by  *)
(* it only.  Latched is why the latch holds: a health request still        *)
(* looking began before any degraded answer.  Bounded says whose bytes the *)
(* last line holds, Carried what the writer writes.                        *)
(***************************************************************************)
EXTENDS AuditSink, SequenceTheorems, TLAPS

Left == {"finishing", "exiting", "dead"}
InClose == {"putting", "joining"}

Stopped ==
  /\ sentinelIn => ~accepting
  /\ \A n \in 1..Len(queue) : queue[n] = Sentinel => n = Len(queue) /\ sentinelIn
  /\ writer \in Left => sentinelIn /\ queue = <<>>
  /\ \A c \in Closers : closing[c] = "putting" => ~sentinelIn /\ ~accepting
  /\ \A c, d \in Closers : closing[c] \in InClose /\ closing[d] \in InClose => c = d

Latched ==
  /\ \A p \in Pollers : health[p] = "degraded" => degraded
  /\ \A p \in Pollers : polling[p] # "out" => ~late[p]

Bounded ==
  /\ ~up => run < MaxRuns
  /\ up /\ file # <<>> /\ file[Len(file)].state = "torn" => file[Len(file)].runs = {run}

Carried == writer = "emitting" => item \in Event

Inv == TypeOK /\ Carried /\ Stopped /\ Latched /\ Bounded /\ CrashBoundary /\ LatchHolds

Lines ==
  [state : {"whole", "torn", "corrupt"},
   event : Event \cup {Nothing},
   runs : SUBSET (1..MaxRuns)]

-----------------------------------------------------------------------------
\* An event is not the sentinel, and what a thread drafts is an event.
LEMMA SentinelIsNoEvent == Sentinel \notin Event
<1>1. Sentinel.kind = "sentinel"
  BY DEF Sentinel
<1>2. \A e \in Event : e.kind = "event"
  BY DEF Event
<1> QED
  BY <1>1, <1>2

LEMMA DraftIsEvent ==
  ASSUME TypeOK, NEW t \in Threads, draft[t] # 0 PROVE Draft(t) \in Event
<1>1. draft[t] \in 1..MaxEvents
  BY SinkAssumption DEF TypeOK
<1>2. InvocationOf[t] \in Invocations
  BY SinkAssumption
<1> QED
  BY <1>1, <1>2 DEF TypeOK, Draft, Event

\* What a write leaves in the file.
LEMMA WriteLines ==
  ASSUME TypeOK, NEW line, line \in Lines, Write(line)
  PROVE  file' \in Seq(Lines)
<1>1. file \in Seq(Lines)
  BY DEF TypeOK, Lines
<1>2. CASE file # <<>> /\ file[Len(file)].state = "torn"
  <2>1. Len(file) \in DOMAIN file /\ file[Len(file)] \in Lines
    BY <1>1, <1>2
  <2>2. Continued(file[Len(file)], line) \in Lines
    BY <2>1 DEF Continued, Lines
  <2>3. file' = [file EXCEPT ![Len(file)] = Continued(file[Len(file)], line)]
    BY <1>2 DEF Write
  <2> QED
    BY <1>1, <2>1, <2>2, <2>3
<1>3. CASE ~(file # <<>> /\ file[Len(file)].state = "torn")
  BY <1>1, <1>3 DEF Write
<1> QED
  BY <1>2, <1>3

LEMMA LinesOfTheWriter ==
  ASSUME TypeOK, Carried
  PROVE  /\ TornLine \in Lines /\ TornLine.runs = {run}
         /\ writer = "emitting" => WholeLine \in Lines /\ WholeLine.runs = {run}
<1>1. {run} \in SUBSET (1..MaxRuns)
  BY DEF TypeOK
<1> QED
  BY <1>1 DEF Carried, TornLine, WholeLine, Lines

\* Every line is of one run, and the new last line of this one.
LEMMA WriteBounded ==
  ASSUME TypeOK, up, Bounded, CrashBoundary,
         NEW line, line \in Lines, line.runs = {run}, Write(line)
  PROVE  /\ file' # <<>> /\ file'[Len(file')].runs = {run}
         /\ \A n \in 1..Len(file') : \E r \in 1..MaxRuns : file'[n].runs = {r}
<1>1. file \in Seq(Lines) /\ run \in 1..MaxRuns
  BY DEF TypeOK, Lines
<1>2. CASE file # <<>> /\ file[Len(file)].state = "torn"
  <2>1. Len(file) \in Nat /\ Len(file) \in 1..Len(file)
    BY <1>1, <1>2
  <2>2. file' = [file EXCEPT ![Len(file)] = Continued(file[Len(file)], line)]
    BY <1>2 DEF Write
  <2>3. Continued(file[Len(file)], line).runs = {run}
    BY <1>2 DEF Bounded, Continued
  <2>4. /\ Len(file') = Len(file) /\ file'[Len(file)].runs = {run}
        /\ \A n \in 1..Len(file) : n # Len(file) => file'[n] = file[n]
    BY <1>1, <2>1, <2>2, <2>3
  <2> QED
    BY <1>1, <1>2, <2>1, <2>4 DEF CrashBoundary
<1>3. CASE ~(file # <<>> /\ file[Len(file)].state = "torn")
  <2>1. file' = Append(file, line)
    BY <1>3 DEF Write
  <2>2. /\ Len(file) \in Nat /\ Len(file') = Len(file) + 1 /\ file'[Len(file) + 1] = line
        /\ \A n \in 1..Len(file) : file'[n] = file[n]
    BY <1>1, <2>1
  <2> QED
    BY <1>1, <2>2 DEF CrashBoundary
<1> QED
  BY <1>2, <1>3

LEMMA InitInv == Init => Inv
<1> SUFFICES ASSUME Init PROVE Inv
  OBVIOUS
<1>1. TypeOK
  <2>1. /\ run \in 1..MaxRuns
        /\ sequence \in [Invocations -> 0..MaxEvents] /\ draft \in [Threads -> 0..MaxEvents]
    BY SinkAssumption DEF Init
  <2>2. queue \in Seq(Event \cup {Sentinel}) /\ Len(queue) <= Capacity
    BY SinkAssumption DEF Init
  <2>3. file \in Seq(Lines)
    BY DEF Init
  <2> QED
    BY <2>1, <2>2, <2>3 DEF Init, TypeOK, Alarms, Lines
<1>2. Stopped
  BY DEF Init, Stopped, Left, InClose
<1>3. Carried /\ Latched /\ Bounded /\ CrashBoundary /\ LatchHolds
  BY DEF Init, Carried, Latched, Bounded, CrashBoundary, LatchHolds
<1> QED
  BY <1>1, <1>2, <1>3 DEF Inv

-----------------------------------------------------------------------------
\* The types are kept.
LEMMA TypeStep == ASSUME TypeOK, Carried, Bounded, Next PROVE TypeOK'
<1> USE DEF emitVars, sinkVars, closeVars, pollVars
<1>1. CASE Start
  BY <1>1 DEF Start, TypeOK
<1>2. CASE Crash
  <2>1. file' \in Seq(Lines)
    <3>1. CASE UNCHANGED file
      BY <3>1 DEF TypeOK, Lines
    <3>2. CASE writer = "emitting" /\ Write(WholeLine)
      BY <3>2, LinesOfTheWriter, WriteLines
    <3>3. CASE Write(TornLine)
      BY <3>3, LinesOfTheWriter, WriteLines
    <3> QED
      BY <1>2, <3>1, <3>2, <3>3 DEF Crash
  <2>2. up' \in BOOLEAN /\ UNCHANGED <<run, sequence, draft, queue, accepting, writer, item>>
    BY <1>2 DEF Crash
  <2>3. UNCHANGED <<deliveryFailed, sentinelIn, flush, alarms, stalled, closing, upstream, verdict,
                    serving, degraded, polling, late, health>>
    BY <1>2 DEF Crash
  <2>4. file' \in Seq([state : {"whole", "torn", "corrupt"}, event : Event \cup {Nothing},
                       runs : SUBSET (1..MaxRuns)])
    BY <2>1 DEF Lines
  <2> QED
    BY <2>2, <2>3, <2>4 DEF TypeOK
<1>3. CASE Restart
  <2>1. run' \in 1..MaxRuns
    BY <1>3, SinkAssumption DEF Restart, Bounded, TypeOK
  <2>2. sequence' \in [Invocations -> 0..MaxEvents] /\ draft' \in [Threads -> 0..MaxEvents]
    BY <1>3, SinkAssumption DEF Restart
  <2>3. queue' \in Seq(Event \cup {Sentinel}) /\ Len(queue') <= Capacity
    BY <1>3, SinkAssumption DEF Restart
  <2> QED
    BY <1>3, <2>1, <2>2, <2>3 DEF Restart, TypeOK
<1>4. CASE StallTimeout
  BY <1>4 DEF StallTimeout, TypeOK
<1>5. ASSUME NEW t \in Threads, Allocate(t) PROVE TypeOK'
  <2>1. InvocationOf[t] \in Invocations
    BY SinkAssumption
  <2>2. /\ sequence[InvocationOf[t]] + 1 \in 0..MaxEvents
    BY <1>5, <2>1, SinkAssumption DEF Allocate, TypeOK
  <2>3. sequence' \in [Invocations -> 0..MaxEvents] /\ draft' \in [Threads -> 0..MaxEvents]
    BY <1>5, <2>1, <2>2 DEF Allocate, TypeOK
  <2> QED
    BY <1>5, <2>3 DEF Allocate, TypeOK
<1>6. ASSUME NEW t \in Threads, Enqueue(t) PROVE TypeOK'
  <2>1. draft' \in [Threads -> 0..MaxEvents]
    BY <1>6, SinkAssumption DEF Enqueue, TypeOK
  <2>2. Draft(t) \in Event
    BY <1>6, DraftIsEvent DEF Enqueue
  <2>3. queue' \in Seq(Event \cup {Sentinel}) /\ Len(queue') <= Capacity
    <3>1. CASE UNCHANGED queue
      BY <3>1 DEF TypeOK
    <3>2. CASE Len(queue) < Capacity /\ queue' = Append(queue, Draft(t))
      BY <2>2, <3>2, SinkAssumption DEF TypeOK
    <3> QED
      BY <1>6, <3>1, <3>2 DEF Enqueue
  <2>4. alarms' \subseteq Alarms /\ stalled' \in BOOLEAN
    <3>1. alarms' \subseteq Alarms
      BY <1>6 DEF Enqueue, Raise, Alarms, TypeOK
    <3>2. stalled' \in BOOLEAN
      BY <1>6 DEF Enqueue, TypeOK
    <3> QED
      BY <3>1, <3>2
  <2> QED
    BY <1>6, <2>1, <2>3, <2>4 DEF Enqueue, TypeOK
<1>7. ASSUME NEW t \in Threads, Reject(t) PROVE TypeOK'
  <2>1. draft' \in [Threads -> 0..MaxEvents]
    BY <1>7, SinkAssumption DEF Reject, TypeOK
  <2> QED
    BY <1>7, <2>1 DEF Reject, Raise, Alarms, TypeOK
<1>8. CASE Take
  <2>1. /\ Head(queue) \in Event \cup {Sentinel}
        /\ Tail(queue) \in Seq(Event \cup {Sentinel}) /\ Len(Tail(queue)) <= Capacity
    BY <1>8, SinkAssumption DEF Take, TypeOK
  <2> QED
    BY <1>8, <2>1 DEF Take, TypeOK
<1>9. ASSUME NEW synced \in BOOLEAN, EmitWhole(synced) PROVE TypeOK'
  <2>2. file' \in Seq(Lines)
    BY <1>9, LinesOfTheWriter, WriteLines DEF EmitWhole
  <2>3. alarms' \subseteq Alarms
    BY <1>9 DEF EmitWhole, Raise, Alarms, TypeOK
  <2> QED
    BY <1>9, <2>2, <2>3 DEF EmitWhole, TypeOK, Lines
<1>10. CASE EmitBroken
  <2>1. file' \in Seq(Lines)
    <3>1. CASE UNCHANGED file
      BY <3>1 DEF TypeOK, Lines
    <3>2. CASE Write(TornLine)
      BY <3>2, LinesOfTheWriter, WriteLines
    <3> QED
      BY <1>10, <3>1, <3>2 DEF EmitBroken
  <2>2. alarms' \subseteq Alarms
    BY <1>10 DEF EmitBroken, Raise, Alarms, TypeOK
  <2> QED
    BY <1>10, <2>1, <2>2 DEF EmitBroken, TypeOK, Lines
<1>11. CASE Settle
  BY <1>11 DEF Settle, TypeOK
<1>12. ASSUME NEW failed \in BOOLEAN, FinishDownstream(failed) PROVE TypeOK'
  <2>1. alarms' \subseteq Alarms /\ flush' \in {"pending", "succeeded", "failed"}
    BY <1>12 DEF FinishDownstream, Raise, Alarms, TypeOK
  <2> QED
    BY <1>12, <2>1 DEF FinishDownstream, TypeOK
<1>13. CASE Exit
  BY <1>13 DEF Exit, TypeOK
<1>14. ASSUME NEW c \in Closers, NEW clean \in BOOLEAN, Return(c, clean)
      PROVE  /\ closing' \in [Closers -> {"out", "entered", "putting", "joining"}]
             /\ verdict' \in [Closers -> {"none", "drained", "lost"}]
             /\ degraded' \in BOOLEAN
  BY <1>14 DEF Return, TypeOK
<1>15. ASSUME NEW c \in Closers, CloseStep(c) \/ \E d \in BOOLEAN : EnterClose(c, d) PROVE TypeOK'
  <2>1. ASSUME NEW d \in BOOLEAN, EnterClose(c, d) PROVE TypeOK'
    BY <2>1 DEF EnterClose, TypeOK
  <2>2. CASE CloseAgain(c)
    <3>1. Return(c, flush = "succeeded") /\ (flush = "succeeded") \in BOOLEAN
      BY <2>2 DEF CloseAgain
    <3>2. /\ closing' \in [Closers -> {"out", "entered", "putting", "joining"}]
          /\ verdict' \in [Closers -> {"none", "drained", "lost"}]
          /\ degraded' \in BOOLEAN
      BY <1>14, <3>1
    <3> QED
      BY <2>2, <3>2 DEF CloseAgain, TypeOK
  <2>3. CASE StopAccepting(c)
    <3>1. closing' \in [Closers -> {"out", "entered", "putting", "joining"}]
      BY <2>3 DEF StopAccepting, TypeOK
    <3>2. accepting' \in BOOLEAN /\ writer' \in {writer, "idle"}
      BY <2>3 DEF StopAccepting
    <3>3. UNCHANGED <<up, run, emitVars, queue, item, deliveryFailed, sentinelIn, flush, alarms,
                      stalled, upstream, verdict, serving, degraded, pollVars, file>>
      BY <2>3 DEF StopAccepting
    <3> QED
      BY <3>1, <3>2, <3>3 DEF TypeOK
  <2>4. CASE PutSentinel(c)
    <3>1. queue' \in Seq(Event \cup {Sentinel}) /\ Len(queue') <= Capacity
      BY <2>4, SinkAssumption DEF PutSentinel, TypeOK
    <3> QED
      BY <2>4, <3>1 DEF PutSentinel, TypeOK
  <2>5. CASE CloseTimesOut(c)
    <3>1. alarms' \subseteq Alarms
      BY <2>5 DEF CloseTimesOut, Raise, Alarms, TypeOK
    <3>2. /\ closing' \in [Closers -> {"out", "entered", "putting", "joining"}]
          /\ verdict' \in [Closers -> {"none", "drained", "lost"}]
          /\ degraded' \in BOOLEAN
      BY <1>14, <2>5 DEF CloseTimesOut
    <3>3. UNCHANGED <<up, run, emitVars, sinkVars, stalled, upstream, serving, pollVars, file>>
      BY <2>5 DEF CloseTimesOut
    <3> QED
      BY <3>1, <3>2, <3>3 DEF TypeOK
  <2>6. CASE CloseJoined(c)
    <3>1. alarms' \subseteq Alarms /\ flush' \in {"pending", "succeeded", "failed"}
      BY <2>6 DEF CloseJoined, Raise, Alarms, TypeOK
    <3> QED
      BY <1>14, <2>6, <3>1 DEF CloseJoined, TypeOK
  <2> QED
    BY <1>15, <2>1, <2>2, <2>3, <2>4, <2>5, <2>6 DEF CloseStep
<1>16. ASSUME NEW p \in Pollers, PollBegins(p) \/ PollStep(p) PROVE TypeOK'
  <2>1. CASE PollBegins(p)
    <3>1. late' \in [Pollers -> BOOLEAN]
      BY <2>1 DEF PollBegins, TypeOK
    <3>2. /\ polling' \in [Pollers -> {"out", "looking", "latching"}]
          /\ health' \in [Pollers -> {"none", "ok", "degraded"}]
      BY <2>1 DEF PollBegins, Answer, TypeOK
    <3> QED
      BY <2>1, <3>1, <3>2 DEF PollBegins, TypeOK
  <2>2. CASE PollLooks(p)
    <3>1. /\ polling' \in [Pollers -> {"out", "looking", "latching"}]
          /\ health' \in [Pollers -> {"none", "ok", "degraded"}]
      BY <2>2 DEF PollLooks, Answer, TypeOK
    <3> QED
      BY <2>2, <3>1 DEF PollLooks, TypeOK
  <2>3. CASE PollLatches(p)
    BY <2>3 DEF PollLatches, Answer, TypeOK
  <2> QED
    BY <1>16, <2>1, <2>2, <2>3 DEF PollStep
<1> QED
  BY <1>1, <1>2, <1>3, <1>4, <1>5, <1>6, <1>7, <1>8, <1>9, <1>10, <1>11, <1>12, <1>13, <1>15,
     <1>16
  DEF Next, Emission, Writer

\* The sentinel stays the last entry, and is put once.
LEMMA StoppedStep == ASSUME TypeOK, Stopped, Next PROVE Stopped'
<1> USE DEF emitVars, sinkVars, closeVars, pollVars
<1>1. CASE UNCHANGED <<queue, accepting, writer, sentinelIn, closing>>
  BY <1>1 DEF Stopped
<1>2. CASE Start
  BY <1>2 DEF Start, Stopped, Left
<1>3. CASE Restart
  BY <1>3 DEF Restart, Stopped, Left, InClose
<1>4. ASSUME NEW t \in Threads, Enqueue(t) PROVE Stopped'
  <2>1. Draft(t) # Sentinel
    BY <1>4, DraftIsEvent, SentinelIsNoEvent DEF Enqueue
  <2>2. CASE accepting /\ Len(queue) < Capacity
    <3>1. /\ ~sentinelIn /\ queue' = Append(queue, Draft(t))
          /\ UNCHANGED <<accepting, writer, sentinelIn, closing>>
      BY <1>4, <2>2 DEF Enqueue, Stopped
    <3>2. \A n \in 1..Len(queue') : queue'[n] # Sentinel
      BY <2>1, <3>1 DEF TypeOK, Stopped
    <3> QED
      BY <3>1, <3>2 DEF Stopped
  <2>3. CASE ~(accepting /\ Len(queue) < Capacity)
    BY <1>1, <1>4, <2>3 DEF Enqueue
  <2> QED
    BY <2>2, <2>3
<1>5. CASE Take
  <2>1. /\ queue \in Seq(Event \cup {Sentinel}) /\ queue # <<>>
        /\ queue' = Tail(queue) /\ UNCHANGED <<accepting, sentinelIn, closing>>
    BY <1>5 DEF Take, TypeOK
  <2>2. /\ Len(queue') = Len(queue) - 1 /\ Len(queue) \in Nat \ {0}
        /\ \A n \in 1..Len(queue') : queue'[n] = queue[n + 1]
    BY <2>1
  <2>3. ASSUME NEW n \in 1..Len(queue'), queue'[n] = Sentinel
        PROVE  n = Len(queue') /\ sentinelIn'
    <3>1. n + 1 \in 1..Len(queue) /\ queue[n + 1] = Sentinel
      BY <2>2, <2>3
    <3>2. n + 1 = Len(queue) /\ sentinelIn
      BY <3>1 DEF Stopped
    <3>3. n = Len(queue')
      BY <2>2, <3>2
    <3> QED
      BY <2>1, <3>2, <3>3
  <2>4. writer' \in Left => sentinelIn' /\ queue' = <<>>
    <3>1. CASE queue[1] = Sentinel
      <4>1. Len(queue) = 1 /\ sentinelIn
        BY <2>2, <3>1 DEF Stopped
      <4> QED
        BY <2>1, <2>2, <4>1
    <3>2. CASE queue[1] # Sentinel
      BY <1>5, <2>1, <3>2 DEF Take, Left
    <3> QED
      BY <3>1, <3>2
  <2> QED
    BY <2>1, <2>3, <2>4 DEF Stopped
<1>6. CASE (\E synced \in BOOLEAN : EmitWhole(synced)) \/ EmitBroken \/ Settle
  BY <1>6 DEF EmitWhole, EmitBroken, Settle, Stopped, Left
<1>7. CASE (\E failed \in BOOLEAN : FinishDownstream(failed)) \/ Exit
  <2>1. /\ writer \in Left /\ writer' \in Left /\ UNCHANGED <<queue, sentinelIn, closing>>
        /\ accepting' \in {accepting, FALSE}
    BY <1>7 DEF FinishDownstream, Exit, Left
  <2>2. sentinelIn' => ~accepting'
    BY <2>1 DEF Stopped
  <2>3. \A d \in Closers : closing'[d] = "putting" => ~sentinelIn' /\ ~accepting'
    BY <2>1 DEF Stopped
  <2> QED
    BY <2>1, <2>2, <2>3 DEF Stopped
<1>8. ASSUME NEW c \in Closers, \E d \in BOOLEAN : EnterClose(c, d) PROVE Stopped'
  BY <1>8 DEF EnterClose, Stopped, InClose, TypeOK
<1>9. ASSUME NEW c \in Closers, CloseAgain(c) \/ CloseTimesOut(c) \/ CloseJoined(c) PROVE Stopped'
  <2>1. /\ UNCHANGED <<queue, accepting, writer, sentinelIn>>
        /\ closing' = [closing EXCEPT ![c] = "out"]
    BY <1>9 DEF CloseAgain, CloseTimesOut, CloseJoined, Return
  <2> QED
    BY <2>1 DEF Stopped, InClose, TypeOK
<1>10. ASSUME NEW c \in Closers, StopAccepting(c) PROVE Stopped'
  <2>1. \A d \in Closers : closing[d] \notin InClose
    BY <1>10 DEF StopAccepting, CloseLockFree, InClose
  <2>2. \A d \in Closers : d # c => closing'[d] = closing[d]
    BY <1>10 DEF StopAccepting, TypeOK
  <2>3. closing'[c] = "putting" => ~sentinelIn
    BY <1>10 DEF StopAccepting, TypeOK
  <2> QED
    BY <1>10, <2>1, <2>2, <2>3 DEF StopAccepting, Stopped, Left, InClose
<1>11. ASSUME NEW c \in Closers, PutSentinel(c) PROVE Stopped'
  <2>1. /\ ~sentinelIn /\ ~accepting /\ sentinelIn' /\ queue' = Append(queue, Sentinel)
        /\ UNCHANGED <<accepting, writer>> /\ writer \notin Left
    BY <1>11 DEF PutSentinel, Stopped
  <2>2. \A n \in 1..Len(queue') : queue'[n] = Sentinel => n = Len(queue')
    BY <2>1 DEF TypeOK, Stopped
  <2>3. \A d \in Closers : closing'[d] # "putting"
    BY <1>11 DEF PutSentinel, Stopped, InClose, TypeOK
  <2>4. \A d, e \in Closers : closing'[d] \in InClose /\ closing'[e] \in InClose => d = e
    BY <1>11 DEF PutSentinel, Stopped, InClose, TypeOK
  <2> QED
    BY <2>1, <2>2, <2>3, <2>4 DEF Stopped
<1>12. ASSUME NEW t \in Threads, Allocate(t) \/ Reject(t) PROVE Stopped'
  BY <1>1, <1>12 DEF Allocate, Reject
<1>13. ASSUME NEW p \in Pollers, PollBegins(p) \/ PollStep(p) PROVE Stopped'
  BY <1>1, <1>13 DEF PollBegins, PollStep, PollLooks, PollLatches
<1>14. CASE Crash \/ StallTimeout
  BY <1>1, <1>14 DEF Crash, StallTimeout
<1> QED
  BY <1>2, <1>3, <1>4, <1>5, <1>6, <1>7, <1>8, <1>9, <1>10, <1>11, <1>12, <1>13, <1>14
  DEF Next, Emission, Writer, CloseStep

\* A health request that still looks began before any degraded answer.
LEMMA LatchStep == ASSUME TypeOK, Latched, LatchHolds, Next PROVE Latched' /\ LatchHolds'
<1> USE DEF emitVars, sinkVars, closeVars, pollVars
<1>1. CASE UNCHANGED pollVars /\ (degraded => degraded')
  BY <1>1 DEF Latched, LatchHolds
<1>2. CASE Restart
  BY <1>2 DEF Restart, Latched, LatchHolds
<1>3. ASSUME NEW p \in Pollers, PollBegins(p) PROVE Latched' /\ LatchHolds'
  <2>1. late'[p] => degraded
    BY <1>3 DEF PollBegins, Latched, TypeOK
  <2>2. \A q \in Pollers : q # p =>
          late'[q] = late[q] /\ health'[q] = health[q] /\ polling'[q] = polling[q]
    BY <1>3 DEF PollBegins, Answer, TypeOK
  <2>3. CASE degraded
    <3>1. health'[p] = "degraded" /\ polling'[p] = "out" /\ degraded'
      BY <1>3, <2>3 DEF PollBegins, Answer, TypeOK
    <3> QED
      BY <2>2, <3>1 DEF Latched, LatchHolds
  <2>4. CASE ~degraded
    <3>1. health'[p] = "none" /\ ~late'[p] /\ degraded' = degraded
      BY <1>3, <2>1, <2>4 DEF PollBegins, TypeOK
    <3> QED
      BY <2>2, <3>1 DEF Latched, LatchHolds
  <2> QED
    BY <2>3, <2>4
<1>4. ASSUME NEW p \in Pollers, PollStep(p) PROVE Latched' /\ LatchHolds'
  <2>1. ~late[p] /\ late' = late
    BY <1>4 DEF PollStep, PollLooks, PollLatches, Latched
  <2>2. CASE PollLooks(p)
    BY <2>1, <2>2 DEF PollLooks, Answer, Latched, LatchHolds, TypeOK
  <2>3. CASE PollLatches(p)
    BY <2>1, <2>3 DEF PollLatches, Answer, Latched, LatchHolds, TypeOK
  <2> QED
    BY <1>4, <2>2, <2>3 DEF PollStep
<1>5. ASSUME NEW c \in Closers, CloseStep(c) \/ \E d \in BOOLEAN : EnterClose(c, d)
      PROVE  Latched' /\ LatchHolds'
  BY <1>1, <1>5
  DEF CloseStep, EnterClose, CloseAgain, StopAccepting, PutSentinel, CloseTimesOut, CloseJoined,
      Return
<1>6. ASSUME NEW t \in Threads, Emission(t) PROVE Latched' /\ LatchHolds'
  BY <1>1, <1>6 DEF Emission, Allocate, Enqueue, Reject
<1>7. CASE Writer
  BY <1>1, <1>7 DEF Writer, Take, EmitWhole, EmitBroken, Settle, FinishDownstream, Exit
<1>8. CASE Start \/ Crash \/ StallTimeout
  BY <1>1, <1>8 DEF Start, Crash, StallTimeout
<1> QED
  BY <1>2, <1>3, <1>4, <1>5, <1>6, <1>7, <1>8 DEF Next

\* What the writer writes is an event.
LEMMA CarriedStep == ASSUME TypeOK, Carried, Next PROVE Carried'
<1> USE DEF emitVars, sinkVars, closeVars, pollVars
<1>1. CASE UNCHANGED <<writer, item>>
  BY <1>1 DEF Carried
<1>2. CASE writer' # "emitting"
  BY <1>2 DEF Carried
<1>3. CASE Take
  <2>1. Head(queue) \in Event \cup {Sentinel}
    BY <1>3 DEF Take, TypeOK
  <2> QED
    BY <1>3, <2>1 DEF Take, Carried
<1>4. CASE Writer /\ ~Take
  BY <1>2, <1>4 DEF Writer, EmitWhole, EmitBroken, Settle, FinishDownstream, Exit
<1>5. CASE Start \/ Restart
  BY <1>2, <1>5 DEF Start, Restart
<1>6. CASE Crash \/ StallTimeout
  BY <1>1, <1>6 DEF Crash, StallTimeout
<1>7. ASSUME NEW t \in Threads, Emission(t) PROVE Carried'
  BY <1>1, <1>7 DEF Emission, Allocate, Enqueue, Reject
<1>8. ASSUME NEW c \in Closers, CloseStep(c) \/ \E d \in BOOLEAN : EnterClose(c, d)
      PROVE  Carried'
  BY <1>8
  DEF CloseStep, EnterClose, CloseAgain, StopAccepting, PutSentinel, CloseTimesOut, CloseJoined,
      Carried
<1>9. ASSUME NEW p \in Pollers, PollBegins(p) \/ PollStep(p) PROVE Carried'
  BY <1>1, <1>9 DEF PollBegins, PollStep, PollLooks, PollLatches
<1> QED
  BY <1>3, <1>4, <1>5, <1>6, <1>7, <1>8, <1>9 DEF Next

\* A line is of one run; only the last may be torn when the process starts.
LEMMA FileStep ==
  ASSUME TypeOK, Carried, Bounded, CrashBoundary, Next PROVE Bounded' /\ CrashBoundary'
<1> USE DEF emitVars, sinkVars, closeVars, pollVars
<1>1. CASE UNCHANGED <<up, run, file>>
  BY <1>1 DEF Bounded, CrashBoundary
<1>2. ASSUME up, UNCHANGED run, up' \/ run < MaxRuns,
             UNCHANGED file \/ Write(TornLine) \/ (writer = "emitting" /\ Write(WholeLine))
      PROVE  Bounded' /\ CrashBoundary'
  <2>1. CASE UNCHANGED file
    BY <1>2, <2>1 DEF Bounded, CrashBoundary
  <2>2. ASSUME NEW line, line \in Lines, line.runs = {run}, Write(line)
        PROVE  Bounded' /\ CrashBoundary'
    <3>1. /\ file' # <<>> /\ file'[Len(file')].runs = {run}
          /\ \A n \in 1..Len(file') : \E r \in 1..MaxRuns : file'[n].runs = {r}
      BY <1>2, <2>2, WriteBounded
    <3> QED
      BY <1>2, <3>1 DEF Bounded, CrashBoundary
  <2> QED
    BY <1>2, <2>1, <2>2, LinesOfTheWriter
<1>3. CASE Crash
  BY <1>2, <1>3 DEF Crash
<1>4. CASE Restart
  BY <1>4 DEF Restart, TailValid, Bounded, CrashBoundary
<1>5. CASE (\E synced \in BOOLEAN : EmitWhole(synced)) \/ EmitBroken
  BY <1>2, <1>5 DEF EmitWhole, EmitBroken
<1>6. CASE Take \/ Settle \/ (\E failed \in BOOLEAN : FinishDownstream(failed)) \/ Exit
  BY <1>1, <1>6 DEF Take, Settle, FinishDownstream, Exit
<1>7. CASE Start \/ StallTimeout
  BY <1>1, <1>7 DEF Start, StallTimeout
<1>8. ASSUME NEW t \in Threads, Emission(t) PROVE Bounded' /\ CrashBoundary'
  BY <1>1, <1>8 DEF Emission, Allocate, Enqueue, Reject
<1>9. ASSUME NEW c \in Closers, CloseStep(c) \/ \E d \in BOOLEAN : EnterClose(c, d)
      PROVE  Bounded' /\ CrashBoundary'
  BY <1>1, <1>9
  DEF CloseStep, EnterClose, CloseAgain, StopAccepting, PutSentinel, CloseTimesOut, CloseJoined
<1>10. ASSUME NEW p \in Pollers, PollBegins(p) \/ PollStep(p) PROVE Bounded' /\ CrashBoundary'
  BY <1>1, <1>10 DEF PollBegins, PollStep, PollLooks, PollLatches
<1> QED
  BY <1>3, <1>4, <1>5, <1>6, <1>7, <1>8, <1>9, <1>10 DEF Next, Writer

LEMMA InvStep == Inv /\ [Next]_vars => Inv'
<1> SUFFICES ASSUME Inv, [Next]_vars PROVE Inv'
  OBVIOUS
<1>1. CASE Next
  BY <1>1, TypeStep, CarriedStep, StoppedStep, LatchStep, FileStep DEF Inv
<1>2. CASE UNCHANGED vars
  <2>1. TypeOK'
    BY <1>2 DEF vars, emitVars, sinkVars, closeVars, pollVars, Inv, TypeOK
  <2>2. Stopped'
    BY <1>2 DEF vars, emitVars, sinkVars, closeVars, pollVars, Inv, Stopped
  <2>3. Carried' /\ Latched' /\ LatchHolds' /\ Bounded' /\ CrashBoundary'
    BY <1>2
    DEF vars, emitVars, sinkVars, closeVars, pollVars, Inv, Carried, Latched, LatchHolds, Bounded,
        CrashBoundary
  <2> QED
    BY <2>1, <2>2, <2>3 DEF Inv
<1> QED
  BY <1>1, <1>2

\* The inductive invariant, for any capacity and any number of actors.
THEOREM InductiveInvariant == Spec => []Inv
  BY InitInv, InvStep, PTL DEF Spec

\* Type correctness; the queue never holds more than its capacity.
THEOREM TypeCorrect == Spec => []TypeOK
  BY InductiveInvariant, PTL DEF Inv

\* Nothing the sink accepted is left in the queue when the writer leaves.
THEOREM NoneStranded == Spec => []NothingStranded
<1>1. Inv => NothingStranded
  BY DEF Inv, Stopped, Left, NothingStranded
<1> QED
  BY <1>1, InductiveInvariant, PTL

\* No line of the file mixes the bytes of two process runs.
THEOREM LinesOfOneRun == Spec => []CrashBoundary
  BY InductiveInvariant, PTL DEF Inv

\* A health request that begins after a degraded answer is degraded.
THEOREM LatchNeverReleased == Spec => []LatchHolds
  BY InductiveInvariant, PTL DEF Inv

-----------------------------------------------------------------------------
(***************************************************************************)
(* What becomes of the events.  Ordered follows them through the places    *)
(* they pass, the queue, the writer's hand and the file: within a run and  *)
(* an invocation, what is further ahead has the smaller number.  It holds  *)
(* because a number is drawn and enqueued under one lock (Numbered).       *)
(* Complete says that an event leaves these places only into a counter;    *)
(* the write that a torn line swallows is covered by the failure that tore *)
(* the line (TornIsKnown).                                                 *)
(***************************************************************************)
IsOf(e, r, i) == e \in Event /\ e.run = r /\ e.inv = i
Precedes(e, f) ==
  e \in Event /\ f \in Event /\ e.run = f.run /\ e.inv = f.inv => e.no < f.no
Line(n) == Found(file[n])
InHand == up /\ writer = "emitting"

Ordered ==
  /\ \A m, n \in 1..Len(file) : m < n => Precedes(Line(m), Line(n))
  /\ up => \A m \in 1..Len(file), n \in 1..Len(queue) : Precedes(Line(m), queue[n])
  /\ up => \A m, n \in 1..Len(queue) : m < n => Precedes(queue[m], queue[n])
  /\ InHand => \A m \in 1..Len(file) : Precedes(Line(m), item)
  /\ InHand => \A n \in 1..Len(queue) : Precedes(item, queue[n])

\* The number of e was drawn, before the one a thread still holds.
Drawn(e) ==
  e \in Event =>
    /\ e.run <= run
    /\ e.run = run =>
         /\ e.no <= sequence[e.inv]
         /\ \A t \in Threads : InvocationOf[t] = e.inv /\ draft[t] # 0 => e.no < draft[t]
Held ==
  /\ \A t \in Threads : draft[t] # 0 => draft[t] = sequence[InvocationOf[t]]
  /\ \A t, u \in Threads :
       draft[t] # 0 /\ draft[u] # 0 /\ InvocationOf[t] = InvocationOf[u] => t = u
Numbered ==
  /\ \A n \in 1..Len(file) : Drawn(Line(n))
  /\ up => \A n \in 1..Len(queue) : Drawn(queue[n])
  /\ InHand => Drawn(item)

\* The event is in one of the places, or a thread still holds its number.
At(e) ==
  \/ \E n \in 1..Len(file) : Line(n) = e
  \/ writer = "emitting" /\ item = e
  \/ \E n \in 1..Len(queue) : queue[n] = e
Somewhere(i, no) ==
  \/ \E t \in Threads : InvocationOf[t] = i /\ draft[t] = no
  \/ \E e \in Event : IsOf(e, run, i) /\ e.no = no /\ At(e)
Complete ==
  up /\ alarms \cap {"sink", "dropped"} = {} =>
    \A i \in Invocations : \A no \in 1..sequence[i] : Somewhere(i, no)

Torn == file # <<>> /\ file[Len(file)].state = "torn"
TornIsKnown == up /\ Torn => "sink" \in alarms /\ deliveryFailed

\* Before the lifespan starts the sink nobody has closed it, or somebody did.
Untouched ==
  ~serving /\ (\A c \in Closers : closing[c] = "out" /\ verdict[c] = "none") =>
    writer = "unstarted" /\ flush = "pending"
Settled == Closed => writer \in {"exiting", "dead"}

Passage == Ordered /\ Held /\ Numbered /\ Complete /\ TornIsKnown /\ Untouched /\ Settled

-----------------------------------------------------------------------------
\* What a reader finds after a write: a torn line swallows it.
LEMMA WriteFound ==
  ASSUME TypeOK, NEW line \in Lines, Write(line)
  PROVE  /\ \A n \in 1..Len(file) : Line(n)' = Line(n)
         /\ \/ Torn /\ Len(file') = Len(file)
            \/ ~Torn /\ file' = Append(file, line) /\ Len(file') = Len(file) + 1
               /\ \A n \in 1..Len(file') : n = Len(file) + 1 => Line(n)' = Found(line)
         /\ line.state = "whole" => ~Torn'
<1>1. file \in Seq(Lines) /\ Len(file) \in Nat
  BY DEF TypeOK, Lines
<1>2. CASE Torn
  <2>1. /\ Len(file) \in 1..Len(file)
        /\ file' = [file EXCEPT ![Len(file)] = Continued(file[Len(file)], line)]
    BY <1>1, <1>2 DEF Torn, Write
  <2>2. /\ Len(file') = Len(file) /\ file'[Len(file)] = Continued(file[Len(file)], line)
        /\ \A n \in 1..Len(file) : n # Len(file) => file'[n] = file[n]
    BY <1>1, <2>1
  <2>3. Found(file'[Len(file)]) = Nothing /\ Found(file[Len(file)]) = Nothing
    BY <1>2, <2>2 DEF Found, Continued, Torn
  <2>4. line.state = "whole" => ~Torn'
    BY <2>2 DEF Torn, Continued
  <2> QED
    BY <1>2, <2>2, <2>3, <2>4 DEF Line
<1>3. CASE ~Torn
  <2>1. file' = Append(file, line)
    BY <1>3 DEF Torn, Write
  <2>2. /\ Len(file') = Len(file) + 1 /\ file'[Len(file) + 1] = line
        /\ \A n \in 1..Len(file) : file'[n] = file[n]
    BY <1>1, <2>1
  <2>3. line.state = "whole" => ~Torn'
    BY <2>2 DEF Torn
  <2> QED
    BY <1>3, <2>1, <2>2, <2>3 DEF Line
<1> QED
  BY <1>2, <1>3

LEMMA NothingIsNoEvent == Nothing \notin Event /\ Nothing # Sentinel
BY NothingAssumption

\* The steps that move no event from one place to another.
KeepsPlaces ==
  /\ UNCHANGED <<up, run, file, queue>>
  /\ InHand' <=> InHand
  /\ InHand => item' = item
LEMMA MovingSteps ==
  ASSUME Next, Untouched
  PROVE  \/ KeepsPlaces \/ Crash \/ Restart \/ Take \/ EmitBroken
         \/ \E t \in Threads : Enqueue(t)
         \/ \E synced \in BOOLEAN : EmitWhole(synced)
         \/ \E c \in Closers : PutSentinel(c)
<1> USE DEF emitVars, sinkVars, closeVars, pollVars, KeepsPlaces, InHand
<1>1. ASSUME StallTimeout \/ Settle \/ Exit \/ (\E f \in BOOLEAN : FinishDownstream(f))
      PROVE  KeepsPlaces
  <2>1. CASE StallTimeout
    BY <2>1 DEF StallTimeout
  <2>2. CASE Settle \/ Exit
    BY <2>2 DEF Settle, Exit
  <2>3. ASSUME NEW f \in BOOLEAN, FinishDownstream(f) PROVE KeepsPlaces
    BY <2>3 DEF FinishDownstream
  <2> QED
    BY <1>1, <2>1, <2>2, <2>3
<1>2. ASSUME Start PROVE KeepsPlaces
  BY <1>2 DEF Start, Untouched
<1>3. ASSUME NEW t \in Threads, Allocate(t) \/ Reject(t) PROVE KeepsPlaces
  BY <1>3 DEF Allocate, Reject
<1>4. ASSUME NEW c \in Closers,
             \/ CloseAgain(c) \/ StopAccepting(c) \/ CloseTimesOut(c) \/ CloseJoined(c)
             \/ \E d \in BOOLEAN : EnterClose(c, d)
      PROVE  KeepsPlaces
  <2>1. CASE StopAccepting(c)
    BY <2>1 DEF StopAccepting
  <2>2. CASE CloseAgain(c) \/ \E d \in BOOLEAN : EnterClose(c, d)
    BY <2>2 DEF CloseAgain, EnterClose
  <2>3. CASE CloseTimesOut(c)
    BY <2>3 DEF CloseTimesOut
  <2>4. CASE CloseJoined(c)
    BY <2>4 DEF CloseJoined
  <2> QED
    BY <1>4, <2>1, <2>2, <2>3, <2>4
<1>5. ASSUME NEW p \in Pollers, PollBegins(p) \/ PollStep(p) PROVE KeepsPlaces
  BY <1>5 DEF PollBegins, PollStep, PollLooks, PollLatches
<1> QED
  BY <1>1, <1>2, <1>3, <1>4, <1>5 DEF Next, Writer, Emission, CloseStep

\* The steps that draw a number or give one up.
LEMMA NumberSteps ==
  ASSUME Next
  PROVE  \/ UNCHANGED <<run, emitVars>> \/ Restart
         \/ \E t \in Threads : Allocate(t) \/ Enqueue(t) \/ Reject(t)
<1>1. ASSUME Start \/ Crash \/ StallTimeout \/ Writer PROVE UNCHANGED <<run, emitVars>>
  BY <1>1 DEF Start, Crash, StallTimeout, Writer, Take, EmitWhole, EmitBroken, Settle,
     FinishDownstream, Exit
<1>2. ASSUME NEW c \in Closers, CloseStep(c) \/ (\E d \in BOOLEAN : EnterClose(c, d))
      PROVE  UNCHANGED <<run, emitVars>>
  BY <1>2 DEF CloseStep, CloseAgain, StopAccepting, PutSentinel, CloseTimesOut, CloseJoined,
     EnterClose
<1>3. ASSUME NEW p \in Pollers, PollBegins(p) \/ PollStep(p) PROVE UNCHANGED <<run, emitVars>>
  BY <1>3 DEF PollBegins, PollStep, PollLooks, PollLatches
<1> QED
  BY <1>1, <1>2, <1>3 DEF Next, Emission

\* The process is up before a step that leaves it up.
LEMMA UpSteps == ASSUME Next, up', ~Restart PROVE up
BY DEF Next, Start, Crash, StallTimeout, Writer, Take, EmitWhole, EmitBroken, Settle,
   FinishDownstream, Exit, Emission, Allocate, Enqueue, Reject, CloseStep, CloseAgain,
   StopAccepting, PutSentinel, CloseTimesOut, CloseJoined, EnterClose, PollBegins, PollStep,
   PollLooks, PollLatches

\* Only the terminal section of the writer makes a flush succeed.
LEMMA FlushSteps ==
  ASSUME Next, flush # "succeeded", flush' = "succeeded"
  PROVE  \E failed \in BOOLEAN : FinishDownstream(failed)
<1> USE DEF sinkVars
<1>1. ~Start /\ ~Crash /\ ~Restart /\ ~StallTimeout /\ ~Take /\ ~EmitBroken /\ ~Settle /\ ~Exit
  BY DEF Start, Crash, Restart, StallTimeout, Take, EmitBroken, Settle, Exit
<1>2. \A synced \in BOOLEAN : ~EmitWhole(synced)
  BY DEF EmitWhole
<1>3. \A t \in Threads : ~Emission(t)
  BY DEF Emission, Allocate, Enqueue, Reject
<1>4. \A c \in Closers : ~CloseStep(c) /\ \A d \in BOOLEAN : ~EnterClose(c, d)
  BY DEF CloseStep, CloseAgain, StopAccepting, PutSentinel, CloseTimesOut, CloseJoined, EnterClose
<1>5. \A p \in Pollers : ~PollBegins(p) /\ ~PollStep(p)
  BY DEF PollBegins, PollStep, PollLooks, PollLatches
<1> QED
  BY <1>1, <1>2, <1>3, <1>4, <1>5 DEF Next, Writer

\* A counter stays what it is until the process starts again.
LEMMA AlarmsStay ==
  ASSUME Next
  PROVE  Restart \/ (alarms \subseteq alarms' /\ (deliveryFailed => deliveryFailed'))
<1> USE DEF Raise, sinkVars
<1>1. ASSUME Start \/ Crash \/ StallTimeout \/ Writer
      PROVE  alarms \subseteq alarms' /\ (deliveryFailed => deliveryFailed')
  <2>1. ASSUME Start \/ Crash \/ StallTimeout \/ Take \/ Settle \/ Exit
        PROVE  UNCHANGED <<alarms, deliveryFailed>>
    BY <2>1 DEF Start, Crash, StallTimeout, Take, Settle, Exit
  <2>2. ASSUME NEW synced \in BOOLEAN, EmitWhole(synced)
        PROVE  alarms \subseteq alarms' /\ (deliveryFailed => deliveryFailed')
    BY <2>2 DEF EmitWhole
  <2>3. ASSUME EmitBroken
        PROVE  alarms \subseteq alarms' /\ (deliveryFailed => deliveryFailed')
    BY <2>3 DEF EmitBroken
  <2>4. ASSUME NEW failed \in BOOLEAN, FinishDownstream(failed)
        PROVE  alarms \subseteq alarms' /\ (deliveryFailed => deliveryFailed')
    BY <2>4 DEF FinishDownstream
  <2> QED
    BY <1>1, <2>1, <2>2, <2>3, <2>4 DEF Writer
<1>2. ASSUME NEW c \in Closers, CloseStep(c) \/ (\E d \in BOOLEAN : EnterClose(c, d))
      PROVE  alarms \subseteq alarms' /\ (deliveryFailed => deliveryFailed')
  <2>1. ASSUME CloseAgain(c) \/ StopAccepting(c) \/ PutSentinel(c)
               \/ (\E d \in BOOLEAN : EnterClose(c, d))
        PROVE  UNCHANGED <<alarms, deliveryFailed>>
    BY <2>1 DEF CloseAgain, StopAccepting, PutSentinel, EnterClose
  <2>2. ASSUME CloseTimesOut(c) \/ CloseJoined(c)
        PROVE  alarms \subseteq alarms' /\ UNCHANGED deliveryFailed
    BY <2>2 DEF CloseTimesOut, CloseJoined
  <2> QED
    BY <1>2, <2>1, <2>2 DEF CloseStep
<1>3. ASSUME NEW p \in Pollers, PollBegins(p) \/ PollStep(p)
      PROVE  alarms \subseteq alarms' /\ (deliveryFailed => deliveryFailed')
  BY <1>3 DEF PollBegins, PollStep, PollLooks, PollLatches
<1>4. ASSUME NEW t \in Threads, Emission(t)
      PROVE  alarms \subseteq alarms' /\ (deliveryFailed => deliveryFailed')
  BY <1>4 DEF Emission, Allocate, Enqueue, Reject
<1> QED
  BY <1>1, <1>2, <1>3, <1>4 DEF Next

\* Where an event in the file, in the queue and in the writer's hand was before.
LEMMA Origins ==
  ASSUME TypeOK, Carried, Next, Untouched
  PROVE  /\ \A n \in 1..Len(file') :
              \/ n \in 1..Len(file) /\ Line(n)' = Line(n)
              \/ n = Len(file) + 1 /\ Line(n)' = Nothing
              \/ n = Len(file) + 1 /\ InHand /\ Line(n)' = item
         /\ up' => \A n \in 1..Len(queue') :
              \/ up /\ \E m \in 1..Len(queue) : queue'[n] = queue[m]
              \/ queue'[n] = Sentinel
              \/ \E t \in Threads : Enqueue(t) /\ accepting /\ queue'[n] = Draft(t)
         /\ InHand' => /\ UNCHANGED file
                       /\ \/ InHand /\ item' = item
                          \/ Take /\ item' = queue[1] /\ 1 \in 1..Len(queue)
<1> USE DEF InHand
<1> DEFINE FromFile ==
             \A n \in 1..Len(file') :
               \/ n \in 1..Len(file) /\ Line(n)' = Line(n)
               \/ n = Len(file) + 1 /\ Line(n)' = Nothing
               \/ n = Len(file) + 1 /\ InHand /\ Line(n)' = item
           FromQueue ==
             up' => \A n \in 1..Len(queue') :
               \/ up /\ \E m \in 1..Len(queue) : queue'[n] = queue[m]
               \/ queue'[n] = Sentinel
               \/ \E t \in Threads : Enqueue(t) /\ accepting /\ queue'[n] = Draft(t)
           FromHand ==
             InHand' => /\ UNCHANGED file
                        /\ \/ InHand /\ item' = item
                           \/ Take /\ item' = queue[1] /\ 1 \in 1..Len(queue)
<1>1. /\ queue \in Seq(Event \cup {Sentinel}) /\ Len(queue) \in Nat
      /\ file \in Seq(Lines) /\ Len(file) \in Nat
  BY DEF TypeOK, Lines
<1>2. ASSUME UNCHANGED file PROVE FromFile
  BY <1>2 DEF Line
<1>3. ASSUME UNCHANGED <<up, queue>> PROVE FromQueue
  BY <1>3
<1>4. ASSUME Write(TornLine) PROVE FromFile
  <2>1. TornLine \in Lines /\ Found(TornLine) = Nothing
    BY LinesOfTheWriter DEF TornLine, Found
  <2>2. /\ \A n \in 1..Len(file) : Line(n)' = Line(n)
        /\ \/ Len(file') = Len(file)
           \/ Len(file') = Len(file) + 1
              /\ \A n \in 1..Len(file') : n = Len(file) + 1 => Line(n)' = Nothing
    BY <1>4, <2>1, WriteFound
  <2> QED
    BY <1>1, <2>2
<1>5. ASSUME up, writer = "emitting", Write(WholeLine) PROVE FromFile
  <2>1. WholeLine \in Lines /\ Found(WholeLine) = item
    BY <1>5, LinesOfTheWriter DEF WholeLine, Found
  <2>2. /\ \A n \in 1..Len(file) : Line(n)' = Line(n)
        /\ \/ Len(file') = Len(file)
           \/ Len(file') = Len(file) + 1
              /\ \A n \in 1..Len(file') : n = Len(file) + 1 => Line(n)' = item
    BY <1>5, <2>1, WriteFound
  <2> QED
    BY <1>1, <1>5, <2>2
<1>6. CASE KeepsPlaces
  <2>1. FromHand
    BY <1>6 DEF KeepsPlaces
  <2> QED
    BY <1>2, <1>3, <1>6, <2>1 DEF KeepsPlaces
<1>7. CASE Crash
  <2>1. FromFile
    BY <1>2, <1>4, <1>5, <1>7 DEF Crash
  <2> QED
    BY <1>7, <2>1 DEF Crash
<1>8. CASE Restart
  <2>1. FromQueue /\ FromHand
    BY <1>8 DEF Restart
  <2> QED
    BY <1>2, <1>8, <2>1 DEF Restart
<1>9. CASE Take
  <2>1. queue # <<>> /\ queue' = Tail(queue) /\ item' = Head(queue) /\ up
    BY <1>9 DEF Take
  <2>2. 1 \in 1..Len(queue) /\ item' = queue[1]
    BY <1>1, <2>1
  <2>3. \A n \in 1..Len(queue') : n + 1 \in 1..Len(queue) /\ queue'[n] = queue[n + 1]
    BY <1>1, <2>1
  <2>4. FromQueue
    BY <2>1, <2>3
  <2> QED
    BY <1>2, <1>9, <2>2, <2>4 DEF Take
<1>10. CASE EmitBroken \/ \E synced \in BOOLEAN : EmitWhole(synced)
  <2>1. FromFile
    BY <1>2, <1>4, <1>5, <1>10 DEF EmitBroken, EmitWhole
  <2>2. FromQueue
    BY <1>3, <1>10 DEF EmitBroken, EmitWhole
  <2>3. writer' = "settling"
    BY <1>10 DEF EmitBroken, EmitWhole
  <2> QED
    BY <2>1, <2>2, <2>3
<1>11. ASSUME NEW t \in Threads, Enqueue(t) PROVE FromFile /\ FromQueue /\ FromHand
  <2>1. CASE accepting /\ Len(queue) < Capacity
    <3>1. queue' = Append(queue, Draft(t)) /\ up
      BY <1>11, <2>1 DEF Enqueue
    <3>2. \A n \in 1..Len(queue') :
            (n \in 1..Len(queue) /\ queue'[n] = queue[n]) \/ queue'[n] = Draft(t)
      BY <1>1, <3>1
    <3>3. FromQueue
      BY <1>11, <2>1, <3>1, <3>2
    <3> QED
      BY <1>2, <1>11, <3>3 DEF Enqueue
  <2>2. CASE ~(accepting /\ Len(queue) < Capacity)
    BY <1>2, <1>3, <1>11, <2>2 DEF Enqueue
  <2> QED
    BY <2>1, <2>2
<1>12. ASSUME NEW c \in Closers, PutSentinel(c) PROVE FromFile /\ FromQueue /\ FromHand
  <2>1. queue' = Append(queue, Sentinel) /\ up /\ UNCHANGED <<up, writer, item, file>>
    BY <1>12 DEF PutSentinel
  <2>2. \A n \in 1..Len(queue') :
          (n \in 1..Len(queue) /\ queue'[n] = queue[n]) \/ queue'[n] = Sentinel
    BY <1>1, <2>1
  <2>3. FromQueue
    BY <2>1, <2>2
  <2> QED
    BY <1>2, <2>1, <2>3
<1> QED
  BY <1>6, <1>7, <1>8, <1>9, <1>10, <1>11, <1>12, MovingSteps

-----------------------------------------------------------------------------
\* The lock of the emitter: one thread of an invocation at a time holds a
\* number, and it is the last that was drawn.
LEMMA HeldStep == ASSUME TypeOK, Held, Next PROVE Held'
<1> USE SinkAssumption
<1>1. CASE UNCHANGED <<run, emitVars>>
  BY <1>1 DEF emitVars, Held
<1>2. CASE Restart
  BY <1>2 DEF Restart, Held
<1>3. ASSUME NEW t \in Threads, Allocate(t) PROVE Held'
  <2>1. /\ InvocationOf[t] \in Invocations /\ sequence[InvocationOf[t]] \in 0..MaxEvents
        /\ draft' = [draft EXCEPT ![t] = sequence[InvocationOf[t]] + 1]
        /\ sequence' = [sequence EXCEPT ![InvocationOf[t]] = sequence[InvocationOf[t]] + 1]
        /\ \A u \in Threads : InvocationOf[u] = InvocationOf[t] => draft[u] = 0
    BY <1>3 DEF Allocate, EmitLockFree, TypeOK
  <2>2. ASSUME NEW u \in Threads, draft'[u] # 0 PROVE draft'[u] = sequence'[InvocationOf[u]]
    BY <2>1, <2>2 DEF TypeOK, Held
  <2>3. ASSUME NEW u \in Threads, NEW v \in Threads, draft'[u] # 0, draft'[v] # 0,
               InvocationOf[u] = InvocationOf[v]
        PROVE  u = v
    BY <2>1, <2>3 DEF TypeOK, Held
  <2> QED
    BY <2>2, <2>3 DEF Held
<1>4. ASSUME NEW t \in Threads, Enqueue(t) \/ Reject(t) PROVE Held'
  <2>1. UNCHANGED sequence /\ draft' = [draft EXCEPT ![t] = 0]
    BY <1>4 DEF Enqueue, Reject
  <2> QED
    BY <2>1 DEF TypeOK, Held
<1> QED
  BY <1>1, <1>2, <1>3, <1>4, NumberSteps

\* What was drawn before stays drawn, and what a thread drafts is drawn when it
\* gives its number up.
LEMMA DrawnStays ==
  ASSUME TypeOK, Held, Next, NEW e, Drawn(e) PROVE Drawn(e)'
<1> USE SinkAssumption
<1> SUFFICES ASSUME e \in Event PROVE Drawn(e)'
  BY DEF Drawn
<1>1. /\ e.run \in 1..MaxRuns /\ e.inv \in Invocations /\ e.no \in 1..MaxEvents
      /\ run \in 1..MaxRuns
  BY DEF Event, TypeOK
<1>2. CASE Restart
  <2>1. run' = run + 1
    BY <1>2 DEF Restart
  <2> QED
    BY <1>1, <2>1 DEF Drawn
<1>3. CASE UNCHANGED <<run, emitVars>>
  BY <1>3 DEF Drawn, emitVars
<1>4. ASSUME NEW t \in Threads, Allocate(t) PROVE Drawn(e)'
  <2>1. /\ InvocationOf[t] \in Invocations /\ sequence[InvocationOf[t]] \in 0..MaxEvents
        /\ draft' = [draft EXCEPT ![t] = sequence[InvocationOf[t]] + 1]
        /\ sequence' = [sequence EXCEPT ![InvocationOf[t]] = sequence[InvocationOf[t]] + 1]
        /\ run' = run
    BY <1>4 DEF Allocate, TypeOK
  <2>2. e.run = run => e.no <= sequence'[e.inv]
    BY <1>1, <2>1 DEF Drawn, TypeOK
  <2>3. ASSUME e.run = run, NEW u \in Threads, InvocationOf[u] = e.inv, draft'[u] # 0
        PROVE  e.no < draft'[u]
    <3>1. CASE u = t
      <4>1. draft'[t] = sequence[e.inv] + 1
        BY <2>1, <2>3, <3>1 DEF TypeOK
      <4>2. e.no <= sequence[e.inv] /\ sequence[e.inv] \in Nat
        BY <1>1, <2>3 DEF Drawn, TypeOK
      <4> QED
        BY <1>1, <3>1, <4>1, <4>2
    <3>2. CASE u # t
      BY <2>1, <2>3, <3>2 DEF Drawn, TypeOK
    <3> QED
      BY <3>1, <3>2
  <2> QED
    BY <2>1, <2>2, <2>3 DEF Drawn
<1>5. ASSUME NEW t \in Threads, Enqueue(t) \/ Reject(t) PROVE Drawn(e)'
  <2>1. UNCHANGED <<run, sequence>> /\ draft' = [draft EXCEPT ![t] = 0]
    BY <1>5 DEF Enqueue, Reject
  <2> QED
    BY <2>1 DEF Drawn, TypeOK
<1> QED
  BY <1>2, <1>3, <1>4, <1>5, NumberSteps

LEMMA DraftDrawn ==
  ASSUME TypeOK, Held, NEW t \in Threads, Enqueue(t), NEW e, e = Draft(t) PROVE Drawn(e)'
<1>1. /\ draft[t] # 0 /\ UNCHANGED <<run, sequence>> /\ draft' = [draft EXCEPT ![t] = 0]
  BY DEF Enqueue
<1>2. /\ e.run = run /\ e.inv = InvocationOf[t] /\ e.no = draft[t] /\ run \in 1..MaxRuns
      /\ InvocationOf[t] \in Invocations
  BY SinkAssumption DEF Draft, TypeOK
<1>3. e.no = sequence[e.inv] /\ sequence[e.inv] \in Nat
  BY <1>1, <1>2 DEF Held, TypeOK
<1>4. \A u \in Threads : InvocationOf[u] = e.inv => draft'[u] = 0
  BY <1>1, <1>2 DEF Held, TypeOK
<1> QED
  BY <1>1, <1>2, <1>3, <1>4, SinkAssumption DEF Drawn

\* An event that was drawn comes before the one a thread drafts.
LEMMA DrawnPrecedes ==
  ASSUME TypeOK, NEW t \in Threads, draft[t] # 0, NEW e, Drawn(e)
  PROVE  Precedes(e, Draft(t))
BY DEF Drawn, Precedes, Draft

LEMMA NumberedStep ==
  ASSUME TypeOK, Carried, Untouched, Held, Numbered, Next PROVE Numbered'
<1>1. \A e : Drawn(e) => Drawn(e)'
  BY DrawnStays
<1>2. Drawn(Nothing)' /\ Drawn(Sentinel)'
  BY NothingIsNoEvent, SentinelIsNoEvent DEF Drawn
<1>3. ASSUME NEW n \in 1..Len(file') PROVE Drawn(Line(n))'
  <2>1. PICK e : e = Line(n)'
    OBVIOUS
  <2>2. Drawn(e) \/ e = Nothing
    BY <1>3, <2>1, Origins DEF Numbered
  <2>3. Drawn(e)'
    BY <1>1, <1>2, <2>2
  <2> QED
    BY <2>1, <2>3 DEF Drawn
<1>4. ASSUME up', NEW n \in 1..Len(queue') PROVE Drawn(queue[n])'
  <2>1. PICK e : e = queue'[n]
    OBVIOUS
  <2>2. Drawn(e) \/ e = Sentinel \/ \E t \in Threads : Enqueue(t) /\ e = Draft(t)
    BY <1>4, <2>1, Origins DEF Numbered
  <2>3. Drawn(e)'
    BY <1>1, <1>2, <2>2, DraftDrawn
  <2> QED
    BY <2>1, <2>3 DEF Drawn
<1>5. ASSUME InHand' PROVE Drawn(item)'
  <2>1. PICK e : e = item'
    OBVIOUS
  <2>2. Drawn(e)
    <3>1. Take => up
      BY DEF Take
    <3> QED
      BY <1>5, <2>1, <3>1, Origins DEF Numbered
  <2>3. Drawn(e)'
    BY <1>1, <2>2
  <2> QED
    BY <2>1, <2>3 DEF Drawn
<1> QED
  BY <1>3, <1>4, <1>5 DEF Numbered

-----------------------------------------------------------------------------
\* The order within the queue, and of the writer's hand before the queue.
LEMMA QueueOrdered ==
  ASSUME TypeOK, Carried, Untouched, Held, Numbered, Ordered, Next
  PROVE  /\ up' => \A m, n \in 1..Len(queue') : m < n => Precedes(queue'[m], queue'[n])
         /\ InHand' => \A n \in 1..Len(queue') : Precedes(item', queue'[n])
<1> DEFINE Q == up' => \A m, n \in 1..Len(queue') : m < n => Precedes(queue'[m], queue'[n])
           H == InHand' => \A n \in 1..Len(queue') : Precedes(item', queue'[n])
<1>1. queue \in Seq(Event \cup {Sentinel}) /\ Len(queue) \in Nat
  BY DEF TypeOK
<1>2. \A e : Precedes(e, Sentinel) /\ Precedes(Sentinel, e)
  BY SentinelIsNoEvent DEF Precedes
<1>3. CASE UNCHANGED <<up, queue>> /\ (InHand' => InHand /\ item' = item)
  BY <1>3 DEF Ordered
<1>4. CASE Take
  <2>1. /\ up /\ item' = queue[1] /\ 1 \in 1..Len(queue) /\ queue' = Tail(queue)
    BY <1>1, <1>4 DEF Take
  <2>2. \A n \in 1..Len(queue') : n + 1 \in 2..Len(queue) /\ queue'[n] = queue[n + 1]
    BY <1>1, <2>1
  <2>3. \A m, n \in 1..Len(queue) : m < n => Precedes(queue[m], queue[n])
    BY <2>1 DEF Ordered
  <2>4. Q
    BY <2>2, <2>3
  <2>5. \A n \in 1..Len(queue') : Precedes(item', queue'[n])
    BY <2>1, <2>2, <2>3
  <2> QED
    BY <2>4, <2>5
<1>5. ASSUME up, UNCHANGED <<up, writer, item>>, NEW e, queue' = Append(queue, e),
             \A f : Drawn(f) \/ f = Sentinel => Precedes(f, e)
      PROVE  Q /\ H
  <2>1. \A n \in 1..Len(queue') :
          (n \in 1..Len(queue) /\ queue'[n] = queue[n]) \/ (n = Len(queue) + 1 /\ queue'[n] = e)
    BY <1>1, <1>5
  <2>2. ASSUME NEW m \in 1..Len(queue'), NEW n \in 1..Len(queue'), m < n
        PROVE  Precedes(queue'[m], queue'[n])
    <3>1. m \in 1..Len(queue) /\ queue'[m] = queue[m]
      BY <1>1, <2>1, <2>2
    <3>2. Precedes(queue[m], e)
      BY <1>5, <3>1 DEF Numbered
    <3> QED
      BY <1>5, <2>1, <2>2, <3>1, <3>2 DEF Ordered
  <2>3. ASSUME InHand', NEW n \in 1..Len(queue') PROVE Precedes(item', queue'[n])
    <3>1. InHand /\ item' = item
      BY <1>5, <2>3 DEF InHand
    <3>2. Precedes(item, e)
      BY <1>5, <3>1 DEF Numbered
    <3> QED
      BY <2>1, <3>1, <3>2 DEF Ordered
  <2> QED
    BY <2>2, <2>3
<1>6. ASSUME NEW t \in Threads, Enqueue(t) PROVE Q /\ H
  <2>1. CASE accepting /\ Len(queue) < Capacity
    <3>1. /\ up /\ draft[t] # 0 /\ queue' = Append(queue, Draft(t))
          /\ UNCHANGED <<up, writer, item>>
      BY <1>6, <2>1 DEF Enqueue
    <3>2. PICK e : e = Draft(t)
      OBVIOUS
    <3>3. \A f : Drawn(f) \/ f = Sentinel => Precedes(f, e)
      BY <1>2, <3>1, <3>2, DrawnPrecedes
    <3> QED
      BY <1>5, <3>1, <3>2, <3>3
  <2>2. CASE ~(accepting /\ Len(queue) < Capacity)
    BY <1>3, <1>6, <2>2 DEF Enqueue, InHand
  <2> QED
    BY <2>1, <2>2
<1>7. ASSUME NEW c \in Closers, PutSentinel(c) PROVE Q /\ H
  <2>1. up /\ queue' = Append(queue, Sentinel) /\ UNCHANGED <<up, writer, item>>
    BY <1>7 DEF PutSentinel
  <2> QED
    BY <1>2, <1>5, <2>1
<1>8. CASE Crash \/ Restart
  BY <1>8 DEF Crash, Restart, InHand
<1>9. CASE EmitBroken \/ \E synced \in BOOLEAN : EmitWhole(synced)
  BY <1>3, <1>9 DEF EmitBroken, EmitWhole, InHand
<1>10. CASE KeepsPlaces
  BY <1>3, <1>10 DEF KeepsPlaces
<1> QED
  BY <1>4, <1>6, <1>7, <1>8, <1>9, <1>10, MovingSteps

\* What is further ahead keeps the smaller number, whoever moves.
LEMMA OrderedStep ==
  ASSUME TypeOK, Carried, Untouched, Held, Numbered, Ordered, Next PROVE Ordered'
<1>1. \A e : /\ Precedes(e, Sentinel) /\ Precedes(Sentinel, e)
             /\ Precedes(e, Nothing) /\ Precedes(Nothing, e)
  BY SentinelIsNoEvent, NothingIsNoEvent DEF Precedes
<1>2. ASSUME NEW m \in 1..Len(file'), NEW n \in 1..Len(file'), m < n
      PROVE  Precedes(Line(m)', Line(n)')
  <2>1. m \in 1..Len(file) /\ Line(m)' = Line(m)
    <3>1. Len(file) \in Nat
      BY DEF TypeOK
    <3> QED
      BY <1>2, <3>1, Origins
  <2>2. CASE n \in 1..Len(file) /\ Line(n)' = Line(n)
    BY <1>2, <2>1, <2>2 DEF Ordered
  <2>3. CASE Line(n)' = Nothing
    BY <1>1, <2>3
  <2>4. CASE InHand /\ Line(n)' = item
    BY <2>1, <2>4 DEF Ordered
  <2> QED
    BY <2>2, <2>3, <2>4, Origins
<1>3. ASSUME up', NEW m \in 1..Len(file'), NEW n \in 1..Len(queue')
      PROVE  Precedes(Line(m)', queue'[n])
  <2>1. CASE Line(m)' = Nothing \/ queue'[n] = Sentinel
    BY <1>1, <2>1
  <2>2. \/ Line(m)' = Nothing
        \/ m \in 1..Len(file) /\ Line(m)' = Line(m)
        \/ InHand /\ Line(m)' = item
    BY Origins
  <2>3. CASE up /\ \E k \in 1..Len(queue) : queue'[n] = queue[k]
    BY <2>1, <2>2, <2>3 DEF Ordered
  <2>4. ASSUME NEW t \in Threads, Enqueue(t), queue'[n] = Draft(t)
        PROVE  Precedes(Line(m)', queue'[n])
    <3>1. draft[t] # 0
      BY <2>4 DEF Enqueue
    <3>2. PICK e : e = Line(m)'
      OBVIOUS
    <3>3. Drawn(e) \/ e = Nothing
      BY <2>2, <3>2 DEF Numbered
    <3> QED
      BY <1>1, <2>4, <3>1, <3>2, <3>3, DrawnPrecedes
  <2> QED
    BY <1>3, <2>1, <2>3, <2>4, Origins
<1>4. ASSUME InHand', NEW m \in 1..Len(file') PROVE Precedes(Line(m)', item')
  <2>1. m \in 1..Len(file) /\ Line(m)' = Line(m)
    BY <1>4, Origins DEF Line
  <2>2. Take => up
    BY DEF Take
  <2> QED
    BY <1>4, <2>1, <2>2, Origins DEF Ordered
<1> QED
  BY <1>2, <1>3, <1>4, QueueOrdered DEF Ordered

-----------------------------------------------------------------------------
\* Before the lifespan starts the sink it is untouched.
LEMMA UntouchedStep == ASSUME TypeOK, Untouched, Next PROVE Untouched'
<1> DEFINE Fresh == ~serving /\ \A c \in Closers : closing[c] = "out" /\ verdict[c] = "none"
<1> USE DEF emitVars, sinkVars, closeVars, pollVars
<1>1. CASE UNCHANGED <<serving, closing, verdict, writer, flush>>
  BY <1>1 DEF Untouched
<1>2. ASSUME ~Fresh' PROVE Untouched'
  BY <1>2 DEF Untouched
<1>3. CASE Start
  BY <1>2, <1>3 DEF Start
<1>4. CASE Restart
  BY <1>4 DEF Restart, Untouched
<1>5. CASE Writer
  BY <1>5 DEF Writer, Take, EmitWhole, EmitBroken, Settle, FinishDownstream, Exit, Untouched
<1>6. ASSUME NEW c \in Closers, CloseStep(c) \/ (\E d \in BOOLEAN : EnterClose(c, d))
      PROVE  Untouched'
  <2>1. closing'[c] # "out" \/ verdict'[c] # "none"
    BY <1>6 DEF TypeOK, CloseStep, CloseAgain, StopAccepting, PutSentinel, CloseTimesOut,
       CloseJoined, EnterClose, Return
  <2> QED
    BY <1>2, <2>1
<1>7. ASSUME NEW t \in Threads, Emission(t) PROVE Untouched'
  BY <1>1, <1>7 DEF Emission, Allocate, Enqueue, Reject
<1>8. ASSUME NEW p \in Pollers, PollBegins(p) \/ PollStep(p) PROVE Untouched'
  BY <1>1, <1>8 DEF PollBegins, PollStep, PollLooks, PollLatches
<1>9. CASE Crash \/ StallTimeout
  BY <1>1, <1>9 DEF Crash, StallTimeout
<1> QED
  BY <1>3, <1>4, <1>5, <1>6, <1>7, <1>8, <1>9 DEF Next

\* A sink is closed by the writer that leaves, or for one that has left.
LEMMA SettledStep == ASSUME TypeOK, Untouched, Settled, Next PROVE Settled'
<1> USE DEF emitVars, sinkVars, closeVars, pollVars, Closed
<1>1. CASE UNCHANGED <<writer, flush>>
  BY <1>1 DEF Settled
<1>2. CASE Start
  BY <1>2 DEF Start, Untouched, Settled
<1>3. CASE Restart
  BY <1>3 DEF Restart, Settled
<1>4. CASE Writer
  BY <1>4 DEF Writer, Take, EmitWhole, EmitBroken, Settle, FinishDownstream, Exit, Settled
<1>5. ASSUME NEW c \in Closers, CloseStep(c) \/ (\E d \in BOOLEAN : EnterClose(c, d))
      PROVE  Settled'
  <2>1. CASE StopAccepting(c)
    BY <2>1 DEF StopAccepting, Settled
  <2>2. CASE CloseJoined(c)
    BY <2>2 DEF CloseJoined, Settled
  <2> QED
    BY <1>1, <1>5, <2>1, <2>2 DEF CloseStep, CloseAgain, PutSentinel, CloseTimesOut, EnterClose
<1>6. ASSUME NEW t \in Threads, Emission(t) PROVE Settled'
  BY <1>1, <1>6 DEF Emission, Allocate, Enqueue, Reject
<1>7. ASSUME NEW p \in Pollers, PollBegins(p) \/ PollStep(p) PROVE Settled'
  BY <1>1, <1>7 DEF PollBegins, PollStep, PollLooks, PollLatches
<1>8. CASE Crash \/ StallTimeout
  BY <1>1, <1>8 DEF Crash, StallTimeout
<1> QED
  BY <1>2, <1>3, <1>4, <1>5, <1>6, <1>7, <1>8 DEF Next

\* A process tears a line only by a failure it counts, and starts over a file
\* that ends in a record.
LEMMA TornIsKnownStep ==
  ASSUME TypeOK, Carried, Untouched, TornIsKnown, Next PROVE TornIsKnown'
<1>1. CASE UNCHANGED <<up, file>> /\ ~Restart
  BY <1>1, AlarmsStay DEF TornIsKnown, Torn
<1>2. CASE Crash
  BY <1>2 DEF Crash, TornIsKnown
<1>3. CASE Restart
  BY <1>3 DEF Restart, TailValid, TornIsKnown, Torn
<1>4. CASE EmitBroken
  BY <1>4 DEF EmitBroken, Raise, TornIsKnown
<1>5. ASSUME NEW synced \in BOOLEAN, EmitWhole(synced) PROVE TornIsKnown'
  <2>1. WholeLine \in Lines /\ WholeLine.state = "whole" /\ Write(WholeLine)
    BY <1>5, LinesOfTheWriter DEF EmitWhole, WholeLine
  <2> QED
    BY <2>1, WriteFound DEF TornIsKnown
<1>6. CASE \/ KeepsPlaces \/ Take
           \/ (\E t \in Threads : Enqueue(t)) \/ \E c \in Closers : PutSentinel(c)
  <2>1. UNCHANGED <<up, file>>
    BY <1>6 DEF KeepsPlaces, Take, Enqueue, PutSentinel
  <2> QED
    BY <1>1, <1>3, <2>1
<1> QED
  BY <1>2, <1>3, <1>4, <1>5, <1>6, MovingSteps

-----------------------------------------------------------------------------
\* Unless a counter says so, an event in the file, in the writer's hand or in
\* the queue stays in one of these places.
LEMMA PlaceKept ==
  ASSUME TypeOK, Carried, Untouched, TornIsKnown, Next, up', ~Restart, "sink" \notin alarms',
         NEW e \in Event, At(e)
  PROVE  At(e)'
<1>1. /\ queue \in Seq(Event \cup {Sentinel}) /\ Len(queue) \in Nat
      /\ file \in Seq(Lines) /\ Len(file) \in Nat
  BY DEF TypeOK, Lines
<1>2. CASE KeepsPlaces
  BY <1>2 DEF KeepsPlaces, InHand, At, Line
<1>3. CASE Take
  <2>1. /\ queue' = Tail(queue) /\ queue # <<>> /\ writer = "idle" /\ UNCHANGED file
        /\ item' = queue[1] /\ (queue[1] # Sentinel => writer' = "emitting")
    BY <1>1, <1>3 DEF Take
  <2>2. Len(queue') = Len(queue) - 1 /\ \A n \in 1..Len(queue') : queue'[n] = queue[n + 1]
    BY <1>1, <2>1
  <2>3. CASE \E n \in 1..Len(file) : Line(n) = e
    BY <2>1, <2>3 DEF At, Line
  <2>4. ASSUME NEW n \in 1..Len(queue), queue[n] = e PROVE At(e)'
    <3>1. CASE n = 1
      BY <2>1, <2>4, <3>1, SentinelIsNoEvent DEF At
    <3>2. CASE n # 1
      <4>1. n - 1 \in 1..Len(queue') /\ queue'[n - 1] = e
        BY <1>1, <2>2, <2>4, <3>2
      <4> QED
        BY <4>1 DEF At
    <3> QED
      BY <3>1, <3>2
  <2> QED
    BY <2>1, <2>3, <2>4 DEF At
<1>4. ASSUME NEW f, queue' = Append(queue, f), UNCHANGED <<writer, item, file>> PROVE At(e)'
  <2>1. \A n \in 1..Len(queue) : n \in 1..Len(queue') /\ queue'[n] = queue[n]
    BY <1>1, <1>4
  <2> QED
    BY <1>4, <2>1 DEF At, Line
<1>5. ASSUME NEW t \in Threads, Enqueue(t) PROVE At(e)'
  <2>1. CASE accepting /\ Len(queue) < Capacity
    BY <1>4, <1>5, <2>1 DEF Enqueue
  <2>2. CASE ~(accepting /\ Len(queue) < Capacity)
    BY <1>5, <2>2 DEF Enqueue, At, Line
  <2> QED
    BY <2>1, <2>2
<1>6. ASSUME NEW c \in Closers, PutSentinel(c) PROVE At(e)'
  BY <1>4, <1>6 DEF PutSentinel
<1>7. ASSUME NEW synced \in BOOLEAN, EmitWhole(synced) PROVE At(e)'
  <2>1. /\ up /\ writer = "emitting" /\ WholeLine \in Lines /\ Found(WholeLine) = item
        /\ Write(WholeLine) /\ UNCHANGED <<queue, item>>
    BY <1>7, LinesOfTheWriter DEF EmitWhole, WholeLine, Found
  <2>2. ~Torn
    BY <2>1, AlarmsStay DEF TornIsKnown
  <2>3. /\ \A n \in 1..Len(file) : n \in 1..Len(file') /\ Line(n)' = Line(n)
        /\ Len(file) + 1 \in 1..Len(file')
        /\ \A n \in 1..Len(file') : n = Len(file) + 1 => Line(n)' = item
    BY <1>1, <2>1, <2>2, WriteFound
  <2>4. CASE e = item
    BY <2>3, <2>4 DEF At
  <2>5. CASE e # item
    BY <2>1, <2>3, <2>5 DEF At
  <2> QED
    BY <2>4, <2>5
<1>8. ~Crash /\ ~EmitBroken
  BY DEF Crash, EmitBroken, Raise
<1> QED
  BY <1>2, <1>3, <1>5, <1>6, <1>7, <1>8, MovingSteps

\* A number that was drawn is with its thread, or its event is in a place, or a
\* counter tells of the loss.
LEMMA CompleteStep ==
  ASSUME TypeOK, Carried, Untouched, Held, TornIsKnown, Complete, Next PROVE Complete'
<1> SUFFICES ASSUME up', alarms' \cap {"sink", "dropped"} = {},
                    NEW i \in Invocations, NEW no \in 1..sequence'[i]
             PROVE  Somewhere(i, no)'
  BY DEF Complete
<1> USE SinkAssumption
<1>1. CASE Restart
  BY <1>1 DEF Restart
<1>2. CASE ~Restart
  <2>1. up
    BY <1>2, UpSteps
  <2>2. \A k \in 1..sequence[i] : Somewhere(i, k)
    BY <1>2, <2>1, AlarmsStay DEF Complete
  <2>3. \A e \in Event : At(e) => At(e)'
    BY <1>2, PlaceKept
  <2>4. UNCHANGED run
    BY <1>2, NumberSteps DEF Allocate, Enqueue, Reject
  <2>5. CASE UNCHANGED emitVars
    BY <2>2, <2>3, <2>4, <2>5 DEF emitVars, Somewhere
  <2>6. ASSUME NEW t \in Threads, Allocate(t) PROVE Somewhere(i, no)'
    <3>1. /\ InvocationOf[t] \in Invocations /\ sequence[InvocationOf[t]] \in 0..MaxEvents
          /\ draft' = [draft EXCEPT ![t] = sequence[InvocationOf[t]] + 1]
          /\ sequence' = [sequence EXCEPT ![InvocationOf[t]] = sequence[InvocationOf[t]] + 1]
          /\ draft[t] = 0
      BY <2>6 DEF Allocate, EmitLockFree, TypeOK
    <3>2. CASE i = InvocationOf[t] /\ no = sequence[i] + 1
      <4>1. draft'[t] = no
        BY <3>1, <3>2 DEF TypeOK
      <4> QED
        BY <3>2, <4>1 DEF Somewhere
    <3>3. CASE ~(i = InvocationOf[t] /\ no = sequence[i] + 1)
      <4>1. no \in 1..sequence[i]
        BY <3>1, <3>3 DEF TypeOK
      <4>2. ASSUME NEW u \in Threads, InvocationOf[u] = i, draft[u] = no PROVE draft'[u] = no
        BY <3>1, <4>1, <4>2 DEF TypeOK
      <4> QED
        BY <2>2, <2>3, <2>4, <4>1, <4>2 DEF Somewhere
    <3> QED
      BY <3>2, <3>3
  <2>7. ASSUME NEW t \in Threads, Enqueue(t) PROVE Somewhere(i, no)'
    <3>1. /\ draft' = [draft EXCEPT ![t] = 0] /\ draft[t] # 0 /\ UNCHANGED sequence
          /\ queue' = Append(queue, Draft(t))
      BY <2>7 DEF Enqueue, Raise
    <3>2. no \in 1..sequence[i]
      BY <3>1
    <3>3. CASE InvocationOf[t] = i /\ draft[t] = no
      <4>1. PICK e : e = Draft(t)
        OBVIOUS
      <4>2. e \in Event /\ IsOf(e, run, i) /\ e.no = no
        BY <3>1, <3>3, <4>1, DraftIsEvent DEF Draft, IsOf
      <4>3. Len(queue') \in 1..Len(queue') /\ queue'[Len(queue')] = e
        BY <3>1, <4>1 DEF TypeOK
      <4>4. At(e)'
        BY <4>3 DEF At
      <4> QED
        BY <2>4, <4>2, <4>4 DEF Somewhere
    <3>4. CASE ~(InvocationOf[t] = i /\ draft[t] = no)
      <4>1. ASSUME NEW u \in Threads, InvocationOf[u] = i, draft[u] = no PROVE draft'[u] = no
        BY <3>1, <3>4, <4>1 DEF TypeOK
      <4> QED
        BY <2>2, <2>3, <2>4, <3>2, <4>1 DEF Somewhere
    <3> QED
      BY <3>3, <3>4
  <2>8. ASSUME NEW t \in Threads PROVE ~Reject(t)
    BY DEF Reject, Raise
  <2> QED
    BY <1>2, <2>5, <2>6, <2>7, <2>8, NumberSteps
<1> QED
  BY <1>1, <1>2

-----------------------------------------------------------------------------
LEMMA InitPassage == Init => Passage
<1> SUFFICES ASSUME Init PROVE Passage
  OBVIOUS
<1>1. Ordered /\ Held /\ Numbered
  BY SinkAssumption DEF Init, InHand, Ordered, Held, Numbered
<1>2. Complete
  BY DEF Init, Complete
<1>3. TornIsKnown /\ Untouched /\ Settled
  BY DEF Init, TornIsKnown, Torn, Untouched, Settled, Closed
<1> QED
  BY <1>1, <1>2, <1>3 DEF Passage

LEMMA PassageStep == Inv /\ Passage /\ [Next]_vars => Passage'
<1> SUFFICES ASSUME Inv, Passage, [Next]_vars PROVE Passage'
  OBVIOUS
<1>1. CASE Next
  BY <1>1, OrderedStep, HeldStep, NumberedStep, CompleteStep, TornIsKnownStep, UntouchedStep,
     SettledStep
  DEF Inv, Passage
<1>2. CASE UNCHANGED vars
  <2> USE <1>2 DEF vars, emitVars, sinkVars, closeVars, pollVars, Passage
  <2>1. Ordered'
    BY DEF Ordered, Line, InHand
  <2>2. Held' /\ Numbered'
    BY DEF Held, Numbered, Drawn, Line, InHand
  <2>3. Complete'
    BY DEF Complete, Somewhere, At, Line
  <2>4. TornIsKnown' /\ Untouched' /\ Settled'
    BY DEF TornIsKnown, Torn, Untouched, Settled, Closed
  <2> QED
    BY <2>1, <2>2, <2>3, <2>4
<1> QED
  BY <1>1, <1>2

\* Every event keeps its order, and a place or a counter, for good.
THEOREM PassageInvariant == Spec => [](Inv /\ Passage)
<1>1. Inv /\ Passage /\ [Next]_vars => Inv' /\ Passage'
  BY InvStep, PassageStep
<1> QED
  BY <1>1, InitInv, InitPassage, PTL DEF Spec

-----------------------------------------------------------------------------
\* The accepted events are the queue without the sentinel.
LEMMA AcceptedQueue ==
  ASSUME TypeOK, Stopped
  PROVE  /\ Accepted \in Seq(Event) /\ Len(Accepted) <= Len(queue)
         /\ \A n \in 1..Len(Accepted) : Accepted[n] = queue[n]
         /\ \A n \in 1..Len(queue) : queue[n] # Sentinel => n \in 1..Len(Accepted)
<1>1. queue \in Seq(Event \cup {Sentinel}) /\ Len(queue) \in Nat
  BY DEF TypeOK
<1>2. CASE queue # <<>> /\ queue[Len(queue)] = Sentinel
  <2>1. Accepted = SubSeq(queue, 1, Len(queue) - 1) /\ Len(queue) >= 1
    BY <1>1, <1>2 DEF Accepted
  <2>2. \A n \in 1..(Len(queue) - 1) : queue[n] \in Event
    BY <1>1 DEF Stopped
  <2>3. PICK k \in Int : k = Len(queue) - 1 /\ 1 \in Int /\ k >= 0
    BY <1>1, <2>1
  <2>4. \A n \in 1..k : queue[n] \in Event
    BY <2>2, <2>3
  <2>5. /\ SubSeq(queue, 1, k) \in Seq(Event)
        /\ Len(SubSeq(queue, 1, k)) = (IF 1 <= k THEN k - 1 + 1 ELSE 0)
        /\ \A n \in 1..k - 1 + 1 : SubSeq(queue, 1, k)[n] = queue[1 + n - 1]
    BY <2>3, <2>4, SubSeqProperties
  <2>6. Len(Accepted) = k /\ \A n \in 1..k : Accepted[n] = queue[n]
    BY <1>1, <2>1, <2>3, <2>5
  <2> QED
    BY <1>1, <1>2, <2>1, <2>3, <2>5, <2>6
<1>3. CASE ~(queue # <<>> /\ queue[Len(queue)] = Sentinel)
  <2>1. Accepted = queue
    BY <1>3 DEF Accepted
  <2>2. \A n \in 1..Len(queue) : queue[n] \in Event
    BY <1>1, <1>3 DEF Stopped
  <2>3. queue \in Seq(Event)
    BY <1>1, <2>2
  <2> QED
    BY <1>1, <2>1, <2>2, <2>3
<1> QED
  BY <1>2, <1>3

\* The trail, position by position: the file, the writer's hand, the queue.
Hand == IF InHand THEN 1 ELSE 0
LEMMA TrailParts ==
  ASSUME TypeOK, Carried, Stopped
  PROVE  /\ Len(Trail) \in Nat /\ Len(file) \in Nat
         /\ Len(Trail) = Len(file) + Hand + (IF up THEN Len(Accepted) ELSE 0)
         /\ \A n \in 1..Len(file) : Trail[n] = Line(n)
         /\ InHand => Trail[Len(file) + 1] = item
         /\ up => \A n \in 1..Len(Accepted) : Trail[Len(file) + Hand + n] = queue[n]
<1>1. /\ Records \in Seq(Event \cup {Nothing}) /\ Len(Records) = Len(file) /\ Len(file) \in Nat
      /\ \A n \in 1..Len(file) : Records[n] = Line(n)
  <2>1. file \in Seq(Lines) /\ Len(file) \in Nat
    BY DEF TypeOK, Lines
  <2>2. \A line \in Lines : Found(line) \in Event \cup {Nothing}
    BY DEF Found, Lines
  <2> QED
    BY <2>1, <2>2 DEF Records, Line
<1>2. Accepted \in Seq(Event) /\ \A n \in 1..Len(Accepted) : Accepted[n] = queue[n]
  BY AcceptedQueue
<1>3. /\ OnItsWay \in Seq(Event)
      /\ Len(OnItsWay) = Hand + (IF up THEN Len(Accepted) ELSE 0)
      /\ InHand => OnItsWay[1] = item
      /\ up => \A n \in 1..Len(Accepted) : OnItsWay[Hand + n] = queue[n]
  <2>1. CASE InHand
    <3>1. OnItsWay = <<item>> \o Accepted /\ item \in Event /\ Hand = 1 /\ up
      BY <2>1 DEF InHand, OnItsWay, Carried, Hand
    <3> QED
      BY <1>2, <3>1
  <2>2. CASE up /\ ~InHand
    <3>1. OnItsWay = <<>> \o Accepted /\ Hand = 0 /\ up
      BY <2>2 DEF InHand, OnItsWay, Hand
    <3> QED
      BY <1>2, <2>2, <3>1
  <2>3. CASE ~up
    <3>1. OnItsWay = <<>> /\ Hand = 0
      BY <2>3 DEF InHand, OnItsWay, Hand
    <3> QED
      BY <2>3, <3>1 DEF InHand
  <2> QED
    BY <2>1, <2>2, <2>3
<1>4. /\ Len(Trail) = Len(Records) + Len(OnItsWay)
      /\ \A n \in 1..Len(Records) : Trail[n] = Records[n]
      /\ \A n \in 1..Len(OnItsWay) : Trail[Len(Records) + n] = OnItsWay[n]
  <2> DEFINE S == Event \cup {Nothing}
  <2>1. Records \in Seq(S) /\ OnItsWay \in Seq(S) /\ Trail = Records \o OnItsWay
    BY <1>1, <1>3, SeqMonotonic DEF Trail
  <2> HIDE DEF S
  <2>2. /\ Len(Trail) = Len(Records) + Len(OnItsWay)
        /\ \A n \in 1..Len(Records) + Len(OnItsWay) :
             Trail[n] = IF n <= Len(Records) THEN Records[n] ELSE OnItsWay[n - Len(Records)]
    BY <2>1, ConcatProperties
  <2>3. Len(Records) \in Nat /\ Len(OnItsWay) \in Nat
    BY <2>1, LenProperties
  <2> QED
    BY <2>2, <2>3
<1>5. Hand \in {0, 1} /\ (InHand => Hand = 1) /\ Len(Accepted) \in Nat
  BY <1>2 DEF Hand
<1>6. InHand => Trail[Len(file) + 1] = item
  BY <1>1, <1>3, <1>4, <1>5 DEF InHand
<1>7. ASSUME up, NEW n \in 1..Len(Accepted) PROVE Trail[Len(file) + Hand + n] = queue[n]
  <2>1. Hand + n \in 1..Len(OnItsWay) /\ OnItsWay[Hand + n] = queue[n]
    BY <1>3, <1>5, <1>7
  <2>2. Trail[Len(file) + (Hand + n)] = queue[n]
    BY <1>1, <1>4, <2>1
  <2>3. Len(file) + Hand + n = Len(file) + (Hand + n)
    BY <1>1, <1>5
  <2> QED
    BY <2>2, <2>3
<1>8. /\ Len(Trail) \in Nat
      /\ Len(Trail) = Len(file) + Hand + (IF up THEN Len(Accepted) ELSE 0)
  <2>1. CASE up
    BY <1>1, <1>3, <1>4, <1>5, <2>1
  <2>2. CASE ~up
    BY <1>1, <1>3, <1>4, <1>5, <2>2
  <2> QED
    BY <2>1, <2>2
<1> QED
  BY <1>1, <1>4, <1>5, <1>6, <1>7, <1>8

\* Along the trail, each event comes before the later ones of its invocation.
LEMMA TrailOrdered ==
  ASSUME TypeOK, Carried, Stopped, Ordered
  PROVE  \A m, n \in 1..Len(Trail) : m < n => Precedes(Trail[m], Trail[n])
<1> DEFINE InFile(k) == k \in 1..Len(file) /\ Trail[k] = Line(k)
           OfHand(k) == InHand /\ k = Len(file) + 1 /\ Trail[k] = item
           InQueue(k) ==
             up /\ \E j \in 1..Len(queue) : k = Len(file) + Hand + j /\ Trail[k] = queue[j]
<1>1. Len(file) \in Nat /\ Hand \in {0, 1} /\ (InHand => Hand = 1) /\ (~InHand => Hand = 0)
  BY DEF TypeOK, Hand
<1>2. Len(Accepted) \in Nat /\ Len(queue) \in Nat /\ Len(Accepted) <= Len(queue)
  BY AcceptedQueue DEF TypeOK
<1>3. ASSUME NEW k \in 1..Len(Trail) PROVE InFile(k) \/ OfHand(k) \/ InQueue(k)
  <2>0. k \in Int /\ k >= 1
    BY <1>3, TrailParts
  <2>1. CASE k <= Len(file)
    <3>1. k \in 1..Len(file)
      BY <1>1, <2>1, <2>0
    <3> QED
      BY <3>1, TrailParts
  <2>2. CASE k > Len(file) /\ k <= Len(file) + Hand
    <3>1. InHand /\ k = Len(file) + 1
      BY <1>1, <2>0, <2>2
    <3> QED
      BY <3>1, TrailParts
  <2>3. CASE k > Len(file) + Hand
    <3>0. k - Len(file) - Hand \in Int
      BY <1>1, <2>0
    <3>1. PICK j \in Int : j = k - Len(file) - Hand
      BY <3>0
    <3>2. up /\ j \in 1..Len(Accepted)
      <4>1. CASE up
        BY <1>1, <1>2, <2>3, <3>1, <4>1, TrailParts
      <4>2. CASE ~up
        BY <1>1, <2>3, <4>2, TrailParts
      <4> QED
        BY <4>1, <4>2
    <3>3. k = Len(file) + Hand + j
      BY <1>1, <2>0, <3>1
    <3>4. Trail[k] = queue[j] /\ j \in 1..Len(queue)
      BY <1>2, <3>2, <3>3, TrailParts
    <3> QED
      BY <3>2, <3>3, <3>4
  <2> QED
    BY <1>1, <2>0, <2>1, <2>2, <2>3
<1>4. ASSUME NEW m \in 1..Len(Trail), NEW n \in 1..Len(Trail), m < n
      PROVE  Precedes(Trail[m], Trail[n])
  <2>1. CASE InFile(m) /\ InFile(n)
    BY <1>4, <2>1 DEF Ordered
  <2>2. CASE InFile(m) /\ OfHand(n)
    BY <2>2 DEF Ordered
  <2>3. CASE InFile(m) /\ InQueue(n)
    BY <2>3 DEF Ordered
  <2>4. CASE OfHand(m) /\ InQueue(n)
    BY <2>4 DEF Ordered
  <2>5. CASE InQueue(m) /\ InQueue(n)
    <3>1. PICK j \in 1..Len(queue) : m = Len(file) + Hand + j /\ Trail[m] = queue[j]
      BY <2>5
    <3>2. PICK k \in 1..Len(queue) : n = Len(file) + Hand + k /\ Trail[n] = queue[k]
      BY <2>5
    <3>3. j < k
      BY <1>1, <1>4, <3>1, <3>2
    <3> QED
      BY <2>5, <3>1, <3>2, <3>3 DEF Ordered
  <2>6. ~(OfHand(m) /\ InFile(n)) /\ ~(OfHand(m) /\ OfHand(n))
    BY <1>1, <1>4
  <2>7. ASSUME InQueue(m) PROVE ~InFile(n) /\ ~OfHand(n)
    BY <1>1, <1>4, <2>7
  <2> QED
    BY <1>3, <2>1, <2>2, <2>3, <2>4, <2>5, <2>6, <2>7
<1> QED
  BY <1>4

\* What is in one of the places is on the trail.
LEMMA PlaceOnTrail ==
  ASSUME TypeOK, Carried, Stopped, up, NEW e \in Event, At(e)
  PROVE  \E n \in 1..Len(Trail) : Trail[n] = e
<1>1. Len(file) \in Nat /\ Hand \in {0, 1} /\ (InHand => Hand = 1)
  BY DEF TypeOK, Hand
<1>2. Len(Accepted) \in Nat
  BY AcceptedQueue
<1>3. Len(Trail) = Len(file) + Hand + Len(Accepted)
  BY TrailParts
<1>4. ASSUME NEW n \in 1..Len(file), Line(n) = e PROVE n \in 1..Len(Trail) /\ Trail[n] = e
  BY <1>1, <1>2, <1>3, <1>4, TrailParts
<1>5. ASSUME writer = "emitting", item = e
      PROVE  Len(file) + 1 \in 1..Len(Trail) /\ Trail[Len(file) + 1] = e
  <2>1. InHand
    BY <1>5 DEF InHand
  <2> QED
    BY <1>1, <1>2, <1>3, <1>5, <2>1, TrailParts
<1>6. ASSUME NEW n \in 1..Len(queue), queue[n] = e
      PROVE  Len(file) + Hand + n \in 1..Len(Trail) /\ Trail[Len(file) + Hand + n] = e
  <2>1. n \in 1..Len(Accepted)
    BY <1>6, SentinelIsNoEvent, AcceptedQueue
  <2>2. Trail[Len(file) + Hand + n] = e
    BY <1>6, <2>1, TrailParts
  <2> QED
    BY <1>1, <1>2, <1>3, <2>1, <2>2
<1> QED
  BY <1>4, <1>5, <1>6 DEF At

LEMMA SomewhereIsAccounted ==
  ASSUME TypeOK, Carried, Stopped, up, NEW i \in Invocations, NEW no, Somewhere(i, no)
  PROVE  Accounted(i, no)
BY PlaceOnTrail DEF Somewhere, IsOf, Accounted, Mine

\* The events of an invocation are on the trail in the order of their numbers,
\* each at most once, whatever threads emit and whenever the process crashes.
THEOREM TrailKeepsSequence == Spec => []TrailInSequence
<1>1. ASSUME Inv, Passage PROVE TrailInSequence
  <2>1. ASSUME NEW i \in Invocations, NEW m \in Mine(i), NEW n \in Mine(i), m < n
        PROVE  Trail[m].no < Trail[n].no
    <3>1. Precedes(Trail[m], Trail[n])
      BY <1>1, <2>1, TrailOrdered DEF Inv, Passage, Mine
    <3> QED
      BY <2>1, <3>1 DEF Precedes, Mine
  <2> QED
    BY <2>1 DEF TrailInSequence
<1> QED
  BY <1>1, PassageInvariant, PTL

\* While no counter is raised, no event is lost.
THEOREM LossIsCounted == Spec => []NoSilentLoss
<1>1. ASSUME Inv, Passage PROVE NoSilentLoss
  <2>1. ASSUME up, alarms = {}, NEW i \in Invocations, NEW no \in 1..sequence[i]
        PROVE  Accounted(i, no)
    <3>1. Somewhere(i, no)
      BY <1>1, <2>1 DEF Passage, Complete
    <3> QED
      BY <1>1, <2>1, <3>1, SomewhereIsAccounted DEF Inv
  <2> QED
    BY <2>1 DEF NoSilentLoss
<1> QED
  BY <1>1, PassageInvariant, PTL

\* A flush that succeeded speaks the truth: nothing is on its way any more, and
\* every number drawn is accounted for.
THEOREM FlushIsHonest == Spec => DrainedMeansDurable
<1> DEFINE Honest ==
      flush # "succeeded" /\ flush' = "succeeded" =>
        /\ OnItsWay = <<>>
        /\ "sink" \notin alarms =>
             \A i \in Invocations : \A no \in 1..sequence[i] : Accounted(i, no)
<1>1. ASSUME Inv, Passage, [Next]_vars PROVE [Honest]_vars
  <2> SUFFICES ASSUME flush # "succeeded", flush' = "succeeded"
               PROVE  /\ OnItsWay = <<>>
                      /\ "sink" \notin alarms =>
                           \A i \in Invocations : \A no \in 1..sequence[i] : Accounted(i, no)
    OBVIOUS
  <2>1. PICK failed \in BOOLEAN : FinishDownstream(failed)
    BY <1>1, FlushSteps DEF vars, sinkVars
  <2>2. /\ up /\ writer = "finishing" /\ "dropped" \notin alarms
    BY <2>1 DEF FinishDownstream
  <2>3. queue = <<>>
    BY <1>1, <2>2 DEF Inv, Stopped, Left
  <2>4. OnItsWay = <<>>
    BY <2>2, <2>3 DEF OnItsWay, Accepted
  <2>5. ASSUME "sink" \notin alarms, NEW i \in Invocations, NEW no \in 1..sequence[i]
        PROVE  Accounted(i, no)
    <3>1. Somewhere(i, no)
      BY <1>1, <2>2, <2>5 DEF Passage, Complete
    <3> QED
      BY <1>1, <2>2, <3>1, SomewhereIsAccounted DEF Inv
  <2> QED
    BY <2>4, <2>5
<1> QED
  BY <1>1, PassageInvariant, PTL DEF Spec, DrainedMeansDurable

-----------------------------------------------------------------------------
(***************************************************************************)
(* The threads implement the log.  Each step that moves an event is a step *)
(* of AuditLog, each other one changes nothing a user of the log can see.  *)
(***************************************************************************)
Lossy == deliveryFailed \/ "dropped" \in alarms
Quiet ==
  /\ UNCHANGED <<OnItsWay, file, deliveryFailed, flush>>
  /\ "dropped" \in alarms' <=> "dropped" \in alarms

LEMMA QuietStutters == Quiet => UNCHANGED Contract!vars
<1> SUFFICES ASSUME Quiet PROVE UNCHANGED Contract!vars
  OBVIOUS
<1>1. UNCHANGED Records
  BY DEF Quiet, Records, Line
<1> QED
  BY <1>1 DEF Quiet, Contract!vars

\* What a write adds to the records: a torn line swallows it.
LEMMA WriteRecords ==
  ASSUME TypeOK, NEW line \in Lines, Write(line)
  PROVE  \/ Torn /\ Records' = Records
         \/ ~Torn /\ Records' = Append(Records, Found(line))
<1>1. Len(file) \in Nat /\ Len(Records) = Len(file)
  BY DEF TypeOK, Records
<1>2. /\ \A n \in 1..Len(file) : Line(n)' = Line(n)
      /\ \/ Torn /\ Len(file') = Len(file)
         \/ ~Torn /\ Len(file') = Len(file) + 1
            /\ \A n \in 1..Len(file') : n = Len(file) + 1 => Line(n)' = Found(line)
  BY WriteFound
<1>3. Records = [n \in 1..Len(file) |-> Line(n)] /\ Records' = [n \in 1..Len(file') |-> Line(n)']
  BY DEF Records, Line
<1>4. CASE Torn /\ Len(file') = Len(file)
  BY <1>2, <1>3, <1>4
<1>5. CASE ~Torn /\ Len(file') = Len(file) + 1
  <2>1. Append(Records, Found(line)) =
          [n \in 1..Len(file) + 1 |-> IF n = Len(file) + 1 THEN Found(line) ELSE Records[n]]
    BY <1>1, <1>3
  <2>2. ASSUME NEW n \in 1..Len(file) + 1
        PROVE  Line(n)' = IF n = Len(file) + 1 THEN Found(line) ELSE Records[n]
    <3>1. CASE n = Len(file) + 1
      BY <1>2, <1>5, <3>1
    <3>2. CASE n # Len(file) + 1
      <4>1. n \in 1..Len(file)
        BY <1>1, <3>2
      <4>2. Line(n)' = Line(n) /\ Records[n] = Line(n)
        BY <1>2, <1>3, <4>1
      <4> QED
        BY <3>2, <4>2
    <3> QED
      BY <3>1, <3>2
  <2> QED
    BY <1>1, <1>3, <1>5, <2>1, <2>2
<1> QED
  BY <1>2, <1>4, <1>5

\* What is on its way, as the queue and the hand of the writer have it.
LEMMA OnItsWayIs ==
  /\ ~up => OnItsWay = <<>>
  /\ InHand => OnItsWay = <<item>> \o Accepted
  /\ up /\ ~InHand => OnItsWay = <<>> \o Accepted
BY DEF OnItsWay, InHand

LEMMA OnItsWayStays ==
  ASSUME KeepsPlaces PROVE UNCHANGED <<OnItsWay, file>>
BY DEF KeepsPlaces, OnItsWay, Accepted, InHand

\* The queue without its sentinel, after each operation on the queue.
Trim(q) == IF q # <<>> /\ q[Len(q)] = Sentinel THEN SubSeq(q, 1, Len(q) - 1) ELSE q

LEMMA TrimTail ==
  ASSUME NEW q \in Seq(Event \cup {Sentinel}), q # <<>>, q[1] # Sentinel,
         \A n \in 1..Len(q) : q[n] = Sentinel => n = Len(q)
  PROVE  Trim(q) \in Seq(Event) /\ Trim(Tail(q)) \in Seq(Event)
         /\ Trim(q) = <<q[1]>> \o Trim(Tail(q))
<1> DEFINE t == Tail(q)
<1>1. /\ t \in Seq(Event \cup {Sentinel}) /\ Len(t) = Len(q) - 1 /\ Len(q) \in Nat \ {0}
      /\ \A n \in 1..Len(t) : t[n] = q[n + 1]
  OBVIOUS
<1> HIDE DEF t
<1>2. q[1] \in Event
  <2>1. Len(q) >= 1
    BY <1>1
  <2>2. 1 \in 1..Len(q)
    BY <1>1, <2>1
  <2> QED
    BY <2>2, ElementOfSeq
<1>3. CASE q[Len(q)] = Sentinel
  <2>1. PICK k \in Int : k = Len(q) - 1 /\ 1 \in Int /\ k >= 1 /\ k - 1 \in Int
    BY <1>1, <1>3
  <2>2. t # <<>> /\ t[Len(t)] = Sentinel /\ Len(t) = k
    BY <1>1, <1>3, <2>1
  <2>3. Trim(q) = SubSeq(q, 1, k) /\ Trim(t) = SubSeq(t, 1, k - 1)
    BY <1>1, <1>3, <2>1, <2>2 DEF Trim
  <2>4. (\A n \in 1..k : q[n] \in Event) /\ (\A n \in 1..k - 1 : t[n] \in Event)
    BY <1>1, <2>1, <2>2
  <2>5. /\ SubSeq(q, 1, k) \in Seq(Event)
        /\ Len(SubSeq(q, 1, k)) = (IF 1 <= k THEN k - 1 + 1 ELSE 0)
        /\ \A n \in 1..k - 1 + 1 : SubSeq(q, 1, k)[n] = q[1 + n - 1]
    BY <2>1, <2>4, SubSeqProperties
  <2>6. /\ SubSeq(t, 1, k - 1) \in Seq(Event)
        /\ Len(SubSeq(t, 1, k - 1)) = (IF 1 <= k - 1 THEN (k - 1) - 1 + 1 ELSE 0)
        /\ \A n \in 1..(k - 1) - 1 + 1 : SubSeq(t, 1, k - 1)[n] = t[1 + n - 1]
    BY <2>1, <2>4, SubSeqProperties
  <2>7. Len(Trim(q)) = k /\ \A n \in 1..k : Trim(q)[n] = q[n]
    BY <2>1, <2>3, <2>5
  <2>8. Len(Trim(t)) = k - 1 /\ \A n \in 1..k - 1 : Trim(t)[n] = q[n + 1]
    BY <1>1, <2>1, <2>2, <2>3, <2>6
  <2> DEFINE s == <<q[1]>> \o Trim(t)
  <2>9. /\ s \in Seq(Event) /\ Len(s) = k
        /\ \A n \in 1..k : s[n] = IF n = 1 THEN q[1] ELSE Trim(t)[n - 1]
    BY <1>2, <2>1, <2>3, <2>6, <2>8
  <2> HIDE DEF s
  <2>10. \A n \in 1..k : Trim(q)[n] = s[n]
    BY <2>1, <2>7, <2>8, <2>9
  <2>11. Trim(q) = s
    BY <2>3, <2>5, <2>7, <2>9, <2>10, SeqEqual
  <2> QED
    BY <2>3, <2>5, <2>6, <2>11 DEF s, t
<1>4. CASE q[Len(q)] # Sentinel
  <2>1. \A n \in 1..Len(q) : q[n] \in Event
    BY <1>4
  <2>2. ~(t # <<>> /\ t[Len(t)] = Sentinel)
    BY <1>1, <1>4
  <2>3. Trim(q) = q /\ Trim(t) = t /\ q \in Seq(Event) /\ t \in Seq(Event)
    BY <1>1, <1>4, <2>1, <2>2 DEF Trim
  <2>4. q = <<q[1]>> \o t
    BY <1>1, <2>3, SeqEqual
  <2> QED
    BY <2>3, <2>4 DEF t
<1> QED
  BY <1>3, <1>4

LEMMA TrimAppend ==
  ASSUME NEW q \in Seq(Event \cup {Sentinel}), \A n \in 1..Len(q) : q[n] # Sentinel
  PROVE  /\ q \in Seq(Event) /\ Trim(q) = q /\ Trim(Append(q, Sentinel)) = q
         /\ \A e \in Event : Trim(Append(q, e)) = Append(q, e)
<1>1. q \in Seq(Event) /\ Len(q) \in Nat
  OBVIOUS
<1>2. Trim(q) = q
  BY <1>1 DEF Trim
<1>3. Trim(Append(q, Sentinel)) = q
  <2> DEFINE a == Append(q, Sentinel)
  <2>1. /\ a # <<>> /\ Len(a) = Len(q) + 1 /\ a[Len(a)] = Sentinel
        /\ \A n \in 1..Len(q) : a[n] = q[n]
    OBVIOUS
  <2> HIDE DEF a
  <2>2. PICK k \in Int : k = Len(q) /\ 1 \in Int /\ k >= 0
    BY <1>1
  <2>3. Trim(a) = SubSeq(a, 1, k)
    BY <2>1, <2>2 DEF Trim
  <2>4. \A n \in 1..k : a[n] \in Event
    BY <1>1, <2>1, <2>2
  <2>5. /\ SubSeq(a, 1, k) \in Seq(Event)
        /\ Len(SubSeq(a, 1, k)) = (IF 1 <= k THEN k - 1 + 1 ELSE 0)
        /\ \A n \in 1..k - 1 + 1 : SubSeq(a, 1, k)[n] = a[1 + n - 1]
    BY <2>1, <2>2, <2>4, SubSeqProperties
  <2>6. Len(SubSeq(a, 1, k)) = Len(q) /\ \A n \in 1..Len(q) : SubSeq(a, 1, k)[n] = q[n]
    BY <2>1, <2>2, <2>5
  <2>7. SubSeq(a, 1, k) = q
    BY <1>1, <2>5, <2>6, SeqEqual
  <2> QED
    BY <2>3, <2>7 DEF a
<1>4. ASSUME NEW e \in Event PROVE Trim(Append(q, e)) = Append(q, e)
  <2>1. Len(Append(q, e)) = Len(q) + 1 /\ Append(q, e)[Len(q) + 1] = e
    BY <1>1
  <2>2. Append(q, e)[Len(Append(q, e))] # Sentinel
    BY <2>1, SentinelIsNoEvent
  <2> QED
    BY <2>2 DEF Trim
<1> QED
  BY <1>1, <1>2, <1>3, <1>4

\* Taking the head of the queue, the sentinel too, moves nothing.
LEMMA TakeRefines == ASSUME TypeOK, Stopped, Take PROVE UNCHANGED Contract!vars
<1>1. /\ queue \in Seq(Event \cup {Sentinel}) /\ queue # <<>> /\ queue' = Tail(queue)
      /\ up /\ up' /\ ~InHand /\ UNCHANGED <<file, deliveryFailed, flush, alarms>>
      /\ item' = queue[1] /\ writer' = IF queue[1] = Sentinel THEN "finishing" ELSE "emitting"
  BY DEF Take, TypeOK, InHand
<1>2. Accepted = Trim(queue) /\ Accepted' = Trim(Tail(queue))
  BY <1>1 DEF Accepted, Trim
<1>3. OnItsWay = Accepted /\ Accepted \in Seq(Event)
  BY <1>1, OnItsWayIs, AcceptedQueue
<1>4. CASE queue[1] = Sentinel
  <2>0. Len(queue) \in Nat \ {0}
    BY <1>1, EmptySeq
  <2>1. Len(queue) = 1
    <3>1. 1 \in 1..Len(queue)
      BY <2>0
    <3> QED
      BY <1>4, <3>1 DEF Stopped
  <2>2. Accepted = <<>> /\ queue' = <<>>
    BY <1>1, <1>4, <2>1 DEF Accepted
  <2>3. OnItsWay' = <<>>
    BY <1>1, <1>4, <2>2 DEF OnItsWay, Accepted
  <2> QED
    BY <1>1, <1>3, <2>2, <2>3, QuietStutters DEF Quiet
<1>5. CASE queue[1] # Sentinel
  <2>1. \A n \in 1..Len(queue) : queue[n] = Sentinel => n = Len(queue)
    BY DEF Stopped
  <2>2. Accepted = <<queue[1]>> \o Trim(Tail(queue))
    BY <1>1, <1>2, <1>5, <2>1, TrimTail
  <2>3. OnItsWay' = <<queue[1]>> \o Accepted'
    BY <1>1, <1>5 DEF OnItsWay
  <2> QED
    BY <1>1, <1>2, <1>3, <2>2, <2>3, QuietStutters DEF Quiet
<1> QED
  BY <1>4, <1>5

\* An accepted event goes to the end of what is on its way; the sentinel is not
\* part of it.
LEMMA AppendMoves ==
  ASSUME TypeOK, Carried, up, UNCHANGED <<up, writer, item>>, NEW e \in Event \cup {Sentinel},
         \A n \in 1..Len(queue) : queue[n] # Sentinel, queue' = Append(queue, e)
  PROVE  OnItsWay' = IF e = Sentinel THEN OnItsWay ELSE Append(OnItsWay, e)
<1>1. queue \in Seq(Event \cup {Sentinel})
  BY DEF TypeOK
<1>2. /\ queue \in Seq(Event) /\ Accepted = queue
      /\ Accepted' = IF e = Sentinel THEN queue ELSE Append(queue, e)
  <2>1. Accepted = Trim(queue) /\ Accepted' = Trim(Append(queue, e))
    BY DEF Accepted, Trim
  <2> QED
    BY <1>1, <2>1, TrimAppend
<1>3. CASE InHand
  <2>1. OnItsWay = <<item>> \o queue /\ OnItsWay' = <<item>> \o Accepted' /\ item \in Event
    BY <1>2, <1>3 DEF OnItsWay, InHand, Carried
  <2>2. CASE e # Sentinel
    <3>1. e \in Event
      BY <2>2
    <3>2. <<item>> \o Append(queue, e) = Append(<<item>> \o queue, e)
      BY <1>2, <2>1, <3>1
    <3> QED
      BY <1>2, <2>1, <2>2, <3>2
  <2> QED
    BY <1>2, <2>1, <2>2
<1>4. CASE ~InHand
  <2>1. OnItsWay = <<>> \o queue /\ OnItsWay' = <<>> \o Accepted'
    BY <1>2, <1>4 DEF OnItsWay, InHand
  <2> QED
    BY <1>2, <2>1
<1> QED
  BY <1>3, <1>4

LEMMA EnqueueRefines ==
  ASSUME TypeOK, Carried, Stopped, Settled, NEW t \in Threads, Enqueue(t)
  PROVE  Contract!Next
<1>1. up /\ UNCHANGED <<up, writer, item, file, deliveryFailed, flush>>
  BY DEF Enqueue
<1>2. UNCHANGED Records
  BY <1>1 DEF Records
<1>3. CASE accepting /\ Len(queue) < Capacity
  <2>1. queue' = Append(queue, Draft(t)) /\ UNCHANGED alarms /\ Draft(t) \in Event
    BY <1>3, DraftIsEvent DEF Enqueue
  <2>2. ~sentinelIn
    BY <1>3 DEF Stopped
  <2>3. flush = "pending" /\ \A n \in 1..Len(queue) : queue[n] # Sentinel
    BY <2>2 DEF Stopped, Settled, Closed, Left
  <2>4. OnItsWay' = Append(OnItsWay, Draft(t))
    BY <1>1, <2>1, <2>3, SentinelIsNoEvent, AppendMoves
  <2>5. Contract!Accept(Draft(t))
    BY <1>1, <1>2, <2>1, <2>3, <2>4 DEF Contract!Accept
  <2> QED
    BY <2>1, <2>5 DEF Contract!Next
<1>4. CASE ~(accepting /\ Len(queue) < Capacity)
  <2>1. UNCHANGED queue /\ "dropped" \in alarms'
    BY <1>4 DEF Enqueue, Raise
  <2>2. UNCHANGED OnItsWay
    BY <1>1, <2>1 DEF OnItsWay, Accepted
  <2>3. Contract!Refuse
    BY <1>1, <1>2, <2>1, <2>2 DEF Contract!Refuse
  <2> QED
    BY <2>3 DEF Contract!Next
<1> QED
  BY <1>3, <1>4

LEMMA PutSentinelRefines ==
  ASSUME TypeOK, Carried, Stopped, NEW c \in Closers, PutSentinel(c)
  PROVE  UNCHANGED Contract!vars
<1>1. /\ up /\ queue' = Append(queue, Sentinel) /\ closing[c] = "putting"
      /\ UNCHANGED <<up, writer, item, file, deliveryFailed, flush, alarms>>
  BY DEF PutSentinel
<1>2. \A n \in 1..Len(queue) : queue[n] # Sentinel
  BY <1>1 DEF Stopped
<1>3. UNCHANGED OnItsWay
  BY <1>1, <1>2, AppendMoves
<1> QED
  BY <1>1, <1>3, QuietStutters DEF Quiet

-----------------------------------------------------------------------------
\* The event in the writer's hand is the first on its way, and the write that
\* lets it go stores or loses it.
LEMMA HandFirst ==
  ASSUME TypeOK, Carried, Stopped, InHand
  PROVE  /\ OnItsWay # <<>> /\ Head(OnItsWay) = item /\ Tail(OnItsWay) = Accepted
         /\ Accepted \in Seq(Event)
<1>1. OnItsWay = <<item>> \o Accepted /\ item \in Event /\ Accepted \in Seq(Event)
  BY OnItsWayIs, AcceptedQueue DEF InHand, Carried
<1> QED
  BY <1>1

LEMMA WriteRefines ==
  ASSUME TypeOK, Carried, Stopped, TornIsKnown,
         EmitBroken \/ \E synced \in BOOLEAN : EmitWhole(synced)
  PROVE  Contract!Next
<1>1. /\ InHand /\ up /\ up' /\ writer' = "settling" /\ UNCHANGED <<queue, flush>>
      /\ deliveryFailed' \in BOOLEAN
      /\ Lossy => Lossy'
  BY DEF EmitBroken, EmitWhole, InHand, Lossy, Raise, TypeOK
<1>2. OnItsWay' = Accepted /\ Accepted \in Seq(Event)
  <2>1. Accepted' = Accepted
    BY <1>1 DEF Accepted
  <2>2. OnItsWay' = <<>> \o Accepted'
    BY <1>1 DEF OnItsWay
  <2> QED
    BY <1>1, <2>1, <2>2, HandFirst
<1>3. OnItsWay # <<>> /\ OnItsWay' = Tail(OnItsWay) /\ Head(OnItsWay) = item
  BY <1>1, <1>2, HandFirst
<1>4. ASSUME Lossy', Records' \in {Records, Append(Records, Nothing)} PROVE Contract!Next
  <2>1. Contract!Lose
    BY <1>1, <1>3, <1>4 DEF Contract!Lose, Lossy
  <2> QED
    BY <2>1 DEF Contract!Next
<1>5. CASE EmitBroken
  <2>1. Records' \in {Records, Append(Records, Nothing)}
    <3>1. CASE UNCHANGED file
      BY <3>1 DEF Records
    <3>2. CASE Write(TornLine)
      <4>1. TornLine \in Lines /\ Found(TornLine) = Nothing
        BY LinesOfTheWriter DEF TornLine, Found
      <4> QED
        BY <3>2, <4>1, WriteRecords
    <3> QED
      BY <1>5, <3>1, <3>2 DEF EmitBroken
  <2>2. Lossy'
    BY <1>5 DEF EmitBroken, Lossy
  <2> QED
    BY <1>4, <2>1, <2>2
<1>6. ASSUME NEW synced \in BOOLEAN, EmitWhole(synced) PROVE Contract!Next
  <2>1. WholeLine \in Lines /\ Found(WholeLine) = item /\ Write(WholeLine)
    BY <1>1, <1>6, LinesOfTheWriter DEF EmitWhole, InHand, WholeLine, Found
  <2>2. CASE Torn
    <3>1. Lossy' /\ Records' = Records
      BY <1>1, <2>1, <2>2, WriteRecords DEF TornIsKnown, Lossy
    <3> QED
      BY <1>4, <3>1
  <2>3. CASE ~Torn
    <3>1. Records' = Append(Records, Head(OnItsWay))
      BY <1>3, <2>1, <2>3, WriteRecords
    <3>2. Contract!Store
      BY <1>1, <1>3, <3>1 DEF Contract!Store, Lossy
    <3> QED
      BY <3>2 DEF Contract!Next
  <2> QED
    BY <2>2, <2>3
<1> QED
  BY <1>5, <1>6

-----------------------------------------------------------------------------
\* A shutdown seals a log that has nothing on its way.
LEMMA FinishRefines ==
  ASSUME TypeOK, Stopped, Settled, NEW failed \in BOOLEAN, FinishDownstream(failed)
  PROVE  Contract!Next
<1>1. /\ up /\ up' /\ writer = "finishing" /\ writer' = "exiting" /\ UNCHANGED <<queue, file>>
      /\ UNCHANGED deliveryFailed /\ flush' \in {"succeeded", "failed"}
      /\ flush' = "succeeded" => ~deliveryFailed /\ "dropped" \notin alarms
  BY DEF FinishDownstream
<1>2. "dropped" \in alarms' <=> "dropped" \in alarms
  BY DEF FinishDownstream, Raise
<1>3. queue = <<>> /\ flush = "pending"
  BY <1>1 DEF Stopped, Left, Settled, Closed
<1>4. OnItsWay = <<>> /\ OnItsWay' = <<>> /\ UNCHANGED Records
  BY <1>1, <1>3 DEF OnItsWay, Accepted, Records
<1>5. Contract!Seal
  BY <1>1, <1>2, <1>3, <1>4 DEF Contract!Seal
<1> QED
  BY <1>5 DEF Contract!Next

LEMMA CloseJoinedRefines ==
  ASSUME TypeOK, Stopped, NEW c \in Closers, CloseJoined(c)
  PROVE  Contract!Next \/ UNCHANGED Contract!vars
<1>1. /\ up /\ writer = "dead" /\ UNCHANGED <<up, writer, item, queue, file, deliveryFailed>>
      /\ "dropped" \in alarms' <=> "dropped" \in alarms
      /\ flush' = IF Closed THEN flush ELSE "failed"
  BY DEF CloseJoined, Raise
<1>2. OnItsWay = <<>> /\ OnItsWay' = <<>> /\ UNCHANGED Records
  BY <1>1 DEF Stopped, Left, OnItsWay, Accepted, Records
<1>3. CASE Closed
  BY <1>1, <1>2, <1>3, QuietStutters DEF Quiet
<1>4. CASE ~Closed
  <2>1. Contract!Seal
    BY <1>1, <1>2, <1>4 DEF Contract!Seal, Closed
  <2> QED
    BY <2>1 DEF Contract!Next
<1> QED
  BY <1>3, <1>4

\* A crash loses what is on its way, but for the write it interrupts.
LEMMA CrashRefines == ASSUME TypeOK, Carried, Stopped, Crash PROVE Contract!Next
<1>1. up /\ ~up' /\ UNCHANGED <<deliveryFailed, flush, alarms>>
  BY DEF Crash, sinkVars
<1>2. OnItsWay' = <<>>
  BY <1>1 DEF OnItsWay
<1>3. \/ UNCHANGED Records
      \/ OnItsWay # <<>> /\ Records' \in {Append(Records, Head(OnItsWay)), Append(Records, Nothing)}
  <2>1. CASE UNCHANGED file
    BY <2>1 DEF Records
  <2>2. CASE writer = "emitting" /\ Write(WholeLine)
    <3>1. InHand /\ WholeLine \in Lines /\ Found(WholeLine) = item
      BY <1>1, <2>2, LinesOfTheWriter DEF InHand, WholeLine, Found
    <3>2. Records' = Records \/ Records' = Append(Records, item)
      BY <2>2, <3>1, WriteRecords
    <3> QED
      BY <3>1, <3>2, HandFirst
  <2>3. CASE writer = "emitting" /\ Write(TornLine)
    <3>1. InHand /\ TornLine \in Lines /\ Found(TornLine) = Nothing
      BY <1>1, <2>3, LinesOfTheWriter DEF InHand, TornLine, Found
    <3>2. Records' = Records \/ Records' = Append(Records, Nothing)
      BY <2>3, <3>1, WriteRecords
    <3> QED
      BY <3>1, <3>2, HandFirst
  <2> QED
    BY <2>1, <2>2, <2>3 DEF Crash
<1>4. Contract!Stop
  BY <1>1, <1>2, <1>3 DEF Contract!Stop
<1> QED
  BY <1>4 DEF Contract!Next

LEMMA RestartRefines == ASSUME Restart PROVE Contract!Next
<1>1. /\ ~up /\ queue' = <<>> /\ writer' = "unstarted" /\ UNCHANGED file
      /\ deliveryFailed' = FALSE /\ alarms' = {} /\ flush' = "pending"
  BY DEF Restart
<1>2. OnItsWay = <<>> /\ OnItsWay' = <<>> /\ UNCHANGED Records
  BY <1>1 DEF OnItsWay, Accepted, Records
<1>3. Contract!Reopen
  BY <1>1, <1>2 DEF Contract!Reopen
<1> QED
  BY <1>3 DEF Contract!Next

\* What moves no event and shows in no counter of lost events, nor in the
\* verdict of the shutdown, is invisible.
LEMMA OtherStepsRefine ==
  ASSUME KeepsPlaces, UNCHANGED <<deliveryFailed, flush>>,
         alarms' \in {alarms, alarms \cup {"sink"}, alarms \cup {"flush"}}
  PROVE  UNCHANGED Contract!vars
<1>1. "dropped" \in alarms' <=> "dropped" \in alarms
  OBVIOUS
<1> QED
  BY <1>1, OnItsWayStays, QuietStutters DEF Quiet

LEMMA StepRefines ==
  ASSUME Inv, Passage, [Next]_vars PROVE [Contract!Next]_(Contract!vars)
<1> USE DEF emitVars, sinkVars, closeVars, pollVars
<1>1. TypeOK /\ Carried /\ Stopped /\ Settled /\ Untouched /\ TornIsKnown
  BY DEF Inv, Passage
<1>2. CASE UNCHANGED vars
  <2>1. UNCHANGED OnItsWay
    BY <1>2 DEF vars, OnItsWay, Accepted
  <2> QED
    BY <1>2, <2>1, QuietStutters DEF vars, Quiet
<1>3. CASE Next
  <2> DEFINE Other ==
               /\ UNCHANGED <<deliveryFailed, flush>>
               /\ alarms' \in {alarms, alarms \cup {"sink"}, alarms \cup {"flush"}}
  <2>1. ASSUME Start \/ StallTimeout \/ Settle \/ Exit PROVE Other
    BY <2>1 DEF Start, StallTimeout, Settle, Exit
  <2>2. ASSUME NEW t \in Threads, Allocate(t) \/ Reject(t) PROVE Other
    BY <2>2 DEF Allocate, Reject, Raise
  <2>3. ASSUME NEW c \in Closers,
               \/ CloseAgain(c) \/ StopAccepting(c) \/ CloseTimesOut(c)
               \/ \E d \in BOOLEAN : EnterClose(c, d)
        PROVE  Other
    BY <2>3 DEF CloseAgain, StopAccepting, CloseTimesOut, EnterClose, Raise
  <2>4. ASSUME NEW p \in Pollers, PollBegins(p) \/ PollStep(p) PROVE Other
    BY <2>4 DEF PollBegins, PollStep, PollLooks, PollLatches
  <2>5. \/ Other \/ Crash \/ Restart \/ Take \/ EmitBroken
        \/ \E synced \in BOOLEAN : EmitWhole(synced)
        \/ \E failed \in BOOLEAN : FinishDownstream(failed)
        \/ \E t \in Threads : Enqueue(t)
        \/ \E c \in Closers : PutSentinel(c) \/ CloseJoined(c)
    BY <1>3, <2>1, <2>2, <2>3, <2>4 DEF Next, Emission, Writer, CloseStep
  <2>6. CASE Other /\ KeepsPlaces
    BY <2>6, OtherStepsRefine
  <2>7. CASE Crash \/ Restart
    BY <1>1, <2>7, CrashRefines, RestartRefines
  <2>8. CASE Take
    BY <1>1, <2>8, TakeRefines
  <2>9. CASE EmitBroken \/ \E synced \in BOOLEAN : EmitWhole(synced)
    BY <1>1, <2>9, WriteRefines
  <2>10. CASE \E failed \in BOOLEAN : FinishDownstream(failed)
    BY <1>1, <2>10, FinishRefines
  <2>11. CASE \E t \in Threads : Enqueue(t)
    BY <1>1, <2>11, EnqueueRefines
  <2>12. CASE \E c \in Closers : PutSentinel(c) \/ CloseJoined(c)
    BY <1>1, <2>12, PutSentinelRefines, CloseJoinedRefines
  <2> QED
    BY <1>1, <1>3, <2>5, <2>6, <2>7, <2>8, <2>9, <2>10, <2>11, <2>12, MovingSteps
<1> QED
  BY <1>2, <1>3

\* The recorder, the bounded queue, the writer thread and the file implement
\* the ordered log that calls itself clean only when nothing was lost.
THEOREM SinkRefinesLog == Spec => ImplementsAuditLog
<1>1. Init => Contract!Init
  <2> SUFFICES ASSUME Init PROVE Contract!Init
    OBVIOUS
  <2>1. OnItsWay = <<>> /\ Records = <<>>
    BY DEF Init, OnItsWay, Accepted, Records
  <2> QED
    BY <2>1 DEF Init, Contract!Init
<1>2. Inv /\ Passage /\ [Next]_vars => [Contract!Next]_(Contract!vars)
  BY StepRefines
<1> QED
  BY <1>1, <1>2, PassageInvariant, PTL DEF Spec, Contract!Spec, ImplementsAuditLog

=============================================================================
