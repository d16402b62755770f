--------------------------- MODULE AuditTrailProofs ---------------------------
(***************************************************************************)
(* Proofs about AuditTrail, for any number of attempts, workers and        *)
(* events, and any limits.                                                 *)
(*                                                                         *)
(* Why nothing is written after the drain: an unfinished worker holds an   *)
(* admission slot until a done-callback returns it (Slots), and is tracked *)
(* by the attempt that launched it (Tracked), whose terminal is not due    *)
(* before; an attempt whose terminal is not over holds a drain             *)
(* registration once its coroutine is gone (Tracked, Registrations); both  *)
(* counters count their holders.  The cascade looks at the slots first and *)
(* at the registrations then, when no coroutine is left (Cascade).         *)
(***************************************************************************)
EXTENDS AuditTrail, FiniteSetTheorems, TLAPS

Owes(w, callback) == \E n \in DOMAIN callbacks[w] : callbacks[w][n] = callback

\* Who holds an admission slot, and who a drain registration.
Slots == {w \in Attempts : task[w] = "releasing" \/ Owes(w, "release")}
Registrations == {r \in Attempts : drainHeld[r]}

Alone == \A q, r \in Attempts : task[q] \in Segment /\ task[r] \in Segment => q = r

Begun ==
  \A r \in Attempts :
    /\ task[r] = "new" => trail[r] = <<>>
    /\ task[r] # "new" => Wrote(r, "started")

Waiting == {"releasing", "tracking", "attaching", "looking", "awaiting", "cancelling", "aborting"}
Launched ==
  \A r \in Attempts :
    /\ job[r] # "none" => work[r] = r /\ task[r] \notin {"new", "routing"}
    /\ job[r] = "none" => callbacks[r] = <<>> /\ task[r] # "releasing"
    /\ task[r] \in Waiting => work[r] \in Attempts /\ job[work[r]] # "none"

Released ==
  /\ \A w \in Attempts :
       /\ task[w] = "releasing" => callbacks[w] = <<>>
       /\ \A n \in DOMAIN callbacks[w] : callbacks[w][n] = "release" => n = 1
       /\ Unfinished(w) => w \in Slots
  /\ IsFiniteSet(Slots) /\ active = Cardinality(Slots)

Tracked ==
  \A r \in Attempts :
    /\ pending[r] # {} => terminal[r] \in {"open", "deferred"} /\ drainHeld[r]
    /\ task[r] \in {"new", "routing", "releasing", "tracking"} =>
         pending[r] = {} /\ ~drainHeld[r]
    /\ Unfinished(r) => task[r] \in {"releasing", "tracking"} \/ r \in pending[r]
    /\ task[r] \notin {"dispatching", "closed"} => terminal[r] = "open"
    /\ task[r] = "dispatching" => terminal[r] \in {"emitting", "emitted"}
    /\ task[r] = "closed" => terminal[r] # "open" /\ (terminal[r] = "over" \/ drainHeld[r])
    /\ Wrote(r, "terminal") <=> terminal[r] \in {"emitted", "over"}
Registered == IsFiniteSet(Registrations) /\ unwritten = Cardinality(Registrations)

Past == {"shadow", "draining", "joining", "audit", "flushing", "over"}
Cascade ==
  /\ stage # "serving" => \A r \in Attempts : task[r] \in {"new", "closed"}
  /\ stage \in {"terminals"} \cup Past /\ drained => active = 0
  /\ stage \in Past /\ drained => unwritten = 0

Shadows ==
  /\ stage \in Past \ {"shadow"} => ~shadowOpen
  /\ stage \in {"joining", "audit", "flushing", "over"} /\ drained =>
       backlog = <<>> /\ observing = Loop
  /\ \A n \in DOMAIN backlog : task[backlog[n]] # "new"
  /\ observing # Loop => task[observing] # "new"

Inv ==
  /\ TypeOK /\ Alone /\ Begun /\ Launched /\ Released /\ Tracked /\ Registered
  /\ Cascade /\ Shadows

-----------------------------------------------------------------------------
\* What an emission does to the trail, and to what the trail shows.
LEMMA EmitTrail ==
  ASSUME TypeOK, NEW i \in Attempts, NEW s \in Stages, Emit(i, s)
  PROVE  /\ \A r \in Attempts : trail'[r] = IF r = i THEN Append(trail[r], s) ELSE trail[r]
         /\ trail' \in [Attempts -> Seq(Stages)] /\ lossy' \in BOOLEAN
<1>1. trail \in [Attempts -> Seq(Stages)] /\ trail[i] \in Seq(Stages)
  BY DEF TypeOK
<1>2. Append(trail[i], s) \in Seq(Stages)
  BY <1>1
<1> QED
  BY <1>1, <1>2 DEF Emit, TypeOK

LEMMA EmitWrote ==
  ASSUME TypeOK, NEW i \in Attempts, NEW s \in Stages, Emit(i, s),
         NEW r \in Attempts, NEW t \in Stages
  PROVE  Wrote(r, t)' <=> Wrote(r, t) \/ (r = i /\ t = s)
<1>1. trail[i] \in Seq(Stages) /\ trail[r] \in Seq(Stages)
  BY DEF TypeOK
<1>2. trail'[r] = IF r = i THEN Append(trail[r], s) ELSE trail[r]
  BY EmitTrail
<1>3. CASE r = i
  <2>1. /\ Len(trail'[r]) = Len(trail[r]) + 1 /\ trail'[r][Len(trail[r]) + 1] = s
        /\ \A n \in 1..Len(trail[r]) : trail'[r][n] = trail[r][n]
        /\ DOMAIN trail[r] = 1..Len(trail[r]) /\ DOMAIN trail'[r] = 1..(Len(trail[r]) + 1)
        /\ Len(trail[r]) \in Nat
    BY <1>1, <1>2, <1>3
  <2>2. ASSUME Wrote(r, t) PROVE Wrote(r, t)'
    BY <2>1, <2>2 DEF Wrote
  <2>3. ASSUME t = s PROVE Wrote(r, t)'
    BY <2>1, <2>3 DEF Wrote
  <2>4. ASSUME Wrote(r, t)' PROVE Wrote(r, t) \/ t = s
    <3>1. PICK n \in DOMAIN trail'[r] : trail'[r][n] = t
      BY <2>4 DEF Wrote
    <3>2. n = Len(trail[r]) + 1 \/ n \in 1..Len(trail[r])
      BY <2>1, <3>1
    <3> QED
      BY <2>1, <3>1, <3>2 DEF Wrote
  <2> QED
    BY <1>3, <2>2, <2>3, <2>4
<1>4. CASE r # i
  BY <1>2, <1>4 DEF Wrote
<1> QED
  BY <1>3, <1>4

LEMMA SilentWrote ==
  ASSUME UNCHANGED trail PROVE \A r, t : Wrote(r, t)' <=> Wrote(r, t)
BY DEF Wrote

\* The front of a queue of callbacks, and what is left without it.
LEMMA CallbackQueue ==
  ASSUME TypeOK, NEW w \in Attempts, callbacks[w] # <<>>
  PROVE  /\ Head(callbacks[w]) = callbacks[w][1] /\ 1 \in DOMAIN callbacks[w]
         /\ Head(callbacks[w]) \in Attempts \cup {"release"}
         /\ Tail(callbacks[w]) \in Seq(Attempts \cup {"release"})
         /\ \A n \in DOMAIN Tail(callbacks[w]) :
              /\ n \in Nat \ {0} /\ n + 1 \in DOMAIN callbacks[w]
              /\ Tail(callbacks[w])[n] = callbacks[w][n + 1]
<1>1. callbacks[w] \in Seq(Attempts \cup {"release"})
  BY DEF TypeOK
<1>2. Len(callbacks[w]) \in Nat \ {0} /\ DOMAIN callbacks[w] = 1..Len(callbacks[w])
  BY <1>1
<1>3. /\ Len(Tail(callbacks[w])) = Len(callbacks[w]) - 1
      /\ DOMAIN Tail(callbacks[w]) = 1..(Len(callbacks[w]) - 1)
  BY <1>1, <1>2
<1> QED
  BY <1>1, <1>2, <1>3

LEMMA HolderCounted ==
  ASSUME Released, Registered
  PROVE  /\ \A w \in Slots : active - 1 \in Nat /\ active # 0
         /\ \A r \in Registrations : unwritten - 1 \in Nat /\ unwritten # 0
<1>1. ASSUME NEW S, IsFiniteSet(S), NEW x \in S PROVE Cardinality(S) - 1 \in Nat
  <2>1. Cardinality(S) \in Nat /\ Cardinality(S) # 0
    BY <1>1, FS_CardinalityType, FS_EmptySet
  <2> QED
    BY <2>1
<1> QED
  BY <1>1, FS_CardinalityType DEF Released, Registered

LEMMA InitInv == Init => Inv
<1> SUFFICES ASSUME Init PROVE Inv
  OBVIOUS
<1>1. TypeOK
  <2>1. 0 \in 0..MaxNotes /\ 0 \in 0..MaxInflight /\ Len(<<>>) <= ShadowCapacity
    BY TrailAssumption
  <2>2. backlog \in Seq(Attempts) /\ Len(backlog) <= ShadowCapacity
    BY <2>1 DEF Init
  <2>3. /\ callbacks \in [Attempts -> Seq(Attempts \cup {"release"})]
        /\ trail \in [Attempts -> Seq(Stages)]
    BY DEF Init
  <2> QED
    BY <2>1, <2>2, <2>3 DEF Init, TypeOK
<1>2. Slots = {} /\ Registrations = {}
  BY DEF Init, Slots, Registrations, Owes
<1>3. Released /\ Registered
  BY <1>2, FS_EmptySet DEF Init, Released, Registered, Unfinished
<1>4. Alone /\ Begun /\ Launched
  BY DEF Init, Alone, Begun, Launched, Waiting, Segment, Wrote
<1>5. Tracked
  <2>1. \A r \in Attempts : ~Wrote(r, "terminal")
    <3>1. DOMAIN <<>> = {}
      OBVIOUS
    <3>2. \A r \in Attempts : DOMAIN trail[r] = {}
      BY <3>1 DEF Init
    <3> QED
      BY <3>2 DEF Wrote
  <2> QED
    BY <2>1 DEF Init, Tracked, Unfinished
<1>6. Cascade /\ Shadows
  BY TrailAssumption DEF Init, Cascade, Shadows, Past
<1> QED
  BY <1>1, <1>3, <1>4, <1>5, <1>6 DEF Inv

-----------------------------------------------------------------------------
\* The types, by the groups of variables that change together.
Places == Segment \cup {"new", "routing", "awaiting", "responding", "serving", "sending",
                        "closed"}
TaskTypes == task \in [Attempts -> Places] /\ work \in [Attempts -> Attempts \cup {Loop}]
JobTypes ==
  /\ job \in [Attempts -> {"none", "queued", "running", "served", "failed", "cancelled"}]
  /\ notes \in [Attempts -> 0..MaxNotes]
  /\ callbacks \in [Attempts -> Seq(Attempts \cup {"release"})]
  /\ active \in 0..MaxInflight
BarrierTypes ==
  /\ pending \in [Attempts -> SUBSET Attempts]
  /\ terminal \in [Attempts -> {"open", "deferred", "emitting", "emitted", "over"}]
  /\ runner \in [Attempts -> Attempts \cup {Loop}]
  /\ drainHeld \in [Attempts -> BOOLEAN]
  /\ unwritten \in Nat
ShadowTypes ==
  /\ shadowOpen \in BOOLEAN /\ submitted \in [Attempts -> BOOLEAN]
  /\ backlog \in Seq(Attempts) /\ Len(backlog) <= ShadowCapacity
  /\ observing \in Attempts \cup {Loop}
  /\ thread \in {"none", "alive", "dead"} /\ stopping \in BOOLEAN
LifeTypes ==
  /\ stage \in {"serving", "workers", "terminals", "shadow", "draining", "joining", "audit",
                "flushing", "over"}
  /\ drained \in BOOLEAN /\ sinkOpen \in BOOLEAN
TrailTypes == lossy \in BOOLEAN /\ trail \in [Attempts -> Seq(Stages)]

LEMMA TypeParts ==
  /\ TypeOK <=> /\ TaskTypes /\ JobTypes /\ BarrierTypes
                /\ ShadowTypes /\ LifeTypes /\ TrailTypes
  /\ TypeOK' <=> /\ TaskTypes' /\ JobTypes' /\ BarrierTypes'
                 /\ ShadowTypes' /\ LifeTypes' /\ TrailTypes'
BY DEF TypeOK, Places, TaskTypes, JobTypes, BarrierTypes, ShadowTypes, LifeTypes, TrailTypes

LEMMA TypesKept ==
  ASSUME TypeOK
  PROVE  /\ UNCHANGED taskVars => TaskTypes'
         /\ UNCHANGED jobVars => JobTypes'
         /\ UNCHANGED barrierVars => BarrierTypes'
         /\ UNCHANGED shadowVars => ShadowTypes'
         /\ UNCHANGED lifeVars => LifeTypes'
         /\ UNCHANGED trailVars => TrailTypes'
<1>1. TaskTypes /\ JobTypes /\ BarrierTypes /\ ShadowTypes /\ LifeTypes /\ TrailTypes
  BY TypeParts
<1> QED
  BY <1>1
  DEF TaskTypes, JobTypes, BarrierTypes, ShadowTypes, LifeTypes, TrailTypes,
      taskVars, jobVars, barrierVars, shadowVars, lifeVars, trailVars

\* The types are kept.
LEMMA TypeStep == ASSUME Inv, Next PROVE TypeOK'
<1>0. /\ TypeOK /\ Launched /\ Released /\ Registered
      /\ TaskTypes /\ JobTypes /\ BarrierTypes /\ ShadowTypes /\ LifeTypes /\ TrailTypes
  BY TypeParts DEF Inv
<1>1. {"started", "event", "terminal", "shadow"} \subseteq Stages
  BY DEF Stages
<1> DEFINE Goes(r) == UNCHANGED work /\ \E v \in Places : task' = [task EXCEPT ![r] = v]
<1>2. ASSUME NEW r \in Attempts, Goes(r) PROVE TaskTypes'
  BY <1>0, <1>2 DEF TaskTypes
<1>3. ASSUME NEW r \in Attempts, NEW s \in Stages, Emit(r, s) PROVE TrailTypes'
  BY <1>0, <1>3, EmitTrail DEF TrailTypes
<1>4. ASSUME NEW r \in Attempts,
             \/ Arrive(r) \/ Refuse(r) \/ Look(r) \/ LookAway(r) \/ Deliver(r)
             \/ DeliverCancelled(r) \/ Cancelled(r) \/ SendStart(r) \/ Respond(r)
      PROVE  TypeOK'
  <2>1. UNCHANGED jobVars /\ UNCHANGED barrierVars /\ UNCHANGED shadowVars /\ UNCHANGED lifeVars
    BY <1>4 DEF Arrive, Refuse, Look, LookAway, Deliver, Receive, DeliverCancelled, Cancelled,
       SendStart, Respond
  <2>2. UNCHANGED trailVars \/ \E s \in Stages : Emit(r, s)
    BY <1>1, <1>4 DEF Arrive, Refuse, Look, LookAway, Deliver, Receive, DeliverCancelled,
       Cancelled, SendStart, Respond
  <2>3. Goes(r)
    BY <1>4 DEF Arrive, Refuse, Look, LookAway, Deliver, Receive, DeliverCancelled, Cancelled,
       SendStart, Respond, Goto, Places, Segment
  <2> QED
    BY <1>0, <1>2, <1>3, <2>1, <2>2, <2>3, TypeParts, TypesKept
<1>5. ASSUME NEW r \in Attempts, Timeout(r) \/ Abort(r) PROVE TypeOK'
  <2>1. /\ UNCHANGED <<notes, callbacks, active>> /\ UNCHANGED barrierVars
        /\ UNCHANGED shadowVars /\ UNCHANGED lifeVars /\ UNCHANGED trailVars
    BY <1>5 DEF Timeout, Abort
  <2>2. Goes(r) /\ (job' = [job EXCEPT ![work[r]] = "cancelled"] \/ UNCHANGED job)
    BY <1>5 DEF Timeout, Abort, CancelWork, Goto, Places, Segment
  <2>3. JobTypes'
    BY <1>0, <2>1, <2>2 DEF JobTypes
  <2> QED
    BY <1>0, <1>2, <2>1, <2>2, <2>3, TypeParts, TypesKept
<1>6. ASSUME NEW r \in Attempts, DeferTerminal(r) PROVE TypeOK'
  <2>1. /\ UNCHANGED jobVars /\ UNCHANGED <<pending, drainHeld, unwritten>>
        /\ UNCHANGED shadowVars /\ UNCHANGED lifeVars /\ UNCHANGED trailVars
    BY <1>6 DEF DeferTerminal
  <2>2. /\ Goes(r)
        /\ \E v \in {"deferred", "emitting"} : terminal' = [terminal EXCEPT ![r] = v]
        /\ UNCHANGED runner \/ runner' = [runner EXCEPT ![r] = Loop]
    BY <1>6 DEF DeferTerminal, Goto, Places, Segment, taskVars
  <2>3. BarrierTypes'
    BY <1>0, <2>1, <2>2 DEF BarrierTypes
  <2> QED
    BY <1>0, <1>2, <2>1, <2>2, <2>3, TypeParts, TypesKept
<1>7. ASSUME NEW r \in Attempts, Start(r) \/ Finish(r) PROVE TypeOK'
  <2>1. /\ UNCHANGED <<notes, callbacks, active>> /\ UNCHANGED taskVars /\ UNCHANGED barrierVars
        /\ UNCHANGED shadowVars /\ UNCHANGED lifeVars /\ UNCHANGED trailVars
    BY <1>7 DEF Start, Finish
  <2>2. \E v \in {"running", "served", "failed"} : job' = [job EXCEPT ![r] = v]
    BY <1>7 DEF Start, Finish
  <2>3. JobTypes'
    BY <1>0, <2>1, <2>2 DEF JobTypes
  <2> QED
    BY <1>0, <2>1, <2>3, TypeParts, TypesKept
<1>8. ASSUME NEW r \in Attempts, Launch(r) PROVE TypeOK'
  <2>1. active + 1 \in 0..MaxInflight
    BY <1>0, <1>8, TrailAssumption DEF JobTypes, Launch
  <2>2. JobTypes'
    BY <1>0, <1>8, <2>1 DEF JobTypes, Launch
  <2>3. TaskTypes'
    BY <1>0, <1>8 DEF TaskTypes, Launch, Goto, Places, Segment
  <2> QED
    BY <1>0, <1>8, <2>2, <2>3, TypeParts, TypesKept DEF Launch
<1>9. ASSUME NEW r \in Attempts, NEW w \in Attempts, Join(r, w) PROVE TypeOK'
  <2>1. TaskTypes'
    BY <1>0, <1>9 DEF TaskTypes, Join, Goto, Places, Segment
  <2> QED
    BY <1>0, <1>9, <2>1, TypeParts, TypesKept DEF Join
<1>10. ASSUME NEW r \in Attempts, RegisterRelease(r) PROVE TypeOK'
  <2>1. active - 1 \in 0..MaxInflight
    <3>1. r \in Slots
      BY <1>10 DEF RegisterRelease, Slots
    <3> QED
      BY <1>0, <3>1, HolderCounted, TrailAssumption DEF JobTypes
  <2>2. Append(callbacks[r], "release") \in Seq(Attempts \cup {"release"})
    BY <1>0 DEF JobTypes
  <2>3. JobTypes'
    BY <1>0, <1>10, <2>1, <2>2 DEF JobTypes, RegisterRelease
  <2>4. Goes(r)
    BY <1>10 DEF RegisterRelease, Goto, Places, Segment
  <2> QED
    BY <1>0, <1>2, <1>10, <2>3, <2>4, TypeParts, TypesKept DEF RegisterRelease
<1>11. ASSUME NEW r \in Attempts, Track(r) PROVE TypeOK'
  <2>1. work[r] \in Attempts
    BY <1>0, <1>11 DEF Track, Launched, Waiting
  <2>2. BarrierTypes'
    BY <1>0, <1>11, <2>1 DEF BarrierTypes, Track
  <2>3. Goes(r)
    BY <1>11 DEF Track, Goto, Places, Segment
  <2> QED
    BY <1>0, <1>2, <1>11, <2>2, <2>3, TypeParts, TypesKept DEF Track
<1>12. ASSUME NEW r \in Attempts, Attach(r) PROVE TypeOK'
  <2>1. work[r] \in Attempts
    BY <1>0, <1>12 DEF Attach, Launched, Waiting
  <2>2. Append(callbacks[work[r]], r) \in Seq(Attempts \cup {"release"})
    BY <1>0, <2>1 DEF JobTypes
  <2>3. JobTypes'
    BY <1>0, <1>12, <2>2 DEF JobTypes, Attach
  <2>4. BarrierTypes'
    BY <1>0, <1>12 DEF BarrierTypes, Attach
  <2>5. Goes(r)
    BY <1>12 DEF Attach, Goto, Places, Segment
  <2> QED
    BY <1>0, <1>2, <1>12, <2>3, <2>4, <2>5, TypeParts, TypesKept DEF Attach
<1>13. ASSUME NEW r \in Attempts, EmitTerminal(r) PROVE TypeOK'
  <2>1. BarrierTypes'
    BY <1>0, <1>13 DEF BarrierTypes, EmitTerminal
  <2> QED
    BY <1>0, <1>1, <1>3, <1>13, <2>1, TypeParts, TypesKept DEF EmitTerminal
<1>14. ASSUME NEW r \in Attempts, ReleaseTerminal(r) PROVE TypeOK'
  <2>1. drainHeld[r] => unwritten - 1 \in Nat
    BY <1>0, HolderCounted DEF Registrations
  <2>2. BarrierTypes'
    BY <1>0, <1>14, <2>1 DEF BarrierTypes, ReleaseTerminal
  <2>3. Goes(r)
    BY <1>0, <1>14 DEF ReleaseTerminal, Goto, TaskTypes, Places
  <2> QED
    BY <1>0, <1>2, <1>14, <2>2, <2>3, TypeParts, TypesKept DEF ReleaseTerminal
<1>15. ASSUME NEW w \in Attempts, Note(w) PROVE TypeOK'
  <2>1. notes[w] + 1 \in 0..MaxNotes
    BY <1>0, <1>15, TrailAssumption DEF Note, JobTypes
  <2>2. JobTypes'
    BY <1>0, <1>15, <2>1 DEF Note, JobTypes
  <2> QED
    BY <1>0, <1>1, <1>3, <1>15, <2>2, TypeParts, TypesKept DEF Note
<1>16. ASSUME NEW w \in Attempts, Submit(w) PROVE TypeOK'
  <2>1. /\ Append(backlog, w) \in Seq(Attempts)
        /\ Len(backlog) < ShadowCapacity => Len(Append(backlog, w)) <= ShadowCapacity
    BY <1>0, TrailAssumption DEF ShadowTypes
  <2>2. ShadowTypes'
    BY <1>0, <1>16, <2>1 DEF ShadowTypes, Submit
  <2> QED
    BY <1>0, <1>16, <2>2, TypeParts, TypesKept DEF Submit
<1>17. ASSUME NEW w \in Attempts, RunRelease(w) PROVE TypeOK'
  <2>1. callbacks[w] # <<>> /\ Head(callbacks[w]) = "release"
    BY <1>17 DEF RunRelease, CallbackDue
  <2>2. w \in Slots /\ Tail(callbacks[w]) \in Seq(Attempts \cup {"release"})
    BY <1>0, <2>1, CallbackQueue DEF Slots, Owes
  <2>3. active - 1 \in 0..MaxInflight
    BY <1>0, <2>2, HolderCounted, TrailAssumption DEF JobTypes
  <2>4. JobTypes'
    BY <1>0, <1>17, <2>2, <2>3 DEF JobTypes, RunRelease
  <2> QED
    BY <1>0, <1>17, <2>4, TypeParts, TypesKept DEF RunRelease
<1>18. ASSUME NEW w \in Attempts, Settle(w) PROVE TypeOK'
  <2>1. callbacks[w] # <<>> /\ Head(callbacks[w]) # "release"
    BY <1>18 DEF Settle, CallbackDue
  <2>2. /\ Head(callbacks[w]) \in Attempts
        /\ Tail(callbacks[w]) \in Seq(Attempts \cup {"release"})
    BY <1>0, <2>1, CallbackQueue
  <2>3. JobTypes'
    BY <1>0, <1>18, <2>2 DEF JobTypes, Settle
  <2>4. BarrierTypes'
    BY <1>0, <1>18, <2>2 DEF BarrierTypes, Settle, CallbackThread
  <2> QED
    BY <1>0, <1>18, <2>3, <2>4, TypeParts, TypesKept DEF Settle
<1>19. ASSUME Observer PROVE TypeOK'
  <2>1. UNCHANGED taskVars /\ UNCHANGED jobVars /\ UNCHANGED barrierVars /\ UNCHANGED lifeVars
    BY <1>19 DEF Observer, Observe, Observed, ObserverExits
  <2>2. TrailTypes'
    BY <1>0, <1>1, <1>3, <1>19, TypesKept
    DEF Observer, Observe, Observed, ObserverExits, ShadowTypes
  <2>3. backlog # <<>> =>
          /\ Head(backlog) \in Attempts /\ Tail(backlog) \in Seq(Attempts)
          /\ Len(Tail(backlog)) <= ShadowCapacity
    BY <1>0, TrailAssumption DEF ShadowTypes
  <2>4. ShadowTypes'
    BY <1>0, <1>19, <2>3 DEF ShadowTypes, Observer, Observe, Observed, ObserverExits
  <2> QED
    BY <1>0, <2>1, <2>2, <2>4, TypeParts, TypesKept
<1>20. ASSUME BeginShutdown \/ Lifespan PROVE TypeOK'
  <2>1. UNCHANGED taskVars /\ UNCHANGED jobVars /\ UNCHANGED barrierVars /\ UNCHANGED trailVars
    BY <1>20 DEF BeginShutdown, Lifespan, WorkersIdle, TerminalsIdle, WaitTimesOut,
       RefuseShadows, ShadowsDrain, ObserverJoins, CloseSink, Flush
  <2>2. LifeTypes' /\ ShadowTypes'
    BY <1>0, <1>20 DEF BeginShutdown, Lifespan, WorkersIdle, TerminalsIdle, WaitTimesOut,
       RefuseShadows, ShadowsDrain, ObserverJoins, CloseSink, Flush, Shutdown, LifeTypes,
       ShadowTypes, lifeVars, shadowVars
  <2> QED
    BY <1>0, <2>1, <2>2, TypeParts, TypesKept
<1> QED
  BY <1>4, <1>5, <1>6, <1>7, <1>8, <1>9, <1>10, <1>11, <1>12, <1>13, <1>14, <1>15, <1>16,
     <1>17, <1>18, <1>19, <1>20 DEF Next, Handler, Dispatch, Agent, Callback

-----------------------------------------------------------------------------
\* A coroutine enters a segment of route code only when none is in one; one
\* that has not arrived does nothing but arrive, one that is closed nothing.
Move(r, v) ==
  /\ task' = [task EXCEPT ![r] = v]
  /\ v # "new" /\ task[r] # "closed"
  /\ v = "routing" <=> task[r] = "new"
  /\ v = "routing" => Arrive(r)
  /\ v \in Segment => LoopFree \/ task[r] \in Segment

LEMMA TaskStep ==
  ASSUME TypeOK, Next
  PROVE  UNCHANGED task \/ \E r \in Attempts : \E v : Move(r, v)
<1> USE DEF taskVars
<1>1. ASSUME NEW r \in Attempts, Arrive(r) \/ Handler(r) \/ Abort(r) PROVE \E v : Move(r, v)
  <2> DEFINE To(v) == task' = [task EXCEPT ![r] = v]
  <2>1. CASE Arrive(r)
    <3>1. Move(r, "routing")
      BY <2>1 DEF Arrive, Goto, Move, Segment
    <3> QED
      BY <3>1
  <2>2. CASE Launch(r) \/ \E w \in Attempts : Join(r, w)
    <3>1. Move(r, "releasing") \/ Move(r, "tracking")
      BY <2>2 DEF Launch, Join, Goto, Move
    <3> QED
      BY <3>1
  <2>3. CASE RegisterRelease(r) \/ Track(r)
    <3>1. Move(r, "tracking") \/ Move(r, "attaching")
      BY <2>3 DEF RegisterRelease, Track, Goto, Move, Segment
    <3> QED
      BY <3>1
  <2>4. CASE Attach(r) \/ Look(r) \/ LookAway(r)
    <3>1. /\ task[r] \in {"attaching", "looking"}
          /\ To("looking") \/ To("awaiting") \/ To("serving") \/ To("responding")
      BY <2>4 DEF Attach, Look, LookAway, Receive, Goto
    <3>2. Move(r, "looking") \/ Move(r, "awaiting") \/ Move(r, "serving")
          \/ Move(r, "responding")
      BY <3>1 DEF Move, Segment
    <3> QED
      BY <3>2
  <2>5. CASE Refuse(r) \/ Deliver(r) \/ DeliverCancelled(r) \/ SendStart(r) \/ Respond(r)
    <3>1. /\ task[r] \notin {"new", "closed"} /\ LoopFree
          /\ \/ To("responding") \/ To("serving") \/ To("sending") \/ To("finishing")
      BY <2>5 DEF Refuse, Deliver, Receive, DeliverCancelled, SendStart, Respond, Goto
    <3>2. Move(r, "responding") \/ Move(r, "serving") \/ Move(r, "sending") \/ Move(r, "finishing")
      BY <3>1 DEF Move
    <3> QED
      BY <3>2
  <2>6. CASE Timeout(r) \/ Abort(r)
    <3>1. /\ task[r] = "awaiting" /\ LoopFree
          /\ \/ To("responding") \/ To("cancelling") \/ To("aborting") \/ To("finishing")
      BY <2>6 DEF Timeout, Abort, CancelWork, Goto
    <3>2. Move(r, "responding") \/ Move(r, "cancelling") \/ Move(r, "aborting")
          \/ Move(r, "finishing")
      BY <3>1 DEF Move
    <3> QED
      BY <3>2
  <2>7. CASE Cancelled(r) \/ DeferTerminal(r)
    <3>1. /\ task[r] \in {"cancelling", "aborting", "finishing"}
          /\ \/ To("responding") \/ To("finishing") \/ To("closed") \/ To("dispatching")
      BY <2>7 DEF Cancelled, DeferTerminal, Goto
    <3>2. Move(r, "responding") \/ Move(r, "finishing") \/ Move(r, "closed")
          \/ Move(r, "dispatching")
      BY <3>1 DEF Move, Segment
    <3> QED
      BY <3>2
  <2> QED
    BY <1>1, <2>1, <2>2, <2>3, <2>4, <2>5, <2>6, <2>7 DEF Handler
<1>2. ASSUME NEW r \in Attempts, ReleaseTerminal(r) PROVE UNCHANGED task \/ Move(r, "closed")
  <2>1. CASE task[r] = "dispatching"
    BY <1>2, <2>1 DEF ReleaseTerminal, Goto, Move, Segment
  <2>2. CASE task[r] # "dispatching"
    BY <1>2, <2>2 DEF ReleaseTerminal, Goto, TypeOK
  <2> QED
    BY <2>1, <2>2
<1>3. ASSUME NEW r \in Attempts,
             EmitTerminal(r) \/ Start(r) \/ Agent(r) \/ Callback(r)
      PROVE  UNCHANGED task
  BY <1>3 DEF EmitTerminal, Start, Agent, Note, Submit, Finish, Callback, RunRelease, Settle
<1>4. ASSUME Observer \/ BeginShutdown \/ Lifespan PROVE UNCHANGED task
  BY <1>4 DEF Observer, Observe, Observed, ObserverExits, BeginShutdown, Lifespan, WorkersIdle,
     TerminalsIdle, WaitTimesOut, RefuseShadows, ShadowsDrain, ObserverJoins, CloseSink, Flush
<1> QED
  BY <1>1, <1>2, <1>3, <1>4 DEF Next, Dispatch

LEMMA AloneStep == ASSUME Inv, Next PROVE Alone'
<1>1. TypeOK /\ Alone
  BY DEF Inv
<1>2. CASE UNCHANGED task
  BY <1>1, <1>2 DEF Alone
<1>3. ASSUME NEW r \in Attempts, NEW v, Move(r, v) PROVE Alone'
  <2>1. \A q \in Attempts : task'[q] = IF q = r THEN v ELSE task[q]
    BY <1>1, <1>3 DEF Move, TypeOK
  <2> QED
    BY <1>1, <1>3, <2>1 DEF Alone, Move, LoopFree
<1> QED
  BY <1>1, <1>2, <1>3, TaskStep

-----------------------------------------------------------------------------
\* Who writes into a trail, and what: nobody before the attempt has arrived.
LEMMA WriteStep ==
  ASSUME Inv, Next
  PROVE  \/ UNCHANGED trail
         \/ \E i \in Attempts : Arrive(i) /\ Emit(i, "started")
         \/ \E i \in Attempts : EmitTerminal(i) /\ Emit(i, "terminal")
         \/ \E i \in Attempts : task[i] # "new" /\ terminal[i] \in {"open", "deferred"}
                                /\ Emit(i, "event")
         \/ \E i \in Attempts : task[i] # "new" /\ Observed /\ Emit(i, "shadow")
<1> USE DEF trailVars
<1>1. TypeOK /\ Launched /\ Tracked /\ Shadows
  BY DEF Inv
<1>2. ASSUME NEW r \in Attempts, Look(r) \/ Deliver(r) \/ SendStart(r)
      PROVE  \/ UNCHANGED trail
             \/ task[r] # "new" /\ terminal[r] = "open" /\ Emit(r, "event")
  BY <1>1, <1>2 DEF Look, Deliver, Receive, SendStart, Tracked
<1>3. ASSUME NEW r \in Attempts, Note(r)
      PROVE  task[r] # "new" /\ terminal[r] \in {"open", "deferred"} /\ Emit(r, "event")
  BY <1>1, <1>3 DEF Note, Launched, Tracked, Unfinished
<1>4. ASSUME NEW r \in Attempts, Arrive(r) \/ EmitTerminal(r)
      PROVE  \/ Arrive(r) /\ Emit(r, "started")
             \/ EmitTerminal(r) /\ Emit(r, "terminal")
  BY <1>4 DEF Arrive, EmitTerminal
<1>5. ASSUME Observed
      PROVE  observing \in Attempts /\ task[observing] # "new" /\ Emit(observing, "shadow")
  BY <1>1, <1>5 DEF Observed, Shadows, TypeOK
<1>6. ASSUME NEW r \in Attempts,
             \/ Refuse(r) \/ Launch(r) \/ (\E w \in Attempts : Join(r, w))
             \/ RegisterRelease(r) \/ Track(r) \/ Attach(r) \/ LookAway(r)
             \/ DeliverCancelled(r) \/ Timeout(r) \/ Cancelled(r) \/ Respond(r)
             \/ DeferTerminal(r) \/ Abort(r) \/ ReleaseTerminal(r) \/ Start(r) \/ Submit(r) \/ Finish(r) \/ Callback(r)
      PROVE  UNCHANGED trail
  BY <1>6 DEF Refuse, Launch, Join, RegisterRelease, Track, Attach, LookAway, DeliverCancelled,
     Timeout, Cancelled, Respond, DeferTerminal, Abort, ReleaseTerminal, Start, Submit, Finish,
     Callback, RunRelease, Settle
<1>7. ASSUME Observe \/ ObserverExits \/ BeginShutdown \/ Lifespan PROVE UNCHANGED trail
  BY <1>7 DEF Observe, ObserverExits, BeginShutdown, Lifespan, WorkersIdle,
     TerminalsIdle, WaitTimesOut, RefuseShadows, ShadowsDrain, ObserverJoins, CloseSink, Flush
<1>8. ASSUME NEW r \in Attempts, Handler(r)
      PROVE  Look(r) \/ Deliver(r) \/ SendStart(r) \/ UNCHANGED trail
  BY <1>6, <1>8 DEF Handler
<1> QED
  BY <1>2, <1>3, <1>4, <1>5, <1>6, <1>7, <1>8 DEF Next, Dispatch, Agent, Observer

LEMMA BegunStep == ASSUME Inv, Next PROVE Begun'
<1>1. TypeOK /\ Begun
  BY DEF Inv
<1>2. {"started", "event", "terminal", "shadow"} \subseteq Stages
  BY DEF Stages
<1>3. \A r \in Attempts :
        /\ task'[r] = "new" => task[r] = "new"
        /\ task[r] = "new" /\ task'[r] # "new" => Arrive(r)
  <2> TAKE r \in Attempts
  <2>1. CASE UNCHANGED task
    BY <2>1
  <2>2. CASE \E q \in Attempts : \E v : Move(q, v)
    <3>1. PICK q \in Attempts : \E v : Move(q, v)
      BY <2>2
    <3>2. PICK v : Move(q, v)
      BY <3>1
    <3> QED
      BY <1>1, <3>2 DEF Move, TypeOK
  <2> QED
    BY <1>1, <2>1, <2>2, TaskStep
<1>4. ASSUME NEW r \in Attempts, task'[r] = "new" PROVE trail'[r] = <<>>
  <2>1. trail[r] = <<>>
    BY <1>1, <1>3, <1>4 DEF Begun
  <2>2. ASSUME NEW i \in Attempts, NEW s \in Stages, Emit(i, s), i # r PROVE trail'[r] = trail[r]
    BY <1>1, <2>2, EmitTrail
  <2>3. ~Arrive(r) /\ ~EmitTerminal(r)
    <3>1. task[r] = "new" /\ terminal[r] = "open"
      BY <1>3, <1>4 DEF Inv, Tracked
    <3>2. Arrive(r) => task'[r] = "routing"
      BY <1>1 DEF Arrive, Goto, TypeOK
    <3> QED
      BY <1>4, <3>1, <3>2 DEF EmitTerminal
  <2> QED
    BY <1>2, <1>3, <1>4, <2>1, <2>2, <2>3, WriteStep
<1>5. ASSUME NEW r \in Attempts, task'[r] # "new" PROVE Wrote(r, "started")'
  <2>1. CASE Arrive(r)
    BY <1>1, <1>2, <2>1, EmitWrote DEF Arrive
  <2>2. CASE ~Arrive(r)
    <3>1. Wrote(r, "started")
      BY <1>1, <1>3, <1>5, <2>2 DEF Begun
    <3>2. CASE UNCHANGED trail
      BY <3>1, <3>2 DEF Wrote
    <3>3. ASSUME NEW i \in Attempts, NEW s \in Stages, Emit(i, s) PROVE Wrote(r, "started")'
      BY <1>1, <1>2, <3>1, <3>3, EmitWrote
    <3> QED
      BY <1>2, <3>2, <3>3, WriteStep
  <2> QED
    BY <2>1, <2>2
<1> QED
  BY <1>4, <1>5 DEF Begun

-----------------------------------------------------------------------------
\* A worker runs for the attempt that launched it, and a coroutine waits only
\* for a worker that was launched.
LEMMA LaunchedStep == ASSUME Inv, Next PROVE Launched'
<1> USE DEF taskVars, jobVars, barrierVars, shadowVars, lifeVars, trailVars
<1>1. TypeOK /\ Launched
  BY DEF Inv
<1>2. ASSUME NEW r \in Attempts, Arrive(r) PROVE Launched'
  BY <1>1, <1>2 DEF TypeOK, Launched, Arrive, Goto, Waiting
<1>3. ASSUME NEW r \in Attempts, NEW v \in {"responding", "serving", "sending", "finishing"},
             task' = [task EXCEPT ![r] = v], task[r] # "new",
             UNCHANGED <<work, job, callbacks>>
      PROVE  Launched'
  BY <1>1, <1>3 DEF TypeOK, Launched, Waiting
<1>4. ASSUME NEW r \in Attempts,
             \/ Refuse(r) \/ Look(r) \/ Deliver(r) \/ DeliverCancelled(r) \/ Cancelled(r)
             \/ SendStart(r) \/ Respond(r)
      PROVE  Launched'
  <2>1. /\ \E v \in {"responding", "serving", "sending", "finishing"} :
             task' = [task EXCEPT ![r] = v]
        /\ task[r] # "new" /\ UNCHANGED <<work, job, callbacks>>
    BY <1>4 DEF Refuse, Look, Deliver, Receive, DeliverCancelled, Cancelled, SendStart, Respond,
       Goto
  <2> QED
    BY <1>3, <2>1
<1>5. ASSUME NEW r \in Attempts, Launch(r) PROVE Launched'
  BY <1>1, <1>5 DEF TypeOK, Launched, Launch, Goto, Waiting
<1>6. ASSUME NEW r \in Attempts, NEW w \in Attempts, Join(r, w) PROVE Launched'
  BY <1>1, <1>6 DEF TypeOK, Launched, Join, Goto, Waiting
<1>7. ASSUME NEW r \in Attempts, RegisterRelease(r) PROVE Launched'
  BY <1>1, <1>7 DEF TypeOK, Launched, RegisterRelease, Goto, Waiting
<1>8. ASSUME NEW r \in Attempts, Track(r) \/ Attach(r) \/ LookAway(r) PROVE Launched'
  <2>1. CASE Track(r)
    BY <1>1, <2>1 DEF TypeOK, Launched, Track, Goto, Waiting
  <2>2. CASE Attach(r)
    <3>1. /\ \E v \in {"looking", "awaiting"} : task' = [task EXCEPT ![r] = v]
          /\ task[r] = "attaching" /\ UNCHANGED <<work, job>>
          /\ UNCHANGED callbacks
               \/ (Unfinished(work[r]) /\ callbacks' = [callbacks EXCEPT ![work[r]] = Append(@, r)])
      BY <2>2 DEF Attach, Goto
    <3> QED
      BY <1>1, <3>1 DEF TypeOK, Launched, Unfinished, Waiting
  <2>3. CASE LookAway(r)
    BY <1>1, <2>3 DEF TypeOK, Launched, LookAway, Goto, Waiting
  <2> QED
    BY <1>8, <2>1, <2>2, <2>3
<1>9. ASSUME NEW r \in Attempts, Timeout(r) \/ Abort(r) PROVE Launched'
  <2>1. /\ \E v \in {"cancelling", "aborting", "responding", "finishing"} :
             task' = [task EXCEPT ![r] = v]
        /\ task[r] = "awaiting"
        /\ \/ job[work[r]] = "queued" /\ job' = [job EXCEPT ![work[r]] = "cancelled"]
           \/ UNCHANGED job
        /\ UNCHANGED <<work, callbacks>>
    BY <1>9 DEF Timeout, Abort, CancelWork, Goto
  <2> QED
    BY <1>1, <2>1 DEF TypeOK, Launched, Waiting
<1>10. ASSUME NEW r \in Attempts, DeferTerminal(r) PROVE Launched'
  BY <1>1, <1>10 DEF TypeOK, Launched, DeferTerminal, Goto, Waiting
<1>11. ASSUME NEW r \in Attempts, ReleaseTerminal(r) PROVE Launched'
  BY <1>1, <1>11 DEF TypeOK, Launched, ReleaseTerminal, Goto, Waiting
<1>12. ASSUME NEW w \in Attempts, Start(w) \/ Finish(w) PROVE Launched'
  <2>1. /\ \E v \in {"running", "served", "failed"} : job' = [job EXCEPT ![w] = v]
        /\ job[w] # "none" /\ UNCHANGED <<taskVars, callbacks>>
    BY <1>12 DEF Start, Finish
  <2> QED
    BY <1>1, <2>1 DEF TypeOK, Launched
<1>13. ASSUME NEW w \in Attempts, Callback(w) PROVE Launched'
  <2>1. /\ callbacks[w] # <<>> /\ callbacks' = [callbacks EXCEPT ![w] = Tail(@)]
        /\ UNCHANGED <<taskVars, job>>
    BY <1>13 DEF Callback, RunRelease, Settle, CallbackDue
  <2> QED
    BY <1>1, <2>1 DEF TypeOK, Launched
<1>14. ASSUME \/ \E r \in Attempts : EmitTerminal(r) \/ Note(r) \/ Submit(r)
              \/ Observer \/ BeginShutdown \/ Lifespan
       PROVE  Launched'
  <2>1. UNCHANGED <<taskVars, job, callbacks>>
    BY <1>14 DEF EmitTerminal, Note, Submit, Observer, Observe, Observed, ObserverExits,
       BeginShutdown, Lifespan, WorkersIdle, TerminalsIdle, WaitTimesOut, RefuseShadows,
       ShadowsDrain, ObserverJoins, CloseSink, Flush
  <2> QED
    BY <1>1, <2>1 DEF Launched
<1> QED
  BY <1>2, <1>4, <1>5, <1>6, <1>7, <1>8, <1>9, <1>10, <1>11, <1>12, <1>13, <1>14
     DEF Next, Handler, Dispatch, Agent

-----------------------------------------------------------------------------
\* What a step may do to the admission slots.
LEMMA SlotTaken ==
  ASSUME Released, NEW r \in Attempts, r \notin Slots, Slots' = Slots \cup {r},
         active' = active + 1
  PROVE  IsFiniteSet(Slots') /\ active' = Cardinality(Slots')
BY FS_AddElement DEF Released

LEMMA SlotGiven ==
  ASSUME Released, NEW r \in Attempts, r \in Slots, Slots' = Slots \ {r},
         active' = active - 1
  PROVE  IsFiniteSet(Slots') /\ active' = Cardinality(Slots')
BY FS_RemoveElement DEF Released

LEMMA AppendOwes ==
  ASSUME TypeOK, NEW w \in Attempts, NEW c \in Attempts \cup {"release"},
         callbacks' = [callbacks EXCEPT ![w] = Append(@, c)]
  PROVE  /\ \A q \in Attempts : \A d : Owes(q, d)' <=> Owes(q, d) \/ (q = w /\ d = c)
         /\ Len(callbacks[w]) \in Nat
         /\ \A n \in DOMAIN callbacks'[w] :
              \/ n \in DOMAIN callbacks[w] /\ callbacks'[w][n] = callbacks[w][n]
              \/ n = Len(callbacks[w]) + 1 /\ callbacks'[w][n] = c
<1>1. callbacks[w] \in Seq(Attempts \cup {"release"}) /\ callbacks'[w] = Append(callbacks[w], c)
  BY DEF TypeOK
<1>2. /\ DOMAIN callbacks[w] = 1..Len(callbacks[w]) /\ Len(callbacks[w]) \in Nat
      /\ DOMAIN callbacks'[w] = 1..(Len(callbacks[w]) + 1)
      /\ callbacks'[w][Len(callbacks[w]) + 1] = c
      /\ \A n \in 1..Len(callbacks[w]) : callbacks'[w][n] = callbacks[w][n]
  BY <1>1
<1>3. \A n \in 1..(Len(callbacks[w]) + 1) :
        n \in 1..Len(callbacks[w]) \/ n = Len(callbacks[w]) + 1
  BY <1>2
<1>4. \A q \in Attempts : q # w => callbacks'[q] = callbacks[q]
  BY DEF TypeOK
<1>5. ASSUME NEW q \in Attempts, NEW d PROVE Owes(q, d)' <=> Owes(q, d) \/ (q = w /\ d = c)
  <2>1. CASE q # w
    BY <1>4, <2>1 DEF Owes
  <2>2. CASE q = w
    <3>1. Owes(w, d)' => Owes(w, d) \/ d = c
      BY <1>2, <1>3 DEF Owes
    <3>2. Owes(w, d) => Owes(w, d)'
      BY <1>2 DEF Owes
    <3>3. Len(callbacks[w]) + 1 \in DOMAIN callbacks'[w]
      BY <1>2
    <3> QED
      BY <1>2, <2>2, <3>1, <3>2, <3>3 DEF Owes
  <2> QED
    BY <2>1, <2>2
<1> QED
  BY <1>2, <1>3, <1>5

\* A done-callback that ran: "release" is registered first, so none is left.
LEMMA TailOwes ==
  ASSUME TypeOK, Released, NEW w \in Attempts, callbacks[w] # <<>>,
         callbacks' = [callbacks EXCEPT ![w] = Tail(@)]
  PROVE  /\ \A q \in Attempts : q # w => callbacks'[q] = callbacks[q]
         /\ Owes(w, "release") <=> Head(callbacks[w]) = "release"
         /\ \A n \in DOMAIN callbacks'[w] : callbacks'[w][n] # "release"
<1>1. callbacks'[w] = Tail(callbacks[w])
  BY DEF TypeOK
<1>2. \A q \in Attempts : q # w => callbacks'[q] = callbacks[q]
  BY DEF TypeOK
<1>3. Owes(w, "release") <=> Head(callbacks[w]) = "release"
  BY CallbackQueue DEF Released, Owes
<1>4. ASSUME NEW n \in DOMAIN callbacks'[w] PROVE callbacks'[w][n] # "release"
  <2>1. /\ n \in Nat \ {0} /\ n + 1 \in DOMAIN callbacks[w]
        /\ callbacks'[w][n] = callbacks[w][n + 1]
    BY <1>1, <1>4, CallbackQueue
  <2>2. n + 1 # 1
    BY <2>1
  <2> QED
    BY <2>1, <2>2 DEF Released
<1> QED
  BY <1>2, <1>3, <1>4

\* A step that touches no callback, no counter and no "releasing" coroutine.
LEMMA SlotsKept ==
  ASSUME Released, UNCHANGED <<callbacks, active>>,
         \A w \in Attempts : /\ task'[w] = "releasing" <=> task[w] = "releasing"
                             /\ Unfinished(w)' => Unfinished(w)
  PROVE  Released'
<1>1. Slots' = Slots
  BY DEF Slots, Owes
<1> QED
  BY <1>1 DEF Released

LEMMA ReleasedStep == ASSUME Inv, Next PROVE Released'
<1> USE DEF taskVars, jobVars, barrierVars, shadowVars, lifeVars, trailVars
<1>1. TypeOK /\ Launched /\ Released /\ Alone
  BY DEF Inv
<1>2. ASSUME NEW r \in Attempts, NEW v, v # "releasing", task[r] # "releasing",
             task' = [task EXCEPT ![r] = v],
             UNCHANGED <<callbacks, active>>,
             \A w \in Attempts : Unfinished(w)' => Unfinished(w)
      PROVE  Released'
  BY <1>1, <1>2, SlotsKept DEF TypeOK
<1>3. ASSUME NEW r \in Attempts,
             \/ Arrive(r) \/ Refuse(r) \/ (\E w \in Attempts : Join(r, w)) \/ Track(r)
             \/ Look(r) \/ LookAway(r) \/ Deliver(r) \/ DeliverCancelled(r) \/ Cancelled(r)
             \/ SendStart(r) \/ Respond(r) \/ DeferTerminal(r)
      PROVE  Released'
  <2>1. /\ \E v \in {"routing", "tracking", "attaching", "awaiting", "responding", "serving",
                     "sending", "finishing", "dispatching", "closed"} :
             task' = [task EXCEPT ![r] = v]
        /\ task[r] # "releasing" /\ UNCHANGED <<callbacks, active, job>>
    BY <1>3 DEF Arrive, Refuse, Join, Track, Look, LookAway, Deliver, Receive, DeliverCancelled,
       Cancelled, SendStart, Respond, DeferTerminal, Goto
  <2> QED
    BY <1>2, <2>1 DEF Unfinished
<1>4. ASSUME NEW r \in Attempts, Timeout(r) \/ Abort(r) PROVE Released'
  <2>1. /\ \E v \in {"cancelling", "aborting", "responding", "finishing"} :
             task' = [task EXCEPT ![r] = v]
        /\ task[r] # "releasing" /\ UNCHANGED <<callbacks, active>>
        /\ job' = [job EXCEPT ![work[r]] = "cancelled"] \/ UNCHANGED job
    BY <1>4 DEF Timeout, Abort, CancelWork, Goto
  <2>2. \A w \in Attempts : Unfinished(w)' => Unfinished(w)
    BY <1>1, <2>1 DEF Unfinished, TypeOK
  <2> QED
    BY <1>2, <2>1, <2>2
<1>5. ASSUME NEW r \in Attempts, ReleaseTerminal(r) PROVE Released'
  BY <1>1, <1>5, SlotsKept DEF ReleaseTerminal, Goto, TypeOK, Unfinished
<1>6. ASSUME NEW w \in Attempts, Start(w) \/ Finish(w) PROVE Released'
  <2>1. /\ \E v \in {"running", "served", "failed"} : job' = [job EXCEPT ![w] = v]
        /\ Unfinished(w) /\ UNCHANGED <<taskVars, callbacks, active>>
    BY <1>6 DEF Start, Finish, Unfinished
  <2>2. \A q \in Attempts : Unfinished(q)' => Unfinished(q)
    BY <1>1, <2>1 DEF Unfinished, TypeOK
  <2> QED
    BY <1>1, <2>1, <2>2, SlotsKept
<1>7. ASSUME \/ \E r \in Attempts : EmitTerminal(r) \/ Note(r) \/ Submit(r)
             \/ Observer \/ BeginShutdown \/ Lifespan
      PROVE  Released'
  <2>1. UNCHANGED <<taskVars, job, callbacks, active>>
    BY <1>7 DEF EmitTerminal, Note, Submit, Observer, Observe, Observed, ObserverExits,
       BeginShutdown, Lifespan, WorkersIdle, TerminalsIdle, WaitTimesOut, RefuseShadows,
       ShadowsDrain, ObserverJoins, CloseSink, Flush
  <2> QED
    BY <1>1, <2>1, SlotsKept DEF Unfinished
<1>8. ASSUME NEW r \in Attempts, Launch(r) PROVE Released'
  <2>1. callbacks[r] = <<>> /\ ~Owes(r, "release")
    <3>1. job[r] = "none"
      BY <1>1, <1>8 DEF Launch, Launched
    <3>2. DOMAIN <<>> = {}
      OBVIOUS
    <3> QED
      BY <1>1, <3>1, <3>2 DEF Launched, Owes
  <2>2. /\ task' = [task EXCEPT ![r] = "releasing"] /\ job' = [job EXCEPT ![r] = "queued"]
        /\ UNCHANGED callbacks /\ active' = active + 1 /\ task[r] = "routing"
    BY <1>8 DEF Launch, Goto
  <2>3. r \notin Slots /\ Slots' = Slots \cup {r}
    BY <1>1, <2>1, <2>2 DEF Slots, Owes, TypeOK
  <2>4. IsFiniteSet(Slots') /\ active' = Cardinality(Slots')
    BY <1>1, <2>2, <2>3, SlotTaken
  <2> QED
    BY <1>1, <2>1, <2>2, <2>3, <2>4 DEF Released, TypeOK, Unfinished
<1>9. ASSUME NEW r \in Attempts, RegisterRelease(r) PROVE Released'
  <2>1. task' = [task EXCEPT ![r] = "tracking"] /\ UNCHANGED job /\ task[r] = "releasing"
    BY <1>9 DEF RegisterRelease, Goto
  <2>2. callbacks[r] = <<>> /\ r \in Slots
    BY <1>1, <2>1 DEF Released, Slots
  <2>3. CASE Unfinished(r)
    <3>1. callbacks' = [callbacks EXCEPT ![r] = Append(@, "release")] /\ UNCHANGED active
      BY <1>9, <2>3 DEF RegisterRelease
    <3>2. \A q \in Attempts : \A d : Owes(q, d)' <=> Owes(q, d) \/ (q = r /\ d = "release")
      BY <1>1, <3>1, AppendOwes
    <3>3. Slots' = Slots
      BY <1>1, <2>1, <2>2, <3>2 DEF Slots, TypeOK
    <3>4. \A n \in DOMAIN callbacks'[r] : n = 1
      <4>1. DOMAIN <<>> = {} /\ Len(<<>>) = 0
        OBVIOUS
      <4> QED
        BY <1>1, <2>2, <3>1, <4>1, AppendOwes
    <3>5. \A q \in Attempts : q # r => callbacks'[q] = callbacks[q] /\ task'[q] = task[q]
      BY <1>1, <2>1, <3>1 DEF TypeOK
    <3>6. task'[r] # "releasing"
      BY <1>1, <2>1 DEF TypeOK
    <3> QED
      BY <1>1, <2>1, <3>1, <3>3, <3>4, <3>5, <3>6 DEF Released, Unfinished
  <2>4. CASE ~Unfinished(r)
    <3>1. active' = active - 1 /\ UNCHANGED callbacks
      BY <1>9, <2>4 DEF RegisterRelease
    <3>2. ~Owes(r, "release")
      <4>1. DOMAIN <<>> = {}
        OBVIOUS
      <4> QED
        BY <2>2, <4>1 DEF Owes
    <3>3. Slots' = Slots \ {r}
      BY <1>1, <2>1, <3>1, <3>2 DEF Slots, Owes, TypeOK
    <3>4. IsFiniteSet(Slots') /\ active' = Cardinality(Slots')
      BY <1>1, <2>2, <3>1, <3>3, SlotGiven
    <3> QED
      BY <1>1, <2>1, <2>4, <3>1, <3>3, <3>4 DEF Released, Unfinished, TypeOK
  <2> QED
    BY <2>3, <2>4
<1>10. ASSUME NEW r \in Attempts, Attach(r) PROVE Released'
  <2>1. /\ \E v \in {"looking", "awaiting"} : task' = [task EXCEPT ![r] = v]
        /\ UNCHANGED <<active, job>> /\ task[r] = "attaching" /\ work[r] \in Attempts
    BY <1>1, <1>10 DEF Attach, Goto, Launched, Waiting
  <2>2. CASE UNCHANGED callbacks
    BY <1>2, <2>1, <2>2 DEF Unfinished
  <2>3. CASE callbacks' = [callbacks EXCEPT ![work[r]] = Append(@, r)]
    <3>1. \A q \in Attempts : \A d : Owes(q, d)' <=> Owes(q, d) \/ (q = work[r] /\ d = r)
      BY <1>1, <2>1, <2>3, AppendOwes
    <3>2. r # "release"
      BY TrailAssumption
    <3>3. Slots' = Slots
      BY <1>1, <2>1, <3>1, <3>2 DEF Slots, TypeOK
    <3>4. task[work[r]] # "releasing"
      BY <1>1, <2>1 DEF Alone, Segment
    <3>5. \A n \in DOMAIN callbacks'[work[r]] : callbacks'[work[r]][n] = "release" => n = 1
      BY <1>1, <2>1, <2>3, <3>2, AppendOwes DEF Released
    <3>6. \A q \in Attempts : q # work[r] => callbacks'[q] = callbacks[q]
      BY <1>1, <2>1, <2>3 DEF TypeOK
    <3>7. \A q \in Attempts : task'[q] = "releasing" <=> task[q] = "releasing"
      BY <1>1, <2>1 DEF TypeOK
    <3> QED
      BY <1>1, <2>1, <3>3, <3>4, <3>5, <3>6, <3>7 DEF Released, Unfinished
  <2> QED
    BY <1>10, <2>2, <2>3 DEF Attach
<1>11. ASSUME NEW w \in Attempts, RunRelease(w) PROVE Released'
  <2>1. /\ callbacks[w] # <<>> /\ Head(callbacks[w]) = "release" /\ ~Unfinished(w)
        /\ callbacks' = [callbacks EXCEPT ![w] = Tail(@)]
        /\ active' = active - 1 /\ UNCHANGED <<task, job>>
    BY <1>11 DEF RunRelease, CallbackDue
  <2>2. /\ \A q \in Attempts : q # w => callbacks'[q] = callbacks[q]
        /\ Owes(w, "release")
        /\ \A n \in DOMAIN callbacks'[w] : callbacks'[w][n] # "release"
    BY <1>1, <2>1, TailOwes
  <2>3. task[w] # "releasing"
    BY <1>1, <2>1 DEF Released
  <2>4. w \in Slots /\ Slots' = Slots \ {w}
    BY <2>1, <2>2, <2>3 DEF Slots, Owes
  <2>5. IsFiniteSet(Slots') /\ active' = Cardinality(Slots')
    BY <1>1, <2>1, <2>4, SlotGiven
  <2> QED
    BY <1>1, <2>1, <2>2, <2>3, <2>4, <2>5 DEF Released, Unfinished
<1>12. ASSUME NEW w \in Attempts, Settle(w) PROVE Released'
  <2>1. /\ callbacks[w] # <<>> /\ Head(callbacks[w]) # "release" /\ ~Unfinished(w)
        /\ callbacks' = [callbacks EXCEPT ![w] = Tail(@)]
        /\ UNCHANGED <<task, job, active>>
    BY <1>12 DEF Settle, CallbackDue
  <2>2. /\ \A q \in Attempts : q # w => callbacks'[q] = callbacks[q]
        /\ ~Owes(w, "release")
        /\ \A n \in DOMAIN callbacks'[w] : callbacks'[w][n] # "release"
    BY <1>1, <2>1, TailOwes
  <2>3. task[w] # "releasing"
    BY <1>1, <2>1 DEF Released
  <2>4. Slots' = Slots
    BY <2>1, <2>2, <2>3 DEF Slots, Owes
  <2> QED
    BY <1>1, <2>1, <2>2, <2>3, <2>4 DEF Released, Unfinished
<1> QED
  BY <1>3, <1>4, <1>5, <1>6, <1>7, <1>8, <1>9, <1>10, <1>11, <1>12
     DEF Next, Handler, Dispatch, Agent, Callback

-----------------------------------------------------------------------------
\* Which actions change what.
LEMMA Changes ==
  ASSUME Next
  PROVE  /\ UNCHANGED active
              \/ \E r \in Attempts : Launch(r) \/ RegisterRelease(r) \/ RunRelease(r)
         /\ UNCHANGED <<drainHeld, unwritten>>
              \/ \E r \in Attempts : Track(r) \/ ReleaseTerminal(r)
         /\ UNCHANGED terminal
              \/ \E r \in Attempts :
                   DeferTerminal(r) \/ EmitTerminal(r) \/ ReleaseTerminal(r) \/ Settle(r)
         /\ UNCHANGED <<stage, drained>> \/ BeginShutdown \/ Lifespan
<1> USE DEF taskVars, jobVars, barrierVars, shadowVars, lifeVars, trailVars
<1>1. ASSUME NEW r \in Attempts,
             \/ Arrive(r) \/ Refuse(r) \/ (\E w \in Attempts : Join(r, w)) \/ Attach(r)
             \/ Look(r) \/ LookAway(r) \/ Deliver(r) \/ DeliverCancelled(r) \/ Timeout(r)
             \/ Cancelled(r) \/ SendStart(r) \/ Respond(r) \/ Abort(r) \/ Start(r) \/ Agent(r)
      PROVE  UNCHANGED <<active, drainHeld, unwritten, terminal, stage, drained>>
  BY <1>1 DEF Arrive, Refuse, Join, Attach, Look, LookAway, Deliver, Receive, DeliverCancelled,
     Timeout, Cancelled, SendStart, Respond, Abort, Start, Agent, Note, Submit, Finish
<1>2. ASSUME NEW r \in Attempts, Launch(r) \/ RegisterRelease(r) \/ RunRelease(r)
      PROVE  UNCHANGED <<drainHeld, unwritten, terminal, stage, drained>>
  BY <1>2 DEF Launch, RegisterRelease, RunRelease
<1>3. ASSUME NEW r \in Attempts, Track(r)
      PROVE  UNCHANGED <<active, terminal, stage, drained>>
  BY <1>3 DEF Track
<1>4. ASSUME NEW r \in Attempts, DeferTerminal(r) \/ EmitTerminal(r) \/ Settle(r)
      PROVE  UNCHANGED <<active, drainHeld, unwritten, stage, drained>>
  BY <1>4 DEF DeferTerminal, EmitTerminal, Settle
<1>5. ASSUME NEW r \in Attempts, ReleaseTerminal(r)
      PROVE  UNCHANGED <<active, stage, drained>>
  BY <1>5 DEF ReleaseTerminal
<1>6. ASSUME Observer PROVE UNCHANGED <<active, drainHeld, unwritten, terminal, stage, drained>>
  BY <1>6 DEF Observer, Observe, Observed, ObserverExits
<1>7. ASSUME BeginShutdown \/ Lifespan PROVE UNCHANGED <<active, drainHeld, unwritten, terminal>>
  BY <1>7 DEF BeginShutdown, Lifespan, WorkersIdle, TerminalsIdle, WaitTimesOut, RefuseShadows,
     ShadowsDrain, ObserverJoins, CloseSink, Flush
<1> QED
  BY <1>1, <1>2, <1>3, <1>4, <1>5, <1>6, <1>7 DEF Next, Handler, Dispatch, Callback

-----------------------------------------------------------------------------
\* What an attempt's terminal waits for, and what it holds meanwhile.
Due(r) ==
  /\ pending[r] # {} => terminal[r] \in {"open", "deferred"} /\ drainHeld[r]
  /\ task[r] \in {"new", "routing", "releasing", "tracking"} =>
       pending[r] = {} /\ ~drainHeld[r]
  /\ Unfinished(r) => task[r] \in {"releasing", "tracking"} \/ r \in pending[r]
  /\ task[r] \notin {"dispatching", "closed"} => terminal[r] = "open"
  /\ task[r] = "dispatching" => terminal[r] \in {"emitting", "emitted"}
  /\ task[r] = "closed" => terminal[r] # "open" /\ (terminal[r] = "over" \/ drainHeld[r])

LEMMA DueStep == ASSUME Inv, Next, NEW q \in Attempts PROVE Due(q)'
<1> USE DEF taskVars, jobVars, barrierVars, shadowVars, lifeVars, trailVars
<1>1. TypeOK /\ Launched /\ (\A r \in Attempts : Due(r))
  BY DEF Inv, Tracked, Due
<1>2. ASSUME NEW r \in Attempts, NEW v, task' = [task EXCEPT ![r] = v],
             {task[r], v} \cap {"dispatching", "closed"} = {},
             v \in {"new", "routing", "releasing", "tracking"} =>
               task[r] \in {"new", "routing", "releasing", "tracking"},
             task[r] \in {"releasing", "tracking"} => v \in {"releasing", "tracking"},
             UNCHANGED <<pending, terminal, drainHeld>>,
             Unfinished(q)' => Unfinished(q)
      PROVE  Due(q)'
  <2>1. CASE q = r
    BY <1>1, <1>2, <2>1 DEF Due, TypeOK
  <2>2. CASE q # r
    BY <1>1, <1>2, <2>2 DEF Due, TypeOK
  <2> QED
    BY <2>1, <2>2
<1>3. ASSUME NEW r \in Attempts,
             \/ Arrive(r) \/ Refuse(r) \/ (\E w \in Attempts : Join(r, w)) \/ RegisterRelease(r)
             \/ Look(r) \/ LookAway(r) \/ Deliver(r) \/ DeliverCancelled(r) \/ Cancelled(r)
             \/ SendStart(r) \/ Respond(r)
      PROVE  Due(q)'
  <2>1. CASE Arrive(r)
    BY <1>2, <2>1 DEF Arrive, Goto, Unfinished
  <2>2. CASE (\E w \in Attempts : Join(r, w)) \/ RegisterRelease(r)
    BY <1>2, <2>2 DEF Join, RegisterRelease, Goto, Unfinished
  <2>3. CASE \/ Refuse(r) \/ Look(r) \/ LookAway(r) \/ Deliver(r) \/ DeliverCancelled(r)
             \/ Cancelled(r) \/ SendStart(r) \/ Respond(r)
    <3>1. /\ \E v \in {"awaiting", "responding", "serving", "sending", "finishing"} :
               task' = [task EXCEPT ![r] = v]
          /\ task[r] \in {"routing", "looking", "awaiting", "cancelling", "aborting", "responding",
                          "serving", "sending"}
          /\ UNCHANGED <<job, pending, terminal, drainHeld>>
      BY <2>3 DEF Refuse, Look, LookAway, Deliver, Receive, DeliverCancelled, Cancelled,
         SendStart, Respond, Goto
    <3> QED
      BY <1>2, <3>1 DEF Unfinished
  <2> QED
    BY <1>3, <2>1, <2>2, <2>3
<1>4. ASSUME NEW r \in Attempts, Timeout(r) \/ Abort(r) PROVE Due(q)'
  <2>1. /\ \E v \in {"cancelling", "aborting", "responding", "finishing"} :
             task' = [task EXCEPT ![r] = v]
        /\ task[r] = "awaiting" /\ UNCHANGED <<pending, terminal, drainHeld>>
        /\ job' = [job EXCEPT ![work[r]] = "cancelled"] \/ UNCHANGED job
    BY <1>4 DEF Timeout, Abort, CancelWork, Goto
  <2>2. Unfinished(q)' => Unfinished(q)
    BY <1>1, <2>1 DEF Unfinished, TypeOK
  <2> QED
    BY <1>2, <2>1, <2>2
<1>5. ASSUME NEW r \in Attempts, Launch(r) PROVE Due(q)'
  BY <1>1, <1>5 DEF Launch, Goto, Due, Unfinished, TypeOK
<1>6. ASSUME NEW r \in Attempts, Track(r) PROVE Due(q)'
  <2>1. job[r] # "none" => work[r] = r
    BY <1>1 DEF Launched
  <2> QED
    BY <1>1, <1>6, <2>1 DEF Track, Goto, Due, Unfinished, TypeOK
<1>7. ASSUME NEW r \in Attempts, Attach(r) PROVE Due(q)'
  <2>1. job[r] # "none" => work[r] = r
    BY <1>1 DEF Launched
  <2>2. /\ \E v \in {"looking", "awaiting"} : task' = [task EXCEPT ![r] = v]
        /\ task[r] = "attaching" /\ UNCHANGED <<terminal, drainHeld, job>>
    BY <1>7 DEF Attach, Goto
  <2>3. UNCHANGED pending \/ (~Unfinished(work[r]) /\ pending' = [pending EXCEPT ![r] = {}])
    BY <1>7 DEF Attach
  <2> QED
    BY <1>1, <2>1, <2>2, <2>3 DEF Due, Unfinished, TypeOK
<1>8. ASSUME NEW r \in Attempts, DeferTerminal(r) PROVE Due(q)'
  BY <1>1, <1>8 DEF DeferTerminal, Goto, Due, Unfinished, TypeOK
<1>9. ASSUME NEW r \in Attempts, EmitTerminal(r) PROVE Due(q)'
  BY <1>1, <1>9 DEF EmitTerminal, Due, Unfinished, TypeOK
<1>10. ASSUME NEW r \in Attempts, ReleaseTerminal(r) PROVE Due(q)'
  BY <1>1, <1>10 DEF ReleaseTerminal, Goto, Due, Unfinished, TypeOK
<1>11. ASSUME NEW w \in Attempts, Start(w) \/ Finish(w) PROVE Due(q)'
  <2>1. /\ \E v \in {"running", "served", "failed"} : job' = [job EXCEPT ![w] = v]
        /\ Unfinished(w) /\ UNCHANGED <<task, pending, terminal, drainHeld>>
    BY <1>11 DEF Start, Finish, Unfinished
  <2>2. Unfinished(q)' => Unfinished(q)
    BY <1>1, <2>1 DEF Unfinished, TypeOK
  <2> QED
    BY <1>1, <2>1, <2>2 DEF Due
<1>12. ASSUME NEW w \in Attempts, Settle(w) PROVE Due(q)'
  <2>1. callbacks[w] # <<>> /\ Head(callbacks[w]) # "release" /\ ~Unfinished(w)
    BY <1>12 DEF Settle, CallbackDue
  <2>2. Head(callbacks[w]) \in Attempts
    BY <1>1, <2>1, CallbackQueue
  <2>3. PICK r \in Attempts : r = Head(callbacks[w])
    BY <2>2
  <2>4. /\ pending' = [pending EXCEPT ![r] = @ \ {w}]
        /\ UNCHANGED <<task, job, drainHeld>>
        /\ \/ UNCHANGED terminal
           \/ /\ terminal[r] = "deferred" /\ pending[r] \subseteq {w}
              /\ terminal' = [terminal EXCEPT ![r] = "emitting"]
    BY <1>1, <1>12, <2>3 DEF Settle, TypeOK
  <2>5. q # r => pending'[q] = pending[q] /\ terminal'[q] = terminal[q]
    BY <1>1, <2>4 DEF TypeOK
  <2>6. pending'[r] = pending[r] \ {w}
    BY <1>1, <2>4 DEF TypeOK
  <2>7. \/ terminal'[r] = terminal[r]
        \/ terminal[r] = "deferred" /\ terminal'[r] = "emitting" /\ pending'[r] = {}
    BY <1>1, <2>4, <2>6 DEF TypeOK
  <2> QED
    BY <1>1, <2>1, <2>4, <2>5, <2>6, <2>7 DEF Due, Unfinished
<1>13. ASSUME \/ \E r \in Attempts : Note(r) \/ Submit(r) \/ RunRelease(r)
              \/ Observer \/ BeginShutdown \/ Lifespan
       PROVE  Due(q)'
  <2>1. UNCHANGED <<task, job, pending, terminal, drainHeld>>
    BY <1>13 DEF Note, Submit, RunRelease, Observer, Observe, Observed, ObserverExits,
       BeginShutdown, Lifespan, WorkersIdle, TerminalsIdle, WaitTimesOut, RefuseShadows,
       ShadowsDrain, ObserverJoins, CloseSink, Flush
  <2> QED
    BY <1>1, <2>1 DEF Due, Unfinished
<1> QED
  BY <1>3, <1>4, <1>5, <1>6, <1>7, <1>8, <1>9, <1>10, <1>11, <1>12, <1>13
     DEF Next, Handler, Dispatch, Agent, Callback

\* The terminal is in the trail when the barrier says it was emitted.
LEMMA TrackedStep == ASSUME Inv, Next PROVE Tracked'
<1>1. TypeOK /\ Tracked
  BY DEF Inv
<1>2. {"started", "event", "terminal", "shadow"} \subseteq Stages
  BY DEF Stages
<1>3. ASSUME NEW q \in Attempts
      PROVE  (Wrote(q, "terminal") <=> terminal[q] \in {"emitted", "over"})'
  <2>1. CASE \E i \in Attempts : EmitTerminal(i)
    <3>1. PICK i \in Attempts : EmitTerminal(i)
      BY <2>1
    <3>2. Wrote(q, "terminal")' <=> Wrote(q, "terminal") \/ q = i
      BY <1>1, <1>2, <3>1, EmitWrote DEF EmitTerminal
    <3>3. terminal' = [terminal EXCEPT ![i] = "emitted"]
      BY <3>1 DEF EmitTerminal
    <3> QED
      BY <1>1, <3>2, <3>3 DEF Tracked, TypeOK
  <2>2. CASE ~\E i \in Attempts : EmitTerminal(i)
    <3>1. Wrote(q, "terminal")' <=> Wrote(q, "terminal")
      <4>1. CASE UNCHANGED trail
        BY <4>1, SilentWrote
      <4>2. ASSUME NEW i \in Attempts, NEW s \in Stages \ {"terminal"}, Emit(i, s)
            PROVE  Wrote(q, "terminal")' <=> Wrote(q, "terminal")
        BY <1>1, <1>2, <4>2, EmitWrote
      <4>3. /\ "started" \in Stages \ {"terminal"} /\ "event" \in Stages \ {"terminal"}
            /\ "shadow" \in Stages \ {"terminal"}
        BY <1>2
      <4> QED
        BY <2>2, <4>1, <4>2, <4>3, WriteStep
    <3>2. terminal'[q] \in {"emitted", "over"} <=> terminal[q] \in {"emitted", "over"}
      <4>1. ASSUME NEW r \in Attempts, DeferTerminal(r)
            PROVE  terminal'[q] \in {"emitted", "over"} <=> terminal[q] \in {"emitted", "over"}
        <5>1. terminal[r] = "open"
          BY <1>1, <4>1 DEF DeferTerminal, Tracked
        <5> QED
          BY <1>1, <4>1, <5>1 DEF DeferTerminal, TypeOK
      <4>2. ASSUME NEW r \in Attempts, ReleaseTerminal(r)
            PROVE  terminal'[q] \in {"emitted", "over"} <=> terminal[q] \in {"emitted", "over"}
        BY <1>1, <4>2 DEF ReleaseTerminal, TypeOK
      <4>3. ASSUME NEW w \in Attempts, Settle(w)
            PROVE  terminal'[q] \in {"emitted", "over"} <=> terminal[q] \in {"emitted", "over"}
        <5>1. UNCHANGED terminal \/ \E r : /\ terminal[r] = "deferred"
                                          /\ terminal' = [terminal EXCEPT ![r] = "emitting"]
          BY <1>1, <4>3 DEF Settle, TypeOK
        <5> QED
          BY <1>1, <5>1 DEF TypeOK
      <4> QED
        BY <2>2, <4>1, <4>2, <4>3, Changes
    <3> QED
      BY <1>1, <3>1, <3>2 DEF Tracked
  <2> QED
    BY <2>1, <2>2
<1>4. \A q \in Attempts : Due(q)'
  BY DueStep
<1> QED
  BY <1>3, <1>4 DEF Tracked, Due

LEMMA RegisteredStep == ASSUME Inv, Next PROVE Registered'
<1> USE DEF taskVars, jobVars, barrierVars, shadowVars, lifeVars, trailVars
<1>1. TypeOK /\ Tracked /\ Registered
  BY DEF Inv
<1>2. CASE UNCHANGED <<drainHeld, unwritten>>
  BY <1>1, <1>2 DEF Registered, Registrations
<1>3. ASSUME NEW r \in Attempts, Track(r) PROVE Registered'
  <2>1. r \notin Registrations /\ Registrations' = Registrations \cup {r}
    BY <1>1, <1>3 DEF Track, Tracked, Registrations, TypeOK
  <2> QED
    BY <1>1, <1>3, <2>1, FS_AddElement DEF Track, Registered
<1>4. ASSUME NEW r \in Attempts, ReleaseTerminal(r) PROVE Registered'
  <2>1. Registrations' = Registrations \ {r}
    BY <1>1, <1>4 DEF ReleaseTerminal, Registrations, TypeOK
  <2>2. CASE drainHeld[r]
    <3>1. r \in Registrations /\ unwritten' = unwritten - 1
      BY <1>4, <2>2 DEF ReleaseTerminal, Registrations
    <3> QED
      BY <1>1, <2>1, <3>1, FS_RemoveElement DEF Registered
  <2>3. CASE ~drainHeld[r]
    <3>1. Registrations' = Registrations /\ unwritten' = unwritten
      BY <1>4, <2>1, <2>3 DEF ReleaseTerminal, Registrations
    <3> QED
      BY <1>1, <3>1 DEF Registered
  <2> QED
    BY <2>2, <2>3
<1> QED
  BY <1>2, <1>3, <1>4, Changes

-----------------------------------------------------------------------------
\* After the last coroutine, the counters only fall, and at zero they stay.
LEMMA LateStep ==
  ASSUME Inv, Next, stage # "serving"
  PROVE  /\ UNCHANGED task
         /\ active = 0 => UNCHANGED active
         /\ unwritten = 0 => UNCHANGED unwritten
<1>1. TypeOK /\ Cascade /\ Released /\ Registered
  BY DEF Inv
<1>2. \A r \in Attempts : task[r] \in {"new", "closed"}
  BY <1>1 DEF Cascade
<1>3. ASSUME NEW r \in Attempts, NEW v, Move(r, v) PROVE FALSE
  BY <1>2, <1>3 DEF Move, Arrive
<1>4. UNCHANGED task
  BY <1>1, <1>3, TaskStep
<1>5. ASSUME active = 0 PROVE UNCHANGED active
  <2>1. ASSUME NEW r \in Attempts, Launch(r) \/ RegisterRelease(r) PROVE FALSE
    BY <1>2, <2>1 DEF Launch, RegisterRelease
  <2>2. ASSUME NEW w \in Attempts, RunRelease(w) PROVE FALSE
    <3>1. callbacks[w] # <<>> /\ Head(callbacks[w]) = "release"
      BY <2>2 DEF RunRelease, CallbackDue
    <3>2. w \in Slots
      BY <1>1, <3>1, CallbackQueue DEF Slots, Owes
    <3> QED
      BY <1>1, <1>5, <3>2, HolderCounted
  <2> QED
    BY <2>1, <2>2, Changes
<1>6. ASSUME unwritten = 0 PROVE UNCHANGED unwritten
  <2>1. ASSUME NEW r \in Attempts, Track(r) PROVE FALSE
    BY <1>2, <2>1 DEF Track
  <2>2. ASSUME NEW r \in Attempts, ReleaseTerminal(r) PROVE UNCHANGED unwritten
    <3>1. ~drainHeld[r]
      BY <1>1, <1>6, HolderCounted DEF Registrations
    <3> QED
      BY <2>2, <3>1 DEF ReleaseTerminal
  <2> QED
    BY <2>1, <2>2, Changes
<1> QED
  BY <1>4, <1>5, <1>6

LEMMA CascadeStep == ASSUME Inv, Next PROVE Cascade'
<1>1. TypeOK /\ Cascade
  BY DEF Inv
<1>2. CASE UNCHANGED <<stage, drained>>
  <2>1. CASE stage = "serving"
    BY <1>2, <2>1 DEF Cascade, Past
  <2>2. CASE stage # "serving"
    BY <1>1, <1>2, <2>2, LateStep DEF Cascade
  <2> QED
    BY <2>1, <2>2
<1>3. CASE BeginShutdown
  BY <1>3 DEF BeginShutdown, Shutdown, Cascade, Past, taskVars
<1>4. CASE Lifespan
  <2>1. UNCHANGED <<task, active, unwritten>>
    BY <1>4 DEF Lifespan, WorkersIdle, TerminalsIdle, WaitTimesOut, RefuseShadows, ShadowsDrain,
       ObserverJoins, CloseSink, Flush, taskVars, jobVars, barrierVars
  <2>2. CASE WorkersIdle
    BY <1>1, <2>1, <2>2 DEF WorkersIdle, Shutdown, Cascade, Past
  <2>3. CASE TerminalsIdle
    BY <1>1, <2>1, <2>3 DEF TerminalsIdle, Shutdown, Cascade, Past
  <2>4. CASE WaitTimesOut
    BY <1>1, <2>1, <2>4 DEF WaitTimesOut, Shutdown, Cascade, Past
  <2>5. CASE RefuseShadows \/ ShadowsDrain \/ ObserverJoins \/ CloseSink
             \/ \E ok \in BOOLEAN : Flush(ok)
    <3>1. stage \in Past /\ stage' \in Past /\ (drained' => drained)
      BY <2>5 DEF RefuseShadows, ShadowsDrain, ObserverJoins, CloseSink, Flush, Shutdown, Past
    <3> QED
      BY <1>1, <2>1, <3>1 DEF Cascade, Past
  <2> QED
    BY <1>4, <2>2, <2>3, <2>4, <2>5 DEF Lifespan
<1> QED
  BY <1>2, <1>3, <1>4, Changes

LEMMA ShadowsStep == ASSUME Inv, Next PROVE Shadows'
<1> USE DEF taskVars, jobVars, barrierVars, shadowVars, lifeVars, trailVars
<1>1. TypeOK /\ Launched /\ Shadows
  BY DEF Inv
<1>2. \A r \in Attempts : task[r] # "new" => task'[r] # "new"
  <2> TAKE r \in Attempts
  <2>1. CASE UNCHANGED task
    BY <2>1
  <2>2. ASSUME NEW q \in Attempts, NEW v, Move(q, v) PROVE task[r] # "new" => task'[r] # "new"
    BY <1>1, <2>2 DEF Move, TypeOK
  <2> QED
    BY <1>1, <2>1, <2>2, TaskStep
<1>3. backlog \in Seq(Attempts) /\ DOMAIN backlog = 1..Len(backlog) /\ Len(backlog) \in Nat
      /\ \A n \in DOMAIN backlog : backlog[n] \in Attempts
  BY <1>1 DEF TypeOK
<1>4. /\ \A n \in DOMAIN backlog : task[backlog[n]] # "new"
      /\ observing # Loop => task[observing] # "new"
  BY <1>1 DEF Shadows
<1>5. ASSUME UNCHANGED <<shadowOpen, backlog, observing, stage, drained>> PROVE Shadows'
  BY <1>1, <1>2, <1>3, <1>5 DEF Shadows, TypeOK
<1>6. ASSUME NEW r \in Attempts, Arrive(r) \/ Handler(r) \/ Abort(r) \/ Dispatch(r) PROVE Shadows'
  <2>1. UNCHANGED shadowVars /\ UNCHANGED <<stage, drained>>
    BY <1>6 DEF Arrive, Handler, Abort, Dispatch, Refuse, Launch, Join, RegisterRelease, Track,
       Attach, Look, LookAway, Deliver, Receive, DeliverCancelled, Timeout, Cancelled, SendStart,
       Respond, DeferTerminal, EmitTerminal, ReleaseTerminal
  <2> QED
    BY <1>5, <2>1
<1>7. ASSUME NEW r \in Attempts, Start(r) \/ Note(r) \/ Finish(r) \/ Callback(r) PROVE Shadows'
  <2>1. UNCHANGED shadowVars /\ UNCHANGED <<stage, drained>>
    BY <1>7 DEF Start, Note, Finish, Callback, RunRelease, Settle
  <2> QED
    BY <1>5, <2>1
<1>8. ASSUME NEW w \in Attempts, Submit(w) PROVE Shadows'
  <2>1. task[w] # "new"
    BY <1>1, <1>8 DEF Submit, Launched
  <2>2. /\ UNCHANGED <<shadowOpen, observing, stage, drained>>
        /\ UNCHANGED backlog \/ (shadowOpen /\ backlog' = Append(backlog, w))
    BY <1>8 DEF Submit
  <2>3. CASE UNCHANGED backlog
    BY <1>5, <2>2, <2>3
  <2>4. CASE shadowOpen /\ backlog' = Append(backlog, w)
    <3>1. \A n \in DOMAIN backlog' :
            (n \in DOMAIN backlog /\ backlog'[n] = backlog[n]) \/ backlog'[n] = w
      BY <1>3, <2>4
    <3>2. \A n \in DOMAIN backlog' : task'[backlog'[n]] # "new"
      BY <1>2, <1>3, <1>4, <2>1, <3>1
    <3> QED
      BY <1>1, <1>2, <2>2, <2>4, <3>2 DEF Shadows, Past, TypeOK
  <2> QED
    BY <2>2, <2>3, <2>4
<1>9. ASSUME Observe PROVE Shadows'
  <2>1. /\ UNCHANGED <<shadowOpen, stage, drained, task>> /\ backlog # <<>>
        /\ observing' = Head(backlog) /\ backlog' = Tail(backlog)
    BY <1>9 DEF Observe
  <2>2. /\ 1 \in DOMAIN backlog /\ observing' = backlog[1]
        /\ \A n \in DOMAIN backlog' : n + 1 \in DOMAIN backlog /\ backlog'[n] = backlog[n + 1]
    BY <1>3, <2>1
  <2>3. task[observing'] # "new" /\ \A n \in DOMAIN backlog' : task[backlog'[n]] # "new"
    BY <1>4, <2>2
  <2> QED
    BY <1>1, <2>1, <2>3 DEF Shadows, Past
<1>10. ASSUME Observed PROVE Shadows'
  BY <1>1, <1>10 DEF Observed, Shadows
<1>11. ASSUME ObserverExits PROVE Shadows'
  BY <1>5, <1>11 DEF ObserverExits
<1>12. ASSUME BeginShutdown \/ Lifespan PROVE Shadows'
  <2>1. UNCHANGED <<task, backlog, observing>>
    BY <1>12 DEF BeginShutdown, Lifespan, WorkersIdle, TerminalsIdle, WaitTimesOut,
       RefuseShadows, ShadowsDrain, ObserverJoins, CloseSink, Flush
  <2>2. stage' \in Past \ {"shadow"} => ~shadowOpen'
    BY <1>1, <1>12 DEF Shadows, BeginShutdown, Lifespan, WorkersIdle, TerminalsIdle,
       WaitTimesOut, RefuseShadows, ShadowsDrain, ObserverJoins, CloseSink, Flush, Shutdown, Past
  <2>3. stage' \in {"joining", "audit", "flushing", "over"} /\ drained' =>
          backlog = <<>> /\ observing = Loop
    BY <1>1, <1>12 DEF Shadows, BeginShutdown, Lifespan, WorkersIdle, TerminalsIdle,
       WaitTimesOut, RefuseShadows, ShadowsDrain, ObserverJoins, CloseSink, Flush, Shutdown
  <2> QED
    BY <1>4, <2>1, <2>2, <2>3 DEF Shadows
<1> QED
  BY <1>6, <1>7, <1>8, <1>9, <1>10, <1>11, <1>12 DEF Next, Agent, Observer

-----------------------------------------------------------------------------
LEMMA InvStep == Inv /\ [Next]_vars => Inv'
<1>1. ASSUME Inv, Next PROVE Inv'
  BY <1>1, TypeStep, AloneStep, BegunStep, LaunchedStep, ReleasedStep, TrackedStep,
     RegisteredStep, CascadeStep, ShadowsStep DEF Inv
<1>2. ASSUME Inv, UNCHANGED vars PROVE Inv'
  <2> USE DEF vars, taskVars, jobVars, barrierVars, shadowVars, lifeVars, trailVars
  <2>1. TypeOK' /\ Alone' /\ Begun' /\ Launched'
    BY <1>2 DEF Inv, TypeOK, Alone, Begun, Launched, Wrote
  <2>2. Released' /\ Registered'
    <3>1. Slots' = Slots /\ Registrations' = Registrations
      BY <1>2 DEF Slots, Registrations, Owes
    <3> QED
      BY <1>2, <3>1 DEF Inv, Released, Registered, Unfinished
  <2>3. Tracked'
    BY <1>2 DEF Inv, Tracked, Wrote, Unfinished
  <2>4. Cascade' /\ Shadows'
    BY <1>2 DEF Inv, Cascade, Shadows
  <2> QED
    BY <2>1, <2>2, <2>3, <2>4 DEF Inv
<1> QED
  BY <1>1, <1>2

\* The inductive invariant holds: every admission slot and every drain
\* registration has the holder its counter stands for, and the shutdown
\* cascade passes a stage only when nobody holds one.
THEOREM InductiveInvariant == Spec => []Inv
BY InitInv, InvStep, PTL DEF Spec

\* Every variable keeps its shape: ProcessAdmission never releases a slot it
\* did not grant and never grants more than MaxInflight, the pending terminals
\* are never released twice, the observer's queue keeps to its capacity.
THEOREM TypeCorrect == Spec => []TypeOK
<1>1. Inv => TypeOK
  BY DEF Inv
<1> QED
  BY <1>1, InductiveInvariant, PTL

\* When wait_for_request_workers has returned True no Agent worker runs, and
\* every attempt that arrived has its terminal in the trail.
LEMMA InvQuiet == Inv => QuietOnceWaited
<1> SUFFICES ASSUME Inv, stage \in Past, drained, NEW r \in Attempts
             PROVE  ~Unfinished(r) /\ (task[r] # "new" => Wrote(r, "terminal"))
  BY DEF QuietOnceWaited, Past
<1>1. active = 0 /\ unwritten = 0 /\ task[r] \in {"new", "closed"}
  BY DEF Inv, Cascade, Past
<1>2. ~Unfinished(r)
  <2>1. r \notin Slots
    BY <1>1, HolderCounted DEF Inv
  <2> QED
    BY <2>1 DEF Inv, Released
<1>3. ASSUME task[r] = "closed" PROVE Wrote(r, "terminal")
  <2>1. ~drainHeld[r]
    BY <1>1, HolderCounted DEF Inv, Registrations
  <2> QED
    BY <1>3, <2>1 DEF Inv, Tracked
<1> QED
  BY <1>1, <1>2, <1>3

THEOREM NothingRunsOnceWaited == Spec => []QuietOnceWaited
BY InvQuiet, InductiveInvariant, PTL

-----------------------------------------------------------------------------
(***************************************************************************)
(* Refinement: the trail obeys InvocationLifecycle.                        *)
(***************************************************************************)
LEMMA HasWrote == \A r, s : Contract!Has(r, s) <=> Wrote(r, s)
BY DEF Contract!Has, Wrote

\* A trail that is sealed complete is one nobody can write into any more.
LEMMA CompleteIsFinal ==
  ASSUME Inv, stage \in {"flushing", "over"}, drained
  PROVE  /\ \A r \in Attempts : task[r] # "new" => terminal[r] = "over"
         /\ \A r \in Attempts : task[r] \in {"new", "closed"} /\ ~Unfinished(r)
         /\ observing = Loop
<1>1. stage \in Past /\ unwritten = 0 /\ observing = Loop
      /\ \A r \in Attempts : task[r] \in {"new", "closed"}
  BY DEF Inv, Cascade, Shadows, Past
<1>2. \A r \in Attempts : ~drainHeld[r]
  BY <1>1, HolderCounted DEF Inv, Registrations
<1> QED
  BY <1>1, <1>2, InvQuiet DEF Inv, Tracked, QuietOnceWaited, Past

LEMMA EmitRefines ==
  ASSUME NEW i \in Attempts, NEW s, Emit(i, s), UNCHANGED <<stage, drained>>,
         ~(stage = "over" /\ drained)
  PROVE  Contract!Emit(i, s)
BY DEF Emit, Contract!Emit

LEMMA StepRefines == ASSUME Inv, [Next]_vars PROVE [Contract!Next]_(Contract!vars)
<1> USE DEF taskVars, jobVars, barrierVars, shadowVars, lifeVars, trailVars
<1>0. TypeOK /\ Begun /\ Launched /\ Tracked /\ Shadows /\ Cascade
  BY DEF Inv
<1>1. ASSUME NEW i \in Attempts, task[i] = "new", stage = "serving", UNCHANGED <<stage, drained>>,
             Emit(i, "started")
      PROVE  Contract!Next
  <2>1. trail[i] = <<>> /\ Contract!Emit(i, "started")
    BY <1>0, <1>1, EmitRefines DEF Begun
  <2>2. Contract!Begin(i)
    BY <2>1 DEF Contract!Begin
  <2> QED
    BY <2>2 DEF Contract!Next
<1>2. ASSUME NEW i \in Attempts, task[i] # "new", terminal[i] \in {"open", "deferred", "emitting"},
             UNCHANGED <<stage, drained>>, Emit(i, "event") \/ Emit(i, "terminal")
      PROVE  Contract!Next
  <2>1. Wrote(i, "started") /\ ~Wrote(i, "terminal")
    BY <1>0, <1>2 DEF Begun, Tracked
  <2>2. Contract!Has(i, "started") /\ ~Contract!Has(i, "terminal")
    BY <2>1, HasWrote
  <2>3. ~(stage = "over" /\ drained)
    BY <1>2, CompleteIsFinal
  <2>4. Contract!Emit(i, "event") \/ Contract!Emit(i, "terminal")
    BY <1>2, <2>3, EmitRefines
  <2>5. Contract!Record(i) \/ Contract!End(i)
    BY <2>2, <2>4 DEF Contract!Record, Contract!End
  <2> QED
    BY <2>5 DEF Contract!Next
<1>3. ASSUME Observed PROVE Contract!Next
  <2>1. observing \in Attempts /\ Emit(observing, "shadow") /\ UNCHANGED <<stage, drained>>
    BY <1>0, <1>3 DEF Observed, TypeOK
  <2>2. Wrote(observing, "started")
    BY <1>0, <1>3, <2>1 DEF Observed, Shadows, Begun
  <2>3. ~(stage = "over" /\ drained)
    BY <1>3, CompleteIsFinal DEF Observed
  <2>4. Contract!Shadow(observing)
    BY <2>1, <2>2, <2>3, EmitRefines, HasWrote DEF Contract!Shadow
  <2> QED
    BY <2>1, <2>4 DEF Contract!Next
<1>4. ASSUME NEW ok \in BOOLEAN, Flush(ok) PROVE Contract!Next
  <2>1. /\ stage = "flushing" /\ stage' = "over" /\ UNCHANGED <<trail, lossy>>
        /\ drained' = (drained /\ ok) /\ (ok => ~lossy)
    BY <1>4 DEF Flush, Shutdown
  <2>2. ASSUME drained' PROVE \A r \in Attempts : Wrote(r, "started") => Wrote(r, "terminal")
    <3>1. drained
      BY <2>1, <2>2
    <3> TAKE r \in Attempts
    <3>2. CASE task[r] = "new"
      <4>1. DOMAIN <<>> = {}
        OBVIOUS
      <4> QED
        BY <1>0, <3>2, <4>1 DEF Begun, Wrote
    <3>3. CASE task[r] # "new"
      BY <1>0, <2>1, <3>1, <3>3, CompleteIsFinal DEF Tracked
    <3> QED
      BY <3>2, <3>3
  <2>3. Contract!Seal(drained')
    BY <2>1, <2>2, HasWrote DEF Contract!Seal
  <2>4. drained' \in BOOLEAN
    BY <2>1
  <2> QED
    BY <2>3, <2>4 DEF Contract!Next
<1>5. ASSUME UNCHANGED <<trail, lossy>>,
             UNCHANGED <<stage, drained>> \/ (stage # "over" /\ stage' # "over")
      PROVE  UNCHANGED Contract!vars
  BY <1>5 DEF Contract!vars
<1>6. ASSUME NEW r \in Attempts, Arrive(r) PROVE Contract!Next
  BY <1>1, <1>6 DEF Arrive
<1>7. ASSUME NEW r \in Attempts, Look(r) \/ Deliver(r) \/ SendStart(r)
      PROVE  Contract!Next \/ UNCHANGED Contract!vars
  <2>1. /\ task[r] # "new" /\ UNCHANGED <<stage, drained>>
        /\ Emit(r, "event") \/ UNCHANGED <<trail, lossy>>
    BY <1>7 DEF Look, Deliver, Receive, SendStart
  <2>2. terminal[r] = "open"
    BY <1>0, <1>7 DEF Look, Deliver, Receive, SendStart, Tracked
  <2> QED
    BY <1>2, <1>5, <2>1, <2>2
<1>8. ASSUME NEW r \in Attempts, EmitTerminal(r) PROVE Contract!Next
  <2>1. task[r] # "new"
    BY <1>0, <1>8 DEF EmitTerminal, Tracked
  <2> QED
    BY <1>2, <1>8, <2>1 DEF EmitTerminal
<1>9. ASSUME NEW w \in Attempts, Note(w) PROVE Contract!Next
  <2>1. task[w] # "new" /\ terminal[w] \in {"open", "deferred"}
    BY <1>0, <1>9 DEF Note, Launched, Tracked, Unfinished
  <2> QED
    BY <1>2, <1>9, <2>1 DEF Note
<1>10. ASSUME NEW r \in Attempts,
              \/ Refuse(r) \/ Launch(r) \/ (\E w \in Attempts : Join(r, w))
              \/ RegisterRelease(r) \/ Track(r) \/ Attach(r) \/ LookAway(r)
              \/ DeliverCancelled(r) \/ Timeout(r) \/ Cancelled(r) \/ Respond(r)
              \/ DeferTerminal(r) \/ Abort(r) \/ ReleaseTerminal(r) \/ Start(r) \/ Submit(r) \/ Finish(r) \/ Callback(r)
       PROVE  UNCHANGED Contract!vars
  <2>1. UNCHANGED <<trail, lossy, stage, drained>>
    BY <1>10 DEF Refuse, Launch, Join, RegisterRelease, Track, Attach, LookAway,
       DeliverCancelled, Timeout, Cancelled, Respond, DeferTerminal, Abort, ReleaseTerminal,
       Start, Submit, Finish, Callback, RunRelease, Settle
  <2> QED
    BY <1>5, <2>1
<1>11. ASSUME Observe \/ ObserverExits PROVE UNCHANGED Contract!vars
  <2>1. UNCHANGED <<trail, lossy, stage, drained>>
    BY <1>11 DEF Observe, ObserverExits
  <2> QED
    BY <1>5, <2>1
<1>12. ASSUME \/ BeginShutdown \/ WorkersIdle \/ TerminalsIdle \/ WaitTimesOut
              \/ RefuseShadows \/ ShadowsDrain \/ ObserverJoins \/ CloseSink
       PROVE  UNCHANGED Contract!vars
  <2>1. UNCHANGED <<trail, lossy>> /\ stage # "over" /\ stage' # "over"
    BY <1>12 DEF BeginShutdown, WorkersIdle, TerminalsIdle, WaitTimesOut, RefuseShadows,
       ShadowsDrain, ObserverJoins, CloseSink, Shutdown
  <2> QED
    BY <1>5, <2>1
<1>13. CASE UNCHANGED vars
  BY <1>5, <1>13 DEF vars
<1> QED
  BY <1>3, <1>4, <1>6, <1>7, <1>8, <1>9, <1>10, <1>11, <1>12, <1>13
     DEF Next, Handler, Dispatch, Agent, Observer, Lifespan

\* The trail of every invocation obeys the lifecycle the audit validator
\* demands, whichever thread writes its terminal, and a shutdown reports a
\* drained trail only when every invocation is closed and nothing was lost.
THEOREM TrailRefinesLifecycle == Spec => ImplementsInvocationLifecycle
<1>1. Init => Contract!Init
  BY DEF Init, Contract!Init
<1>2. Inv /\ [Next]_vars => [Contract!Next]_(Contract!vars)
  BY StepRefines
<1> QED
  BY <1>1, <1>2, InductiveInvariant, PTL DEF Spec, Contract!Spec, ImplementsInvocationLifecycle

=============================================================================
