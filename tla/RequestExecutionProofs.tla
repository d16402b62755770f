------------------------ MODULE RequestExecutionProofs ------------------------
(***************************************************************************)
(* Proofs about RequestExecution, for every set of calls, keys and inputs, *)
(* every traffic and every limit.                                          *)
(***************************************************************************)
EXTENDS RequestExecution, FiniteSetTheorems, WellFoundedInduction, TLAPS

-----------------------------------------------------------------------------
(***************************************************************************)
(* The inductive invariant.                                                *)
(***************************************************************************)

\* The completion callback of f has not run, wherever it will run.
Pending(f) ==
  phase[f] \in {"registering", "indexing"} \/ <<"complete">> \in callbacks[f]

\* How the life of a Future follows the call that submitted it.
Lifecycle ==
  \A c \in Calls :
    /\ fut[c] = "unborn" => callbacks[c] = {} /\ board[c] # c
                            /\ phase[c] \notin {"registering", "indexing"}
    /\ fut[c] # "unborn" => board[c] = c
    /\ phase[c] \in {"new", "entering"} => board[c] = None /\ disp[c] = "none"
    /\ phase[c] \in {"registering", "indexing", "tracking", "looking", "waiting", "unwinding"}
         => board[c] # None
    /\ board[c] # None => fut[board[c]] # "unborn"
    /\ phase[c] = "registering" => callbacks[c] \cap {<<"release">>, <<"complete">>} = {}
    /\ phase[c] = "indexing" => IsGet(c) /\ <<"complete">> \notin callbacks[c]
    /\ <<"complete">> \in callbacks[c] => IsGet(c)

\* What stands under a key: a safe finished result, or a worker whose
\* completion callback is still to come.
Entry(k) ==
  flight[k] # None =>
    /\ IsGet(flight[k]) /\ req[flight[k]].key = k
    /\ fut[flight[k]] # "unborn"
    /\ stamp[k] > 0 => fut[flight[k]] = "finished" /\ outcome[flight[k]] = "safe"
    /\ stamp[k] = 0 => Pending(flight[k])

\* Who is registered under a key, and in which state of completion.
Registry ==
  /\ \A f \in Calls : IsGet(f) /\ Unfinished(f) => Pending(f)
  /\ \A f \in Calls : IsGet(f) /\ Pending(f) =>
       flight[req[f].key] = f /\ stamp[req[f].key] = 0
  /\ \A k \in Keys : Entry(k)
  /\ \A k \in Keys : flight[k] = None => stamp[k] = 0

\* Slots are held exactly by the workers that have not given them back.
Slots ==
  /\ active = Cardinality(SlotHolders)
  /\ idle <=> active = 0
  /\ active <= MaxInflight
  /\ \A f \in Calls : Unfinished(f) => HoldsSlot(f)

\* A notification is owed only to a call that waits on, or gave up, that
\* Future.
Notified ==
  \A f, c \in Calls :
    <<"notify", c>> \in callbacks[f] =>
      board[c] = f /\ phase[c] \in {"looking", "waiting", "unwinding", "closed"}

\* The first half of SharedWorkSurvivesAbort; Registry has the other.
DeadlineStops == \A f \in Calls : IsGet(f) /\ stop[f] => expired[f]

Watched == Notified /\ DeadlineStops /\ BarrierHoldsUnfinished

IInv == TypeOK /\ Lifecycle /\ Registry /\ Slots /\ ServedOwnQuestion /\ Watched

-----------------------------------------------------------------------------
(***************************************************************************)
(* Admission slots.                                                        *)
(***************************************************************************)

\* The slot holders are finitely many, before and after a step.
LEMMA HoldersFinite ==
  /\ IsFiniteSet(SlotHolders) /\ Cardinality(SlotHolders) \in Nat
  /\ IsFiniteSet(SlotHolders') /\ Cardinality(SlotHolders)' \in Nat
  <1>1. SlotHolders \subseteq Calls /\ SlotHolders' \subseteq Calls
    BY DEF SlotHolders
  <1>2. QED
    BY <1>1, ConstantsAssumption, FS_Subset, FS_CardinalityType

\* Launch adds its call to the slot holders and counts it.
LEMMA LaunchSlots ==
  ASSUME IInv, NEW c \in Calls, Launch(c)
  PROVE  Slots'
  <1>1. c \notin SlotHolders
    BY ConstantsAssumption DEF IInv, Lifecycle, Launch, Arrives, SlotHolders, HoldsSlot
  <1>2. SlotHolders' = SlotHolders \cup {c}
    BY DEF IInv, TypeOK, Launch, Arrives, SlotHolders, HoldsSlot
  <1>3. Cardinality(SlotHolders') = Cardinality(SlotHolders) + 1
    BY <1>1, <1>2, HoldersFinite, FS_AddElement
  <1>4. \A f \in Calls : Unfinished(f)' => HoldsSlot(f)'
    BY DEF IInv, TypeOK, Slots, Launch, Arrives, Unfinished, HoldsSlot
  <1>5. active + 1 <= MaxInflight
    BY ConstantsAssumption DEF IInv, TypeOK, Launch, HasCapacity
  <1>6. QED
    BY <1>3, <1>4, <1>5, HoldersFinite DEF IInv, TypeOK, Slots, Launch

\* A worker that gives its slot back is no longer a holder; the last one to do
\* so sets the idle Event.
LEMMA ReleaseSlots ==
  ASSUME IInv, NEW f \in Calls, HoldsSlot(f), ReleaseSlot,
         SlotHolders' = SlotHolders \ {f},
         \A g \in Calls : Unfinished(g)' => g # f /\ Unfinished(g)
  PROVE  Slots'
  <1>1. Cardinality(SlotHolders') = Cardinality(SlotHolders) - 1
    BY HoldersFinite, FS_RemoveElement DEF SlotHolders
  <1>2. active' = Cardinality(SlotHolders)' /\ active' <= MaxInflight
    BY <1>1, HoldersFinite, ConstantsAssumption DEF IInv, TypeOK, Slots, ReleaseSlot
  <1>3. active # 0
    BY HoldersFinite, <1>1 DEF IInv, Slots
  <1>4. active' = 0 <=> active = 1
    BY DEF IInv, TypeOK, ReleaseSlot
  <1>5. idle' <=> active = 1
    BY <1>3, Zenon DEF IInv, Slots, ReleaseSlot
  <1>6. \A g \in Calls : Unfinished(g)' => HoldsSlot(g)'
    BY DEF IInv, Slots, SlotHolders
  <1>7. QED
    BY <1>2, <1>4, <1>5, <1>6, Zenon DEF Slots

\* A step that changes neither the holders nor the counter, and leaves no
\* Future unfinished that was not, keeps the accounting.
LEMMA SameSlots ==
  ASSUME IInv, UNCHANGED admissionVars,
         SlotHolders' = SlotHolders,
         \A g \in Calls : Unfinished(g)' => Unfinished(g)
  PROVE  Slots'
  BY DEF IInv, Slots, admissionVars, SlotHolders

\* Every step keeps the slot accounting.
LEMMA SlotsStep ==
  ASSUME IInv, [Next]_vars
  PROVE  Slots'
  <1> USE DEF SlotHolders, HoldsSlot, Unfinished, admissionVars, callVars,
              futureVars, entryVars
  <1>1. ASSUME NEW c \in Calls, Conflict(c) PROVE Slots'
    BY <1>1, SameSlots DEF IInv, TypeOK, Lifecycle, Conflict, Arrives, Close
  <1>2. ASSUME NEW c \in Calls, Board(c) PROVE Slots'
    BY <1>2, SameSlots DEF IInv, TypeOK, Lifecycle, Board, Arrives
  <1>3. ASSUME NEW c \in Calls, Overload(c) PROVE Slots'
    BY <1>3, SameSlots DEF IInv, TypeOK, Lifecycle, Overload, Arrives, Close
  <1>4. ASSUME NEW c \in Calls, SubmitRaises(c) PROVE Slots'
    BY <1>4, SameSlots DEF IInv, TypeOK, Lifecycle, SubmitRaises, Arrives, Close
  <1>5. ASSUME NEW c \in Calls, RegisterComplete(c) PROVE Slots'
    BY <1>5, SameSlots DEF IInv, TypeOK, Lifecycle, RegisterComplete, Attach
  <1>6. ASSUME NEW c \in Calls, TrackUnfinished(c) PROVE Slots'
    BY <1>6, SameSlots DEF IInv, TypeOK, Lifecycle, TrackUnfinished, Attach
  <1>7. ASSUME NEW c \in Calls, TrackDone(c) PROVE Slots'
    BY <1>7, SameSlots DEF IInv, TypeOK, Lifecycle, TrackDone, Close
  <1>8. ASSUME NEW c \in Calls, Deliver(c) PROVE Slots'
    BY <1>8, SameSlots DEF IInv, TypeOK, Lifecycle, Deliver, Close
  <1>9. ASSUME NEW c \in Calls, Timeout(c) PROVE Slots'
    BY <1>9, SameSlots DEF IInv, TypeOK, Lifecycle, Timeout, CancelWork
  <1>10. ASSUME NEW c \in Calls, AbortPost(c) PROVE Slots'
    BY <1>10, SameSlots DEF IInv, TypeOK, Lifecycle, AbortPost, CancelWork
  <1>11. ASSUME NEW c \in Calls, AbortGet(c) PROVE Slots'
    BY <1>11, SameSlots DEF IInv, TypeOK, Lifecycle, AbortGet, Close
  <1>12. ASSUME NEW c \in Calls, FinishUnwind(c) PROVE Slots'
    BY <1>12, SameSlots DEF IInv, TypeOK, Lifecycle, FinishUnwind
  <1>13. ASSUME NEW c \in Calls, Start(c) PROVE Slots'
    BY <1>13, SameSlots DEF IInv, TypeOK, Lifecycle, Start
  <1>14. ASSUME NEW c \in Calls, RunComplete(c) PROVE Slots'
    BY <1>14, SameSlots DEF IInv, TypeOK, Lifecycle, RunComplete, Invoke
  <1>15. ASSUME NEW c \in Calls, DeadlinePasses(c) PROVE Slots'
    BY <1>15, SameSlots DEF IInv, TypeOK, Lifecycle, DeadlinePasses
  <1>16. ASSUME NEW c \in Calls, Launch(c) PROVE Slots'
    BY <1>16, LaunchSlots
  <1>17. ASSUME NEW c \in Calls, RegisterRelease(c) PROVE Slots'
    BY <1>17, SameSlots, ReleaseSlots DEF IInv, TypeOK, Lifecycle, RegisterRelease, Attach, Done
  <1>18. ASSUME NEW f \in Calls, NEW o \in Outcomes, Finish(f, o) PROVE Slots'
    BY <1>18, SameSlots DEF IInv, TypeOK, Finish
  <1>19. ASSUME NEW f \in Calls, RunRelease(f) PROVE Slots'
    BY <1>19, ReleaseSlots DEF IInv, TypeOK, Lifecycle, RunRelease, Invoke, Done
  <1>20. ASSUME NEW f \in Calls, NEW c \in Calls, RunNotify(f, c) PROVE Slots'
    BY <1>20, SameSlots DEF IInv, TypeOK, RunNotify, Invoke
  <1>21. ASSUME ReplayAges PROVE Slots'
    BY <1>21, SameSlots DEF ReplayAges
  <1>22. CASE UNCHANGED vars
    BY <1>22, SameSlots DEF vars
  <1>23. ASSUME NEW c \in Calls, ReadClock(c) PROVE Slots'
    BY <1>23, SameSlots DEF IInv, TypeOK, Lifecycle, ReadClock
  <1>24. ASSUME NEW c \in Calls, Look(c) PROVE Slots'
    BY <1>24, SameSlots DEF IInv, TypeOK, Lifecycle, Look, Close
  <1>25. QED
    BY <1>1, <1>2, <1>3, <1>4, <1>5, <1>6, <1>7, <1>8, <1>9, <1>10, <1>11, <1>12, <1>13, <1>14, <1>15, <1>16, <1>17, <1>18, <1>19, <1>20, <1>21, <1>22, <1>23, <1>24 DEF Next, Admit, Register, Track, Notify

-----------------------------------------------------------------------------
(***************************************************************************)
(* Types.                                                                  *)
(***************************************************************************)

\* Pruning keeps registered keys only, and every entry of a running worker.
LEMMA KeptKeys ==
  ASSUME NEW fl, NEW st, NEW h
  PROVE  /\ Kept(fl, st, h) \subseteq Keys
         /\ \A k \in Kept(fl, st, h) : fl[k] # None
         /\ \A k \in Keys : fl[k] # None /\ st[k] = 0 => k \in Kept(fl, st, h)
  BY DEF Kept, Live

\* Registering a callback keeps the type of the callback lists.
LEMMA AttachType ==
  ASSUME TypeOK, NEW f, NEW cbs \in SUBSET Callbacks, Attach(f, cbs)
  PROVE  callbacks' \in [Calls -> SUBSET Callbacks]
  BY DEF TypeOK, Attach

LEMMA CallbackNames ==
  /\ {<<"release">>} \in SUBSET Callbacks
  /\ {<<"complete">>} \in SUBSET Callbacks
  /\ \A c \in Calls : {<<"notify", c>>} \in SUBSET Callbacks
  BY DEF Callbacks

\* Cancelling the work of a call keeps the types.
LEMMA CancelType ==
  ASSUME TypeOK, NEW c \in Calls, NEW v \in {"timeout", "aborted"}, CancelWork(c, v)
  PROVE  TypeOK'
  <1> USE DEF callVars, futureVars, admissionVars, entryVars
  <1>1. /\ stop' \in [Calls -> BOOLEAN]
        /\ answer' \in [Calls -> {"none", "result", "failure", "timeout", "overloaded",
                                  "conflict", "aborted"}]
    BY DEF TypeOK, CancelWork
  <1>2. /\ fut' \in [Calls -> {"unborn", "queued", "running", "finished", "cancelled"}]
        /\ phase' \in [Calls -> Phases]
    BY DEF TypeOK, Phases, CancelWork
  <1>3. UNCHANGED <<req, board, disp, outcome, callbacks, expired, unsettled, active, idle,
                    flight, stamp, clock, horizon, seen>>
    BY DEF CancelWork
  <1>4. QED
    BY <1>1, <1>2, <1>3 DEF TypeOK

\* Every step keeps the types; the counter stays natural because it still
\* counts the holders.
LEMMA TypeStep ==
  ASSUME IInv, [Next]_vars
  PROVE  TypeOK'
  <1> USE DEF callVars, futureVars, admissionVars, entryVars
  <1>0. active' \in Nat
    BY SlotsStep, HoldersFinite DEF Slots
  <1>1. ASSUME NEW c \in Calls, Conflict(c) PROVE TypeOK'
    BY <1>1, <1>0 DEF IInv, TypeOK, Phases, Conflict, Arrives, Close, Prune
  <1>2. ASSUME NEW c \in Calls, Board(c) PROVE TypeOK'
    BY <1>2, <1>0, KeptKeys DEF IInv, TypeOK, Phases, Board, Arrives, Prune, Registered
  <1>3. ASSUME NEW c \in Calls, Overload(c) PROVE TypeOK'
    BY <1>3, <1>0 DEF IInv, TypeOK, Phases, Overload, Arrives, Close, PruneIfGet, Prune
  <1>4. ASSUME NEW c \in Calls, SubmitRaises(c) PROVE TypeOK'
    BY <1>4, <1>0 DEF IInv, TypeOK, Phases, SubmitRaises, Arrives, Close, PruneIfGet,
      Prune
  <1>5. ASSUME NEW c \in Calls, Launch(c) PROVE TypeOK'
    <2>1. flight' \in [Keys -> Calls \cup {None}] /\ stamp' \in [Keys -> Nat]
      BY <1>5 DEF IInv, TypeOK, Launch
    <2>2. QED
      BY <1>5, <1>0, <2>1 DEF IInv, TypeOK, Phases, Launch, Arrives
  <1>6. ASSUME NEW c \in Calls, RegisterRelease(c) PROVE TypeOK'
    BY <1>6, <1>0, AttachType, CallbackNames DEF IInv, TypeOK, Phases,
      RegisterRelease, ReleaseSlot
  <1>7. ASSUME NEW c \in Calls, RegisterComplete(c) PROVE TypeOK'
    <2>1. CASE Done(c)
      BY <1>7, <1>0, <2>1 DEF IInv, TypeOK, Phases, RegisterComplete, Complete, Prune
    <2>2. CASE ~Done(c)
      BY <1>7, <1>0, <2>2, AttachType, CallbackNames DEF IInv, TypeOK, Phases,
        RegisterComplete
    <2>3. QED
      BY <2>1, <2>2
  <1>8. ASSUME NEW c \in Calls, TrackUnfinished(c) PROVE TypeOK'
    BY <1>8, <1>0, AttachType, CallbackNames DEF IInv, TypeOK, Phases,
      TrackUnfinished
  <1>9. ASSUME NEW c \in Calls, TrackDone(c) PROVE TypeOK'
    BY <1>9, <1>0 DEF IInv, TypeOK, Phases, TrackDone, Close, Verdict
  <1>10. ASSUME NEW c \in Calls, Deliver(c) PROVE TypeOK'
    BY <1>10, <1>0 DEF IInv, TypeOK, Phases, Deliver, Close, Verdict
  <1>11. ASSUME NEW c \in Calls, Timeout(c) PROVE TypeOK'
    BY <1>11, CancelType DEF IInv, Timeout
  <1>12. ASSUME NEW c \in Calls, AbortPost(c) PROVE TypeOK'
    BY <1>12, CancelType DEF IInv, AbortPost
  <1>13. ASSUME NEW c \in Calls, AbortGet(c) PROVE TypeOK'
    BY <1>13, <1>0 DEF IInv, TypeOK, Phases, AbortGet, Close
  <1>14. ASSUME NEW c \in Calls, FinishUnwind(c) PROVE TypeOK'
    BY <1>14, <1>0 DEF IInv, TypeOK, Phases, FinishUnwind
  <1>15. ASSUME NEW c \in Calls, Start(c) PROVE TypeOK'
    BY <1>15, <1>0 DEF IInv, TypeOK, Phases, Start
  <1>16. ASSUME NEW c \in Calls, RunRelease(c) PROVE TypeOK'
    BY <1>16, <1>0 DEF IInv, TypeOK, Phases, RunRelease, Invoke, ReleaseSlot
  <1>17. ASSUME NEW c \in Calls, RunComplete(c) PROVE TypeOK'
    BY <1>17, <1>0 DEF IInv, TypeOK, Phases, RunComplete, Invoke, Complete, Prune
  <1>18. ASSUME NEW c \in Calls, DeadlinePasses(c) PROVE TypeOK'
    BY <1>18, <1>0 DEF IInv, TypeOK, Phases, DeadlinePasses
  <1>19. ASSUME ReplayAges PROVE TypeOK'
    BY <1>19, <1>0 DEF IInv, TypeOK, Phases, ReplayAges
  <1>20. ASSUME NEW f \in Calls, NEW o \in Outcomes, Finish(f, o) PROVE TypeOK'
    BY <1>20, <1>0 DEF IInv, TypeOK, Phases, Finish
  <1>21. ASSUME NEW f \in Calls, NEW c \in Calls, RunNotify(f, c) PROVE TypeOK'
    BY <1>21, <1>0 DEF IInv, TypeOK, Phases, RunNotify, Invoke
  <1>22. CASE UNCHANGED vars
    BY <1>22, <1>0 DEF IInv, TypeOK, Phases, vars
  <1>23. ASSUME NEW c \in Calls, ReadClock(c) PROVE TypeOK'
    BY <1>23, <1>0 DEF IInv, TypeOK, Phases, ReadClock
  <1>24. ASSUME NEW c \in Calls, Look(c) PROVE TypeOK'
    BY <1>24, <1>0 DEF IInv, TypeOK, Phases, Look, Close, Verdict
  <1>25. QED
    BY <1>1, <1>2, <1>3, <1>4, <1>5, <1>6, <1>7, <1>8, <1>9, <1>10, <1>11, <1>12,
      <1>13, <1>14, <1>15, <1>16, <1>17, <1>18, <1>19, <1>20, <1>21, <1>22, <1>23, <1>24 DEF Next,
      Admit, Register, Track, Notify

-----------------------------------------------------------------------------
(***************************************************************************)
(* Futures and calls.                                                      *)
(***************************************************************************)

\* Every step keeps a Future's life in step with the call that submitted it.
LEMMA LifecycleStep ==
  ASSUME IInv, [Next]_vars
  PROVE  Lifecycle'
  <1> USE ConstantsAssumption DEF callVars, futureVars, admissionVars, entryVars, IsGet
  <1>1. ASSUME NEW c \in Calls, Conflict(c) PROVE Lifecycle'
    BY <1>1 DEF IInv, TypeOK, Lifecycle, Conflict, Arrives, Close, Prune
  <1>2. ASSUME NEW c \in Calls, Board(c) PROVE Lifecycle'
    BY <1>2, KeptKeys DEF IInv, TypeOK, Lifecycle, Board, Arrives, Registered, Registry, Entry
  <1>3. ASSUME NEW c \in Calls, Overload(c) PROVE Lifecycle'
    BY <1>3 DEF IInv, TypeOK, Lifecycle, Overload, Arrives, Close, PruneIfGet, Prune
  <1>4. ASSUME NEW c \in Calls, SubmitRaises(c) PROVE Lifecycle'
    BY <1>4 DEF IInv, TypeOK, Lifecycle, SubmitRaises, Arrives, Close, PruneIfGet, Prune
  <1>5. ASSUME NEW c \in Calls, Launch(c) PROVE Lifecycle'
    BY <1>5 DEF IInv, TypeOK, Lifecycle, Launch, Arrives
  <1>6. ASSUME NEW c \in Calls, RegisterRelease(c) PROVE Lifecycle'
    BY <1>6 DEF IInv, TypeOK, Lifecycle, RegisterRelease, Attach, ReleaseSlot
  <1>7. ASSUME NEW c \in Calls, RegisterComplete(c) PROVE Lifecycle'
    BY <1>7 DEF IInv, TypeOK, Lifecycle, RegisterComplete, Attach
  <1>8. ASSUME NEW c \in Calls, TrackUnfinished(c) PROVE Lifecycle'
    BY <1>8 DEF IInv, TypeOK, Lifecycle, TrackUnfinished, Attach
  <1>9. ASSUME NEW c \in Calls, TrackDone(c) PROVE Lifecycle'
    BY <1>9 DEF IInv, TypeOK, Lifecycle, TrackDone, Close
  <1>10. ASSUME NEW c \in Calls, Deliver(c) PROVE Lifecycle'
    BY <1>10 DEF IInv, TypeOK, Lifecycle, Deliver, Close
  <1>11. ASSUME NEW c \in Calls, Timeout(c) PROVE Lifecycle'
    BY <1>11 DEF IInv, TypeOK, Lifecycle, Timeout, CancelWork
  <1>12. ASSUME NEW c \in Calls, AbortPost(c) PROVE Lifecycle'
    BY <1>12 DEF IInv, TypeOK, Lifecycle, AbortPost, CancelWork
  <1>13. ASSUME NEW c \in Calls, AbortGet(c) PROVE Lifecycle'
    BY <1>13 DEF IInv, TypeOK, Lifecycle, AbortGet, Close
  <1>14. ASSUME NEW c \in Calls, FinishUnwind(c) PROVE Lifecycle'
    BY <1>14 DEF IInv, TypeOK, Lifecycle, FinishUnwind
  <1>15. ASSUME NEW c \in Calls, Start(c) PROVE Lifecycle'
    BY <1>15 DEF IInv, TypeOK, Lifecycle, Start
  <1>16. ASSUME NEW c \in Calls, RunRelease(c) PROVE Lifecycle'
    BY <1>16 DEF IInv, TypeOK, Lifecycle, RunRelease, Invoke, ReleaseSlot
  <1>17. ASSUME NEW c \in Calls, RunComplete(c) PROVE Lifecycle'
    BY <1>17 DEF IInv, TypeOK, Lifecycle, RunComplete, Invoke
  <1>18. ASSUME NEW c \in Calls, DeadlinePasses(c) PROVE Lifecycle'
    BY <1>18 DEF IInv, TypeOK, Lifecycle, DeadlinePasses
  <1>19. ASSUME ReplayAges PROVE Lifecycle'
    BY <1>19 DEF IInv, TypeOK, Lifecycle, ReplayAges
  <1>20. ASSUME NEW f \in Calls, NEW o \in Outcomes, Finish(f, o) PROVE Lifecycle'
    BY <1>20 DEF IInv, TypeOK, Lifecycle, Finish
  <1>21. ASSUME NEW f \in Calls, NEW c \in Calls, RunNotify(f, c) PROVE Lifecycle'
    BY <1>21 DEF IInv, TypeOK, Lifecycle, RunNotify, Invoke
  <1>22. CASE UNCHANGED vars
    BY <1>22 DEF IInv, TypeOK, Lifecycle, vars
  <1>23. ASSUME NEW c \in Calls, ReadClock(c) PROVE Lifecycle'
    BY <1>23 DEF IInv, TypeOK, Lifecycle, ReadClock
  <1>24. ASSUME NEW c \in Calls, Look(c) PROVE Lifecycle'
    BY <1>24 DEF IInv, TypeOK, Lifecycle, Look, Close
  <1>25. QED
    BY <1>1, <1>2, <1>3, <1>4, <1>5, <1>6, <1>7, <1>8, <1>9, <1>10, <1>11, <1>12,
      <1>13, <1>14, <1>15, <1>16, <1>17, <1>18, <1>19, <1>20, <1>21, <1>22, <1>23, <1>24 DEF Next,
      Admit, Register, Track, Notify

-----------------------------------------------------------------------------
(***************************************************************************)
(* The registry.                                                           *)
(***************************************************************************)

\* Pruning evicts finished results only.
LEMMA PruneRegistry ==
  ASSUME TypeOK, Registry, Prune(flight, stamp, seen), UNCHANGED <<req, fut, outcome>>,
         \A f \in Calls : Pending(f)' <=> Pending(f)
  PROVE  Registry'
  <1> USE DEF IsGet, Unfinished, Entry
  <1>1. \A k \in Keys : flight'[k] # None => flight'[k] = flight[k] /\ stamp'[k] = stamp[k]
    BY DEF Prune
  <1>2. \A k \in Keys : flight'[k] = None => stamp'[k] = 0
    BY DEF Prune, Registry, TypeOK
  <1>3. \A f \in Calls : IsGet(f) /\ Pending(f) =>
          flight'[req[f].key] = f /\ stamp'[req[f].key] = 0
    BY KeptKeys, ConstantsAssumption DEF Prune, Registry, TypeOK, GetRequest, PostRequest
  <1>4. QED
    BY <1>1, <1>2, <1>3 DEF Registry, TypeOK

\* The completion callback of f decides f's entry and prunes; other running
\* workers keep their entries.
LEMMA CompleteRegistry ==
  ASSUME TypeOK, Registry, NEW f \in Calls, IsGet(f), Pending(f), Done(f),
         Complete(f), UNCHANGED <<req, fut, outcome>>, ~Pending(f)',
         \A g \in Calls \ {f} : Pending(g)' <=> Pending(g)
  PROVE  Registry'
  <1> USE DEF IsGet, Unfinished, Entry
  <1> DEFINE k == req[f].key
             marked == [stamp EXCEPT ![k] = clock + 1]
  <1>1. k \in Keys /\ flight[k] = f /\ stamp[k] = 0
    BY ConstantsAssumption DEF Registry, TypeOK, GetRequest, PostRequest
  <1>2. \A g \in Calls \ {f} : IsGet(g) /\ Pending(g) => req[g].key \in Keys \ {k}
    BY <1>1, ConstantsAssumption DEF Registry, TypeOK, GetRequest, PostRequest
  <1>3. CASE Cacheable(f)
    <2>1. Prune(flight, marked, horizon)
      BY <1>1, <1>3 DEF Complete
    <2>2. \A j \in Keys : flight'[j] # None => flight'[j] = flight[j] /\ stamp'[j] = marked[j]
      BY <2>1 DEF Prune
    <2>3. \A j \in Keys : flight'[j] = None => stamp'[j] = 0
      <3>1. \A j \in Keys : flight[j] = None => marked[j] = 0
        BY <1>1, ConstantsAssumption DEF Registry, TypeOK
      <3>2. QED
        BY <2>1, <3>1 DEF Prune
    <2>4. \A j \in Keys \ {k} : flight[j] # None /\ stamp[j] = 0 =>
            flight'[j] = flight[j] /\ stamp'[j] = 0
      BY <2>1, <1>1, KeptKeys DEF Prune, TypeOK
    <2>5. \A g \in Calls : IsGet(g) /\ Pending(g)' =>
            flight'[req[g].key] = g /\ stamp'[req[g].key] = 0
      BY <1>2, <2>4, ConstantsAssumption DEF Registry
    <2>6. marked[k] > 0 /\ \A j \in Keys \ {k} : marked[j] = stamp[j]
      BY <1>1 DEF TypeOK
    <2>7. ASSUME NEW j \in Keys, flight'[j] # None PROVE Entry(j)'
      <3>1. flight'[j] = flight[j] /\ stamp'[j] = marked[j]
        BY <2>2, <2>7
      <3>2. CASE j = k
        BY <1>1, <1>3, <2>6, <2>7, <3>1, <3>2 DEF Cacheable, Entry, Registry, TypeOK
      <3>3. CASE j # k
        <4>1. flight[j] # f /\ flight[j] \in Calls /\ Entry(j) /\ stamp'[j] = stamp[j]
          BY <2>6, <2>7, <3>1, <3>3 DEF Entry, Registry, TypeOK
        <4>2. QED
          BY <2>7, <3>1, <4>1 DEF Entry
      <3>4. QED
        BY <3>2, <3>3
    <2>8. \A g \in Calls : IsGet(g)' /\ Unfinished(g)' => Pending(g)'
      BY DEF Registry, Done
    <2>9. \A j \in Keys : Entry(j)'
      BY <2>7 DEF Entry
    <2>10. QED
      BY <2>3, <2>5, <2>8, <2>9 DEF Registry
  <1>4. CASE ~Cacheable(f)
    <2>1. flight' = [flight EXCEPT ![k] = None] /\ stamp' = stamp
      BY <1>1, <1>4 DEF Complete
    <2>2. \A g \in Calls : IsGet(g) /\ Pending(g)' =>
            flight'[req[g].key] = g /\ stamp'[req[g].key] = 0
      BY <1>2, <2>1, ConstantsAssumption DEF Registry, TypeOK
    <2>3. \A j \in Keys \ {k} : flight[j] # None => flight[j] # f
      BY DEF Registry
    <2>4. \A j \in Keys : flight'[j] # None => j # k /\ flight'[j] = flight[j]
      BY <1>1, <2>1 DEF TypeOK
    <2>5. \A j \in Keys : flight'[j] = None => stamp'[j] = 0
      BY <1>1, <2>1 DEF TypeOK, Registry
    <2>6. \A g \in Calls : IsGet(g)' /\ Unfinished(g)' => Pending(g)'
      BY DEF Registry, Done
    <2>7. QED
      BY <2>1, <2>2, <2>3, <2>4, <2>5, <2>6 DEF Registry, TypeOK
  <1>5. QED
    BY <1>3, <1>4

\* Every step keeps running workers registered under their key, and registered
\* results safe once their completion callback ran.
LEMMA RegistryStep ==
  ASSUME IInv, [Next]_vars
  PROVE  Registry'
  <1> USE DEF callVars, futureVars, admissionVars,
      entryVars, IsGet, Unfinished, Done, Pending, Entry
  <1>1. ASSUME NEW c \in Calls, Conflict(c) PROVE Registry'
    BY <1>1, PruneRegistry DEF IInv, TypeOK, Conflict, Arrives, Close
  <1>2. ASSUME NEW c \in Calls, Board(c) PROVE Registry'
    BY <1>2, PruneRegistry DEF IInv, TypeOK, Board, Arrives
  <1>3. ASSUME NEW c \in Calls, Overload(c) PROVE Registry'
    <2>1. /\ UNCHANGED <<req, fut, outcome>>
          /\ \A f \in Calls : Pending(f)' <=> Pending(f)
      BY <1>3 DEF IInv, TypeOK, Overload, Arrives, Close, PruneIfGet
    <2>2. CASE IsGet(c)
      BY <1>3, <2>1, <2>2, PruneRegistry DEF IInv, Overload, Arrives, Close, PruneIfGet
    <2>3. CASE ~IsGet(c)
      BY <1>3, <2>1, <2>3 DEF IInv, TypeOK, Registry, Overload, Arrives, Close, PruneIfGet
    <2>4. QED
      BY <2>2, <2>3
  <1>4. ASSUME NEW c \in Calls, SubmitRaises(c) PROVE Registry'
    <2>1. /\ UNCHANGED <<req, fut, outcome>>
          /\ \A f \in Calls : Pending(f)' <=> Pending(f)
      BY <1>4 DEF IInv, TypeOK, SubmitRaises, Arrives, Close, PruneIfGet
    <2>2. CASE IsGet(c)
      BY <1>4, <2>1, <2>2, PruneRegistry DEF IInv, SubmitRaises, Arrives, Close, PruneIfGet
    <2>3. CASE ~IsGet(c)
      BY <1>4, <2>1, <2>3 DEF IInv, TypeOK, Registry, SubmitRaises, Arrives, Close, PruneIfGet
    <2>4. QED
      BY <2>2, <2>3
  <1>5. ASSUME NEW c \in Calls, Launch(c) PROVE Registry'
    <2>1. CASE ~IsGet(c)
      BY <1>5, <2>1 DEF IInv, TypeOK, Lifecycle, Registry, Launch, Arrives
    <2>2. CASE IsGet(c)
      <3> DEFINE k == req[c].key
      <3>1. flight[k] # None /\ k \in Keys => stamp[k] > 0
        BY <1>5, <2>2, KeptKeys DEF IInv, TypeOK, Launch, Registered
      <3>2. \A g \in Calls : IsGet(g) /\ Pending(g) => req[g].key # k
        BY <3>1, ConstantsAssumption, <2>2 DEF IInv, TypeOK, Registry, GetRequest, PostRequest
      <3>3. \A j \in Keys \ {k} : flight'[j] # None =>
              flight'[j] = flight[j] /\ stamp'[j] = stamp[j]
        BY <1>5, <2>2 DEF IInv, TypeOK, Launch
      <3>4. \A j \in Keys : flight'[j] = None => stamp'[j] = 0
        BY <1>5, <2>2 DEF IInv, TypeOK, Registry, Launch
      <3>5. \A j \in Keys \ {k} : flight[j] # None /\ stamp[j] = 0 =>
              flight'[j] = flight[j] /\ stamp'[j] = 0
        BY <1>5, <2>2, KeptKeys DEF IInv, TypeOK, Launch
      <3>6. k \in Keys /\ flight'[k] = c /\ stamp'[k] = 0
        BY <1>5, <2>2, ConstantsAssumption DEF IInv, TypeOK, Launch, GetRequest, PostRequest
      <3>7. Pending(c)' /\ fut'[c] = "queued" /\ c # None
        BY <1>5, ConstantsAssumption DEF IInv, TypeOK, Launch
      <3>8. \A g \in Calls \ {c} : (Pending(g)' <=> Pending(g)) /\ fut'[g] = fut[g]
        BY <1>5 DEF IInv, TypeOK, Launch
      <3>9. req' = req /\ outcome' = outcome /\ fut[c] = "unborn"
        BY <1>5, ConstantsAssumption DEF IInv, Lifecycle, Launch, Arrives
      <3>10. \A g \in Calls : IsGet(g)' /\ Unfinished(g)' => Pending(g)'
        BY <3>7, <3>8, <3>9 DEF IInv, Registry
      <3>11. \A g \in Calls : IsGet(g)' /\ Pending(g)' =>
               flight'[req'[g].key] = g /\ stamp'[req'[g].key] = 0
        <4>1. \A g \in Calls \ {c} : IsGet(g) /\ Pending(g) => req[g].key \in Keys
          BY ConstantsAssumption DEF IInv, TypeOK, GetRequest, PostRequest
        <4>2. QED
          BY <3>2, <3>5, <3>6, <3>8, <3>9, <4>1, ConstantsAssumption DEF IInv, Registry
      <3>12. ASSUME NEW j \in Keys PROVE Entry(j)'
        <4>1. CASE j = k
          BY <2>2, <3>6, <3>7, <3>9, <4>1 DEF Entry
        <4>2. CASE j # k /\ flight'[j] # None
          <5>1. flight'[j] = flight[j] /\ stamp'[j] = stamp[j]
            BY <3>3, <4>2
          <5>2. Entry(j) /\ flight[j] \in Calls \ {c}
            BY <3>9, <4>2, <5>1 DEF IInv, TypeOK, Registry, Entry
          <5>3. QED
            BY <3>8, <3>9, <4>2, <5>1, <5>2 DEF Entry
        <4>3. QED
          BY <4>1, <4>2 DEF Entry
      <3>13. QED
        BY <3>4, <3>10, <3>11, <3>12 DEF Registry
    <2>3. QED
      BY <2>1, <2>2
  <1>6. ASSUME NEW c \in Calls, RegisterRelease(c) PROVE Registry'
    BY <1>6 DEF IInv, TypeOK, Lifecycle, Registry, RegisterRelease, Attach, ReleaseSlot
  <1>7. ASSUME NEW c \in Calls, RegisterComplete(c) PROVE Registry'
    <2>1. CASE Done(c)
      BY <1>7, <2>1, CompleteRegistry DEF IInv, TypeOK, Lifecycle, RegisterComplete
    <2>2. CASE ~Done(c)
      BY <1>7, <2>2 DEF IInv, TypeOK, Lifecycle, Registry, RegisterComplete, Attach
    <2>3. QED
      BY <2>1, <2>2
  <1>8. ASSUME NEW c \in Calls, TrackUnfinished(c) PROVE Registry'
    BY <1>8 DEF IInv, TypeOK, Lifecycle, Registry, TrackUnfinished, Attach
  <1>9. ASSUME NEW c \in Calls, TrackDone(c) PROVE Registry'
    BY <1>9 DEF IInv, TypeOK, Lifecycle, Registry, TrackDone, Close
  <1>10. ASSUME NEW c \in Calls, Deliver(c) PROVE Registry'
    BY <1>10 DEF IInv, TypeOK, Lifecycle, Registry, Deliver, Close
  <1>11. ASSUME NEW c \in Calls, Timeout(c) PROVE Registry'
    BY <1>11 DEF IInv, TypeOK, Lifecycle, Registry, Timeout, CancelWork
  <1>12. ASSUME NEW c \in Calls, AbortPost(c) PROVE Registry'
    BY <1>12 DEF IInv, TypeOK, Lifecycle, Registry, AbortPost, CancelWork
  <1>13. ASSUME NEW c \in Calls, AbortGet(c) PROVE Registry'
    BY <1>13 DEF IInv, TypeOK, Lifecycle, Registry, AbortGet, Close
  <1>14. ASSUME NEW c \in Calls, FinishUnwind(c) PROVE Registry'
    BY <1>14 DEF IInv, TypeOK, Lifecycle, Registry, FinishUnwind
  <1>15. ASSUME NEW c \in Calls, Start(c) PROVE Registry'
    BY <1>15 DEF IInv, TypeOK, Lifecycle, Registry, Start
  <1>16. ASSUME NEW c \in Calls, RunRelease(c) PROVE Registry'
    BY <1>16 DEF IInv, TypeOK, Lifecycle, Registry, RunRelease, Invoke, ReleaseSlot
  <1>17. ASSUME NEW c \in Calls, RunComplete(c) PROVE Registry'
    BY <1>17, CompleteRegistry DEF IInv, TypeOK, Lifecycle, RunComplete, Invoke
  <1>18. ASSUME NEW c \in Calls, DeadlinePasses(c) PROVE Registry'
    BY <1>18 DEF IInv, TypeOK, Lifecycle, Registry, DeadlinePasses
  <1>19. ASSUME ReplayAges PROVE Registry'
    BY <1>19 DEF IInv, TypeOK, Lifecycle, Registry, ReplayAges
  <1>20. ASSUME NEW f \in Calls, NEW o \in Outcomes, Finish(f, o) PROVE Registry'
    BY <1>20 DEF IInv, TypeOK, Lifecycle, Registry, Finish
  <1>21. ASSUME NEW f \in Calls, NEW c \in Calls, RunNotify(f, c) PROVE Registry'
    BY <1>21 DEF IInv, TypeOK, Lifecycle, Registry, RunNotify, Invoke
  <1>22. CASE UNCHANGED vars
    BY <1>22 DEF IInv, TypeOK, Lifecycle, Registry, vars
  <1>23. ASSUME NEW c \in Calls, ReadClock(c) PROVE Registry'
    BY <1>23 DEF IInv, TypeOK, Lifecycle, Registry, ReadClock
  <1>24. ASSUME NEW c \in Calls, Look(c) PROVE Registry'
    BY <1>24 DEF IInv, TypeOK, Lifecycle, Registry, Look, Close
  <1>25. QED
    BY <1>1, <1>2, <1>3, <1>4, <1>5, <1>6, <1>7, <1>8, <1>9, <1>10, <1>11, <1>12,
      <1>13, <1>14, <1>15, <1>16, <1>17, <1>18, <1>19, <1>20, <1>21, <1>22, <1>23, <1>24 DEF Next,
      Admit, Register, Track, Notify

\* Every step leaves each call with the Future of its own question.
LEMMA ServedStep ==
  ASSUME IInv, [Next]_vars
  PROVE  ServedOwnQuestion'
  <1> USE ConstantsAssumption DEF callVars, futureVars, admissionVars, entryVars, IsGet
  <1>1. ASSUME NEW c \in Calls, Conflict(c) PROVE ServedOwnQuestion'
    BY <1>1 DEF IInv, TypeOK, Lifecycle, ServedOwnQuestion, Conflict, Arrives, Close,
      Prune
  <1>2. ASSUME NEW c \in Calls, Board(c) PROVE ServedOwnQuestion'
    <2> DEFINE f == Registered(c)
    <2>1. f \in Calls /\ IsGet(f) /\ req[f].key = req[c].key /\ req[f].input = req[c].input
      BY <1>2, KeptKeys DEF IInv, TypeOK, Board, Registered, Registry, Entry, SameInput
    <2>2. req[f] \in GetRequest /\ req[c] \in GetRequest
      BY <1>2, <2>1 DEF IInv, TypeOK, Board, PostRequest
    <2>3. req[f] = req[c]
      BY <2>1, <2>2 DEF GetRequest
    <2>4. req' = req /\ board' = [board EXCEPT ![c] = f]
      BY <1>2 DEF Board
    <2>5. QED
      BY <1>2, <2>3, <2>4 DEF IInv, TypeOK, ServedOwnQuestion, Board
  <1>3. ASSUME NEW c \in Calls, Overload(c) PROVE ServedOwnQuestion'
    BY <1>3 DEF IInv, TypeOK, Lifecycle, ServedOwnQuestion, Overload, Arrives, Close,
      PruneIfGet, Prune
  <1>4. ASSUME NEW c \in Calls, SubmitRaises(c) PROVE ServedOwnQuestion'
    BY <1>4 DEF IInv, TypeOK, Lifecycle, ServedOwnQuestion, SubmitRaises, Arrives,
      Close, PruneIfGet, Prune
  <1>5. ASSUME NEW c \in Calls, Launch(c) PROVE ServedOwnQuestion'
    BY <1>5 DEF IInv, TypeOK, Lifecycle, ServedOwnQuestion, Launch, Arrives
  <1>6. ASSUME NEW c \in Calls, RegisterRelease(c) PROVE ServedOwnQuestion'
    BY <1>6 DEF IInv, TypeOK, Lifecycle, ServedOwnQuestion, RegisterRelease, Attach,
      ReleaseSlot
  <1>7. ASSUME NEW c \in Calls, RegisterComplete(c) PROVE ServedOwnQuestion'
    BY <1>7 DEF IInv, TypeOK, Lifecycle, ServedOwnQuestion, RegisterComplete, Attach
  <1>8. ASSUME NEW c \in Calls, TrackUnfinished(c) PROVE ServedOwnQuestion'
    BY <1>8 DEF IInv, TypeOK, Lifecycle, ServedOwnQuestion, TrackUnfinished, Attach
  <1>9. ASSUME NEW c \in Calls, TrackDone(c) PROVE ServedOwnQuestion'
    BY <1>9 DEF IInv, TypeOK, Lifecycle, ServedOwnQuestion, TrackDone, Close
  <1>10. ASSUME NEW c \in Calls, Deliver(c) PROVE ServedOwnQuestion'
    BY <1>10 DEF IInv, TypeOK, Lifecycle, ServedOwnQuestion, Deliver, Close
  <1>11. ASSUME NEW c \in Calls, Timeout(c) PROVE ServedOwnQuestion'
    BY <1>11 DEF IInv, TypeOK, Lifecycle, ServedOwnQuestion, Timeout, CancelWork
  <1>12. ASSUME NEW c \in Calls, AbortPost(c) PROVE ServedOwnQuestion'
    BY <1>12 DEF IInv, TypeOK, Lifecycle, ServedOwnQuestion, AbortPost, CancelWork
  <1>13. ASSUME NEW c \in Calls, AbortGet(c) PROVE ServedOwnQuestion'
    BY <1>13 DEF IInv, TypeOK, Lifecycle, ServedOwnQuestion, AbortGet, Close
  <1>14. ASSUME NEW c \in Calls, FinishUnwind(c) PROVE ServedOwnQuestion'
    BY <1>14 DEF IInv, TypeOK, Lifecycle, ServedOwnQuestion, FinishUnwind
  <1>15. ASSUME NEW c \in Calls, Start(c) PROVE ServedOwnQuestion'
    BY <1>15 DEF IInv, TypeOK, Lifecycle, ServedOwnQuestion, Start
  <1>16. ASSUME NEW c \in Calls, RunRelease(c) PROVE ServedOwnQuestion'
    BY <1>16 DEF IInv, TypeOK, Lifecycle, ServedOwnQuestion, RunRelease, Invoke,
      ReleaseSlot
  <1>17. ASSUME NEW c \in Calls, RunComplete(c) PROVE ServedOwnQuestion'
    BY <1>17 DEF IInv, TypeOK, Lifecycle, ServedOwnQuestion, RunComplete, Invoke
  <1>18. ASSUME NEW c \in Calls, DeadlinePasses(c) PROVE ServedOwnQuestion'
    BY <1>18 DEF IInv, TypeOK, Lifecycle, ServedOwnQuestion, DeadlinePasses
  <1>19. ASSUME ReplayAges PROVE ServedOwnQuestion'
    BY <1>19 DEF IInv, TypeOK, Lifecycle, ServedOwnQuestion, ReplayAges
  <1>20. ASSUME NEW f \in Calls, NEW o \in Outcomes, Finish(f, o) PROVE ServedOwnQuestion'
    BY <1>20 DEF IInv, TypeOK, Lifecycle, ServedOwnQuestion, Finish
  <1>21. ASSUME NEW f \in Calls, NEW c \in Calls, RunNotify(f, c) PROVE ServedOwnQuestion'
    BY <1>21 DEF IInv, TypeOK, Lifecycle, ServedOwnQuestion, RunNotify, Invoke
  <1>22. CASE UNCHANGED vars
    BY <1>22 DEF IInv, TypeOK, Lifecycle, ServedOwnQuestion, vars
  <1>23. ASSUME NEW c \in Calls, ReadClock(c) PROVE ServedOwnQuestion'
    BY <1>23 DEF IInv, TypeOK, Lifecycle, ServedOwnQuestion, ReadClock
  <1>24. ASSUME NEW c \in Calls, Look(c) PROVE ServedOwnQuestion'
    BY <1>24 DEF IInv, TypeOK, Lifecycle, ServedOwnQuestion, Look, Close
  <1>25. QED
    BY <1>1, <1>2, <1>3, <1>4, <1>5, <1>6, <1>7, <1>8, <1>9, <1>10, <1>11, <1>12,
      <1>13, <1>14, <1>15, <1>16, <1>17, <1>18, <1>19, <1>20, <1>21, <1>22, <1>23, <1>24 DEF Next,
      Admit, Register, Track, Notify

-----------------------------------------------------------------------------
(***************************************************************************)
(* Cancellation and the Audit barrier.                                     *)
(***************************************************************************)

\* Every step keeps unfinished Futures in the barriers of their calls, and a
\* GET's work stopped by its deadline alone.
LEMMA WatchedStep ==
  ASSUME IInv, [Next]_vars
  PROVE  Watched'
  <1> USE DEF callVars, futureVars, admissionVars, entryVars, IsGet,
           Unfinished, Done, Watched, Notified, DeadlineStops,
           BarrierHoldsUnfinished
  <1>1. ASSUME NEW c \in Calls, Conflict(c) PROVE Watched'
    BY <1>1 DEF IInv, TypeOK, Lifecycle, ServedOwnQuestion, Conflict, Arrives, Close,
      Prune
  <1>2. ASSUME NEW c \in Calls, Board(c) PROVE Watched'
    BY <1>2 DEF IInv, TypeOK, Lifecycle, ServedOwnQuestion, Board, Arrives, Prune,
      Registered
  <1>3. ASSUME NEW c \in Calls, Overload(c) PROVE Watched'
    BY <1>3 DEF IInv, TypeOK, Lifecycle, ServedOwnQuestion, Overload, Arrives, Close,
      PruneIfGet, Prune
  <1>4. ASSUME NEW c \in Calls, SubmitRaises(c) PROVE Watched'
    BY <1>4 DEF IInv, TypeOK, Lifecycle, ServedOwnQuestion, SubmitRaises, Arrives,
      Close, PruneIfGet, Prune
  <1>5. ASSUME NEW c \in Calls, Launch(c) PROVE Watched'
    BY <1>5 DEF IInv, TypeOK, Lifecycle, ServedOwnQuestion, Launch, Arrives
  <1>6. ASSUME NEW c \in Calls, RegisterRelease(c) PROVE Watched'
    BY <1>6 DEF IInv, TypeOK, Lifecycle, ServedOwnQuestion, RegisterRelease, Attach,
      ReleaseSlot
  <1>7. ASSUME NEW c \in Calls, RegisterComplete(c) PROVE Watched'
    BY <1>7 DEF IInv, TypeOK, Lifecycle, ServedOwnQuestion, RegisterComplete, Attach
  <1>8. ASSUME NEW c \in Calls, TrackUnfinished(c) PROVE Watched'
    BY <1>8 DEF IInv, TypeOK, Lifecycle, ServedOwnQuestion, TrackUnfinished, Attach
  <1>9. ASSUME NEW c \in Calls, TrackDone(c) PROVE Watched'
    BY <1>9 DEF IInv, TypeOK, Lifecycle, ServedOwnQuestion, TrackDone, Close
  <1>10. ASSUME NEW c \in Calls, Deliver(c) PROVE Watched'
    BY <1>10 DEF IInv, TypeOK, Lifecycle, ServedOwnQuestion, Deliver, Close
  <1>11. ASSUME NEW c \in Calls, Timeout(c) PROVE Watched'
    BY <1>11 DEF IInv, TypeOK, Lifecycle, ServedOwnQuestion, Timeout, CancelWork
  <1>12. ASSUME NEW c \in Calls, AbortPost(c) PROVE Watched'
    BY <1>12 DEF IInv, TypeOK, Lifecycle, ServedOwnQuestion, AbortPost, CancelWork
  <1>13. ASSUME NEW c \in Calls, AbortGet(c) PROVE Watched'
    BY <1>13 DEF IInv, TypeOK, Lifecycle, ServedOwnQuestion, AbortGet, Close
  <1>14. ASSUME NEW c \in Calls, FinishUnwind(c) PROVE Watched'
    BY <1>14 DEF IInv, TypeOK, Lifecycle, ServedOwnQuestion, FinishUnwind
  <1>15. ASSUME NEW c \in Calls, Start(c) PROVE Watched'
    BY <1>15 DEF IInv, TypeOK, Lifecycle, ServedOwnQuestion, Start
  <1>16. ASSUME NEW c \in Calls, RunRelease(c) PROVE Watched'
    BY <1>16 DEF IInv, TypeOK, Lifecycle, ServedOwnQuestion, RunRelease, Invoke,
      ReleaseSlot
  <1>17. ASSUME NEW c \in Calls, RunComplete(c) PROVE Watched'
    BY <1>17 DEF IInv, TypeOK, Lifecycle, ServedOwnQuestion, RunComplete, Invoke
  <1>18. ASSUME NEW c \in Calls, DeadlinePasses(c) PROVE Watched'
    BY <1>18 DEF IInv, TypeOK, Lifecycle, ServedOwnQuestion, DeadlinePasses
  <1>19. ASSUME ReplayAges PROVE Watched'
    BY <1>19 DEF IInv, TypeOK, Lifecycle, ServedOwnQuestion, ReplayAges
  <1>20. ASSUME NEW f \in Calls, NEW o \in Outcomes, Finish(f, o) PROVE Watched'
    BY <1>20 DEF IInv, TypeOK, Lifecycle, ServedOwnQuestion, Finish
  <1>21. ASSUME NEW f \in Calls, NEW c \in Calls, RunNotify(f, c) PROVE Watched'
    BY <1>21 DEF IInv, TypeOK, Lifecycle, ServedOwnQuestion, RunNotify, Invoke
  <1>22. CASE UNCHANGED vars
    BY <1>22 DEF IInv, TypeOK, Lifecycle, ServedOwnQuestion, vars
  <1>23. ASSUME NEW c \in Calls, ReadClock(c) PROVE Watched'
    BY <1>23 DEF IInv, TypeOK, Lifecycle, ServedOwnQuestion, ReadClock
  <1>24. ASSUME NEW c \in Calls, Look(c) PROVE Watched'
    BY <1>24 DEF IInv, TypeOK, Lifecycle, ServedOwnQuestion, Look, Close
  <1>25. QED
    BY <1>1, <1>2, <1>3, <1>4, <1>5, <1>6, <1>7, <1>8, <1>9, <1>10, <1>11, <1>12,
      <1>13, <1>14, <1>15, <1>16, <1>17, <1>18, <1>19, <1>20, <1>21, <1>22, <1>23, <1>24 DEF Next,
      Admit, Register, Track, Notify

-----------------------------------------------------------------------------
(***************************************************************************)
(* Refinement of SharedExecution.                                          *)
(***************************************************************************)

Seat(c) == IF IsGet(c) THEN board[c] ELSE None

\* A key keeps its entry, or loses one whose execution is over.
Spared(k) == flight'[k] = flight[k]
Dropped(k) == flight'[k] = None /\ Leg(flight[k]) = "over"

\* A step in which keys are at most forgotten, and only keys whose execution
\* is over, is a step of the contract.
LEMMA ForgetStep ==
  ASSUME IInv, TypeOK', UNCHANGED req,
         \A c \in Calls : Leg(c)' = Leg(c) /\ Seat(c)' = Seat(c),
         \A k \in Keys : Spared(k) \/ Dropped(k)
  PROVE  Contract!Next
  <1> DEFINE E == {k \in Keys : flight'[k] = None}
  <1>1. flight' = [k \in Keys |-> IF k \in E THEN None ELSE flight[k]]
    BY DEF TypeOK, Spared, Dropped
  <1>2. \A k \in E : flight[k] # None => flight[k] \in Calls /\ Leg(flight[k]) = "over"
    BY DEF IInv, TypeOK, Spared, Dropped
  <1>3. Contract!Forget(E)
    BY <1>1, <1>2 DEF Contract!Forget, Contract!Forgettable, Seat
  <1>4. QED
    BY <1>3 DEF Contract!Next

\* So is a step that changes no Future and no waiting call.
LEMMA SameStep ==
  ASSUME IInv, TypeOK', UNCHANGED <<req, fut, board>>,
         \A k \in Keys : Spared(k) \/ Dropped(k)
  PROVE  Contract!Next
  <1>1. \A c \in Calls : Leg(c)' = Leg(c) /\ Seat(c)' = Seat(c)
    BY DEF Leg, Seat, IsGet, Unfinished
  <1>2. QED
    BY <1>1, ForgetStep

\* What is registered under a key the prune drops has finished.
LEMMA DroppedIsOver ==
  ASSUME IInv, NEW k \in Keys, flight[k] # None, k \notin Kept(flight, stamp, seen)
  PROVE  Leg(flight[k]) = "over"
  <1>1. stamp[k] > 0
    BY KeptKeys DEF IInv, TypeOK
  <1>2. Entry(k)
    BY DEF IInv, Registry
  <1>3. QED
    BY <1>1, <1>2 DEF Entry, Leg, Unfinished

\* A prune forgets finished executions only.
LEMMA PruneForgets ==
  ASSUME IInv, Prune(flight, stamp, seen), NEW k \in Keys
  PROVE  Spared(k) \/ Dropped(k)
  BY DroppedIsOver DEF Prune, Spared, Dropped, IInv, TypeOK

\* The completion callback forgets finished executions only: f itself and
\* what its prune drops.
LEMMA CompleteForgets ==
  ASSUME IInv, NEW f \in Calls, Done(f), Complete(f), IsGet(f), NEW k \in Keys
  PROVE  Spared(k) \/ Dropped(k)
  <1> USE DEF Spared, Dropped
  <1>1. Leg(f) = "over"
    BY DEF Done, Leg, Unfinished
  <1>2. CASE flight[k] = f
    <2>1. flight'[k] = flight[k] \/ flight'[k] = None
      BY DEF Complete, Prune, entryVars, IInv, TypeOK
    <2>2. QED
      BY <1>1, <1>2, <2>1
  <1>3. CASE flight[k] # f
    <2> DEFINE marked == [stamp EXCEPT ![req[f].key] = clock + 1]
    <2>1. CASE flight[req[f].key] # f
      BY <2>1 DEF Complete, entryVars
    <2>2. CASE flight[req[f].key] = f /\ Cacheable(f)
      <3>1. Prune(flight, marked, horizon) /\ (k \in Keys => marked[k] = stamp[k])
        BY <1>3, <2>2 DEF Complete, IInv, TypeOK
      <3>2. k \notin Kept(flight, marked, horizon) /\ flight[k] # None => stamp[k] > 0
        BY <3>1 DEF Kept, Live, IInv, TypeOK
      <3>3. flight[k] # None /\ stamp[k] > 0 => Leg(flight[k]) = "over"
        BY DEF IInv, Registry, Entry, Leg, Unfinished
      <3>4. QED
        BY <3>1, <3>2, <3>3 DEF Prune
    <2>3. CASE flight[req[f].key] = f /\ ~Cacheable(f)
      BY <1>3, <2>3 DEF Complete, IInv, TypeOK
    <2>4. QED
      BY <2>1, <2>2, <2>3
  <1>4. QED
    BY <1>2, <1>3

\* A GET that joins or replays shares the execution of its key.
LEMMA BoardShares ==
  ASSUME IInv, TypeOK', ServedOwnQuestion', NEW c \in Calls, Board(c)
  PROVE  Contract!Next
  <1> DEFINE k == req[c].key
             f == Registered(c)
  <1>0. PICK E \in SUBSET Keys : E = {j \in Keys : flight'[j] = None}
    OBVIOUS
  <1>1. k \in Keys /\ k \in Kept(flight, stamp, seen) /\ f = flight[k] /\ f # None /\ f \in Calls
    BY KeptKeys DEF Board, Registered, IInv, TypeOK
  <1>2. flight' = [j \in Keys |-> IF j \in E THEN None ELSE flight[j]]
    BY <1>0 DEF Board, Prune
  <1>3. k \notin E
    BY <1>0, <1>1 DEF Board, Prune
  <1>4. \A j \in E : flight[j] # None => flight[j] \in Calls /\ Leg(flight[j]) = "over"
    BY <1>0, PruneForgets DEF Board, IInv, TypeOK, Spared, Dropped
  <1>5. board' = [board EXCEPT ![c] = f] /\ req' = req /\ fut' = fut
    BY DEF Board, futureVars
  <1>6. req[f] = req[c]
    BY <1>1, <1>5 DEF ServedOwnQuestion, IInv, TypeOK
  <1>7. board[c] = None /\ fut[c] = "unborn" /\ IsGet(c)
    BY ConstantsAssumption DEF Board, Arrives, IInv, Lifecycle
  <1>8. [g \in Calls |-> Leg(g)]' = [g \in Calls |-> Leg(g)]
    BY <1>5 DEF Leg, IsGet, Unfinished
  <1>9. [g \in Calls |-> Seat(g)]' = [[g \in Calls |-> Seat(g)] EXCEPT ![c] = f]
    BY <1>5, <1>7 DEF Seat, IsGet, IInv, TypeOK
  <1>10. Contract!ShareOne(c, E)
    BY <1>1, <1>2, <1>3, <1>4, <1>5, <1>6, <1>7, <1>8, <1>9
    DEF Contract!ShareOne, Contract!Forgettable, Seat, Leg, IsGet
  <1>11. QED
    BY <1>10 DEF Contract!Next

\* A GET that launches starts the one execution of its key.
LEMMA LaunchStarts ==
  ASSUME IInv, TypeOK', NEW c \in Calls, Launch(c), IsGet(c)
  PROVE  Contract!Next
  <1> DEFINE k == req[c].key
  <1>0. PICK E \in SUBSET Keys : E = {j \in Keys : j = k \/ flight'[j] = None}
    OBVIOUS
  <1>1. k \in Keys /\ flight'[k] = c
    BY ConstantsAssumption DEF Launch, IsGet, IInv, TypeOK, GetRequest, PostRequest
  <1>2. flight' = [j \in Keys |-> IF j = k THEN c ELSE IF j \in E THEN None ELSE flight[j]]
    BY <1>0 DEF Launch, IInv, TypeOK
  <1>3. \A j \in E : flight[j] # None => j \notin Kept(flight, stamp, seen)
    BY <1>0, <1>1, KeptKeys DEF Launch, Registered, IInv, TypeOK
  <1>4. \A j \in E : flight[j] # None => flight[j] \in Calls /\ Leg(flight[j]) = "over"
    BY <1>3, DroppedIsOver DEF IInv, TypeOK
  <1>5. board' = [board EXCEPT ![c] = c] /\ req' = req /\ fut' = [fut EXCEPT ![c] = "queued"]
    BY DEF Launch
  <1>6. board[c] = None /\ fut[c] = "unborn"
    BY ConstantsAssumption DEF Launch, Arrives, IInv, Lifecycle
  <1>7. [g \in Calls |-> Leg(g)]' = [[g \in Calls |-> Leg(g)] EXCEPT ![c] = "running"]
    BY <1>5 DEF Leg, IsGet, Unfinished, IInv, TypeOK
  <1>8. [g \in Calls |-> Seat(g)]' = [[g \in Calls |-> Seat(g)] EXCEPT ![c] = c]
    BY <1>5 DEF Seat, IsGet, IInv, TypeOK
  <1>9. Contract!StartOne(c, E)
    BY <1>0, <1>1, <1>2, <1>4, <1>5, <1>6, <1>7, <1>8
    DEF Contract!StartOne, Contract!Forgettable, Seat, Leg, IsGet
  <1>10. QED
    BY <1>9 DEF Contract!Next

\* The Future of f leaves the unfinished states and nothing else moves.
LEMMA EndStep ==
  ASSUME IInv, NEW f \in Calls, Unfinished(f), NEW v \in {"finished", "cancelled"},
         fut' = [fut EXCEPT ![f] = v], UNCHANGED <<req, board, flight>>
  PROVE  Contract!Next
  <1>1. CASE IsGet(f)
    <2>1. [g \in Calls |-> Leg(g)]' = [[g \in Calls |-> Leg(g)] EXCEPT ![f] = "over"]
      BY <1>1 DEF Leg, IsGet, Unfinished, IInv, TypeOK
    <2>2. [g \in Calls |-> Seat(g)]' = [g \in Calls |-> Seat(g)]
      BY DEF Seat, IsGet
    <2>3. Contract!End(f)
      BY <1>1, <2>1, <2>2 DEF Contract!End, Seat, Leg, Unfinished
    <2>4. QED
      BY <2>3 DEF Contract!Next
  <1>2. CASE ~IsGet(f)
    <2>1. [g \in Calls |-> Leg(g)]' = [g \in Calls |-> Leg(g)]
      BY <1>2 DEF Leg, IsGet, Unfinished, IInv, TypeOK
    <2>2. [g \in Calls |-> Seat(g)]' = [g \in Calls |-> Seat(g)]
      BY DEF Seat, IsGet
    <2>3. Contract!Forget({})
      BY <2>1, <2>2 DEF Contract!Forget, Contract!Forgettable, Seat, IInv, TypeOK
    <2>4. QED
      BY <2>3 DEF Contract!Next
  <1>3. QED
    BY <1>1, <1>2

\* Every step is a step of the contract or leaves it alone.
LEMMA RefinementStep ==
  ASSUME IInv, [Next]_vars
  PROVE  [Contract!Next]_(Contract!vars)
  <1> USE DEF callVars, futureVars, admissionVars, entryVars
  <1>0. TypeOK' /\ ServedOwnQuestion'
    BY TypeStep, ServedStep
  <1>1. ASSUME NEW c \in Calls, Conflict(c) PROVE Contract!Next
    <2>1. UNCHANGED <<req, fut, board>>
      BY <1>1 DEF Conflict, Arrives, Close
    <2>2. \A k \in Keys : Spared(k) \/ Dropped(k)
      BY <1>1, PruneForgets DEF Conflict, Arrives, Close
    <2>3. QED
      BY <1>0, <2>1, <2>2, SameStep
  <1>2. ASSUME NEW c \in Calls, Overload(c) PROVE Contract!Next
    <2>1. UNCHANGED <<req, fut, board>>
      BY <1>2 DEF Overload, Arrives, Close, PruneIfGet
    <2>2. \A k \in Keys : Spared(k) \/ Dropped(k)
      BY <1>2, PruneForgets DEF Overload, PruneIfGet, Spared
    <2>3. QED
      BY <1>0, <2>1, <2>2, SameStep
  <1>3. ASSUME NEW c \in Calls, SubmitRaises(c) PROVE Contract!Next
    <2>1. UNCHANGED <<req, fut, board>>
      BY <1>3 DEF SubmitRaises, Arrives, Close, PruneIfGet
    <2>2. \A k \in Keys : Spared(k) \/ Dropped(k)
      BY <1>3, PruneForgets DEF SubmitRaises, PruneIfGet, Spared
    <2>3. QED
      BY <1>0, <2>1, <2>2, SameStep
  <1>4. ASSUME NEW c \in Calls, Board(c) PROVE Contract!Next
    BY <1>4, <1>0, BoardShares
  <1>5. ASSUME NEW c \in Calls, Launch(c) PROVE Contract!Next
    <2>1. CASE IsGet(c)
      BY <1>5, <1>0, <2>1, LaunchStarts
    <2>2. CASE ~IsGet(c)
      <3>1. \A g \in Calls : Leg(g)' = Leg(g) /\ Seat(g)' = Seat(g)
        BY <1>5, <2>2 DEF Launch, Leg, Seat, IsGet, Unfinished, IInv, TypeOK
      <3>2. UNCHANGED <<req, flight>>
        BY <1>5, <2>2 DEF Launch
      <3>3. QED
        BY <1>0, <3>1, <3>2, ForgetStep DEF Spared
    <2>3. QED
      BY <2>1, <2>2
  <1>6. ASSUME NEW c \in Calls, RegisterRelease(c) PROVE Contract!Next
    BY <1>6, <1>0, SameStep DEF RegisterRelease, Attach, Spared
  <1>7. ASSUME NEW c \in Calls, TrackUnfinished(c) PROVE Contract!Next
    BY <1>7, <1>0, SameStep DEF TrackUnfinished, Attach, Spared
  <1>8. ASSUME NEW c \in Calls, TrackDone(c) PROVE Contract!Next
    BY <1>8, <1>0, SameStep DEF TrackDone, Close, Spared
  <1>9. ASSUME NEW c \in Calls, Deliver(c) PROVE Contract!Next
    BY <1>9, <1>0, SameStep DEF Deliver, Close, Spared
  <1>10. ASSUME NEW c \in Calls, AbortGet(c) PROVE Contract!Next
    BY <1>10, <1>0, SameStep DEF AbortGet, Close, Spared
  <1>11. ASSUME NEW c \in Calls, FinishUnwind(c) PROVE Contract!Next
    BY <1>11, <1>0, SameStep DEF FinishUnwind, Spared
  <1>12. ASSUME NEW c \in Calls, RunRelease(c) PROVE Contract!Next
    BY <1>12, <1>0, SameStep DEF RunRelease, Invoke, Spared
  <1>13. ASSUME NEW c \in Calls, DeadlinePasses(c) PROVE Contract!Next
    BY <1>13, <1>0, SameStep DEF DeadlinePasses, Spared
  <1>14. ASSUME NEW c \in Calls, RegisterComplete(c) PROVE Contract!Next
    <2>1. UNCHANGED <<req, fut, board>>
      BY <1>14 DEF RegisterComplete
    <2>2. \A k \in Keys : Spared(k) \/ Dropped(k)
      <3>1. IsGet(c)
        BY <1>14 DEF RegisterComplete, IInv, Lifecycle
      <3>2. CASE Done(c)
        BY <1>14, <3>1, <3>2, CompleteForgets DEF RegisterComplete
      <3>3. CASE ~Done(c)
        BY <1>14, <3>3 DEF RegisterComplete, Spared
      <3>4. QED
        BY <3>2, <3>3
    <2>3. QED
      BY <1>0, <2>1, <2>2, SameStep
  <1>15. ASSUME NEW c \in Calls, RunComplete(c) PROVE Contract!Next
    <2>1. UNCHANGED <<req, fut, board>>
      BY <1>15 DEF RunComplete, Invoke
    <2>2. \A k \in Keys : Spared(k) \/ Dropped(k)
      BY <1>15, CompleteForgets DEF RunComplete, Invoke, IInv, Lifecycle
    <2>3. QED
      BY <1>0, <2>1, <2>2, SameStep
  <1>16. ASSUME NEW c \in Calls, Timeout(c) PROVE Contract!Next
    <2>1. board[c] \in Calls
      BY <1>16 DEF Timeout, IInv, TypeOK, Lifecycle
    <2>2. CASE fut[board[c]] = "queued"
      BY <1>16, <2>1, <2>2, EndStep DEF Timeout, CancelWork, Unfinished
    <2>3. CASE fut[board[c]] # "queued"
      BY <1>16, <1>0, <2>3, SameStep DEF Timeout, CancelWork, Spared
    <2>4. QED
      BY <2>2, <2>3
  <1>17. ASSUME NEW c \in Calls, AbortPost(c) PROVE Contract!Next
    <2>1. board[c] \in Calls
      BY <1>17 DEF AbortPost, IInv, TypeOK, Lifecycle
    <2>2. CASE fut[board[c]] = "queued"
      BY <1>17, <2>1, <2>2, EndStep DEF AbortPost, CancelWork, Unfinished
    <2>3. CASE fut[board[c]] # "queued"
      BY <1>17, <1>0, <2>3, SameStep DEF AbortPost, CancelWork, Spared
    <2>4. QED
      BY <2>2, <2>3
  <1>18. ASSUME NEW c \in Calls, Start(c) PROVE Contract!Next
    <2>1. \A g \in Calls : Leg(g)' = Leg(g) /\ Seat(g)' = Seat(g)
      BY <1>18 DEF Start, Leg, Seat, IsGet, Unfinished, IInv, TypeOK
    <2>2. UNCHANGED <<req, flight>>
      BY <1>18 DEF Start
    <2>3. QED
      BY <1>0, <2>1, <2>2, ForgetStep DEF Spared
  <1>19. ASSUME NEW f \in Calls, NEW o \in Outcomes, Finish(f, o) PROVE Contract!Next
    BY <1>19, EndStep DEF Finish, Unfinished
  <1>20. ASSUME NEW f \in Calls, NEW c \in Calls, RunNotify(f, c) PROVE Contract!Next
    BY <1>20, <1>0, SameStep DEF RunNotify, Invoke, Spared
  <1>21. ASSUME ReplayAges PROVE Contract!Next
    BY <1>21, <1>0, SameStep DEF ReplayAges, Spared
  <1>22. CASE UNCHANGED vars
    BY <1>22 DEF vars, Contract!vars, Leg, IsGet, Unfinished
  <1>23. ASSUME NEW c \in Calls, ReadClock(c) PROVE Contract!Next
    BY <1>23, <1>0, SameStep DEF ReadClock, Spared
  <1>24. ASSUME NEW c \in Calls, Look(c) PROVE Contract!Next
    BY <1>24, <1>0, SameStep DEF Look, Close, Spared
  <1>25. QED
    BY <1>1, <1>2, <1>3, <1>4, <1>5, <1>6, <1>7, <1>8, <1>9, <1>10, <1>11, <1>12,
      <1>13, <1>14, <1>15, <1>16, <1>17, <1>18, <1>19, <1>20, <1>21, <1>22, <1>23, <1>24 DEF Next,
      Admit, Register, Track, Notify

-----------------------------------------------------------------------------
(***************************************************************************)
(* Theorems.                                                               *)
(***************************************************************************)

\* The process starts with no call, no worker and an empty registry.
LEMMA InitInvariant == Init => IInv
  <1> SUFFICES ASSUME Init PROVE IInv
    OBVIOUS
  <1> USE ConstantsAssumption DEF Init
  <1>1. TypeOK
    BY DEF TypeOK, Phases
  <1>2. Lifecycle
    BY DEF Lifecycle
  <1>3. Registry
    BY DEF Registry, Entry, Pending, Unfinished
  <1>4. Slots
    <2>1. SlotHolders = {}
      BY DEF SlotHolders, HoldsSlot
    <2>2. QED
      BY <2>1, FS_EmptySet DEF Slots, Unfinished
  <1>5. ServedOwnQuestion
    BY DEF ServedOwnQuestion
  <1>6. Watched
    BY DEF Watched, Notified, DeadlineStops, BarrierHoldsUnfinished, Unfinished
  <1>7. QED
    BY <1>1, <1>2, <1>3, <1>4, <1>5, <1>6 DEF IInv

\* The invariant holds in every reachable state: Futures follow the calls that
\* submitted them, the registry has every running GET under its key, slots,
\* seats and Audit barriers are accounted for, and deadlines alone stop GETs.
THEOREM InductiveInvariant == Spec => []IInv
  <1>1. IInv /\ [Next]_vars => IInv'
    BY TypeStep, LifecycleStep, RegistryStep, SlotsStep, ServedStep, WatchedStep DEF IInv
  <1>2. QED
    BY InitInvariant, <1>1, PTL DEF Spec

\* Type correctness of the coordinator, the admission counter and the barrier.
THEOREM TypeCorrect == Spec => []TypeOK
  BY InductiveInvariant, PTL DEF IInv

\* The admission counter equals the number of workers that still owe their
\* release callback, and the idle Event agrees: no slot leaks and none is
\* released twice.
THEOREM SlotsAccounted == Spec => []AdmissionAccounting
  <1>1. IInv => AdmissionAccounting
    BY DEF IInv, Slots, AdmissionAccounting
  <1>2. QED
    BY InductiveInvariant, <1>1, PTL

\* The number of unfinished Agent operations never passes the limit.
THEOREM WorkBounded == Spec => []WorkWithinLimit
  <1>1. ASSUME IInv PROVE WorkWithinLimit
    <2> DEFINE U == {f \in Calls : Unfinished(f)}
    <2>1. U \subseteq SlotHolders
      BY <1>1 DEF IInv, Slots, SlotHolders
    <2>2. Cardinality(U) <= Cardinality(SlotHolders) /\ Cardinality(U) \in Nat
      BY <2>1, HoldersFinite, FS_Subset, FS_CardinalityType
    <2>3. QED
      BY <1>1, <2>2, HoldersFinite, ConstantsAssumption
      DEF IInv, Slots, TypeOK, WorkWithinLimit
  <1>2. QED
    BY InductiveInvariant, <1>1, PTL

\* At most one unfinished worker exists per question key.
THEOREM OneWorkerPerKey == Spec => []SingleFlight
  <1>1. IInv => SingleFlight
    BY DEF IInv, Registry, SingleFlight
  <1>2. QED
    BY InductiveInvariant, <1>1, PTL

\* What stays registered after its completion callback is a safe result.
THEOREM RegistrySafe == Spec => []CacheOnlySafe
  <1>1. ASSUME IInv, NEW k \in Keys, flight[k] # None
        PROVE  IF stamp[k] > 0
               THEN fut[flight[k]] = "finished" /\ outcome[flight[k]] = "safe"
               ELSE \/ phase[flight[k]] \in {"registering", "indexing"}
                    \/ <<"complete">> \in callbacks[flight[k]]
    <2>1. Entry(k) /\ stamp[k] \in Nat
      BY <1>1 DEF IInv, TypeOK, Registry
    <2>2. QED
      BY <1>1, <2>1 DEF Entry, Pending
  <1>2. IInv => CacheOnlySafe
    BY <1>1 DEF CacheOnlySafe
  <1>3. QED
    BY InductiveInvariant, <1>2, PTL

\* No call waits on, or is answered from, the worker of another question.
THEOREM OwnQuestion == Spec => []ServedOwnQuestion
  BY InductiveInvariant, PTL DEF IInv

\* Only the deadline stops an execution that others may share, and it stays
\* registered under its key until it is done.
THEOREM SharedWorkKept == Spec => []SharedWorkSurvivesAbort
  <1>1. IInv => SharedWorkSurvivesAbort
    BY DEF IInv, Watched, DeadlineStops, Registry, SharedWorkSurvivesAbort
  <1>2. QED
    BY InductiveInvariant, <1>1, PTL

\* An Audit barrier never lets go of a Future that is still unfinished.
THEOREM BarrierKept == Spec => []BarrierHoldsUnfinished
  BY InductiveInvariant, PTL DEF IInv, Watched

\* The coordinator implements its docstring's contract: one shared execution
\* per key, forgotten only when it is over.
THEOREM SharesExecution == Spec => ImplementsSharedExecution
  <1>1. Init => Contract!Init
    BY DEF Init, Contract!Init, Leg, IsGet
  <1>2. IInv /\ [Next]_vars => [Contract!Next]_(Contract!vars)
    BY RefinementStep
  <1>3. QED
    BY InductiveInvariant, <1>1, <1>2, PTL DEF Spec, ImplementsSharedExecution, Contract!Spec

-----------------------------------------------------------------------------
(***************************************************************************)
(* The replay cache.  A completed entry is kept if at most as many entries *)
(* are alive as MaxReplay and those older than it: take the oldest one     *)
(* that is kept; none of the kept ones is older than it.                   *)
(***************************************************************************)

\* A set of keys that has numbers has one with the least.
LEMMA LeastStamp ==
  ASSUME NEW S, NEW st \in [Keys -> Nat], S \subseteq Keys, S # {}
  PROVE  \E k \in S : \A j \in S : ~(st[j] < st[k])
  <1> DEFINE T == {st[k] : k \in S}
  <1>1. T \subseteq Nat /\ T # {}
    OBVIOUS
  <1>2. PICK x \in T : \A y \in T : ~(<<y, x>> \in OpToRel(<, Nat))
    BY <1>1, NatLessThanWellFounded, WFMin, Zenon
  <1>3. \A y \in T : ~(y < x)
    BY <1>1, <1>2 DEF OpToRel
  <1>4. PICK k \in S : st[k] = x
    OBVIOUS
  <1>5. QED
    BY <1>3, <1>4

\* Pruning leaves no more than MaxReplay completed entries.
LEMMA PruneBounds ==
  ASSUME NEW fl, NEW h, NEW st \in [Keys -> Nat], IsFiniteSet({k \in Keys : fl[k] # None})
  PROVE  Cardinality({k \in Kept(fl, st, h) : st[k] > 0}) <= MaxReplay
  <1> DEFINE S == {k \in Kept(fl, st, h) : st[k] > 0}
  <1> SUFFICES Cardinality(S) <= MaxReplay
    OBVIOUS
  <1>1. IsFiniteSet(Live(fl, st, h))
    <2>1. Live(fl, st, h) \subseteq {k \in Keys : fl[k] # None}
      BY DEF Live
    <2>2. QED
      BY <2>1, FS_Subset
  <1>2. S \subseteq Live(fl, st, h) /\ S \subseteq Keys
    BY DEF Kept, Live
  <1>3. CASE S = {}
    BY <1>3, FS_EmptySet, ConstantsAssumption
  <1>4. CASE S # {}
    <2>1. PICK k \in S : \A j \in S : ~(st[j] < st[k])
      BY <1>2, <1>4, LeastStamp
    <2> DEFINE O == Older(k, fl, st, h)
    <2>2. O \subseteq Live(fl, st, h) /\ S \cap O = {}
      BY <2>1 DEF Older
    <2>3. /\ IsFiniteSet(S) /\ IsFiniteSet(O)
          /\ Cardinality(S) \in Nat /\ Cardinality(O) \in Nat
          /\ Cardinality(Live(fl, st, h)) \in Nat
      BY <1>1, <1>2, <2>2, FS_Subset, FS_CardinalityType
    <2>4. Cardinality(S \cup O) = Cardinality(S) + Cardinality(O)
      <3>1. Cardinality(S \cap O) = 0
        BY <2>2, FS_EmptySet
      <3>2. Cardinality(S \cup O) = Cardinality(S) + Cardinality(O) - Cardinality(S \cap O)
        BY <2>3, FS_Union
      <3> HIDE DEF S, O
      <3>3. QED
        BY <2>3, <3>1, <3>2
    <2>5. Cardinality(S \cup O) <= Cardinality(Live(fl, st, h))
      BY <1>1, <1>2, <2>2, FS_Subset
    <2>6. Cardinality(O) + MaxReplay >= Cardinality(Live(fl, st, h))
      BY <2>1 DEF Kept
    <2> HIDE DEF S, O
    <2>7. QED
      BY <2>3, <2>4, <2>5, <2>6, ConstantsAssumption
  <1>5. QED
    BY <1>3, <1>4

\* Every entry is of a call, and there are finitely many calls.
LEMMA EntriesFinite ==
  ASSUME TypeOK, Registry
  PROVE  IsFiniteSet({k \in Keys : flight[k] # None})
  <1> DEFINE S == {k \in Keys : flight[k] # None}
             f == [k \in S |-> flight[k]]
  <1>1. f \in [S -> Calls]
    BY DEF TypeOK
  <1>2. \A j \in S, k \in S : f[j] = f[k] => j = k
    BY DEF Registry, Entry
  <1>3. f \in Injection(S, Calls)
    BY <1>1, <1>2 DEF Injection, IsInjective
  <1>4. QED
    BY <1>3, FS_Injection, ConstantsAssumption

Completed == {k \in Keys : stamp[k] > 0}

\* Entries that are completed only by a prune are within the bound.
LEMMA PrunedBound ==
  ASSUME TypeOK, Registry, NEW st \in [Keys -> Nat], NEW h,
         \A k \in Keys : stamp'[k] > 0 => k \in Kept(flight, st, h) /\ st[k] > 0
  PROVE  ReplayBound'
  <1> DEFINE S == {k \in Kept(flight, st, h) : st[k] > 0}
  <1>1. Completed' \subseteq S /\ S \subseteq {k \in Keys : flight[k] # None}
    BY DEF Completed, Kept, Live
  <1>2. IsFiniteSet(S)
    BY <1>1, EntriesFinite, FS_Subset
  <1>3. Cardinality(Completed') <= Cardinality(S) /\ IsFiniteSet(Completed')
    BY <1>1, <1>2, FS_Subset
  <1>4. Cardinality(S) <= MaxReplay
    BY EntriesFinite, PruneBounds
  <1>5. Cardinality(S) \in Nat /\ Cardinality(Completed') \in Nat
    BY <1>2, <1>3, FS_CardinalityType
  <1> HIDE DEF S
  <1>6. Cardinality(Completed') <= MaxReplay
    BY <1>3, <1>4, <1>5, ConstantsAssumption
  <1>7. QED
    BY <1>6 DEF ReplayBound, Completed

LEMMA CompleteBound ==
  ASSUME TypeOK, Registry, ReplayBound, NEW f \in Calls, Complete(f)
  PROVE  ReplayBound'
  <1> DEFINE k == req[f].key
  <1>1. CASE flight[k] = f /\ Cacheable(f)
    <2> DEFINE marked == [stamp EXCEPT ![k] = clock + 1]
    <2>1. Prune(flight, marked, horizon)
      BY <1>1 DEF Complete
    <2>2. marked \in [Keys -> Nat]
      <3>1. clock + 1 \in Nat /\ stamp \in [Keys -> Nat]
        BY DEF TypeOK
      <3>2. QED
        BY <3>1
    <2>3. \A j \in Keys : stamp'[j] > 0 => j \in Kept(flight, marked, horizon) /\ marked[j] > 0
      BY <2>1 DEF Prune
    <2> HIDE DEF marked
    <2>4. QED
      BY <2>2, <2>3, PrunedBound
  <1>2. CASE ~(flight[k] = f /\ Cacheable(f))
    BY <1>2 DEF Complete, entryVars, ReplayBound
  <1>3. QED
    BY <1>1, <1>2

\* A GET has pruned the registry, and may have registered itself where nothing
\* was left.
Pruned ==
  \A k \in Keys :
    IF k \in Kept(flight, stamp, seen)
    THEN flight'[k] = flight[k] /\ stamp'[k] = stamp[k]
    ELSE stamp'[k] = 0

\* The registry changes by the prune of an admission or by the completion
\* callback of a worker whose completion was still to come.
LEMMA RegistryMoves ==
  ASSUME IInv, [Next]_vars
  PROVE  \/ UNCHANGED <<flight, stamp, clock>>
         \/ Pruned /\ UNCHANGED clock
         \/ \E f \in Calls : Complete(f) /\ IsGet(f) /\ Pending(f)
  <1> USE DEF entryVars
  <1>1. Prune(flight, stamp, seen) => Pruned
    BY DEF Prune, Pruned
  <1>2. ASSUME NEW c \in Calls, Conflict(c) \/ Board(c) \/ Overload(c) \/ SubmitRaises(c)
        PROVE  UNCHANGED <<flight, stamp, clock>> \/ (Pruned /\ UNCHANGED clock)
    BY <1>1, <1>2 DEF Conflict, Board, Overload, SubmitRaises, PruneIfGet
  <1>3. ASSUME NEW c \in Calls, Launch(c)
        PROVE  UNCHANGED <<flight, stamp, clock>> \/ (Pruned /\ UNCHANGED clock)
    <2>1. CASE IsGet(c)
      <3>1. req[c].key \notin Kept(flight, stamp, seen)
        BY <1>3, <2>1, KeptKeys DEF Launch, Registered
      <3>2. QED
        BY <1>3, <2>1, <3>1 DEF Launch, Pruned
    <2>2. CASE ~IsGet(c)
      BY <1>3, <2>2 DEF Launch
    <2>3. QED
      BY <2>1, <2>2
  <1>4. ASSUME NEW c \in Calls, Register(c)
        PROVE  UNCHANGED <<flight, stamp, clock>> \/ (Complete(c) /\ IsGet(c) /\ Pending(c))
    BY <1>4 DEF Register, RegisterRelease, RegisterComplete, Pending, IInv, Lifecycle
  <1>5. ASSUME NEW f \in Calls, RunComplete(f)
        PROVE  Complete(f) /\ IsGet(f) /\ Pending(f)
    BY <1>5 DEF RunComplete, Invoke, Pending, IInv, Lifecycle
  <1>6. ASSUME NEW c \in Calls,
               \/ ReadClock(c) \/ Track(c) \/ Deliver(c) \/ Timeout(c) \/ AbortPost(c)
               \/ AbortGet(c) \/ FinishUnwind(c)
        PROVE  UNCHANGED <<flight, stamp, clock>>
    BY <1>6
    DEF ReadClock, Track, TrackUnfinished, TrackDone, Look, Deliver, Timeout, AbortPost,
        AbortGet, CancelWork, FinishUnwind
  <1>7. ASSUME NEW f \in Calls,
               \/ Start(f) \/ (\E o \in Outcomes : Finish(f, o)) \/ RunRelease(f) \/ Notify(f)
               \/ DeadlinePasses(f)
        PROVE  UNCHANGED <<flight, stamp, clock>>
    BY <1>7 DEF Start, Finish, RunRelease, Notify, RunNotify, DeadlinePasses
  <1>8. ReplayAges \/ UNCHANGED vars => UNCHANGED <<flight, stamp, clock>>
    BY DEF ReplayAges, vars
  <1>9. QED
    BY <1>2, <1>3, <1>4, <1>5, <1>6, <1>7, <1>8 DEF Next, Admit

LEMMA ReplayBoundStep ==
  ASSUME IInv, ReplayBound, [Next]_vars
  PROVE  ReplayBound'
  <1>1. TypeOK /\ Registry /\ stamp \in [Keys -> Nat]
    BY DEF IInv, TypeOK
  <1>2. CASE stamp' = stamp
    BY <1>2 DEF ReplayBound
  <1>3. CASE Pruned
    <2>1. \A k \in Keys : stamp'[k] > 0 => k \in Kept(flight, stamp, seen) /\ stamp[k] > 0
      BY <1>3 DEF Pruned
    <2>2. QED
      BY <1>1, <2>1, PrunedBound
  <1>4. ASSUME NEW f \in Calls, Complete(f) PROVE ReplayBound'
    BY <1>1, <1>4, CompleteBound
  <1>5. QED
    BY <1>2, <1>3, <1>4, RegistryMoves

\* The registry never holds more completed results than max_replay_entries,
\* whatever completes and expires in whichever order.
THEOREM ReplaysBounded == Spec => []ReplayBound
  <1>1. Init => ReplayBound
    <2>1. ASSUME Init PROVE Completed = {}
      BY <2>1 DEF Init, Completed
    <2>2. QED
      BY <2>1, FS_EmptySet, ConstantsAssumption DEF ReplayBound, Completed
  <1>2. IInv /\ ReplayBound /\ [Next]_vars => ReplayBound'
    BY ReplayBoundStep
  <1>3. QED
    BY InductiveInvariant, <1>1, <1>2, PTL DEF Spec

-----------------------------------------------------------------------------
(***************************************************************************)
(* Why an entry leaves the replay cache.  Completions are numbered one by  *)
(* one, so the newest of the entries that an overflow drops has only the   *)
(* running and the newer ones beside it, and those stay.                   *)
(***************************************************************************)

\* No two completions have the same number, and no clock is ahead of them.
StampOrder ==
  /\ \A k \in Keys : stamp[k] <= clock
  /\ \A j, k \in Keys : stamp[j] = stamp[k] /\ stamp[k] > 0 => j = k
  /\ horizon <= clock /\ seen <= horizon

\* How far the replay TTL reaches only grows, and a GET reads it as it is.
LEMMA ClocksMove ==
  ASSUME IInv, StampOrder, [Next]_vars
  PROVE  horizon' <= clock' /\ seen' <= horizon'
  <1> USE DEF IInv, TypeOK, StampOrder, entryVars
  <1>1. ASSUME NEW c \in Calls, Admit(c) PROVE horizon' <= clock' /\ seen' <= horizon'
    BY <1>1 DEF Admit, Conflict, Board, Overload, SubmitRaises, Launch
  <1>2. ASSUME NEW f \in Calls, Complete(f) PROVE horizon' <= clock' /\ seen' <= horizon'
    BY <1>2 DEF Complete
  <1>3. ASSUME NEW c \in Calls, Register(c) \/ RunComplete(c)
        PROVE  horizon' <= clock' /\ seen' <= horizon'
    BY <1>2, <1>3 DEF Register, RegisterRelease, RegisterComplete, RunComplete
  <1>4. ASSUME NEW c \in Calls, ReadClock(c) PROVE horizon' <= clock' /\ seen' <= horizon'
    BY <1>4 DEF ReadClock
  <1>5. ASSUME NEW c \in Calls,
               \/ Track(c) \/ Deliver(c) \/ Timeout(c) \/ AbortPost(c) \/ AbortGet(c)
               \/ FinishUnwind(c)
        PROVE  horizon' <= clock' /\ seen' <= horizon'
    BY <1>5
    DEF Track, TrackUnfinished, TrackDone, Look, Deliver, Timeout, AbortPost, AbortGet,
        CancelWork, FinishUnwind
  <1>6. ASSUME NEW f \in Calls,
               \/ Start(f) \/ (\E o \in Outcomes : Finish(f, o)) \/ RunRelease(f) \/ Notify(f)
               \/ DeadlinePasses(f)
        PROVE  horizon' <= clock' /\ seen' <= horizon'
    BY <1>6 DEF Start, Finish, RunRelease, Notify, RunNotify, DeadlinePasses
  <1>7. ReplayAges => horizon' <= clock' /\ seen' <= horizon'
    BY DEF ReplayAges
  <1>8. CASE UNCHANGED vars
    BY <1>8 DEF vars
  <1>9. QED
    BY <1>1, <1>3, <1>4, <1>5, <1>6, <1>7, <1>8 DEF Next

\* The completion that f is about to be given is the last one.
LEMMA MarkedOrder ==
  ASSUME IInv, StampOrder, NEW k \in Keys,
         NEW marked, marked = [stamp EXCEPT ![k] = clock + 1]
  PROVE  /\ marked \in [Keys -> Nat] /\ clock + 1 \in Nat
         /\ \A j \in Keys : marked[j] <= clock + 1
         /\ \A i, j \in Keys : marked[i] = marked[j] /\ marked[j] > 0 => i = j
  <1>1. clock \in Nat /\ stamp \in [Keys -> Nat]
    BY DEF IInv, TypeOK
  <1>2. marked[k] = clock + 1 /\ \A j \in Keys \ {k} : marked[j] = stamp[j]
    BY <1>1
  <1>3. \A j \in Keys : stamp[j] <= clock
    BY DEF StampOrder
  <1>4. QED
    BY <1>1, <1>2, <1>3 DEF StampOrder

\* Every step keeps the numbers in order.
LEMMA StampOrderStep ==
  ASSUME IInv, StampOrder, [Next]_vars
  PROVE  StampOrder'
  <1>1. TypeOK /\ clock \in Nat /\ stamp \in [Keys -> Nat]
    BY DEF IInv, TypeOK
  <1>2. horizon' <= clock' /\ seen' <= horizon'
    BY ClocksMove
  <1>3. ASSUME clock' = clock, \A k \in Keys : stamp'[k] \in {0, stamp[k]} PROVE StampOrder'
    BY <1>1, <1>2, <1>3 DEF StampOrder
  <1>4. CASE UNCHANGED <<flight, stamp, clock>>
    BY <1>3, <1>4
  <1>5. CASE Pruned /\ UNCHANGED clock
    BY <1>3, <1>5 DEF Pruned
  <1>6. ASSUME NEW f \in Calls, Complete(f), IsGet(f) PROVE StampOrder'
    <2> DEFINE k == req[f].key
               marked == [stamp EXCEPT ![k] = clock + 1]
    <2>1. CASE flight[k] = f /\ Cacheable(f)
      <3>1. k \in Keys
        BY <1>1, <1>6, ConstantsAssumption DEF TypeOK, IsGet, GetRequest, PostRequest
      <3>2. clock' = clock + 1 /\ \A j \in Keys : stamp'[j] \in {0, marked[j]}
        BY <1>6, <2>1 DEF Complete, Prune
      <3>3. /\ marked \in [Keys -> Nat] /\ clock + 1 \in Nat
            /\ \A j \in Keys : marked[j] <= clock + 1
            /\ \A i, j \in Keys : marked[i] = marked[j] /\ marked[j] > 0 => i = j
        BY <3>1, MarkedOrder
      <3> HIDE DEF marked
      <3>4. QED
        BY <1>1, <1>2, <3>2, <3>3 DEF StampOrder
    <2>2. CASE ~(flight[k] = f /\ Cacheable(f))
      BY <1>3, <1>6, <2>2 DEF Complete, entryVars
    <2>3. QED
      BY <2>1, <2>2
  <1>7. QED
    BY <1>4, <1>5, <1>6, RegistryMoves

\* A set of keys that has bounded numbers has one with the greatest.
LEMMA GreatestStamp ==
  ASSUME NEW S, NEW st \in [Keys -> Nat], S \subseteq Keys, S # {},
         NEW b \in Nat, \A k \in Keys : st[k] <= b
  PROVE  \E k \in S : \A j \in S : st[j] <= st[k]
  <1> DEFINE back == [k \in Keys |-> b - st[k]]
  <1>1. back \in [Keys -> Nat]
    OBVIOUS
  <1>2. \A j \in Keys : back[j] = b - st[j] /\ st[j] \in Nat
    OBVIOUS
  <1> HIDE DEF back
  <1>3. PICK k \in S : \A j \in S : ~(back[j] < back[k])
    BY <1>1, LeastStamp
  <1>4. \A j \in S : st[j] <= st[k]
    BY <1>2, <1>3
  <1>5. QED
    BY <1>4

\* What a prune leaves of the entries that are running or newer than k.
Stay(k, fl, st, h) == {j \in Kept(fl, st, h) : st[j] = 0 \/ st[j] > st[k]}

\* An entry that a prune drops before its TTL leaves MaxReplay others behind.
LEMMA PruneLeaves ==
  ASSUME NEW fl, NEW h, NEW st \in [Keys -> Nat], NEW b \in Nat,
         IsFiniteSet({k \in Keys : fl[k] # None}),
         \A k \in Keys : st[k] <= b,
         \A i, j \in Keys : st[i] = st[j] /\ st[j] > 0 => i = j,
         NEW k \in Live(fl, st, h), k \notin Kept(fl, st, h)
  PROVE  MaxReplay <= Cardinality(Stay(k, fl, st, h))
  <1> DEFINE L == Live(fl, st, h)
             T == L \ Kept(fl, st, h)
  <1>1. L \subseteq Keys /\ L \subseteq {j \in Keys : fl[j] # None}
    BY DEF Live
  <1>2. IsFiniteSet(L)
    BY <1>1, FS_Subset
  <1>3. PICK m \in T : \A j \in T : st[j] <= st[m]
    <2>1. T # {} /\ T \subseteq Keys
      BY <1>1
    <2>2. QED
      BY <2>1, GreatestStamp
  <1> DEFINE O == Older(m, fl, st, h)
             R == (L \ O) \ {m}
  <1>4. m \in L /\ st[m] > 0 /\ m \notin O /\ O \subseteq L
    BY <1>1, <1>3 DEF Kept, Older
  <1>5. R \subseteq Stay(k, fl, st, h)
    <2>1. ASSUME NEW j \in R, st[j] # 0 PROVE st[j] > st[m]
      <3>1. j \in Keys /\ m \in Keys /\ j # m /\ st[j] > 0 /\ ~(st[j] < st[m])
        BY <1>1, <1>4, <2>1 DEF Older
      <3>2. QED
        BY <1>4, <3>1
    <2>2. ASSUME NEW j \in R PROVE j \in Kept(fl, st, h)
      <3>1. CASE st[j] = 0
        BY <3>1 DEF Kept
      <3>2. CASE st[j] # 0
        BY <1>1, <1>3, <1>4, <2>1, <3>2
      <3>3. QED
        BY <3>1, <3>2
    <2>3. st[k] <= st[m]
      BY <1>3
    <2>4. QED
      BY <1>1, <1>4, <2>1, <2>2, <2>3 DEF Stay
  <1>6. ~(Cardinality(O) + MaxReplay >= Cardinality(L))
    BY <1>3, <1>4 DEF Kept
  <1>7. /\ IsFiniteSet(O) /\ IsFiniteSet(L \ O) /\ IsFiniteSet(R)
        /\ Cardinality(O) \in Nat /\ Cardinality(L) \in Nat
        /\ Cardinality(L \ O) \in Nat /\ Cardinality(R) \in Nat
    BY <1>2, <1>4, FS_Subset, FS_CardinalityType
  <1>8. Cardinality(L) = Cardinality(O) + Cardinality(L \ O)
    <2>1. O \cup (L \ O) = L /\ O \cap (L \ O) = {}
      BY <1>4
    <2>2. Cardinality(O \cap (L \ O)) = 0
      BY <2>1, FS_EmptySet
    <2>3. Cardinality(O \cup (L \ O))
            = Cardinality(O) + Cardinality(L \ O) - Cardinality(O \cap (L \ O))
      BY <1>7, FS_Union
    <2>4. Cardinality(O \cup (L \ O)) = Cardinality(L)
      BY <2>1
    <2> DEFINE x == Cardinality(O \cap (L \ O))
               y == Cardinality(O \cup (L \ O))
    <2>5. x = 0 /\ y = Cardinality(O) + Cardinality(L \ O) - x /\ y = Cardinality(L)
      BY <2>2, <2>3, <2>4
    <2> HIDE DEF O, L, x, y
    <2>6. QED
      BY <1>7, <2>5
  <1>9. Cardinality(R) = Cardinality(L \ O) - 1
    BY <1>4, <1>7, FS_RemoveElement
  <1>10. IsFiniteSet(Stay(k, fl, st, h))
    <2>1. Stay(k, fl, st, h) \subseteq L
      BY DEF Stay, Kept
    <2>2. QED
      BY <1>2, <2>1, FS_Subset
  <1>11. Cardinality(R) <= Cardinality(Stay(k, fl, st, h)) /\ Cardinality(Stay(k, fl, st, h)) \in Nat
    BY <1>5, <1>10, FS_Subset, FS_CardinalityType
  <1> HIDE DEF L, O, R
  <1>12. QED
    BY <1>6, <1>7, <1>8, <1>9, <1>11, ConstantsAssumption

\* What an entry that is gone has left behind in this step.
Behind(k) ==
  {j \in Keys \ {k} : flight'[j] = flight[j] /\ flight[j] # None /\ Newer(j, k)}

\* Enough entries stay if those that the prune leaves are among them.
LEMMA BehindEnough ==
  ASSUME IInv, NEW k \in Keys, NEW S, S \subseteq Behind(k), MaxReplay <= Cardinality(S)
  PROVE  MaxReplay <= Cardinality(Behind(k))
  <1>1. Behind(k) \subseteq {j \in Keys : flight[j] # None}
    BY DEF Behind
  <1>2. IsFiniteSet(Behind(k))
    BY <1>1, EntriesFinite, FS_Subset DEF IInv
  <1>3. /\ Cardinality(S) <= Cardinality(Behind(k))
        /\ Cardinality(S) \in Nat /\ Cardinality(Behind(k)) \in Nat
    BY <1>2, FS_Subset, FS_CardinalityType
  <1>4. QED
    BY <1>3, ConstantsAssumption

\* An admission drops what has expired, or the oldest of too many.
LEMMA PrunedForCause ==
  ASSUME IInv, StampOrder, Pruned, NEW k \in Keys, flight[k] # None, flight'[k] # flight[k]
  PROVE  \/ stamp[k] > 0 /\ stamp[k] <= horizon
         \/ MaxReplay <= Cardinality(Behind(k))
  <1>1. stamp \in [Keys -> Nat] /\ clock \in Nat /\ seen \in Nat /\ horizon \in Nat
    BY DEF IInv, TypeOK
  <1>2. k \notin Kept(flight, stamp, seen)
    BY DEF Pruned
  <1>3. CASE k \notin Live(flight, stamp, seen)
    BY <1>1, <1>3 DEF Live, StampOrder
  <1>4. CASE k \in Live(flight, stamp, seen)
    <2> DEFINE S == Stay(k, flight, stamp, seen)
    <2>1. MaxReplay <= Cardinality(S)
      <3>1. IsFiniteSet({j \in Keys : flight[j] # None})
        BY EntriesFinite DEF IInv
      <3>2. QED
        BY <1>1, <1>2, <1>4, <3>1, PruneLeaves DEF StampOrder
    <2>2. stamp[k] > 0
      BY <1>1, <1>2, <1>4 DEF Kept
    <2>3. S \subseteq Behind(k)
      BY <1>2, <2>2, KeptKeys DEF Stay, Behind, Pruned, Newer
    <2> HIDE DEF S
    <2>4. QED
      BY <2>1, <2>3, BehindEnough
  <1>5. QED
    BY <1>3, <1>4

\* So does a completion, which may drop the result that has just completed
\* when the running entries alone fill the registry.
LEMMA CompletedForCause ==
  ASSUME IInv, StampOrder, NEW f \in Calls, Complete(f), IsGet(f), Pending(f),
         NEW k \in Keys, flight[k] # None, flight'[k] # flight[k], Cacheable(flight[k])
  PROVE  \/ stamp[k] > 0 /\ stamp[k] <= horizon
         \/ MaxReplay <= Cardinality(Behind(k))
  <1> DEFINE key == req[f].key
             marked == [stamp EXCEPT ![key] = clock + 1]
  <1>1. /\ stamp \in [Keys -> Nat] /\ clock \in Nat /\ horizon \in Nat
        /\ flight \in [Keys -> Calls \cup {None}]
    BY DEF IInv, TypeOK
  <1>2. key \in Keys /\ flight[key] = f /\ stamp[key] = 0
    BY ConstantsAssumption DEF IInv, TypeOK, Registry, IsGet, GetRequest, PostRequest
  <1>3. Cacheable(f)
    <2>1. ~Cacheable(f) => flight' = [flight EXCEPT ![key] = None]
      BY <1>2 DEF Complete
    <2>2. QED
      BY <1>1, <1>2, <2>1
  <1>4. Prune(flight, marked, horizon)
    BY <1>2, <1>3 DEF Complete
  <1>5. k \notin Kept(flight, marked, horizon)
    BY <1>4 DEF Prune
  <1>6. /\ marked \in [Keys -> Nat] /\ clock + 1 \in Nat
        /\ \A j \in Keys : marked[j] <= clock + 1
        /\ \A i, j \in Keys : marked[i] = marked[j] /\ marked[j] > 0 => i = j
    BY <1>2, MarkedOrder
  <1>7. marked[key] = clock + 1 /\ \A j \in Keys \ {key} : marked[j] = stamp[j]
    BY <1>1, <1>2
  <1> HIDE DEF marked
  <1>8. CASE k \notin Live(flight, marked, horizon)
    <2>1. marked[k] > 0 /\ marked[k] <= horizon
      BY <1>8 DEF Live
    <2>2. QED
      BY <1>1, <1>7, <2>1 DEF StampOrder
  <1>9. CASE k \in Live(flight, marked, horizon)
    <2> DEFINE S == Stay(k, flight, marked, horizon)
    <2>1. MaxReplay <= Cardinality(S)
      <3>1. IsFiniteSet({j \in Keys : flight[j] # None})
        BY EntriesFinite DEF IInv
      <3>2. QED
        BY <1>5, <1>6, <1>9, <3>1, PruneLeaves
    <2>2. marked[k] > 0
      BY <1>5, <1>6, <1>9 DEF Kept
    <2>3. ASSUME NEW j \in S PROVE j \in Behind(k)
      <3>1. /\ j \in Keys \ {k} /\ flight[j] # None /\ flight'[j] = flight[j]
            /\ marked[j] = 0 \/ marked[j] > marked[k]
        BY <1>4, <1>5, <2>3, KeptKeys DEF Stay, Prune
      <3>2. Newer(j, k)
        <4>1. CASE k = key
          BY <1>1, <1>6, <1>7, <3>1, <4>1 DEF Newer
        <4>2. CASE k # key /\ j = key
          BY <1>2, <4>2 DEF Newer
        <4>3. CASE k # key /\ j # key
          BY <1>7, <2>2, <3>1, <4>3 DEF Newer
        <4>4. QED
          BY <4>1, <4>2, <4>3
      <3>3. QED
        BY <3>1, <3>2 DEF Behind
    <2> HIDE DEF S
    <2>4. QED
      BY <2>1, <2>3, BehindEnough
  <1>10. QED
    BY <1>8, <1>9

\* A safe result leaves the replay cache only past its TTL or for
\* max_replay_entries entries that stay and are running or newer, also when the
\* admission that prunes read its clock before other workers completed.
THEOREM EvictionHasCause == Spec => EvictedForCause
  <1>1. Init => StampOrder
    BY DEF Init, StampOrder
  <1>2. IInv /\ StampOrder /\ [Next]_vars => StampOrder'
    BY StampOrderStep
  <1>3. ASSUME IInv, StampOrder, [Next]_vars,
               NEW k \in Keys, flight[k] # None, flight'[k] # flight[k], Cacheable(flight[k])
        PROVE  \/ stamp[k] > 0 /\ stamp[k] <= horizon
               \/ MaxReplay <= Cardinality(Behind(k))
    BY <1>3, RegistryMoves, PrunedForCause, CompletedForCause
  <1>4. IInv /\ StampOrder /\ [Next]_vars =>
          [\A k \in Keys :
             flight[k] # None /\ flight'[k] # flight[k] /\ Cacheable(flight[k]) =>
               \/ stamp[k] > 0 /\ stamp[k] <= horizon
               \/ MaxReplay <= Cardinality({j \in Keys \ {k} : flight'[j] = flight[j]
                                              /\ flight[j] # None /\ Newer(j, k)})]_vars
    BY <1>3 DEF Behind
  <1>5. QED
    BY InductiveInvariant, <1>1, <1>2, <1>4, PTL DEF Spec, EvictedForCause

=============================================================================
