------------------------ MODULE KnowledgeRequestProofs ------------------------
(***************************************************************************)
(* Proofs about KnowledgeRequest, for any list of product families.        *)
(*                                                                         *)
(* All-or-none rests on where a request can be: nothing is granted or      *)
(* started before it is routed (Unrouted), every family of the route is    *)
(* under way while the pool is joined (Running) and done when the answer   *)
(* is composed (Composing), and nothing is shown before that.  Silence     *)
(* after the answer, and that a stale answer is never served, rest on the  *)
(* one step that writes an ANSWER event (Quiet): all others write events   *)
(* of other stages.                                                        *)
(*                                                                         *)
(* What the validator accepts is proved rule by rule: the frame of a trail *)
(* (Framed), answers without data (Abstains), plans of a relation request  *)
(* (Tied), and its path: each place has its own (Pathed), every boundary   *)
(* that fails breaks it off where the validator expects it (Broken), but a *)
(* composition that breaks unexpectedly leaves it open (Unended), and the  *)
(* answer and the terminal agree with the result (Told, Closing).          *)
(*                                                                         *)
(* A product request is routed once and compiled then (Ordered), into the  *)
(* plans of its route, in its order (PlansCompiled); stages are executed   *)
(* for those plans only (LinkedToRoute), and each plan has the stages in   *)
(* the trail that its search has left behind (Staged), hence all of them   *)
(* when the answer is composed (ServedProducts).                           *)
(***************************************************************************)
EXTENDS KnowledgeRequest, SequenceTheorems, FiniteSetTheorems, WellFoundedInduction, TLAPS

Relational == {"relation", "k_check", "k_authorize", "k_lookup", "k_verify", "k_compose",
               "k_post", "k_answer"}
Early == {"received", "guard", "routing"} \cup Relational
Undecided == Places \ {"recheck", "answer", "over", "closed"}

Unrouted == at \in Early => route = <<>> /\ granted = 0

Resultless == at \in {"received", "guard", "routing"} => result = NoResult

Running == at = "running" => route # <<>> /\ \A f \in Routed : worker[f] # "idle"

Composing == at = "composing" => route # <<>> /\ \A f \in Routed : worker[f] = "done"

NothingShown == at \in Undecided => \A f \in Family : shown[f] = "none"

Answerable ==
  at \in {"recheck", "answer", "k_answer"} =>
    result.status \in {"executed", "failed", "timed_out"} \cup Controls

Placed ==
  Unrouted /\ Resultless /\ Running /\ Composing /\ NothingShown /\ Answerable

Inv == TypeOK /\ Placed /\ AllOrNone

-----------------------------------------------------------------------------
\* A route lists families.
LEMMA RouteFamilies == ASSUME route \in Routes \cup {<<>>} PROVE route \in Seq(Family)
<1>1. Families \in Seq(Family) /\ Len(Families) > 0
  BY ValidationAssumption DEF Family
<1>2. SubSeq(Families, 1, 1) \in Seq(Family)
  BY <1>1
<1>3. <<>> \in Seq(Family)
  BY EmptySeq
<1> QED
  BY <1>1, <1>2, <1>3 DEF Routes

LEMMA RoutedFamilies ==
  ASSUME route \in Seq(Family)
  PROVE  Routed \subseteq Family /\ Len(route) \in Nat /\ (Len(route) > 0 => Routed # {})
<1>1. Len(route) \in Nat /\ DOMAIN route = 1..Len(route)
  OBVIOUS
<1>2. \A i \in 1..Len(route) : route[i] \in Family
  OBVIOUS
<1>3. Routed = {route[i] : i \in 1..Len(route)}
  BY <1>1 DEF Routed, Range
<1>4. Len(route) > 0 => route[1] \in Routed
  BY <1>1, <1>3
<1> QED
  BY <1>1, <1>2, <1>3, <1>4

\* The initial state: no route, no result.
LEMMA InitInv == Init => Inv
<1> SUFFICES ASSUME Init PROVE Inv
  OBVIOUS
<1>1. Routed = {}
  BY DEF Init, Routed, Range
<1> QED
  BY <1>1
  DEF Init, Inv, Placed, TypeOK, Unrouted, Resultless, Running, Composing, NothingShown, Answerable,
      AllOrNone, Places, Early, Relational, Undecided, NoResult, WorkerStates

-----------------------------------------------------------------------------
\* A step of the product path keeps the types.
LEMMA ProductTypeStep == ASSUME TypeOK, ProductStep PROVE TypeOK'
<1> USE DEF TypeOK
<1>1. CASE Enter
  BY <1>1 DEF Enter, Step, environment, searches, Raise, Failure, Control, Controls, NoResult,
      Executed, Places, WorkerStates, Working, Modes, Causes
<1>2. CASE Guard
  BY <1>2 DEF Guard, Step, environment, searches, Raise, Failure, Control, Controls, NoResult,
      Executed, Places, WorkerStates, Working, Modes, Causes
<1>3. CASE RouteFails
  BY <1>3 DEF RouteFails, Step, environment, searches, Raise, Failure, Control, Controls,
      NoResult, Executed, Places, WorkerStates, Working, Modes, Causes
<1>4. CASE RouteControl
  BY <1>4 DEF RouteControl, Step, environment, searches, Raise, Failure, Control, Controls,
      NoResult, Executed, Places, WorkerStates, Working, Modes, Causes
<1>5. CASE RouteExecute
  BY <1>5 DEF RouteExecute, Step, environment, searches, Raise, Failure, Control, Controls,
      NoResult, Executed, Places, WorkerStates, Working, Modes, Causes
<1>6. CASE Compile
  BY <1>6 DEF Compile, Step, environment, searches, Raise, Failure, Control, Controls, NoResult,
      Executed, Places, WorkerStates, Working, Modes, Causes
<1>7. CASE CompileWithoutProposal
  BY <1>7 DEF CompileWithoutProposal, Step, environment, searches, Raise, Failure, Control,
      Controls, NoResult, Executed, Places, WorkerStates, Working, Modes, Causes
<1>8. CASE CompileBlocked
  BY <1>8 DEF CompileBlocked, Step, environment, searches, Raise, Failure, Control, Controls,
      NoResult, Executed, Places, WorkerStates, Working, Modes, Causes
<1>9. CASE Check
  BY <1>9 DEF Check, Step, environment, searches, Raise, Failure, Control, Controls, NoResult,
      Executed, Places, WorkerStates, Working, Modes, Causes
<1>10. CASE Admit
  BY <1>10 DEF Admit, Step, environment, searches, Raise, Failure, Control, Controls, NoResult,
      Executed, Places, WorkerStates, Working, Modes, Causes
<1>11. CASE Decline
  BY <1>11 DEF Decline, Step, environment, searches, Raise, Failure, Control, Controls, NoResult,
      Executed, Places, WorkerStates, Working, Modes, Causes
<1>12. CASE Break
  BY <1>12 DEF Break, Step, environment, searches, Raise, Failure, Control, Controls, NoResult,
      Executed, Places, WorkerStates, Working, Modes, Causes
<1>13. CASE Grant
  BY <1>13 DEF Grant, Started, Step, environment, searches, Raise, Failure, Control, Controls,
      NoResult, Executed, Places, WorkerStates, Working, Modes, Causes
<1>14. CASE Deny
  BY <1>14 DEF Deny, Step, environment, searches, Raise, Failure, Control, Controls, NoResult,
      Executed, Places, WorkerStates, Working, Modes, Causes
<1>15. CASE DenyByPolicy
  BY <1>15 DEF DenyByPolicy, Step, environment, searches, Raise, Failure, Control, Controls,
      NoResult, Executed, Places, WorkerStates, Working, Modes, Causes
<1>16. CASE \E f \in Family : Work(f)
  <2>1. PICK f \in Family : Work(f)
    BY <1>16
  <2>2. worker' \in [Family -> WorkerStates]
    <3>1. /\ After(worker[f]) \in WorkerStates \/ worker[f] \notin Working
          /\ {"deadline", "retryable", "fatal"} \subseteq WorkerStates
      BY DEF After, WorkerStates, Working, Causes
    <3>2. worker \in [Family -> WorkerStates]
      OBVIOUS
    <3> QED
      BY <2>1, <3>1, <3>2 DEF Work
  <2>3. UNCHANGED <<at, route, granted, composed, shown, result, current, expired, caller>>
    BY <2>1 DEF Work, environment
  <2> QED
    BY <2>2, <2>3
<1>17. CASE Join
  <2>1. \A f : Failed(f) => worker[f] \in Causes
    BY DEF Failed
  <2> QED
    BY <1>17, <2>1
    DEF Join, FirstFailed, Step, environment, searches, Raise, Failure, Places, Causes
<1>18. CASE ShowRendered
  BY <1>18 DEF ShowRendered, Step, environment, searches, Raise, Failure, Control, Controls,
      NoResult, Executed, Places, WorkerStates, Working, Modes, Causes
<1>19. CASE ComposeOne
  <2>1. PICK mode \in Modes :
          /\ Step("composing", "recheck", CompositionEvents(route[1], mode))
          /\ composed' = [composed EXCEPT ![route[1]] = mode]
          /\ shown' = [shown EXCEPT ![route[1]] = Text(mode)]
          /\ result' = Executed(mode)
    BY <1>19 DEF ComposeOne
  <2>2. Text(mode) \in {"none", "rendered", "generated"}
    BY DEF Text
  <2>3. /\ composed' \in [Family -> Modes \cup {"none"}]
        /\ shown' \in [Family -> {"none", "rendered", "generated"}]
    BY <2>1, <2>2
  <2> QED
    BY <1>19, <2>1, <2>3 DEF ComposeOne, Step, environment, Executed, Places, Modes
<1>20. ASSUME NEW i \in DOMAIN route, NEW mode \in Modes, ComposeFamily(i, mode) PROVE TypeOK'
  <2>1. composed' \in [Family -> Modes \cup {"none"}]
    BY <1>20 DEF ComposeFamily
  <2> QED
    BY <1>20, <2>1 DEF ComposeFamily, Step, environment, Places
<1>21. CASE ComposeBatch
  BY <1>21 DEF ComposeBatch, Text, CrossMode, Step, environment, searches, Raise, Failure, Control,
      Controls, NoResult, Executed, Places, WorkerStates, Working, Modes, Causes
<1>22. CASE Recheck
  BY <1>22 DEF Recheck, Step, environment, searches, Raise, Failure, Control, Controls, NoResult,
      Executed, Places, WorkerStates, Working, Modes, Causes
<1>23. CASE Answer
  BY <1>23 DEF Answer, Step, environment, searches, Raise, Failure, Control, Controls, NoResult,
      Executed, Places, WorkerStates, Working, Modes, Causes
<1>24. CASE Close
  BY <1>24 DEF Close, Step, environment, searches, Raise, Failure, Control, Controls, NoResult,
      Executed, Places, WorkerStates, Working, Modes, Causes
<1> QED
  BY <1>1, <1>2, <1>3, <1>4, <1>5, <1>6, <1>7, <1>8, <1>9, <1>10, <1>11, <1>12,
     <1>13, <1>14, <1>15, <1>16, <1>17, <1>18, <1>19, <1>20, <1>21, <1>22, <1>23,
     <1>24
  DEF ProductStep

\* So does a step of the relation path, and of the environment.
LEMMA RelationTypeStep == ASSUME TypeOK, KnowledgeStep PROVE TypeOK'
<1> USE DEF TypeOK
<1>1. CASE EnterRelation
  BY <1>1 DEF EnterRelation, Step, environment, searches, Raise, Failure, Control, Controls,
      KnowledgeOnly, Breaks, Finds, Places, Causes, Modes
<1>2. CASE RelationControl
  BY <1>2 DEF RelationControl, Step, environment, searches, Raise, Failure, Control, Controls,
      KnowledgeOnly, Breaks, Finds, Places, Causes, Modes
<1>3. CASE RelationNotActivated
  BY <1>3 DEF RelationNotActivated, Step, environment, searches, Raise, Failure, Control,
      Controls, KnowledgeOnly, Breaks, Finds, Places, Causes, Modes
<1>4. CASE RelationExecute
  BY <1>4 DEF RelationExecute, Step, environment, searches, Raise, Failure, Control, Controls,
      KnowledgeOnly, Breaks, Finds, Places, Causes, Modes
<1>5. CASE RelationCheck
  BY <1>5 DEF RelationCheck, Step, environment, searches, Raise, Failure, Control, Controls,
      KnowledgeOnly, Breaks, Finds, Places, Causes, Modes
<1>6. CASE RelationAuthorize
  BY <1>6 DEF RelationAuthorize, Step, environment, searches, Raise, Failure, Control, Controls,
      KnowledgeOnly, Breaks, Finds, Places, Causes, Modes
<1>7. CASE Lookup
  BY <1>7 DEF Lookup, Step, environment, searches, Raise, Failure, Control, Controls,
      KnowledgeOnly, Breaks, Finds, Places, Causes, Modes
<1>8. CASE VerifyEvidence
  BY <1>8 DEF VerifyEvidence, Step, environment, searches, Raise, Failure, Control, Controls,
      KnowledgeOnly, Breaks, Finds, Places, Causes, Modes
<1>9. CASE ComposeRelation
  <2>1. CASE \E asked : ComposeTimesOut(asked)
    <3>1. at' = "k_answer" /\ Raise("deadline") /\ UNCHANGED environment
      BY <2>1 DEF ComposeTimesOut, Breaks, Step
    <3> QED
      BY <1>9, <3>1
      DEF ComposeRelation, environment, searches, KnowledgeOnly, Raise, Failure, Places, Causes
  <2>2. CASE \E draft : /\ Step("k_compose", "k_post", KnowledgeComposition(draft))
                        /\ Finds(ComposedMode(draft))
    BY <1>9, <2>2
    DEF ComposeRelation, Step, environment, searches, KnowledgeOnly, Finds, ComposedMode, Places
  <2>3. CASE \E asked : ComposeBreaks(asked)
    <3>1. at' = "k_answer" /\ Raise("fatal") /\ UNCHANGED environment
      BY <2>3 DEF ComposeBreaks, Step
    <3> QED
      BY <1>9, <3>1
      DEF ComposeRelation, environment, searches, KnowledgeOnly, Raise, Failure, Places, Causes
  <2> QED
    BY <1>9, <2>1, <2>2, <2>3 DEF ComposeRelation
<1>10. CASE RelationPostCheck
  BY <1>10 DEF RelationPostCheck, Step, environment, searches, Raise, Failure, Control, Controls,
      KnowledgeOnly, Breaks, Finds, Places, Causes, Modes
<1>11. CASE AnswerRelation
  BY <1>11 DEF AnswerRelation, Step, environment, searches, Raise, Failure, Control, Controls,
      KnowledgeOnly, Breaks, Finds, Places, Causes, Modes
<1> QED
  BY <1>1, <1>2, <1>3, <1>4, <1>5, <1>6, <1>7, <1>8, <1>9, <1>10, <1>11
  DEF KnowledgeStep

LEMMA EnvironmentTypeStep == ASSUME TypeOK, EnvironmentStep \/ UNCHANGED vars PROVE TypeOK'
  BY DEF TypeOK, EnvironmentStep, Replace, Expire, CallerTimesOut, CallerAborts, searches, vars

-----------------------------------------------------------------------------
\* A step that leaves the searches and the route alone keeps all-or-none, as
\* long as it neither reaches a place the searches lead to nor executes.
LEMMA Aside ==
  ASSUME Inv, UNCHANGED <<route, granted, worker, composed, shown>>,
         at' \notin {"running", "composing"},
         at' \in Early => at \in Early,
         at' \in {"received", "guard", "routing"} => result' = NoResult,
         at' \in Undecided => at \in Undecided,
         at' \in {"recheck", "answer", "k_answer"} =>
           result'.status \in {"executed", "failed", "timed_out"} \cup Controls,
         result'.status = "executed" => result.status = "executed" \/ route = <<>>
  PROVE  Placed' /\ AllOrNone'
<1> USE DEF Inv
<1>1. Placed'
  BY DEF Placed, Unrouted, Resultless, Running, Composing, NothingShown, Answerable
<1>2. AllOrNone'
  BY DEF AllOrNone, Routed
<1> QED
  BY <1>1, <1>2

\* The steps of the product path that do so.
LEMMA ProductAside ==
  ASSUME Inv,
         \/ Enter \/ Guard \/ RouteFails \/ RouteControl \/ Compile \/ CompileWithoutProposal \/ CompileBlocked \/ Check
         \/ Admit \/ Decline \/ Break \/ Deny \/ DenyByPolicy \/ Recheck \/ Answer \/ Close
  PROVE  Placed' /\ AllOrNone'
<1> USE Aside DEF Inv, Step, searches, Raise, Failure, Control, Controls, NoResult, Early, Relational,
      Undecided, Places, Placed, Resultless, Answerable, Unrouted, Causes
<1>1. CASE Enter
  BY <1>1 DEF Enter
<1>2. CASE Guard
  BY <1>2 DEF Guard
<1>3. CASE RouteFails
  BY <1>3 DEF RouteFails
<1>4. CASE RouteControl
  BY <1>4 DEF RouteControl
<1>5. CASE Compile
  BY <1>5 DEF Compile
<1>6. CASE CompileWithoutProposal
  BY <1>6 DEF CompileWithoutProposal
<1>7. CASE CompileBlocked
  BY <1>7 DEF CompileBlocked
<1>8. CASE Check
  BY <1>8 DEF Check
<1>9. CASE Admit
  BY <1>9 DEF Admit
<1>10. CASE Decline
  BY <1>10 DEF Decline
<1>11. CASE Break
  BY <1>11 DEF Break
<1>12. CASE Deny
  BY <1>12 DEF Deny
<1>13. CASE DenyByPolicy
  BY <1>13 DEF DenyByPolicy
<1>14. CASE Recheck
  BY <1>14 DEF Recheck
<1>15. CASE Answer
  BY <1>15 DEF Answer
<1>16. CASE Close
  BY <1>16 DEF Close
<1> QED
  BY <1>1, <1>2, <1>3, <1>4, <1>5, <1>6, <1>7, <1>8, <1>9, <1>10, <1>11, <1>12,
     <1>13, <1>14, <1>15, <1>16

\* And those of the relation path.
LEMMA RelationAside == ASSUME Inv, KnowledgeStep PROVE Placed' /\ AllOrNone'
<1> USE Aside DEF Inv, Step, searches, Raise, Failure, Control, Controls, NoResult, Early, Relational,
      Undecided, Places, Placed, Resultless, Answerable, Unrouted, Causes,
      KnowledgeOnly, Breaks, Finds
<1>1. CASE EnterRelation
  BY <1>1 DEF EnterRelation
<1>2. CASE RelationControl
  BY <1>2 DEF RelationControl
<1>3. CASE RelationNotActivated
  BY <1>3 DEF RelationNotActivated
<1>4. CASE RelationExecute
  BY <1>4 DEF RelationExecute
<1>5. CASE RelationCheck
  BY <1>5 DEF RelationCheck
<1>6. CASE RelationAuthorize
  BY <1>6 DEF RelationAuthorize
<1>7. CASE Lookup
  BY <1>7 DEF Lookup
<1>8. CASE VerifyEvidence
  BY <1>8 DEF VerifyEvidence
<1>9. CASE ComposeRelation
  BY <1>9 DEF ComposeRelation, ComposeTimesOut, ComposeBreaks
<1>10. CASE RelationPostCheck
  BY <1>10 DEF RelationPostCheck, TypeOK
<1>11. CASE AnswerRelation
  BY <1>11 DEF AnswerRelation
<1> QED
  BY <1>1, <1>2, <1>3, <1>4, <1>5, <1>6, <1>7, <1>8, <1>9, <1>10, <1>11
  DEF KnowledgeStep

\* The route is chosen before anything is granted, started or shown.
LEMMA RouteStep == ASSUME Inv, RouteExecute PROVE Placed' /\ AllOrNone'
<1> USE DEF Inv, RouteExecute, Step, searches
<1>1. /\ at = "routing" /\ at' = "compiling" /\ Routed = {} /\ result = NoResult
      /\ UNCHANGED <<granted, worker, composed, shown, result>>
  BY DEF Placed, Unrouted, Resultless, Early, Routed, Range
<1>2. \A f \in Family : worker[f] = "idle" /\ shown[f] = "none"
  BY <1>1 DEF AllOrNone
<1>3. Placed'
  BY <1>1, <1>2
  DEF Placed, Unrouted, Resultless, Running, Composing, NothingShown, Answerable, Early,
      Relational
<1>4. AllOrNone'
  BY <1>1, <1>2 DEF AllOrNone, NoResult
<1> QED
  BY <1>3, <1>4

\* A grant starts every search of the route, or none.
LEMMA GrantStep == ASSUME Inv, Grant PROVE Placed' /\ AllOrNone'
<1> USE DEF Inv, Grant, Step
<1>1. /\ at = "authorizing" /\ granted < Len(route) /\ granted' = granted + 1
      /\ at' = IF granted' = Len(route) THEN "running" ELSE "authorizing"
      /\ worker' = [f \in Family |-> Started(f)]
      /\ UNCHANGED <<route, composed, shown, result>>
  OBVIOUS
<1>2. \A f \in Family : worker[f] = "idle" /\ shown[f] = "none"
  BY <1>1 DEF AllOrNone, TypeOK, Placed, NothingShown, Undecided, Places
<1>3. \A f \in Family :
        worker'[f] = IF granted' = Len(route) /\ f \in Routed THEN "search" ELSE "idle"
  BY <1>1, <1>2 DEF Started, AllGranted
<1>4. Routed \subseteq Family /\ Routed # {} /\ granted \in Nat /\ Len(route) \in Nat
  BY <1>1, RouteFamilies, RoutedFamilies DEF TypeOK
<1>5. Placed'
  BY <1>1, <1>2, <1>3, <1>4
  DEF Placed, Unrouted, Resultless, Running, Composing, NothingShown, Answerable, Early,
      Relational, Routed, Range
<1>6. \E f \in Routed : worker[f] = "idle" /\ shown[f] = "none"
  BY <1>2, <1>4
<1>7. AllOrNone'
  BY <1>1, <1>2, <1>3, <1>4, <1>6 DEF AllOrNone, Routed
<1> QED
  BY <1>5, <1>7

\* While a search works nothing is shown and nothing composed.
LEMMA WorkStep == ASSUME Inv, NEW g \in Family, Work(g) PROVE Placed' /\ AllOrNone'
<1> USE DEF Inv, Work, environment
<1>1. /\ worker[g] \in {"search", "verify", "render"}
      /\ \E stage \in WorkerStates \ {"idle"} : worker' = [worker EXCEPT ![g] = stage]
      /\ UNCHANGED <<at, route, granted, composed, shown, result>>
  BY DEF Working, After, WorkerStates, Causes
<1>2. g \in Routed /\ granted = Len(route) /\ worker[g] # "done"
  BY <1>1 DEF AllOrNone
<1>3. \A f \in Family : worker'[f] # "idle" <=> worker[f] # "idle"
  BY <1>1 DEF TypeOK
<1>4. \A f \in Family : shown[f] = "none"
  BY <1>2 DEF AllOrNone
<1>5. Routed \subseteq Family
  BY RouteFamilies DEF TypeOK, Routed, Range
<1>6. Placed'
  BY <1>1, <1>2, <1>3, <1>5
  DEF Placed, Unrouted, Resultless, Running, Composing, NothingShown, Answerable, Routed
<1>7. AllOrNone'
  BY <1>1, <1>2, <1>3, <1>4, <1>5 DEF AllOrNone, Routed
<1> QED
  BY <1>6, <1>7

\* The pool is left when every search is over; nothing is shown yet.
LEMMA JoinStep == ASSUME Inv, Join PROVE Placed' /\ AllOrNone'
<1> USE DEF Inv, Join, Step, searches
<1>1. at = "running" /\ UNCHANGED <<route, granted, worker, composed, shown>>
  OBVIOUS
<1>2. Routed \subseteq Family
  BY RouteFamilies, RoutedFamilies DEF TypeOK
<1>3. \A f \in Routed : worker[f] # "idle" /\ worker[f] \notin Working /\ worker[f] \in WorkerStates
  BY <1>1, <1>2 DEF Placed, Running, Joined, Ended, TypeOK
<1>4. \A f \in Routed : ~Failed(f) => worker[f] = "done"
  BY <1>3 DEF Failed, WorkerStates
<1>5. CASE at' = "recheck"
  BY <1>1, <1>5, Aside DEF Raise, Failure, Early, Relational, Undecided, Places
<1>6. CASE at' = "composing" /\ UNCHANGED result /\ \A f \in Routed : ~Failed(f)
  <2>1. Placed'
    BY <1>1, <1>4, <1>6
    DEF Placed, Unrouted, Resultless, Running, Composing, NothingShown, Answerable, Early,
        Relational, Undecided, Places, Routed
  <2>2. AllOrNone'
    BY <1>1, <1>6 DEF AllOrNone, Routed
  <2> QED
    BY <2>1, <2>2
<1> QED
  BY <1>5, <1>6

\* The answer is composed of searches that are all done.
LEMMA ComposeStep ==
  ASSUME Inv,
         \/ ShowRendered \/ ComposeOne \/ ComposeBatch
         \/ \E i \in DOMAIN route, mode \in Modes : ComposeFamily(i, mode)
  PROVE  Placed' /\ AllOrNone'
<1> USE DEF Inv, Step, Executed
<1>0. at = "composing" /\ UNCHANGED <<route, granted, worker>>
  BY DEF ShowRendered, ComposeOne, ComposeFamily, ComposeBatch
<1>1. /\ route # <<>> /\ \A f \in Routed : worker[f] = "done"
      /\ \A f \in Family : shown[f] = "none"
  BY <1>0 DEF Placed, Composing, NothingShown, Undecided, Places
<1>2. Routed \subseteq Family /\ route \in Seq(Family)
  BY RouteFamilies, RoutedFamilies DEF TypeOK
<1>3. CASE ShowRendered
  <2>1. Placed'
    BY <1>0, <1>3
    DEF ShowRendered, Placed, Unrouted, Resultless, Running, Composing, NothingShown, Answerable,
        Early, Relational, Undecided
  <2>2. \A f \in Family : shown'[f] = IF f \in Routed THEN "rendered" ELSE "none"
    BY <1>1, <1>3 DEF ShowRendered
  <2>3. AllOrNone'
    BY <1>0, <1>1, <1>2, <1>3, <2>2 DEF AllOrNone, Routed
  <2> QED
    BY <2>1, <2>3
<1>4. CASE ComposeOne
  <2>1. PICK mode \in Modes :
          /\ at' = "recheck"
          /\ composed' = [composed EXCEPT ![route[1]] = mode]
          /\ shown' = [shown EXCEPT ![route[1]] = Text(mode)]
          /\ result' = [status |-> "executed", mode |-> mode, cause |-> "none"]
    BY <1>4 DEF ComposeOne
  <2>2. Routed = {route[1]}
    BY <1>1, <1>2, <1>4 DEF ComposeOne, Batch, Routed, Range
  <2>3. Placed'
    BY <1>0, <2>1
    DEF Placed, Unrouted, Resultless, Running, Composing, NothingShown, Answerable,
        Early, Relational, Undecided
  <2>4. \A f \in Family : /\ shown'[f] = IF f = route[1] THEN Text(mode) ELSE "none"
                          /\ f = route[1] => composed'[f] = mode
    BY <1>1, <2>1 DEF TypeOK
  <2>5. Text(mode) # "none" /\ (Text(mode) = "generated" => mode # "deterministic_fallback")
    BY DEF Text
  <2>6. AllOrNone'
    BY <1>0, <1>1, <1>2, <2>2, <2>4, <2>5 DEF AllOrNone, Routed
  <2> QED
    BY <2>3, <2>6
<1>5. CASE ComposeBatch
  <2>1. PICK isolated \in BOOLEAN :
          /\ at' = "recheck"
          /\ shown' = [f \in Family |->
                         IF f \notin Routed THEN shown[f]
                         ELSE IF CrossVerified(isolated) THEN Text(composed[f]) ELSE "rendered"]
          /\ result'.status = "executed"
    BY <1>5 DEF ComposeBatch
  <2>2. UNCHANGED composed /\ \A f \in Routed : Text(composed[f]) # "none"
    BY <1>5 DEF ComposeBatch, Text
  <2>3. Placed'
    BY <1>0, <2>1
    DEF Placed, Unrouted, Resultless, Running, Composing, NothingShown, Answerable,
        Early, Relational, Undecided
  <2>4. \A f \in Family :
          /\ f \notin Routed => shown'[f] = "none"
          /\ f \in Routed => shown'[f] # "none"
          /\ shown'[f] = "generated" => CrossVerified(isolated)
    BY <1>1, <2>1, <2>2
  <2>5. AllOrNone'
    BY <1>0, <1>1, <1>2, <2>2, <2>4 DEF AllOrNone, Routed, CrossVerified
  <2> QED
    BY <2>3, <2>5
<1>6. ASSUME NEW i \in DOMAIN route, NEW mode \in Modes, ComposeFamily(i, mode)
      PROVE  Placed' /\ AllOrNone'
  <2>1. at' = "composing" /\ UNCHANGED <<route, granted, worker, shown, result>>
    BY <1>6 DEF ComposeFamily
  <2>2. Placed'
    BY <1>0, <2>1
    DEF Placed, Unrouted, Resultless, Running, Composing, NothingShown, Answerable, Routed
  <2>3. AllOrNone'
    BY <1>1, <2>1 DEF AllOrNone, Routed
  <2> QED
    BY <2>2, <2>3
<1> QED
  BY <1>3, <1>4, <1>5, <1>6

\* Files, deadlines and callers touch nothing of it.
LEMMA EnvironmentAside ==
  ASSUME Inv, EnvironmentStep \/ UNCHANGED vars
  PROVE  Placed' /\ AllOrNone'
<1>1. UNCHANGED <<at, route, granted, worker, composed, shown, result>>
  BY DEF EnvironmentStep, Replace, Expire, CallerTimesOut, CallerAborts, searches, vars
<1> QED
  BY <1>1
  DEF Inv, Placed, Unrouted, Resultless, Running, Composing, NothingShown, Answerable, AllOrNone,
      Routed

LEMMA InvStep == Inv /\ [Next]_vars => Inv'
<1> SUFFICES ASSUME Inv, [Next]_vars PROVE Inv'
  OBVIOUS
<1>1. TypeOK'
  BY ProductTypeStep, RelationTypeStep, EnvironmentTypeStep DEF Inv, Next
<1>2. CASE ProductStep
  BY <1>1, <1>2, ProductAside, RouteStep, GrantStep, WorkStep, JoinStep, ComposeStep
  DEF ProductStep, Inv
<1>3. CASE KnowledgeStep
  BY <1>1, <1>3, RelationAside DEF Inv
<1>4. CASE EnvironmentStep \/ UNCHANGED vars
  BY <1>1, <1>4, EnvironmentAside DEF Inv
<1> QED
  BY <1>2, <1>3, <1>4 DEF Next

\* The inductive invariant, for any list of families.
THEOREM InductiveInvariant == Spec => []Inv
  BY InitInv, InvStep, PTL DEF Spec

\* Type correctness.
THEOREM TypeCorrect == Spec => []TypeOK
  BY InductiveInvariant, PTL DEF Inv

\* A question over several families is answered with all of them or none
\* (_answer_cross_family_search, _compose_cross_family_grounded_answer).
THEOREM AllFamiliesOrNone == Spec => []AllOrNone
  BY InductiveInvariant, PTL DEF Inv

-----------------------------------------------------------------------------
(***************************************************************************)
(* What a step writes.                                                     *)
(***************************************************************************)
\* The stages that open, answer and close a request; quiet events are of
\* others, and take up a relation question, route a question or compile its
\* plans only where that is done.
CompilesPlans == Compile \/ CompileWithoutProposal
Outer == {"ANSWER", "REQUEST"}
Soft(e) ==
  /\ e.stage \notin Outer
  /\ e.reason = "knowledge_routed_execute" => at = "relation"
  /\ e.reason = "routed_execute" => RouteExecute
  /\ e.reason \in {"plan_compiled", "family_plan_compiled"} => CompilesPlans
Quiet(events) == \E S : events \in Seq(S) /\ \A e \in S : Soft(e)
WritesQuietly == \E events : Quiet(events) /\ trail' = trail \o events

\* No search works while the pool is not being joined.
Settled == at # "running" => \A f \in Family : worker[f] \notin Working

Traced == \E S : trail \in Seq(S)
AnswerEnds == (\E i \in DOMAIN trail : trail[i].stage = "ANSWER") => at \in {"over", "closed"}

TraceInv == Inv /\ Settled /\ Traced /\ AnswerEnds

LEMMA SettledStep == ASSUME Inv, Settled, [Next]_vars PROVE Settled'
<1>1. CASE Grant
  <2>1. \A f \in Family : worker[f] = "idle"
    BY <1>1 DEF Grant, Inv, AllOrNone, TypeOK
  <2> QED
    BY <1>1, <2>1 DEF Grant, Step, Settled, Started, AllGranted, Working
<1>2. ASSUME NEW f \in Family, Work(f) PROVE Settled'
  BY <1>2 DEF Work, Settled
<1>3. CASE Join
  <2>1. \A f \in Family : f \notin Routed => worker[f] = "idle"
    BY DEF Inv, AllOrNone
  <2> QED
    BY <1>3, <2>1 DEF Join, Joined, Ended, Settled, searches, Working
<1>4. CASE UNCHANGED worker /\ at # "running"
  BY <1>4 DEF Settled
<1>5. CASE UNCHANGED <<worker, at>>
  BY <1>5 DEF Settled
<1>6. CASE ProductStep
  BY <1>1, <1>2, <1>3, <1>4, <1>6
  DEF ProductStep, Enter, Guard, RouteFails, RouteControl, RouteExecute, Compile,
      CompileWithoutProposal, CompileBlocked, Check, Admit, Decline, Break, Deny,
      DenyByPolicy, ShowRendered, ComposeOne, ComposeFamily, ComposeBatch, Recheck,
      Close, Answer, Step, searches
<1>7. CASE KnowledgeStep
  BY <1>4, <1>7
  DEF KnowledgeStep, EnterRelation, RelationControl, RelationNotActivated, RelationExecute,
      RelationCheck, RelationAuthorize, Lookup, VerifyEvidence, ComposeRelation,
      RelationPostCheck, AnswerRelation, Step, searches, KnowledgeOnly, Breaks,
      ComposeTimesOut, ComposeBreaks
<1>8. CASE EnvironmentStep \/ UNCHANGED vars
  BY <1>5, <1>8 DEF EnvironmentStep, Replace, Expire, CallerTimesOut, CallerAborts, searches, vars
<1> QED
  BY <1>6, <1>7, <1>8 DEF Next

LEMMA QuietEmpty == Quiet(<<>>)
<1> DEFINE Events == {}
<1>1. <<>> \in Seq(Events) /\ \A x \in Events : Soft(x)
  OBVIOUS
<1> HIDE DEF Events
<1> QED
  BY <1>1, Zenon DEF Quiet

LEMMA QuietOne == ASSUME NEW e, Soft(e) PROVE Quiet(<<e>>)
<1> DEFINE Events == {e}
<1>1. <<e>> \in Seq(Events) /\ \A x \in Events : Soft(x)
  OBVIOUS
<1> HIDE DEF Events
<1> QED
  BY <1>1, Zenon DEF Quiet

LEMMA QuietConcat == ASSUME NEW s, NEW t, Quiet(s), Quiet(t) PROVE Quiet(s \o t)
<1>1. PICK S : s \in Seq(S) /\ \A e \in S : Soft(e)
  BY DEF Quiet
<1>2. PICK T : t \in Seq(T) /\ \A e \in T : Soft(e)
  BY DEF Quiet
<1>3. s \in Seq(S \cup T) /\ t \in Seq(S \cup T)
  BY <1>1, <1>2, SeqMonotonic
<1>4. s \o t \in Seq(S \cup T)
  BY <1>3
<1> QED
  BY <1>1, <1>2, <1>4 DEF Quiet

LEMMA QuietTwo ==
  ASSUME NEW e, NEW f, Soft(e), Soft(f) PROVE Quiet(<<e, f>>)
<1> DEFINE Events == {e, f}
<1>1. <<e, f>> \in Seq(Events) /\ \A x \in Events : Soft(x)
  OBVIOUS
<1> HIDE DEF Events
<1> QED
  BY <1>1, Zenon DEF Quiet

LEMMA QuietThree ==
  ASSUME NEW e, NEW f, NEW g, Soft(e), Soft(f), Soft(g)
  PROVE  Quiet(<<e, f, g>>)
<1> DEFINE Events == {e, f, g}
<1>1. <<e, f, g>> \in Seq(Events) /\ \A x \in Events : Soft(x)
  OBVIOUS
<1> HIDE DEF Events
<1> QED
  BY <1>1, Zenon DEF Quiet

LEMMA QuietStep ==
  ASSUME NEW here, NEW there, NEW events, Quiet(events), Step(here, there, events)
  PROVE  WritesQuietly
  BY DEF Step, WritesQuietly

LEMMA StageOfEvent ==
  ASSUME NEW stage, NEW outcome, NEW reason, NEW disposition, NEW plans
  PROVE  /\ Event(stage, outcome, reason, disposition, plans).stage = stage
         /\ Event(stage, outcome, reason, disposition, plans).reason = reason
  BY DEF Event

\* Every step of the product path but the answer and the terminal writes quietly.
LEMMA ProductQuiet == ASSUME Inv, ProductStep, ~Answer, ~Close PROVE WritesQuietly
<1> USE QuietEmpty, QuietOne, QuietTwo, QuietStep, StageOfEvent DEF Outer, Soft
<1>a. ASSUME CompilesPlans PROVE Quiet(Compiled)
  <2>1. route \in Seq(Family)
    BY RouteFamilies DEF Inv, TypeOK
  <2> DEFINE Events == {Compiled[j] : j \in DOMAIN route}
  <2>2. \A e \in Events : Soft(e)
    BY <1>a DEF Compiled, Event
  <2>3. Compiled \in [1..Len(route) -> Events] /\ Len(route) \in Nat
    BY <2>1 DEF Compiled
  <2>4. Compiled \in Seq(Events)
    BY <2>3
  <2> HIDE DEF Events
  <2> QED
    BY <2>2, <2>4, Zenon DEF Quiet
<1>1. CASE Enter
  BY <1>1 DEF Enter
<1>2. CASE Guard
  BY <1>2 DEF Guard
<1>3. CASE RouteFails
  BY <1>3 DEF RouteFails, Plain
<1>4. CASE RouteControl
  BY <1>4 DEF RouteControl
<1>5. CASE RouteExecute
  <2> DEFINE e == Event("ROUTE", "SUCCEEDED", "routed_execute", "EXECUTE", <<>>)
  <2>1. Soft(e)
    BY <1>5
  <2>2. Step("routing", "compiling", <<e>>)
    BY <1>5 DEF RouteExecute
  <2> QED
    BY <2>1, <2>2
<1>6. CASE Compile
  BY <1>6, <1>a DEF Compile, CompilesPlans
<1>7. CASE CompileWithoutProposal
  <2>1. Quiet(<<Blocked("COMPILER", "grounded_plan_rejected")>> \o Compiled)
    BY <1>7, <1>a, QuietConcat DEF Blocked, CompilesPlans
  <2> QED
    BY <1>7, <2>1 DEF CompileWithoutProposal
<1>8. CASE CompileBlocked
  BY <1>8 DEF CompileBlocked, Blocked
<1>9. CASE Check
  BY <1>9 DEF Check
<1>10. CASE Admit
  BY <1>10 DEF Admit
<1>11. CASE Decline
  BY <1>11 DEF Decline
<1>12. CASE Break
  BY <1>12 DEF Break
<1>13. CASE Grant
  BY <1>13 DEF Grant, Opened, Plain
<1>14. CASE Deny
  <2>1. \A cause : Soft(Refused(cause))
    BY DEF Refused
  <2>2. \A cause : Quiet(<<Refused(cause)>>) /\ Quiet(<<Opened>> \o <<Refused(cause)>>)
    BY <2>1, QuietConcat DEF Opened, Plain
  <2>3. \A cause : Quiet(<<>> \o <<Refused(cause)>>)
    BY <2>2, QuietConcat
  <2> QED
    BY <1>14, <2>2, <2>3 DEF Deny
<1>15. CASE DenyByPolicy
  BY <1>15 DEF DenyByPolicy, Refused
<1>16. ASSUME NEW f \in Family, Work(f) PROVE WritesQuietly
  <2>1. \A stage, outcome, reason :
          Of(f, stage, outcome, reason).stage = stage /\ Of(f, stage, outcome, reason).reason = reason
    BY DEF Of
  <2>2. \A stage \in Working : Quiet(StageEvents(f, stage)) /\ Quiet(FailureEvents(f, stage))
    BY <2>1, QuietThree DEF StageEvents, FailureEvents, Working, Plain
  <2> QED
    BY <1>16, <2>2 DEF Work, WritesQuietly
<1>17. CASE Join
  BY <1>17 DEF Join
<1>18. CASE ShowRendered
  BY <1>18 DEF ShowRendered
<1>b. ASSUME NEW f, NEW mode \in Modes PROVE Quiet(CompositionEvents(f, mode))
  BY DEF CompositionEvents, Of, Modes
<1>19. CASE ComposeOne
  BY <1>19, <1>b DEF ComposeOne
<1>20. ASSUME NEW i \in DOMAIN route, NEW mode \in Modes, ComposeFamily(i, mode)
      PROVE  WritesQuietly
  BY <1>20, <1>b DEF ComposeFamily
<1>21. CASE ComposeBatch
  BY <1>21 DEF ComposeBatch, CrossEvent
<1>22. CASE Recheck
  BY <1>22 DEF Recheck
<1> QED
  BY <1>1, <1>2, <1>3, <1>4, <1>5, <1>6, <1>7, <1>8, <1>9, <1>10, <1>11, <1>12,
     <1>13, <1>14, <1>15, <1>16, <1>17, <1>18, <1>19, <1>20, <1>21, <1>22
  DEF ProductStep

\* So does every step of the relation path.
LEMMA RelationQuiet == ASSUME KnowledgeStep, ~AnswerRelation PROVE WritesQuietly
<1> USE QuietEmpty, QuietOne, QuietTwo, QuietThree, QuietStep, StageOfEvent DEF Outer, Soft
<1>b. ASSUME NEW here, NEW cause, NEW stage \in {"AUTHORITY", "SQL", "VERIFIER", "HCLX", "RENDERER"},
             NEW outcome, NEW reason,
             reason \notin {"knowledge_routed_execute", "routed_execute", "plan_compiled",
                            "family_plan_compiled"},
             Breaks(here, cause, stage, outcome, reason)
      PROVE  WritesQuietly
  BY <1>b DEF Breaks, Linking
<1>1. CASE EnterRelation
  BY <1>1, <1>b DEF EnterRelation
<1>2. CASE RelationControl
  <2>1. \A outcome : Quiet(ControlEvents(outcome))
    BY DEF ControlEvents, Plain, RouteReason
  <2> QED
    BY <1>2, <2>1 DEF RelationControl
<1>3. CASE RelationNotActivated
  BY <1>3, <1>b DEF RelationNotActivated, ControlEvents, Plain, RouteReason
<1>4. CASE RelationExecute
  <2> DEFINE e == Plain("SAFETY", "SUCCEEDED", "guard_allowed")
             f == Event("ROUTE", "SUCCEEDED", "knowledge_routed_execute", "EXECUTE", <<>>)
             g == Linking("COMPILER", "SUCCEEDED", "knowledge_plan_compiled")
  <2>1. Step("relation", "k_check", <<e, f, g>>)
    BY <1>4 DEF RelationExecute
  <2>2. Soft(e) /\ Soft(f) /\ Soft(g)
    BY <2>1 DEF Plain, Linking, Step
  <2> HIDE DEF e, f, g
  <2> QED
    BY <2>1, <2>2
<1>5. CASE RelationCheck
  BY <1>5, <1>b DEF RelationCheck
<1>6. CASE RelationAuthorize
  BY <1>6, <1>b DEF RelationAuthorize, Authority, LinkingKey, Linking
<1>7. CASE Lookup
  <2>1. Quiet(<<LinkingKey(RelationLookup)>>)
    BY DEF RelationLookup, LinkingKey, Linking
  <2>2. CASE Step("k_lookup", "k_verify", <<LinkingKey(RelationLookup)>>)
    BY <2>1, <2>2
  <2> QED
    BY <1>7, <1>b, <2>2 DEF Lookup
<1>8. CASE VerifyEvidence
  <2>1. Quiet(<<LinkingKey(Evidence)>>)
    BY DEF Evidence, LinkingKey, Linking
  <2>2. CASE Step("k_verify", "k_compose", <<LinkingKey(Evidence)>>)
    BY <2>1, <2>2
  <2> QED
    BY <1>8, <1>b, <2>2 DEF VerifyEvidence
<1>9. CASE ComposeRelation
  <2>1. \A key \in {Generated, NotGenerated, ClaimsOk, ClaimsBad, Rendered} :
          Soft(LinkingKey(key))
    BY DEF LinkingKey, Linking, Generated, NotGenerated, ClaimsOk, ClaimsBad, Rendered
  <2>2. \A draft \in {"verified", "rejected", "missing", "unasked"} :
          Quiet(KnowledgeComposition(draft))
    BY <2>1 DEF KnowledgeComposition
  <2>3. \A asked : Drafts(asked) \subseteq {"verified", "rejected", "missing", "unasked"}
    BY DEF Drafts
  <2> QED
    BY <1>9, <1>b, <2>2, <2>3 DEF ComposeRelation, ComposeTimesOut, ComposeBreaks
<1>10. CASE RelationPostCheck
  BY <1>10, <1>b DEF RelationPostCheck, RejectedAfter
<1> QED
  BY <1>1, <1>2, <1>3, <1>4, <1>5, <1>6, <1>7, <1>8, <1>9, <1>10
  DEF KnowledgeStep

-----------------------------------------------------------------------------
(***************************************************************************)
(* The one answer of a trail, and what may follow it.                      *)
(***************************************************************************)
\* Quiet events put none of stage ANSWER where there was none, and leave what
\* was there.
LEMMA QuietAppend ==
  ASSUME Traced, WritesQuietly
  PROVE  /\ Traced'
         /\ Len(trail) \in Nat /\ Len(trail') \in Nat
         /\ \A i \in DOMAIN trail : i \in DOMAIN trail' /\ trail'[i] = trail[i]
         /\ \A i \in DOMAIN trail' \ DOMAIN trail :
              /\ trail'[i].stage \notin Outer
              /\ trail'[i].reason = "knowledge_routed_execute" => at = "relation"
              /\ trail'[i].reason = "routed_execute" => RouteExecute
              /\ trail'[i].reason \in {"plan_compiled", "family_plan_compiled"} => CompilesPlans
<1>1. PICK S : trail \in Seq(S)
  BY DEF Traced
<1>2. PICK events : Quiet(events) /\ trail' = trail \o events
  BY DEF WritesQuietly
<1>3. PICK T : events \in Seq(T) /\ \A e \in T : Soft(e)
  BY <1>2 DEF Quiet
<1> DEFINE U == S \cup T
<1>4. trail \in Seq(U) /\ events \in Seq(U)
  BY <1>1, <1>3, SeqMonotonic
<1>5. trail' \in Seq(U)
  BY <1>2, <1>4
<1>6. \A i \in 1..Len(events) :
        /\ events[i].stage \notin Outer
        /\ events[i].reason = "knowledge_routed_execute" => at = "relation"
        /\ events[i].reason = "routed_execute" => RouteExecute
        /\ events[i].reason \in {"plan_compiled", "family_plan_compiled"} => CompilesPlans
  BY <1>3 DEF Soft
<1>7. /\ Len(trail) \in Nat /\ Len(events) \in Nat
      /\ Len(trail') = Len(trail) + Len(events)
      /\ DOMAIN trail = 1..Len(trail) /\ DOMAIN trail' = 1..Len(trail')
  BY <1>2, <1>4, <1>5
<1>8. \A i \in 1..Len(trail) : trail'[i] = trail[i]
  BY <1>2, <1>4
<1>9. \A i \in (Len(trail) + 1)..Len(trail') : trail'[i] = events[i - Len(trail)]
  BY <1>2, <1>4, <1>7
<1>10. \A i \in DOMAIN trail' \ DOMAIN trail :
         /\ trail'[i].stage \notin Outer
         /\ trail'[i].reason = "knowledge_routed_execute" => at = "relation"
         /\ trail'[i].reason = "routed_execute" => RouteExecute
         /\ trail'[i].reason \in {"plan_compiled", "family_plan_compiled"} => CompilesPlans
  BY <1>6, <1>7, <1>9
<1> HIDE DEF U
<1>11. Traced'
  BY <1>5, Zenon DEF Traced
<1> QED
  BY <1>7, <1>8, <1>10, <1>11

LEMMA AnswerAppend ==
  ASSUME Traced, NEW e, trail' = trail \o <<e>>
  PROVE  /\ Traced'
         /\ Len(trail) \in Nat /\ Len(trail') = Len(trail) + 1
         /\ \A i \in DOMAIN trail' :
              (i \in DOMAIN trail /\ trail'[i] = trail[i]) \/ trail'[i] = e
         /\ trail'[Len(trail) + 1] = e
<1>1. PICK S : trail \in Seq(S)
  BY DEF Traced
<1> DEFINE U == S \cup {e}
<1>2. trail \in Seq(U) /\ e \in U
  BY <1>1, SeqMonotonic
<1>3. trail' \in Seq(U) /\ Len(trail) \in Nat /\ Len(trail') = Len(trail) + 1
  BY <1>2
<1>4. \A i \in 1..Len(trail) : trail'[i] = trail[i]
  BY <1>2
<1>5. trail'[Len(trail) + 1] = e
  BY <1>2
<1>6. \A i \in DOMAIN trail' : i \in DOMAIN trail \/ i = Len(trail) + 1
  BY <1>2, <1>3
<1>7. DOMAIN trail = 1..Len(trail)
  BY <1>2
<1> HIDE DEF U
<1>8. Traced'
  BY <1>3, Zenon DEF Traced
<1> QED
  BY <1>3, <1>4, <1>5, <1>6, <1>7, <1>8

\* A request that is over writes its terminal, and nothing else.
LEMMA OnlyTheTerminal ==
  ASSUME Inv, Settled, at \in {"over", "closed"}, [Next]_vars
  PROVE  at' \in {"over", "closed"} /\ (UNCHANGED trail \/ Close)
<1>1. ASSUME NEW f \in Family, Work(f) PROVE FALSE
  BY <1>1 DEF Work, Settled
<1>2. CASE ProductStep
  BY <1>1, <1>2
  DEF ProductStep, Enter, Guard, RouteFails, RouteControl, RouteExecute, Compile,
      CompileWithoutProposal, CompileBlocked, Check, Admit, Decline, Break, Grant, Deny,
      DenyByPolicy, Join, ShowRendered, ComposeOne, ComposeFamily, ComposeBatch, Recheck, Close,
      Answer, Step
<1>3. CASE KnowledgeStep
  BY <1>3
  DEF KnowledgeStep, EnterRelation, RelationControl, RelationNotActivated, RelationExecute,
      RelationCheck, RelationAuthorize, Lookup, VerifyEvidence, ComposeRelation,
      RelationPostCheck, AnswerRelation, Step, Breaks, ComposeTimesOut, ComposeBreaks
<1>4. CASE EnvironmentStep \/ UNCHANGED vars
  BY <1>4 DEF EnvironmentStep, Replace, Expire, CallerTimesOut, CallerAborts, vars
<1> QED
  BY <1>2, <1>3, <1>4 DEF Next

LEMMA Writers ==
  ASSUME Inv, [Next]_vars
  PROVE  WritesQuietly \/ Answer \/ AnswerRelation \/ Close \/ UNCHANGED trail
<1>1. CASE EnvironmentStep \/ UNCHANGED vars
  BY <1>1 DEF EnvironmentStep, Replace, Expire, CallerTimesOut, CallerAborts, vars
<1> QED
  BY <1>1, ProductQuiet, RelationQuiet DEF Next

LEMMA TraceInit == Init => TraceInv
<1> SUFFICES ASSUME Init PROVE TraceInv
  OBVIOUS
<1> DEFINE First == {Plain("REQUEST", "STARTED", "received")}
<1>1. trail \in Seq(First)
  BY DEF Init
<1>2. \A i \in DOMAIN trail : trail[i].stage # "ANSWER"
  BY DEF Init, Plain, Event
<1>3. Settled
  BY DEF Init, Settled, Working
<1> HIDE DEF First
<1>4. Traced
  BY <1>1, Zenon DEF Traced
<1> QED
  BY <1>2, <1>3, <1>4, InitInv DEF TraceInv, AnswerEnds

LEMMA TraceStep == TraceInv /\ [Next]_vars => TraceInv'
<1> SUFFICES ASSUME TraceInv, [Next]_vars PROVE TraceInv'
  OBVIOUS
<1> USE DEF TraceInv
<1>1. Inv' /\ Settled'
  BY InvStep, SettledStep
<1>2. CASE WritesQuietly
  <2>1. Traced'
    BY <1>2, QuietAppend
  <2>2. ASSUME NEW i \in DOMAIN trail', trail'[i].stage = "ANSWER"
        PROVE  i \in DOMAIN trail /\ trail[i].stage = "ANSWER"
    BY <1>2, <2>2, QuietAppend DEF Outer
  <2>3. AnswerEnds'
    BY <2>2, OnlyTheTerminal DEF AnswerEnds
  <2> QED
    BY <1>1, <2>1, <2>3
<1>3. CASE Answer \/ AnswerRelation
  <2>1. at' = "over" /\ \E e : trail' = trail \o <<e>>
    BY <1>3 DEF Answer, AnswerRelation, Step
  <2> QED
    BY <1>1, <2>1, AnswerAppend DEF AnswerEnds
<1>4. CASE UNCHANGED trail
  <2>1. Traced'
    BY <1>4 DEF Traced
  <2>2. AnswerEnds'
    BY <1>4, OnlyTheTerminal DEF AnswerEnds
  <2> QED
    BY <1>1, <2>1, <2>2
<1>5. CASE Close
  <2>1. at' = "closed" /\ \E e : trail' = trail \o <<e>>
    BY <1>5 DEF Close, Step
  <2> QED
    BY <1>1, <2>1, AnswerAppend DEF AnswerEnds
<1> QED
  BY <1>2, <1>3, <1>4, <1>5, Writers

LEMMA TraceInvariant == Spec => []TraceInv
  BY TraceInit, TraceStep, PTL DEF Spec

\* After the answer of a request nothing but the transport's terminal is
\* written, whatever its searches do (the pool is joined even on a failure).
THEOREM Silent == Spec => SilentAfterAnswer
<1>1. ASSUME TraceInv, [Next]_vars
      PROVE  \A i \in DOMAIN trail :
               trail[i].stage = "ANSWER" =>
                 \A j \in (Len(trail) + 1)..Len(trail') : trail'[j].stage = "REQUEST"
  <2> SUFFICES ASSUME NEW i \in DOMAIN trail, trail[i].stage = "ANSWER",
                      NEW j \in (Len(trail) + 1)..Len(trail')
               PROVE  trail'[j].stage = "REQUEST"
    OBVIOUS
  <2>1. UNCHANGED trail \/ Close
    BY <1>1, OnlyTheTerminal DEF TraceInv, AnswerEnds
  <2>2. Len(trail) \in Nat
    BY <1>1 DEF TraceInv, Traced
  <2>3. CASE UNCHANGED trail
    BY <2>2, <2>3
  <2>4. CASE Close
    <3> DEFINE terminal == Plain("REQUEST", Terminal[1], Terminal[2])
    <3>1. trail' = trail \o <<terminal>> /\ terminal.stage = "REQUEST"
      BY <2>4, StageOfEvent DEF Close, Step, Plain
    <3> HIDE DEF terminal
    <3>2. Len(trail') = Len(trail) + 1 /\ trail'[Len(trail) + 1] = terminal
      BY <1>1, <3>1, AnswerAppend DEF TraceInv
    <3> QED
      BY <2>2, <3>1, <3>2
  <2> QED
    BY <2>1, <2>3, <2>4
<1> QED
  BY <1>1, TraceInvariant, PTL DEF Spec, SilentAfterAnswer

-----------------------------------------------------------------------------
(***************************************************************************)
(* Once a file is replaced, and until the request is over, no result waits *)
(* to be answered that the last look at the boundary did not replace.      *)
(***************************************************************************)
Spoiled ==
  /\ ~current
  /\ ~Served
  /\ at \in {"answer", "k_answer"} => result.status # "executed"

LEMMA SpoiledStart == ASSUME TraceInv, ~current, ~Decided PROVE Spoiled
  BY DEF TraceInv, AnswerEnds, Served, Decided, Spoiled

LEMMA SpoiledUnserved == ASSUME TraceInv, Spoiled, [Next]_vars PROVE ~Served'
<1>1. CASE WritesQuietly
  BY <1>1, QuietAppend DEF TraceInv, Spoiled, Served, Outer
<1>2. CASE UNCHANGED trail
  BY <1>2 DEF Spoiled, Served
<1>3. CASE Answer
  <2> DEFINE e == Event("ANSWER", AnswerOutcome[1], AnswerOutcome[2], Disposition,
                        IF result.status = "executed" THEN route ELSE <<>>)
  <2>1. result.status \in {"failed", "timed_out"} \cup Controls
    BY <1>3 DEF Answer, Step, TraceInv, Inv, Placed, Answerable, Spoiled
  <2>2. AnswerOutcome[1] # "SUCCEEDED"
    BY <2>1 DEF AnswerOutcome, Controls
  <2>3. e.outcome # "SUCCEEDED" /\ trail' = trail \o <<e>>
    BY <1>3, <2>2 DEF Answer, Step, Event
  <2> HIDE DEF e
  <2> QED
    BY <2>3, AnswerAppend DEF TraceInv, Spoiled, Served
<1>4. CASE AnswerRelation
  <2>1. result.status \in {"failed", "timed_out"} \cup Controls
    BY <1>4 DEF AnswerRelation, Step, TraceInv, Inv, Placed, Answerable, Spoiled
  <2>2. KnowledgeAnswer.outcome # "SUCCEEDED"
    BY <2>1 DEF KnowledgeAnswer, Controls, Linking, Event
  <2>3. trail' = trail \o <<KnowledgeAnswer>>
    BY <1>4 DEF AnswerRelation, Step
  <2> QED
    BY <2>2, <2>3, AnswerAppend DEF TraceInv, Spoiled, Served
<1>5. CASE Close
  <2> DEFINE terminal == Plain("REQUEST", Terminal[1], Terminal[2])
  <2>1. terminal.stage # "ANSWER" /\ trail' = trail \o <<terminal>>
    BY <1>5 DEF Close, Step, Plain, Event
  <2> HIDE DEF terminal
  <2> QED
    BY <2>1, AnswerAppend DEF TraceInv, Spoiled, Served
<1> QED
  BY <1>1, <1>2, <1>3, <1>4, <1>5, Writers DEF TraceInv

LEMMA SpoiledResult ==
  ASSUME TraceInv, Spoiled, [Next]_vars
  PROVE  ~current' /\ (at' \in {"answer", "k_answer"} => result'.status # "executed")
<1> USE DEF Step, environment, Raise, Failure, Control, Controls
<1>1. CASE UNCHANGED <<at, result, current>>
  BY <1>1 DEF Spoiled
<1>2. CASE ProductStep
  <2>1. ASSUME NEW f \in Family, Work(f) PROVE UNCHANGED <<at, result, current>>
    BY <2>1 DEF Work
  <2>2. ASSUME NEW i \in DOMAIN route, NEW mode \in Modes, ComposeFamily(i, mode)
        PROVE  ~current' /\ at' = "composing"
    BY <2>2 DEF ComposeFamily, Spoiled
  <2>3. CASE Enter \/ Guard \/ RouteFails \/ Recheck
    BY <2>3 DEF Enter, Guard, RouteFails, Recheck, Spoiled
  <2>4. CASE RouteControl \/ RouteExecute \/ Compile \/ CompileWithoutProposal \/ CompileBlocked
    BY <2>4
    DEF RouteControl, RouteExecute, Compile, CompileWithoutProposal, CompileBlocked, Spoiled
  <2>5. CASE Check \/ Admit \/ Decline \/ Break
    BY <2>5 DEF Check, Admit, Decline, Break, Spoiled
  <2>6. CASE Grant \/ Deny \/ DenyByPolicy \/ Join
    BY <2>6 DEF Grant, Deny, DenyByPolicy, Join, Spoiled
  <2>7. CASE ShowRendered \/ ComposeOne \/ ComposeBatch
    <3>1. at' = "recheck" /\ UNCHANGED current
      <4>1. CASE ShowRendered
        BY <4>1 DEF ShowRendered
      <4>2. CASE ComposeOne
        BY <4>2 DEF ComposeOne
      <4>3. CASE ComposeBatch
        BY <4>3 DEF ComposeBatch
      <4> QED
        BY <2>7, <4>1, <4>2, <4>3
    <3> QED
      BY <3>1 DEF Spoiled
  <2>8. CASE Answer \/ Close
    BY <2>8 DEF Answer, Close, Spoiled
  <2> QED
    BY <1>1, <1>2, <2>1, <2>2, <2>3, <2>4, <2>5, <2>6, <2>7, <2>8 DEF ProductStep
<1>3. CASE KnowledgeStep
  <2>1. CASE EnterRelation \/ RelationControl \/ RelationNotActivated \/ RelationExecute
    BY <2>1 DEF EnterRelation, RelationControl, RelationNotActivated, RelationExecute, Spoiled
  <2>2. CASE RelationCheck \/ RelationAuthorize \/ RelationPostCheck
    BY <2>2 DEF RelationCheck, RelationAuthorize, RelationPostCheck, StillCurrent, Breaks, Spoiled
  <2>3. CASE Lookup \/ VerifyEvidence
    BY <2>3 DEF Lookup, VerifyEvidence, Breaks, Spoiled
  <2>4. CASE ComposeRelation
    BY <2>4 DEF ComposeRelation, ComposeTimesOut, ComposeBreaks, Breaks, Spoiled
  <2>5. CASE AnswerRelation
    BY <2>5 DEF AnswerRelation, Spoiled
  <2> QED
    BY <1>3, <2>1, <2>2, <2>3, <2>4, <2>5 DEF KnowledgeStep
<1>4. CASE EnvironmentStep \/ UNCHANGED vars
  BY <1>1, <1>4 DEF EnvironmentStep, Replace, Expire, CallerTimesOut, CallerAborts, vars, Spoiled
<1> QED
  BY <1>2, <1>3, <1>4 DEF Next

\* What was read before a file was replaced is never answered, when it was
\* replaced before the last look at the boundary.
THEOREM StaleUnanswered == Spec => StaleNeverServed
<1>1. TraceInv /\ ~current /\ ~Decided => Spoiled
  BY SpoiledStart
<1>2. TraceInv /\ Spoiled /\ [Next]_vars => Spoiled'
  BY SpoiledUnserved, SpoiledResult DEF Spoiled
<1>3. Spoiled => ~Served
  BY DEF Spoiled
<1> QED
  BY <1>1, <1>2, <1>3, TraceInvariant, PTL DEF Spec, StaleNeverServed

-----------------------------------------------------------------------------
(***************************************************************************)
(* The frame of a trail, and the rules of the validator that look at       *)
(* single events: the lifecycle of the invocation, that an answer without  *)
(* data follows no data access, and the plan of a relation question.       *)
(***************************************************************************)
\* Events written by a step are those of S.
Adds(S) ==
  \A i \in DOMAIN trail' : (i \in DOMAIN trail /\ trail'[i] = trail[i]) \/ trail'[i] \in S

LEMMA Wrote ==
  ASSUME Traced, NEW S, NEW events \in Seq(S), trail' = trail \o events PROVE Adds(S)
<1>1. PICK T : trail \in Seq(T)
  BY DEF Traced
<1>2. trail \in Seq(S \cup T) /\ events \in Seq(S \cup T)
  BY <1>1, SeqMonotonic
<1>3. Len(trail) \in Nat /\ Len(events) \in Nat /\ Len(trail') = Len(trail) + Len(events)
  BY <1>2
<1>4. DOMAIN trail = 1..Len(trail) /\ DOMAIN trail' = 1..Len(trail')
  BY <1>2
<1>5. \A i \in 1..Len(trail) : trail'[i] = trail[i]
  BY <1>2
<1>6. \A i \in (Len(trail) + 1)..Len(trail') : trail'[i] = events[i - Len(trail)]
  BY <1>2, <1>3
<1>7. \A k \in 1..Len(events) : events[k] \in S
  OBVIOUS
<1>8. ASSUME NEW i \in DOMAIN trail', i \notin DOMAIN trail PROVE trail'[i] \in S
  <2>1. i \in (Len(trail) + 1)..Len(trail') /\ i - Len(trail) \in 1..Len(events)
    BY <1>3, <1>4, <1>8
  <2> QED
    BY <2>1, <1>6, <1>7
<1> QED
  BY <1>4, <1>5, <1>8 DEF Adds

LEMMA StepAddsNone ==
  ASSUME Traced, NEW here, NEW there, Step(here, there, <<>>) PROVE Adds({})
<1>1. <<>> \in Seq({})
  OBVIOUS
<1>2. trail' = trail \o <<>>
  BY DEF Step
<1> QED
  BY <1>1, <1>2, Wrote

LEMMA StepAddsOne ==
  ASSUME Traced, NEW here, NEW there, NEW e, Step(here, there, <<e>>) PROVE Adds({e})
<1>1. <<e>> \in Seq({e})
  OBVIOUS
<1>2. trail' = trail \o <<e>>
  BY DEF Step
<1> QED
  BY <1>1, <1>2, Wrote

LEMMA StepAddsTwo ==
  ASSUME Traced, NEW here, NEW there, NEW e, NEW f, Step(here, there, <<e, f>>)
  PROVE  Adds({e, f})
<1>1. <<e, f>> \in Seq({e, f})
  OBVIOUS
<1>2. trail' = trail \o <<e, f>>
  BY DEF Step
<1> QED
  BY <1>1, <1>2, Wrote

LEMMA StepAddsThree ==
  ASSUME Traced, NEW here, NEW there, NEW e, NEW f, NEW g, Step(here, there, <<e, f, g>>)
  PROVE  Adds({e, f, g})
<1>1. <<e, f, g>> \in Seq({e, f, g})
  OBVIOUS
<1>2. trail' = trail \o <<e, f, g>>
  BY DEF Step
<1> QED
  BY <1>1, <1>2, Wrote

-----------------------------------------------------------------------------
\* A trail is opened first and once, closed last and once, and answered at
\* most once.
Framed ==
  /\ Len(trail) > 0 /\ trail[1] = Plain("REQUEST", "STARTED", "received")
  /\ \A i \in DOMAIN trail \ {1} :
       trail[i].stage = "REQUEST" =>
         at = "closed" /\ i = Len(trail) /\ trail[i].outcome # "STARTED"
  /\ at = "closed" => Len(trail) > 1 /\ trail[Len(trail)].stage = "REQUEST"
  /\ \A i, j \in DOMAIN trail : trail[i].stage = "ANSWER" /\ trail[j].stage = "ANSWER" => i = j

\* Only the terminal closes a request, and nothing opens it again.
LEMMA OnlyClose ==
  ASSUME TraceInv, [Next]_vars, ~Close
  PROVE  (at' = "closed" <=> at = "closed") /\ (at = "closed" => UNCHANGED trail)
<1>1. CASE at = "closed"
  <2>1. UNCHANGED trail
    BY <1>1, OnlyTheTerminal DEF TraceInv
  <2>2. UNCHANGED at
    BY <1>1
    DEF Next, ProductStep, Enter, Guard, RouteFails, RouteControl, RouteExecute, Compile,
        CompileWithoutProposal, CompileBlocked, Check, Admit, Decline, Break, Grant, Deny,
        DenyByPolicy, Work, Join, ShowRendered, ComposeOne, ComposeFamily, ComposeBatch, Recheck,
        Answer, Step, KnowledgeStep, EnterRelation, RelationControl, RelationNotActivated,
        RelationExecute, RelationCheck, RelationAuthorize, Lookup, VerifyEvidence,
        ComposeRelation, RelationPostCheck, AnswerRelation, Breaks, ComposeTimesOut, ComposeBreaks,
        EnvironmentStep, Replace, Expire, CallerTimesOut, CallerAborts, vars
  <2> QED
    BY <1>1, <2>1, <2>2
<1>2. CASE at # "closed"
  <2>1. CASE ProductStep
    BY <1>2, <2>1
    DEF ProductStep, Enter, Guard, RouteFails, RouteControl, RouteExecute, Compile,
        CompileWithoutProposal, CompileBlocked, Check, Admit, Decline, Break, Grant, Deny,
        DenyByPolicy, Work, Join, ShowRendered, ComposeOne, ComposeFamily, ComposeBatch, Recheck,
        Answer, Step
  <2>2. CASE KnowledgeStep
    BY <1>2, <2>2
    DEF KnowledgeStep, EnterRelation, RelationControl, RelationNotActivated, RelationExecute,
        RelationCheck, RelationAuthorize, Lookup, VerifyEvidence, ComposeRelation,
        RelationPostCheck, AnswerRelation, Step, Breaks, ComposeTimesOut, ComposeBreaks
  <2>3. CASE EnvironmentStep \/ UNCHANGED vars
    BY <1>2, <2>3 DEF EnvironmentStep, Replace, Expire, CallerTimesOut, CallerAborts, vars
  <2> QED
    BY <1>2, <2>1, <2>2, <2>3 DEF Next
<1> QED
  BY <1>1, <1>2

LEMMA TerminalOutcome == ASSUME TypeOK PROVE Terminal[1] # "STARTED"
<1>1. /\ result.cause \in {"none", "deadline", "late", "retryable", "fatal"}
      /\ caller.method \in {"GET", "POST"} /\ caller.left \in {"no", "timed_out", "aborted"}
  BY DEF TypeOK, Causes
<1>2. Delivered[1] # "STARTED"
  BY <1>1 DEF Delivered
<1> QED
  BY <1>1, <1>2 DEF Terminal

LEMMA FramedInit == Init => Framed
  BY DEF Init, Framed, Plain, Event

LEMMA FramedStep == ASSUME TraceInv, Framed, [Next]_vars PROVE Framed'
<1>1. PICK T : trail \in Seq(T)
  BY DEF TraceInv, Traced
<1>2. Len(trail) \in Nat /\ DOMAIN trail = 1..Len(trail)
  BY <1>1
<1>3. CASE Close
  <2> DEFINE e == Plain("REQUEST", Terminal[1], Terminal[2])
  <2>1. trail' = trail \o <<e>> /\ at = "over" /\ at' = "closed"
    BY <1>3 DEF Close, Step
  <2>2. e.stage = "REQUEST" /\ e.outcome # "STARTED"
    BY TerminalOutcome DEF Plain, Event, TraceInv, Inv
  <2> HIDE DEF e
  <2>3. /\ Len(trail') = Len(trail) + 1 /\ trail'[Len(trail) + 1] = e
        /\ DOMAIN trail' = 1..(Len(trail) + 1)
    <3> DEFINE U == T \cup {e}
    <3>1. trail \in Seq(U) /\ e \in U
      BY <1>1, SeqMonotonic
    <3>2. trail' \in Seq(U) /\ Len(trail') = Len(trail) + 1
      BY <2>1, <3>1
    <3> QED
      BY <2>1, <3>1, <3>2
  <2>4. \A i \in 1..Len(trail) : trail'[i] = trail[i]
    <3> DEFINE U == T \cup {e}
    <3>1. trail \in Seq(U) /\ e \in U
      BY <1>1, SeqMonotonic
    <3> QED
      BY <2>1, <3>1
  <2> QED
    BY <1>2, <2>1, <2>2, <2>3, <2>4 DEF Framed
<1>4. CASE Answer \/ AnswerRelation
  <2>1. PICK e : trail' = trail \o <<e>> /\ e.stage = "ANSWER"
    <3>1. CASE Answer
      <4> DEFINE e == Event("ANSWER", AnswerOutcome[1], AnswerOutcome[2], Disposition,
                            IF result.status = "executed" THEN route ELSE <<>>)
      <4>1. trail' = trail \o <<e>>
        BY <3>1 DEF Answer, Step
      <4>2. e.stage = "ANSWER"
        BY DEF Event
      <4> HIDE DEF e
      <4> QED
        BY <4>1, <4>2
    <3>2. CASE AnswerRelation
      <4>1. result.status \in {"executed", "failed", "timed_out", "clarified", "unsupported"}
        BY <3>2 DEF AnswerRelation, Step, TraceInv, Inv, Placed, Answerable, Controls
      <4>2. KnowledgeAnswer.stage = "ANSWER"
        BY <4>1 DEF KnowledgeAnswer, Linking, Event
      <4> QED
        BY <3>2, <4>2 DEF AnswerRelation, Step
    <3> QED
      BY <1>4, <3>1, <3>2
  <2>2. at \in {"answer", "k_answer"} /\ at' = "over"
    BY <1>4 DEF Answer, AnswerRelation, Step
  <2>3. \A i \in DOMAIN trail : trail[i].stage # "ANSWER"
    BY <2>2 DEF TraceInv, AnswerEnds
  <2>4. /\ Len(trail') = Len(trail) + 1 /\ trail'[Len(trail) + 1] = e
        /\ DOMAIN trail' = 1..(Len(trail) + 1)
    <3> DEFINE U == T \cup {e}
    <3>1. trail \in Seq(U) /\ e \in U
      BY <1>1, SeqMonotonic
    <3>2. trail' \in Seq(U) /\ Len(trail') = Len(trail) + 1
      BY <2>1, <3>1
    <3> QED
      BY <2>1, <3>1, <3>2
  <2>5. \A i \in 1..Len(trail) : trail'[i] = trail[i]
    <3> DEFINE U == T \cup {e}
    <3>1. trail \in Seq(U) /\ e \in U
      BY <1>1, SeqMonotonic
    <3> QED
      BY <2>1, <3>1
  <2> QED
    BY <1>2, <2>1, <2>2, <2>3, <2>4, <2>5 DEF Framed
<1>5. CASE UNCHANGED trail /\ ~Close
  BY <1>5, OnlyClose DEF Framed
<1>6. CASE WritesQuietly /\ ~Close /\ at # "closed"
  <2>1. at' # "closed"
    BY <1>6, OnlyClose
  <2>2. /\ Len(trail') \in Nat /\ Traced'
        /\ \A i \in DOMAIN trail : i \in DOMAIN trail' /\ trail'[i] = trail[i]
        /\ \A i \in DOMAIN trail' \ DOMAIN trail : trail'[i].stage \notin Outer
    BY <1>6, QuietAppend DEF TraceInv
  <2>3. DOMAIN trail' = 1..Len(trail')
    BY <2>2 DEF Traced
  <2>4. ASSUME NEW i \in DOMAIN trail', trail'[i].stage \in Outer
        PROVE  i \in DOMAIN trail /\ trail'[i] = trail[i]
    BY <2>2, <2>4
  <2>5. Len(trail') > 0 /\ trail'[1] = trail[1]
    BY <1>2, <2>2, <2>3 DEF Framed
  <2> QED
    BY <1>6, <2>1, <2>4, <2>5 DEF Framed, Outer
<1> QED
  BY <1>3, <1>4, <1>5, <1>6, OnlyClose, Writers DEF TraceInv

\* Whatever happens to a request, its closed trail is framed as the validator
\* demands: _validate_invocations finds no lifecycle issue.
THEOREM LifecycleAccepted == Spec => [](at = "closed" => LifecycleIssues(trail) = {})
<1>1. TraceInv /\ Framed /\ [Next]_vars => Framed'
  BY FramedStep
<1>2. ASSUME Traced, Framed, at = "closed" PROVE LifecycleIssues(trail) = {}
  <2> DEFINE requests == {i \in DOMAIN trail : trail[i].stage = "REQUEST"}
             served == {i \in DOMAIN trail : Serves(trail[i])}
  <2>1. Len(trail) \in Nat /\ DOMAIN trail = 1..Len(trail)
    BY <1>2 DEF Traced
  <2>2. /\ trail[1].stage = "REQUEST" /\ trail[1].outcome = "STARTED"
        /\ Len(trail) > 1 /\ trail[Len(trail)].stage = "REQUEST"
        /\ trail[Len(trail)].outcome # "STARTED"
    BY <1>2, <2>1 DEF Framed, Plain, Event
  <2>3. requests = {1, Len(trail)}
    BY <1>2, <2>1, <2>2 DEF Framed
  <2>4. {i \in requests : trail[i].outcome = "STARTED"} = {1}
    BY <2>2, <2>3
  <2>5. \E i \in requests :
          /\ {j \in requests : trail[j].outcome # "STARTED"} = {i}
          /\ \A j \in (i + 1)..Len(trail) : trail[j].stage = "SCHEMA_LINK_SHADOW"
    <3>1. {j \in requests : trail[j].outcome # "STARTED"} = {Len(trail)}
      BY <2>2, <2>3
    <3>2. (Len(trail) + 1)..Len(trail) = {}
      BY <2>1
    <3> QED
      BY <2>3, <3>1, <3>2
  <2>6. Cardinality(served) <= 1
    <3>1. \A i, j \in served : i = j
      BY <1>2 DEF Framed, Serves
    <3>2. CASE served = {}
      BY <3>2, FS_EmptySet
    <3>3. ASSUME NEW i \in served PROVE Cardinality(served) <= 1
      <4>1. served = {i}
        BY <3>1
      <4> QED
        <5>1. Cardinality({i}) = 1
          BY FS_Singleton
        <5> QED
          BY <4>1, <5>1
    <3> QED
      BY <3>2, <3>3
  <2> DEFINE rules ==
        [request_start_not_first |-> {i \in requests : trail[i].outcome = "STARTED"} = {1},
         request_terminal_not_last |->
           \E i \in requests :
             /\ {j \in requests : trail[j].outcome # "STARTED"} = {i}
             /\ \A j \in (i + 1)..Len(trail) : trail[j].stage = "SCHEMA_LINK_SHADOW",
         answer_terminal_duplicate |-> Cardinality(served) <= 1]
  <2>7. LifecycleIssues(trail) = {code \in DOMAIN rules : ~rules[code]}
    BY DEF LifecycleIssues
  <2>8. \A code \in DOMAIN rules : rules[code]
    <3>1. DOMAIN rules =
            {"request_start_not_first", "request_terminal_not_last", "answer_terminal_duplicate"}
      OBVIOUS
    <3>2. rules["request_start_not_first"]
      BY <2>4
    <3>3. rules["request_terminal_not_last"]
      BY <2>5
    <3>4. rules["answer_terminal_duplicate"]
      BY <2>6
    <3> HIDE DEF rules
    <3> QED
      BY <3>1, <3>2, <3>3, <3>4
  <2> QED
    BY <2>7, <2>8
<1>3. TraceInv => Traced
  BY DEF TraceInv
<1> QED
  BY <1>1, <1>2, <1>3, FramedInit, TraceInvariant, PTL DEF Spec


-----------------------------------------------------------------------------
\* Nothing is authorised or read before the first plan is granted; an answer
\* without data is decided there, or for a batch whose later plan is refused.
Fresh == {"received", "guard", "routing", "compiling", "checking", "admitting", "relation"}
Clean == \A i \in DOMAIN trail : ~Executes(trail[i])
LaterRefused == Batch /\ granted > 0
Denials == {"CLARIFIED", "UNSUPPORTED"}

Abstains ==
  /\ at \in Fresh => Clean
  /\ at = "authorizing" => Clean \/ LaterRefused
  /\ result.status \in Controls => Clean \/ LaterRefused
  /\ at \in Undecided \ {"k_answer"} => result.status = "none"
  /\ \A i \in DOMAIN trail :
       (trail[i].stage = "ANSWER" /\ trail[i].outcome \in Denials) => result.status \in Controls

LEMMA AbstainsInit == Init => Abstains
<1> SUFFICES ASSUME Init PROVE Abstains
  OBVIOUS
<1>1. trail = <<Plain("REQUEST", "STARTED", "received")>> /\ result.status = "none"
  BY DEF Init, NoResult
<1>2. DOMAIN trail = {1} /\ trail[1].stage = "REQUEST"
  BY <1>1 DEF Plain, Event
<1>3. Clean
  BY <1>2 DEF Clean, Executes
<1> QED
  BY <1>1, <1>2, <1>3 DEF Abstains, Controls

\* Events of these stages execute nothing.
LEMMA Harmless ==
  ASSUME NEW e, e.stage \in {"REQUEST", "SAFETY", "ROUTE", "COMPILER", "ANSWER"}
  PROVE  ~Executes(e)
  BY DEF Executes

\* A step that writes nothing of the kind, before anything is granted or after.
LEMMA AbstainsAside ==
  ASSUME TraceInv, Abstains, NEW S, Adds(S),
         \A e \in S : ~Executes(e),
         \A e \in S : e.stage = "ANSWER" =>
           at \in {"answer", "k_answer"} /\ (e.outcome \in Denials => result.status \in Controls),
         UNCHANGED <<route, granted>> \/ at \in Fresh,
         at' \in Fresh => at \in Fresh,
         at' = "authorizing" => at \in Fresh \cup {"authorizing"},
         result'.status \in Controls =>
           result.status \in Controls \/ at \in Fresh \cup {"authorizing"},
         at \in {"answer", "k_answer", "over", "closed"} => UNCHANGED result,
         at' \in Undecided \ {"k_answer"} => result'.status = "none"
  PROVE  Abstains'
<1>1. Clean => Clean'
  BY DEF Clean, Adds
<1>2. Clean \/ (LaterRefused /\ LaterRefused') => Clean' \/ LaterRefused'
  BY <1>1
<1>4. LaterRefused => LaterRefused' \/ at \in Fresh
  BY DEF LaterRefused, Batch
<1>3. ASSUME NEW i \in DOMAIN trail', trail'[i].stage = "ANSWER", trail'[i].outcome \in Denials
      PROVE  result'.status \in Controls
  BY <1>3 DEF Adds, Abstains, TraceInv, AnswerEnds
<1> QED
  BY <1>1, <1>2, <1>3, <1>4 DEF Abstains

\* A step after which no answer without data can be given.
LEMMA AbstainsAway ==
  ASSUME TraceInv, Abstains, WritesQuietly, at \notin {"over", "closed"},
         at' \notin Fresh,
         at' = "authorizing" => LaterRefused',
         result'.status \notin Controls,
         at' \in Undecided \ {"k_answer"} => result'.status = "none"
  PROVE  Abstains'
<1>1. \A i \in DOMAIN trail' : trail'[i].stage # "ANSWER"
  BY QuietAppend DEF TraceInv, AnswerEnds, Outer
<1> QED
  BY <1>1 DEF Abstains

\* The steps of the product path before the gate, and around the answer
LEMMA ProductAbstains ==
  ASSUME TraceInv, Abstains,
         \/ Enter \/ Guard \/ RouteFails \/ RouteControl \/ RouteExecute \/ Compile
         \/ CompileWithoutProposal \/ CompileBlocked \/ Check \/ Admit \/ Decline \/ Break
         \/ DenyByPolicy \/ Recheck \/ Answer \/ Close
  PROVE  Abstains'
<1> USE AbstainsAside DEF Fresh, Undecided, Places, Controls
<1>a. Traced
  BY DEF TraceInv
<1>b. at \in Undecided \ {"k_answer"} => result.status = "none"
  BY DEF Abstains
<1>c. result.status \in {"none", "executed", "failed", "timed_out", "clarified", "unsupported"}
  BY DEF TraceInv, Inv, TypeOK, Controls
<1>1. CASE Enter \/ Guard \/ Admit \/ Decline \/ Break \/ Recheck
  <2>1. Adds({})
    BY <1>1, <1>a, StepAddsNone DEF Enter, Guard, Admit, Decline, Break, Recheck
  <2>2. CASE Enter
    BY <2>1, <2>2, <1>b DEF Enter, Step, Raise, Failure
  <2>3. CASE Guard
    BY <2>1, <2>3, <1>b DEF Guard, Step, Raise, Failure
  <2>4. CASE Admit
    BY <2>1, <2>4, <1>b DEF Admit, Step
  <2>5. CASE Decline
    BY <2>1, <2>5, <1>b DEF Decline, Step, Control
  <2>6. CASE Break
    BY <2>1, <2>6, <1>b DEF Break, Step, Raise, Failure
  <2>7. CASE Recheck
    BY <2>1, <2>7, <1>c DEF Recheck, Step, Failure
  <2> QED
    BY <1>1, <2>2, <2>3, <2>4, <2>5, <2>6, <2>7
<1>2. CASE RouteFails
  <2>1. Adds({Plain("ROUTE", "FAILED", "routing_failed")})
    BY <1>2, <1>a, StepAddsOne DEF RouteFails
  <2>2. Plain("ROUTE", "FAILED", "routing_failed").stage = "ROUTE"
    BY DEF Plain, Event
  <2> QED
    BY <1>2, <2>1, <2>2, Harmless DEF RouteFails, Step, Raise, Failure
<1>3. CASE RouteControl
  <2>1. PICK e : Adds({e}) /\ e.stage = "ROUTE"
    <3> DEFINE c == Event("ROUTE", "CLARIFIED", "routed_clarify", "CLARIFY", <<>>)
               u == Event("ROUTE", "UNSUPPORTED", "routed_unsupported", "UNSUPPORTED", <<>>)
    <3>1. c.stage = "ROUTE" /\ u.stage = "ROUTE"
      BY DEF Event
    <3>2. Adds({c}) \/ Adds({u})
      BY <1>3, <1>a, StepAddsOne DEF RouteControl
    <3> HIDE DEF c, u
    <3> QED
      BY <3>1, <3>2
  <2> QED
    BY <1>3, <2>1, Harmless DEF RouteControl, Step, Control
<1>4. CASE RouteExecute
  <2>1. PICK e : Adds({e}) /\ e.stage = "ROUTE"
    BY <1>4, <1>a, StepAddsOne DEF RouteExecute, Event
  <2> QED
    BY <1>4, <2>1, <1>b, Harmless DEF RouteExecute, Step
<1>5. CASE Compile \/ CompileWithoutProposal
  <2> DEFINE C == {Compiled[i] : i \in DOMAIN route} \cup {Blocked("COMPILER", "grounded_plan_rejected")}
  <2>1. \A e \in C : e.stage = "COMPILER"
    BY DEF Compiled, Blocked, Event
  <2>2. Compiled \in Seq(C)
    <3>1. route \in Seq(Family)
      BY RouteFamilies DEF TraceInv, Inv, TypeOK
    <3>2. Compiled \in [1..Len(route) -> C] /\ Len(route) \in Nat
      BY <3>1 DEF Compiled
    <3> QED
      BY <3>2
  <2>3. <<Blocked("COMPILER", "grounded_plan_rejected")>> \o Compiled \in Seq(C)
    <3>1. <<Blocked("COMPILER", "grounded_plan_rejected")>> \in Seq(C)
      OBVIOUS
    <3> QED
      BY <2>2, <3>1
  <2> HIDE DEF C
  <2>4. Adds(C)
    BY <1>5, <1>a, <2>2, <2>3, Wrote DEF Compile, CompileWithoutProposal, Step
  <2> QED
    BY <1>5, <1>b, <2>1, <2>4, Harmless DEF Compile, CompileWithoutProposal, Step
<1>6. CASE CompileBlocked
  <2>1. Adds({Blocked("COMPILER", "plan_blocked")})
    BY <1>6, <1>a, StepAddsOne DEF CompileBlocked
  <2>2. Blocked("COMPILER", "plan_blocked").stage = "COMPILER"
    BY DEF Blocked, Event
  <2> QED
    BY <1>6, <2>1, <2>2, Harmless DEF CompileBlocked, Step, Control
<1>7. CASE Check
  <2> DEFINE e == Event("AUTHORITY", "BLOCKED", "authority_denied", "EXECUTE", <<route[1]>>)
  <2>1. Adds({}) \/ Adds({e})
    BY <1>7, <1>a, StepAddsNone, StepAddsOne DEF Check
  <2>2. e.stage = "AUTHORITY" /\ ~Executes(e)
    BY DEF Event, Executes, Key
  <2> HIDE DEF e
  <2>3. PICK S : Adds(S) /\ \A x \in S : x.stage = "AUTHORITY" /\ ~Executes(x)
    BY <2>1, <2>2
  <2> QED
    BY <1>7, <1>b, <2>3 DEF Check, Step, Control
<1>8. CASE DenyByPolicy
  <2>1. Adds({Refused("fatal")})
    BY <1>8, <1>a, StepAddsOne DEF DenyByPolicy
  <2>2. Refused("fatal").stage = "AUTHORITY" /\ ~Executes(Refused("fatal"))
    BY DEF Refused, Event, Executes, Key
  <2> QED
    BY <1>8, <2>1, <2>2 DEF DenyByPolicy, Step, Control
<1>9. CASE Answer
  <2> DEFINE e == Event("ANSWER", AnswerOutcome[1], AnswerOutcome[2], Disposition,
                        IF result.status = "executed" THEN route ELSE <<>>)
  <2>1. Adds({e})
    BY <1>9, <1>a, StepAddsOne DEF Answer
  <2>2. e.stage = "ANSWER" /\ e.outcome = AnswerOutcome[1]
    BY DEF Event
  <2> HIDE DEF e
  <2>3. at = "answer" /\ at' = "over" /\ UNCHANGED <<route, granted, result>>
    BY <1>9 DEF Answer, Step
  <2>4. result.status \in {"executed", "failed", "timed_out", "clarified", "unsupported"}
    BY <2>3 DEF TraceInv, Inv, Placed, Answerable, Controls
  <2>5. expired \in BOOLEAN
    BY DEF TraceInv, Inv, TypeOK
  <2>6. AnswerOutcome[1] \in Denials => result.status \in {"clarified", "unsupported"}
    BY <2>4, <2>5 DEF AnswerOutcome, Denials
  <2> QED
    BY <2>1, <2>2, <2>3, <2>6, Harmless
<1>10. CASE Close
  <2> DEFINE e == Plain("REQUEST", Terminal[1], Terminal[2])
  <2>1. Adds({e}) /\ e.stage = "REQUEST"
    BY <1>10, <1>a, StepAddsOne DEF Close, Plain, Event
  <2> HIDE DEF e
  <2> QED
    BY <1>10, <2>1, Harmless DEF Close, Step
<1> QED
  BY <1>1, <1>2, <1>3, <1>4, <1>5, <1>6, <1>7, <1>8, <1>9, <1>10


\* The others of the product path: the gate, the searches, the composition
LEMMA ProductAbstainsAway ==
  ASSUME TraceInv, Abstains, [Next]_vars,
         \/ Grant \/ Deny \/ (\E f \in Family : Work(f)) \/ Join \/ ShowRendered \/ ComposeOne
         \/ ComposeBatch \/ \E i \in DOMAIN route, mode \in Modes : ComposeFamily(i, mode)
  PROVE  Abstains'
<1> USE AbstainsAway DEF Fresh, Undecided, Places, Controls
<1>a. WritesQuietly
  <2>1. ProductStep
    BY DEF ProductStep
  <2>2. ~Answer /\ ~Close
    BY DEF Answer, Close, Grant, Deny, Work, Join, ShowRendered, ComposeOne, ComposeBatch,
           ComposeFamily, Step, TraceInv, Settled
  <2> QED
    BY <2>1, <2>2, ProductQuiet DEF TraceInv
<1>b. at \in Undecided \ {"k_answer"} => result.status = "none"
  BY DEF Abstains
<1>1. CASE Grant
  <2>1. route \in Seq(Family) /\ granted \in Nat
    BY RouteFamilies DEF TraceInv, Inv, TypeOK
  <2>2. at = "authorizing" /\ at' \in {"running", "authorizing"} /\ UNCHANGED result
    BY <1>1 DEF Grant, Step
  <2>3. ASSUME at' = "authorizing" PROVE LaterRefused'
    <3>1. granted < Len(route) /\ granted' = granted + 1 /\ granted' # Len(route)
      BY <1>1, <2>3 DEF Grant, Step
    <3>2. UNCHANGED route /\ Len(route) \in Nat
      BY <1>1, <2>1 DEF Grant
    <3> QED
      BY <2>1, <3>1, <3>2 DEF LaterRefused, Batch
  <2> QED
    BY <1>a, <1>b, <2>2, <2>3
<1>2. CASE Deny
  BY <1>2, <1>a DEF Deny, Step, Raise, Failure
<1>3. ASSUME NEW f \in Family, Work(f) PROVE Abstains'
  BY <1>3, <1>a, <1>b DEF Work, TraceInv, Settled
<1>4. CASE Join
  <2>1. at = "running" /\ at' \in {"recheck", "composing"}
    BY <1>4 DEF Join, Step
  <2>2. at' = "composing" => UNCHANGED result
    BY <1>4 DEF Join, Step
  <2>3. at' = "recheck" => result'.status \in {"failed", "timed_out"}
    BY <1>4 DEF Join, Step, Raise, Failure
  <2> QED
    BY <1>a, <1>b, <2>1, <2>2, <2>3
<1>5. CASE ShowRendered
  BY <1>5, <1>a DEF ShowRendered, Step, Executed
<1>6. CASE ComposeOne
  BY <1>6, <1>a DEF ComposeOne, Step, Executed
<1>7. CASE ComposeBatch
  <2>1. /\ at = "composing" /\ at' = "recheck"
        /\ \E mode : result' = Executed(mode)
    BY <1>7 DEF ComposeBatch, Step
  <2> QED
    BY <1>a, <2>1 DEF Executed
<1>8. ASSUME NEW i \in DOMAIN route, NEW mode \in Modes, ComposeFamily(i, mode) PROVE Abstains'
  BY <1>8, <1>a, <1>b DEF ComposeFamily, Step
<1> QED
  BY <1>1, <1>2, <1>3, <1>4, <1>5, <1>6, <1>7, <1>8

\* The relation path decides before it executes, like the product path.
LEMMA RelationAbstains == ASSUME TraceInv, Abstains, KnowledgeStep PROVE Abstains'
<1> USE DEF Fresh, Undecided, Places, Controls, KnowledgeOnly
<1>a. Traced
  BY DEF TraceInv
<1>b. at \in Undecided \ {"k_answer"} => result.status = "none"
  BY DEF Abstains
<1>c. ~AnswerRelation => WritesQuietly
  BY RelationQuiet
<1>1. CASE EnterRelation
  <2>1. Adds({})
    BY <1>1, <1>a, StepAddsNone DEF EnterRelation
  <2> QED
    BY <1>1, <1>b, <2>1, AbstainsAside DEF EnterRelation, Step
<1>2. CASE RelationControl \/ RelationNotActivated
  <2> DEFINE g == Plain("SAFETY", "SUCCEEDED", "guard_allowed")
             e(outcome) == Event("ROUTE", Outcome(outcome), RouteReason(outcome), Suffix(outcome), <<>>)
  <2>1. g.stage = "SAFETY" /\ \A outcome : e(outcome).stage = "ROUTE"
    BY DEF Plain, Event
  <2>2. \A outcome : ControlEvents(outcome) = <<g, e(outcome)>>
    BY DEF ControlEvents
  <2> HIDE DEF g, e
  <2>3. Adds({}) \/ \E outcome : Adds({g, e(outcome)})
    BY <1>2, <1>a, <2>2, StepAddsNone, StepAddsTwo DEF RelationControl, RelationNotActivated
  <2>4. \E S : Adds(S) /\ \A x \in S : x.stage \in {"SAFETY", "ROUTE"}
    <3>1. CASE Adds({})
      BY <3>1
    <3>2. ASSUME NEW outcome, Adds({g, e(outcome)})
          PROVE  \E S : Adds(S) /\ \A x \in S : x.stage \in {"SAFETY", "ROUTE"}
      <4>1. \A x \in {g, e(outcome)} : x.stage \in {"SAFETY", "ROUTE"}
        BY <2>1
      <4> QED
        BY <3>2, <4>1
    <3> QED
      BY <2>3, <3>1, <3>2
  <2>5. /\ at = "relation" /\ at' \in {"k_answer", "over"}
        /\ UNCHANGED <<route, granted>>
    BY <1>2 DEF RelationControl, RelationNotActivated, Step
  <2>6. PICK S : Adds(S) /\ \A x \in S : x.stage \in {"SAFETY", "ROUTE"}
    BY <2>4
  <2> QED
    BY <2>5, <2>6, AbstainsAside, Harmless
<1>3. CASE RelationExecute
  BY <1>3, <1>b, <1>c, AbstainsAway DEF RelationExecute, AnswerRelation, Step
<1>d. ASSUME NEW here \in {"k_check", "k_authorize", "k_lookup", "k_verify", "k_compose", "k_post"},
             NEW cause, NEW stage, NEW outcome, NEW reason,
             Breaks(here, cause, stage, outcome, reason)
      PROVE  Abstains'
  BY <1>c, <1>d, AbstainsAway DEF Breaks, AnswerRelation, Step, Raise, Failure
<1>4. CASE RelationCheck
  BY <1>4, <1>b, <1>c, <1>d, AbstainsAway DEF RelationCheck, AnswerRelation, Step
<1>5. CASE RelationAuthorize
  BY <1>5, <1>b, <1>c, <1>d, AbstainsAway DEF RelationAuthorize, AnswerRelation, Step
<1>6. CASE Lookup
  BY <1>6, <1>c, <1>d, AbstainsAway DEF Lookup, AnswerRelation, Step, Finds
<1>7. CASE VerifyEvidence
  BY <1>7, <1>b, <1>c, <1>d, AbstainsAway DEF VerifyEvidence, AnswerRelation, Step
<1>8. CASE ComposeRelation
  <2>1. CASE \E asked : ComposeTimesOut(asked)
    BY <1>d, <2>1 DEF ComposeTimesOut
  <2>2. CASE \E draft : Step("k_compose", "k_post", KnowledgeComposition(draft))
                        /\ Finds(ComposedMode(draft))
    BY <1>c, <2>2, AbstainsAway DEF AnswerRelation, Step, Finds
  <2>3. CASE \E asked : ComposeBreaks(asked)
    BY <1>c, <2>3, AbstainsAway DEF ComposeBreaks, AnswerRelation, Step, Raise, Failure
  <2> QED
    BY <1>8, <2>1, <2>2, <2>3 DEF ComposeRelation
<1>9. CASE RelationPostCheck
  <2>1. result \in [status : {"none", "executed", "failed", "timed_out"} \cup Controls,
                    mode : Modes \cup {"none", "empty", "found", "completed", "not_found", "fallback"},
                    cause : Causes \cup {"none"}]
    BY DEF TraceInv, Inv, TypeOK
  <2> QED
    BY <1>9, <1>c, <1>d, <2>1, AbstainsAway DEF RelationPostCheck, AnswerRelation, Step
<1>10. CASE AnswerRelation
  <2>1. Adds({KnowledgeAnswer}) /\ at = "k_answer" /\ at' = "over" /\ UNCHANGED <<route, granted, result>>
    BY <1>10, <1>a, StepAddsOne DEF AnswerRelation, Step
  <2>2. result.status \in {"executed", "failed", "timed_out", "clarified", "unsupported"}
    BY <2>1 DEF TraceInv, Inv, Placed, Answerable
  <2>3. /\ KnowledgeAnswer.stage = "ANSWER"
        /\ KnowledgeAnswer.outcome \in Denials => result.status \in {"clarified", "unsupported"}
    BY <2>2 DEF KnowledgeAnswer, Linking, Event, Denials
  <2> QED
    BY <2>1, <2>3, AbstainsAside, Harmless
<1> QED
  BY <1>1, <1>2, <1>3, <1>4, <1>5, <1>6, <1>7, <1>8, <1>9, <1>10 DEF KnowledgeStep

LEMMA AbstainsStep == ASSUME TraceInv, Abstains, [Next]_vars PROVE Abstains'
<1>1. CASE ProductStep
  BY <1>1, ProductAbstains, ProductAbstainsAway DEF ProductStep
<1>2. CASE KnowledgeStep
  BY <1>2, RelationAbstains
<1>3. CASE EnvironmentStep \/ UNCHANGED vars
  <2>1. UNCHANGED <<at, route, granted, result, trail>>
    BY <1>3 DEF EnvironmentStep, Replace, Expire, CallerTimesOut, CallerAborts, vars
  <2> QED
    BY <2>1 DEF Abstains, Clean, LaterRefused, Batch
<1> QED
  BY <1>1, <1>2, <1>3 DEF Next

\* The control rule, of every answer in a trail
DenialsAccepted ==
  \A i \in DOMAIN trail :
    (trail[i].stage = "ANSWER" /\ trail[i].outcome \in Denials) =>
      ControlIssues(SubSeq(trail, 1, i - 1)) \subseteq KnownGaps

\* An answer that says nothing was executed (clarified, unsupported) follows
\* no authority but a refusal and no data access, of either path, except for a
\* batch whose later plan the policy refuses (the control rule of
\* _validate_invocations, and its known gap).
THEOREM ControlAccepted == Spec => []DenialsAccepted
<1>1. TraceInv /\ Abstains /\ [Next]_vars => Abstains'
  BY AbstainsStep
<1>2. TraceInv /\ Abstains => DenialsAccepted
  <2> SUFFICES ASSUME TraceInv, Abstains, NEW i \in DOMAIN trail, trail[i].stage = "ANSWER",
                      trail[i].outcome \in Denials
               PROVE  ControlIssues(SubSeq(trail, 1, i - 1)) \subseteq KnownGaps
    BY DEF DenialsAccepted
  <2>1. Clean \/ LaterRefused
    BY DEF Abstains
  <2>2. CASE LaterRefused
    BY <2>2 DEF LaterRefused, KnownGaps, ControlIssues
  <2>3. CASE Clean
    <3>1. PICK T : trail \in Seq(T)
      BY DEF TraceInv, Traced
    <3>2. \A j \in DOMAIN SubSeq(trail, 1, i - 1) :
            j \in DOMAIN trail /\ SubSeq(trail, 1, i - 1)[j] = trail[j]
      BY <3>1
    <3>3. ControlIssues(SubSeq(trail, 1, i - 1)) = {}
      BY <2>3, <3>2 DEF ControlIssues, Clean
    <3> QED
      BY <3>3
  <2> QED
    BY <2>1, <2>2, <2>3
<1> QED
  BY <1>1, <1>2, AbstainsInit, TraceInvariant, PTL DEF Spec


-----------------------------------------------------------------------------
\* Whatever a relation question writes names its plan, and so does its answer.
Undertaken == {"k_check", "k_authorize", "k_lookup", "k_verify", "k_compose", "k_post"}
Failures == {"FAILED", "TIMED_OUT"}

PlanNamed(e) ==
  e.stage \in PathStages \ {"SAFETY"} =>
    e.disposition = "EXECUTE" /\ (e.stage # "ROUTE" => e.plans = <<Relation>>)

Tied ==
  /\ at \in {"received", "relation"} \cup Undertaken => PlanLinked(trail)
  /\ (at = "k_answer" /\ result.status \notin Controls) => PlanLinked(trail)
  /\ \A i \in DOMAIN trail :
       (trail[i].stage = "ANSWER" /\ IsKnowledge(trail[i]) /\ trail[i].outcome \notin Denials) =>
         /\ PlanLinked(trail) /\ trail[i].plans = <<Relation>>
         /\ trail[i].outcome \in Failures =>
              trail[i].reason = IF trail[i].outcome = "TIMED_OUT" THEN "knowledge_deadline_exceeded"
                                ELSE "knowledge_execution_failed"

LEMMA LinkedStays ==
  ASSUME PlanLinked(trail), NEW S, Adds(S), \A e \in S : PlanNamed(e) PROVE PlanLinked(trail)'
  BY DEF PlanLinked, PlanNamed, Adds

LEMMA PlanOfLinking ==
  ASSUME NEW stage, NEW outcome, NEW reason PROVE PlanNamed(Linking(stage, outcome, reason))
  BY DEF PlanNamed, Linking, Event

LEMMA TiedInit == Init => Tied
<1> SUFFICES ASSUME Init PROVE Tied
  OBVIOUS
<1>1. trail = <<Plain("REQUEST", "STARTED", "received")>> /\ at = "received"
  BY DEF Init
<1>2. DOMAIN trail = {1} /\ trail[1].stage = "REQUEST"
  BY <1>1 DEF Plain, Event
<1> QED
  BY <1>1, <1>2 DEF Tied, PlanLinked, PathStages, Undertaken

\* The product path has places of its own.
LEMMA ProductTied == ASSUME TraceInv, Tied, ProductStep PROVE Tied'
<1>1. CASE Close
  <2> DEFINE e == Plain("REQUEST", Terminal[1], Terminal[2])
  <2>1. e.stage = "REQUEST" /\ Adds({e})
    BY <1>1, StepAddsOne DEF Close, Plain, Event, TraceInv
  <2> HIDE DEF e
  <2>2. \A x \in {e} : PlanNamed(x)
    BY <2>1 DEF PlanNamed, PathStages
  <2>3. PlanLinked(trail) => PlanLinked(trail)'
    BY <2>1, <2>2, LinkedStays
  <2> QED
    BY <1>1, <2>1, <2>3 DEF Tied, Adds, Close, Step, Undertaken
<1>2. CASE Answer
  <2> DEFINE e == Event("ANSWER", AnswerOutcome[1], AnswerOutcome[2], Disposition,
                        IF result.status = "executed" THEN route ELSE <<>>)
  <2>1. Adds({e}) /\ e.reason = AnswerOutcome[2] /\ at = "answer" /\ at' = "over"
    BY <1>2, StepAddsOne DEF Answer, Step, Event, TraceInv
  <2>2. result.status \in {"executed", "failed", "timed_out", "clarified", "unsupported"}
    BY <2>1 DEF TraceInv, Inv, Placed, Answerable, Controls
  <2>3. ~IsKnowledge(e)
    <3>1. expired \in BOOLEAN
      BY DEF TraceInv, Inv, TypeOK
    <3> QED
      BY <2>1, <2>2, <3>1 DEF IsKnowledge, KnowledgeReasons, AnswerOutcome
  <2> HIDE DEF e
  <2>4. \A i \in DOMAIN trail : trail[i].stage # "ANSWER"
    BY <2>1 DEF TraceInv, AnswerEnds
  <2> QED
    BY <2>1, <2>3, <2>4 DEF Tied, Adds, Undertaken
<1>3. CASE ~Close /\ ~Answer
  <2>1. /\ at \notin {"over", "closed"}
        /\ at' \notin {"received", "relation", "k_answer"} \cup Undertaken
    BY <1>3
    DEF ProductStep, Enter, Guard, RouteFails, RouteControl, RouteExecute, Compile,
        CompileWithoutProposal, CompileBlocked, Check, Admit, Decline, Break, Grant, Deny,
        DenyByPolicy, Work, Join, ShowRendered, ComposeOne, ComposeFamily, ComposeBatch, Recheck,
        Step, Undertaken, TraceInv, Settled
  <2>2. \A i \in DOMAIN trail' : trail'[i].stage # "ANSWER"
    BY <1>3, <2>1, ProductQuiet, QuietAppend DEF TraceInv, AnswerEnds, Outer
  <2> QED
    BY <2>1, <2>2 DEF Tied
<1> QED
  BY <1>1, <1>2, <1>3

\* Every event of a relation execution is a linking one.
LEMMA RelationTied == ASSUME TraceInv, Tied, KnowledgeStep PROVE Tied'
<1>a. Traced
  BY DEF TraceInv
<1>b. ASSUME NEW S, Adds(S), \A e \in S : PlanNamed(e), ~AnswerRelation,
             at \in {"received", "relation"} \cup Undertaken
      PROVE  Tied'
  <2>1. PlanLinked(trail)'
    BY <1>b, LinkedStays DEF Tied
  <2>2. \A i \in DOMAIN trail' : trail'[i].stage # "ANSWER"
    BY <1>b, RelationQuiet, QuietAppend DEF TraceInv, AnswerEnds, Outer, Undertaken
  <2> QED
    BY <2>1, <2>2 DEF Tied
<1>c. ASSUME NEW here \in Undertaken, NEW cause, NEW stage, NEW outcome, NEW reason,
             Breaks(here, cause, stage, outcome, reason)
      PROVE  Tied'
  <2>1. Adds({Linking(stage, outcome, reason)}) /\ at = here /\ ~AnswerRelation
    BY <1>a, <1>c, StepAddsOne DEF Breaks, Step, AnswerRelation, Undertaken
  <2> QED
    BY <1>b, <2>1, PlanOfLinking
<1>d. ASSUME NEW here \in Undertaken, NEW there, NEW key, Step(here, there, <<LinkingKey(key)>>)
      PROVE  Tied'
  <2>1. Adds({LinkingKey(key)}) /\ at = here /\ ~AnswerRelation
    BY <1>a, <1>d, StepAddsOne DEF Step, AnswerRelation, Undertaken
  <2> QED
    BY <1>b, <2>1, PlanOfLinking DEF LinkingKey
<1>e. ASSUME NEW here \in {"received"} \cup Undertaken, NEW there, Step(here, there, <<>>)
      PROVE  Tied'
  <2>1. Adds({}) /\ at = here /\ ~AnswerRelation
    BY <1>a, <1>e, StepAddsNone DEF Step, AnswerRelation, Undertaken
  <2> QED
    BY <1>b, <2>1
<1> USE DEF Undertaken
<1>1. CASE EnterRelation
  BY <1>1, <1>e DEF EnterRelation
<1>2. CASE RelationControl \/ RelationNotActivated
  <2>1. /\ at = "relation" /\ at' \in {"k_answer", "over"}
        /\ at' = "k_answer" => result'.status \in Controls
    BY <1>2 DEF RelationControl, RelationNotActivated, Step, Control, Controls
  <2>2. \A i \in DOMAIN trail' : trail'[i].stage # "ANSWER"
    BY <2>1, RelationQuiet, QuietAppend DEF TraceInv, AnswerEnds, Outer, AnswerRelation, Step
  <2> QED
    BY <2>1, <2>2 DEF Tied
<1>3. CASE RelationExecute
  <2> DEFINE g == Plain("SAFETY", "SUCCEEDED", "guard_allowed")
             e == Event("ROUTE", "SUCCEEDED", "knowledge_routed_execute", "EXECUTE", <<>>)
             f == Linking("COMPILER", "SUCCEEDED", "knowledge_plan_compiled")
  <2>1. PlanNamed(g) /\ PlanNamed(e) /\ PlanNamed(f)
    BY DEF PlanNamed, Plain, Event, Linking
  <2>2. Step("relation", "k_check", <<g, e, f>>)
    BY <1>3 DEF RelationExecute
  <2> HIDE DEF g, e, f
  <2>3. Adds({g, e, f}) /\ at = "relation"
    BY <1>a, <2>2, StepAddsThree DEF Step
  <2> QED
    BY <1>b, <2>1, <2>3 DEF AnswerRelation, Step
<1>4. CASE RelationCheck
  BY <1>4, <1>c, <1>e DEF RelationCheck
<1>5. CASE RelationAuthorize
  BY <1>5, <1>c, <1>d DEF RelationAuthorize
<1>6. CASE Lookup
  BY <1>6, <1>c, <1>d DEF Lookup
<1>7. CASE VerifyEvidence
  BY <1>7, <1>c, <1>d DEF VerifyEvidence
<1>8. CASE ComposeRelation
  <2>1. CASE \E asked : ComposeTimesOut(asked)
    BY <1>c, <2>1 DEF ComposeTimesOut
  <2>2. ASSUME NEW asked, NEW draft \in Drafts(asked), NEW there,
               Step("k_compose", there, KnowledgeComposition(draft))
        PROVE  Tied'
    <3> DEFINE a == LinkingKey(Generated)
               b == LinkingKey(NotGenerated)
               c == LinkingKey(ClaimsOk)
               d == LinkingKey(ClaimsBad)
               e == LinkingKey(Rendered)
    <3>1. PlanNamed(a) /\ PlanNamed(b) /\ PlanNamed(c) /\ PlanNamed(d) /\ PlanNamed(e)
      BY PlanOfLinking DEF LinkingKey
    <3>2. draft \in {"verified", "rejected", "missing", "unasked"}
      BY DEF Drafts
    <3> HIDE DEF a, b, c, d, e
    <3>3. KnowledgeComposition(draft) \in {<<a, c, e>>, <<a, d, e>>, <<b, d, e>>, <<c, e>>}
      BY <3>2 DEF KnowledgeComposition, a, b, c, d, e
    <3>4. Adds({a, c, e}) \/ Adds({a, d, e}) \/ Adds({b, d, e}) \/ Adds({c, e})
      BY <1>a, <2>2, <3>3, StepAddsTwo, StepAddsThree
    <3>5. at = "k_compose" /\ ~AnswerRelation
      BY <2>2 DEF Step, AnswerRelation
    <3> QED
      BY <1>b, <3>1, <3>4, <3>5
  <2>3. CASE \E asked : ComposeBreaks(asked)
    BY <1>e, <2>2, <2>3 DEF ComposeBreaks
  <2> QED
    BY <1>8, <2>1, <2>2, <2>3 DEF ComposeRelation
<1>9. CASE RelationPostCheck
  BY <1>9, <1>c, <1>e DEF RelationPostCheck
<1>10. CASE AnswerRelation
  <2>1. Adds({KnowledgeAnswer}) /\ at = "k_answer" /\ at' = "over" /\ UNCHANGED result
    BY <1>10, <1>a, StepAddsOne DEF AnswerRelation, Step
  <2>2. result.status \in {"executed", "failed", "timed_out", "clarified", "unsupported"}
    BY <2>1 DEF TraceInv, Inv, Placed, Answerable, Controls
  <2>3. /\ KnowledgeAnswer.stage = "ANSWER"
        /\ KnowledgeAnswer.outcome \notin Denials =>
             result.status \notin Controls /\ KnowledgeAnswer.plans = <<Relation>>
        /\ KnowledgeAnswer.outcome \in Failures =>
             KnowledgeAnswer.reason =
               IF KnowledgeAnswer.outcome = "TIMED_OUT" THEN "knowledge_deadline_exceeded"
               ELSE "knowledge_execution_failed"
    BY <2>2 DEF KnowledgeAnswer, Linking, Event, Denials, Failures, Controls
  <2>4. PlanNamed(KnowledgeAnswer)
    BY <2>3 DEF PlanNamed, PathStages
  <2>5. \A i \in DOMAIN trail : trail[i].stage # "ANSWER"
    BY <2>1 DEF TraceInv, AnswerEnds
  <2>6. KnowledgeAnswer.outcome \notin Denials => PlanLinked(trail)'
    BY <2>1, <2>3, <2>4, LinkedStays DEF Tied
  <2> QED
    BY <2>1, <2>3, <2>5, <2>6 DEF Tied, Adds
<1> QED
  BY <1>1, <1>2, <1>3, <1>4, <1>5, <1>6, <1>7, <1>8, <1>9, <1>10 DEF KnowledgeStep

LEMMA TiedStep == ASSUME TraceInv, Tied, [Next]_vars PROVE Tied'
<1>1. CASE EnvironmentStep \/ UNCHANGED vars
  <2>1. UNCHANGED <<at, result, trail>>
    BY <1>1 DEF EnvironmentStep, Replace, Expire, CallerTimesOut, CallerAborts, vars
  <2> QED
    BY <2>1 DEF Tied, PlanLinked
<1> QED
  BY <1>1, ProductTied, RelationTied DEF Next


-----------------------------------------------------------------------------
(***************************************************************************)
(* The rules proved, in the terms of the validator.                        *)
(***************************************************************************)
RuleCodes ==
  {"request_start_not_first", "request_terminal_not_last", "control_path_executed",
   "knowledge_plan_link_mismatch", "knowledge_failure_reason_invalid"}

\* Which of the codes each path rule can report
LEMMA SuccessCodes == ASSUME NEW t, NEW answer PROVE SuccessIssues(t, answer) \cap RuleCodes = {}
<1>1. SuccessIssues(t, answer) \subseteq
        {"execution_route_missing", "execution_queryplan_missing", "execution_stage_order_invalid",
         "answer_plan_link_mismatch", "execution_plan_link_mismatch", "execution_stage_missing"}
  BY DEF SuccessIssues
<1> QED
  BY <1>1 DEF RuleCodes

LEMMA KnowledgeControlCodes ==
  ASSUME NEW t, NEW answer PROVE KnowledgeControlIssues(t, answer) \cap RuleCodes = {}
<1>1. KnowledgeControlIssues(t, answer) \subseteq
        {"knowledge_control_route_missing", "knowledge_control_path_executed"}
  BY DEF KnowledgeControlIssues
<1> QED
  BY <1>1 DEF RuleCodes

LEMMA KnowledgeSuccessCodes ==
  ASSUME NEW t, NEW answer, PlanLinked(t), answer.plans = <<Relation>>
  PROVE  KnowledgeSuccessIssues(t, answer) \cap RuleCodes = {}
<1>1. KnowledgeSuccessIssues(t, answer) \subseteq
        {"knowledge_stage_order_invalid", "knowledge_plan_link_mismatch"}
  BY DEF KnowledgeSuccessIssues
<1>2. "knowledge_plan_link_mismatch" \notin KnowledgeSuccessIssues(t, answer)
  BY DEF KnowledgeSuccessIssues
<1> QED
  BY <1>1, <1>2 DEF RuleCodes

LEMMA KnowledgeFailureCodes ==
  ASSUME NEW t, NEW answer, NEW rest, PlanLinked(t), answer.plans = <<Relation>>,
         answer.reason = IF answer.outcome = "TIMED_OUT" THEN "knowledge_deadline_exceeded"
                         ELSE "knowledge_execution_failed"
  PROVE  KnowledgeFailureIssues(t, answer, rest) \cap RuleCodes = {}
<1>1. KnowledgeFailureIssues(t, answer, rest) \subseteq
        {"knowledge_failure_reason_invalid", "knowledge_failure_prefix_invalid",
         "knowledge_plan_link_mismatch", "knowledge_success_after_failure",
         "answer_terminal_duplicate", "knowledge_failure_outcome_mismatch",
         "knowledge_timeout_terminal_mismatch", "knowledge_failure_terminal_mismatch"}
  BY DEF KnowledgeFailureIssues
<1>2. "knowledge_plan_link_mismatch" \notin KnowledgeFailureIssues(t, answer, rest)
  BY DEF KnowledgeFailureIssues
<1>3. "knowledge_failure_reason_invalid" \notin KnowledgeFailureIssues(t, answer, rest)
  BY DEF KnowledgeFailureIssues
<1> QED
  BY <1>1, <1>2, <1>3 DEF RuleCodes


\* What the rules say of one answer of a trail
LEMMA AnswerCodes ==
  ASSUME TraceInv, Tied, DenialsAccepted, NEW i \in DOMAIN trail, trail[i].stage = "ANSWER"
  PROVE  AnswerIssues(trail, i) \cap RuleCodes \subseteq KnownGaps
<1> DEFINE answer == trail[i]
           before == SubSeq(trail, 1, i - 1)
           rest == SubSeq(trail, i + 1, Len(trail))
<1>1. PICK T : trail \in Seq(T)
  BY DEF TraceInv, Traced
<1>2. \A j \in DOMAIN before : j \in DOMAIN trail /\ before[j] = trail[j]
  BY <1>1
<1>3. PlanLinked(trail) => PlanLinked(before)
  BY <1>2 DEF PlanLinked
<1>4. IsKnowledge(answer) /\ answer.outcome \notin Denials =>
        /\ PlanLinked(before) /\ answer.plans = <<Relation>>
        /\ answer.outcome \in Failures =>
             answer.reason = IF answer.outcome = "TIMED_OUT" THEN "knowledge_deadline_exceeded"
                             ELSE "knowledge_execution_failed"
  BY <1>3 DEF Tied
<1>5. answer.outcome \in Denials => ControlIssues(before) \subseteq KnownGaps
  BY DEF DenialsAccepted
<1>6. AnswerIssues(trail, i) =
        CASE Serves(answer) ->
               IF IsKnowledge(answer) THEN KnowledgeSuccessIssues(before, answer)
               ELSE SuccessIssues(before, answer)
          [] answer.outcome \in {"CLARIFIED", "UNSUPPORTED"} ->
               ControlIssues(before)
                 \cup IF IsKnowledge(answer) THEN KnowledgeControlIssues(before, answer) ELSE {}
          [] answer.outcome \in {"FAILED", "TIMED_OUT"} /\ IsKnowledge(answer) ->
               KnowledgeFailureIssues(before, answer, rest)
          [] OTHER -> {}
  BY DEF AnswerIssues
<1>7. Serves(answer) => answer.outcome = "SUCCEEDED"
  BY DEF Serves
<1> HIDE DEF answer, before, rest
<1>8. CASE Serves(answer)
  <2>1. AnswerIssues(trail, i) \in
          {KnowledgeSuccessIssues(before, answer), SuccessIssues(before, answer)}
        /\ (AnswerIssues(trail, i) # SuccessIssues(before, answer) => IsKnowledge(answer))
    BY <1>6, <1>7, <1>8
  <2> QED
    BY <1>4, <1>7, <1>8, <2>1, SuccessCodes, KnowledgeSuccessCodes DEF Denials
<1>9. CASE answer.outcome \in Denials
  <2>1. AnswerIssues(trail, i) \subseteq
          ControlIssues(before) \cup KnowledgeControlIssues(before, answer)
    BY <1>6, <1>7, <1>9 DEF Denials
  <2> QED
    BY <1>5, <1>9, <2>1, KnowledgeControlCodes
<1>10. CASE answer.outcome \in Failures /\ IsKnowledge(answer)
  <2>1. AnswerIssues(trail, i) = KnowledgeFailureIssues(before, answer, rest)
    BY <1>6, <1>7, <1>10 DEF Failures
  <2> QED
    BY <1>4, <1>10, <2>1, KnowledgeFailureCodes DEF Failures, Denials
<1>11. CASE /\ ~Serves(answer) /\ answer.outcome \notin Denials
            /\ ~(answer.outcome \in Failures /\ IsKnowledge(answer))
  <2>1. AnswerIssues(trail, i) = {}
    BY <1>6, <1>11 DEF Denials, Failures
  <2> QED
    BY <2>1
<1> QED
  BY <1>8, <1>9, <1>10, <1>11

\* Whatever interleaving closes a request, the validator reports of its trail
\* none of these, but for the known gaps: a wrong frame, a control answer after
\* data was read, a relation event or answer without its plan, a relation
\* failure with the wrong reason.
THEOREM RulesAccepted ==
  Spec => [](at = "closed" => Issues(trail) \cap RuleCodes \subseteq KnownGaps)
<1>1. ASSUME TraceInv, Tied, DenialsAccepted, at = "closed" => LifecycleIssues(trail) = {},
             at = "closed"
      PROVE  Issues(trail) \cap RuleCodes \subseteq KnownGaps
  <2>1. Issues(trail) = UNION {AnswerIssues(trail, i) : i \in {j \in DOMAIN trail : trail[j].stage = "ANSWER"}}
    BY <1>1 DEF Issues
  <2> QED
    BY <1>1, <2>1, AnswerCodes
<1>2. TraceInv /\ Tied /\ [Next]_vars => Tied'
  BY TiedStep
<1> QED
  BY <1>1, <1>2, TiedInit, TraceInvariant, ControlAccepted, LifecycleAccepted, PTL DEF Spec

-----------------------------------------------------------------------------
(***************************************************************************)
(* The events at some positions of a trace (Those), and the path of a      *)
(* trace, computed one event at a time.                                    *)
(***************************************************************************)
Next1(t, I, c, i) == IF i \in I THEN Append(c[i - 1], t[i]) ELSE c[i - 1]
Chosen(t, I, n, c) ==
  /\ DOMAIN c = 0..n
  /\ c[0] = <<>> /\ \A i \in 1..n : c[i] = Next1(t, I, c, i)

\* A set of numbers that is not empty has a least element.
LEMMA LeastOf == ASSUME NEW S, S \subseteq Nat, S # {} PROVE \E x \in S : \A y \in S : ~(y < x)
<1>1. PICK x \in S : \A y \in S : ~(<<y, x>> \in OpToRel(<, Nat))
  BY NatLessThanWellFounded, WFMin, Zenon
<1> QED
  BY <1>1 DEF OpToRel

LEMMA ChosenExists == ASSUME NEW t, NEW I, NEW n \in Nat PROVE \E c : Chosen(t, I, n, c)
<1> DEFINE Bad == {m \in Nat : ~\E c : Chosen(t, I, m, c)}
<1>1. SUFFICES ASSUME Bad # {} PROVE FALSE
  OBVIOUS
<1>2. PICK m \in Bad : \A y \in Bad : ~(y < m)
  BY <1>1, LeastOf
<1>3. m # 0
  <2> DEFINE c == [i \in 0..0 |-> <<>>]
  <2>1. Chosen(t, I, 0, c)
    BY DEF Chosen
  <2> QED
    BY <2>1
<1>4. m \in Nat /\ m - 1 \in Nat /\ m - 1 < m
  BY <1>2, <1>3
<1>5. PICK c : Chosen(t, I, m - 1, c)
  BY <1>2, <1>4
<1> DEFINE d == [i \in 0..m |-> IF i = m THEN Next1(t, I, c, m) ELSE c[i]]
<1>6. Chosen(t, I, m, d)
  <2>1. DOMAIN d = 0..m /\ d[0] = <<>>
    BY <1>3, <1>4, <1>5 DEF Chosen
  <2>2. ASSUME NEW i \in 1..m PROVE d[i] = Next1(t, I, d, i)
    <3>1. d[i - 1] = c[i - 1]
      BY <1>4, <2>2
    <3>2. CASE i = m
      BY <3>1, <3>2 DEF Next1
    <3>3. CASE i # m
      <4>1. i \in 1..(m - 1)
        BY <1>4, <2>2, <3>3
      <4>2. d[i] = c[i] /\ c[i] = Next1(t, I, c, i)
        BY <1>4, <1>5, <4>1 DEF Chosen
      <4> QED
        BY <3>1, <4>2 DEF Next1
    <3> QED
      BY <3>2, <3>3
  <2> QED
    BY <2>1, <2>2 DEF Chosen
<1> QED
  BY <1>2, <1>6

\* Two selections that agree on a prefix choose the same of it.
LEMMA ChosenAgree ==
  ASSUME NEW t, NEW u, NEW I, NEW J, NEW n \in Nat, NEW m \in Nat, NEW k \in Nat, k <= n, k <= m,
         NEW c, NEW d, Chosen(t, I, n, c), Chosen(u, J, m, d),
         \A i \in 1..k : t[i] = u[i] /\ (i \in I <=> i \in J)
  PROVE  c[k] = d[k]
<1> DEFINE Bad == {i \in 0..k : c[i] # d[i]}
<1>1. SUFFICES ASSUME Bad # {} PROVE FALSE
  OBVIOUS
<1>a. Bad \subseteq Nat
  OBVIOUS
<1>2. PICK x \in Bad : \A y \in Bad : ~(y < x)
  <2> HIDE DEF Bad
  <2> QED
    BY <1>1, <1>a, LeastOf
<1>3. x # 0
  BY <1>2 DEF Chosen
<1>4. x \in 1..k /\ x - 1 \in 0..k /\ x - 1 < x
  BY <1>2, <1>3
<1>5. c[x - 1] = d[x - 1]
  BY <1>2, <1>4
<1>6. x \in 1..n /\ x \in 1..m
  BY <1>4
<1>7. c[x] = Next1(t, I, c, x) /\ d[x] = Next1(u, J, d, x)
  BY <1>6 DEF Chosen
<1> QED
  BY <1>2, <1>4, <1>5, <1>7 DEF Next1

\* Those is what a selection over the whole trace ends with.
LEMMA ThoseChosen ==
  ASSUME NEW t, NEW I, Len(t) \in Nat
  PROVE  \E c : Chosen(t, I, Len(t), c) /\ Those(t, I) = c[Len(t)]
<1> DEFINE Rec(c) ==
      c = [i \in 0..Len(t) |->
             IF i = 0 THEN <<>> ELSE IF i \in I THEN Append(c[i - 1], t[i]) ELSE c[i - 1]]
<1>1. PICK c : Chosen(t, I, Len(t), c)
  BY ChosenExists
<1>2. \E f : Rec(f)
  <2> DEFINE f == [i \in 0..Len(t) |-> c[i]]
  <2>1. ASSUME NEW i \in 0..Len(t)
        PROVE  f[i] = IF i = 0 THEN <<>>
                      ELSE IF i \in I THEN Append(f[i - 1], t[i]) ELSE f[i - 1]
    <3>1. CASE i = 0
      BY <1>1, <3>1 DEF Chosen
    <3>2. CASE i # 0
      <4>1. i \in 1..Len(t) /\ i - 1 \in 0..Len(t)
        BY <2>1, <3>2
      <4>2. f[i] = c[i] /\ f[i - 1] = c[i - 1] /\ c[i] = Next1(t, I, c, i)
        BY <1>1, <4>1 DEF Chosen
      <4> QED
        BY <3>2, <4>2 DEF Next1
    <3> QED
      BY <3>1, <3>2
  <2>2. Rec(f)
    BY <2>1
  <2> QED
    BY <2>2
<1> DEFINE g == CHOOSE f : Rec(f)
<1>3. Rec(g)
  BY <1>2
<1>4. Those(t, I) = g[Len(t)]
  BY DEF Those
<1> HIDE DEF g
<1>5. Chosen(t, I, Len(t), g)
  <2>1. DOMAIN g = 0..Len(t) /\ g[0] = <<>>
    BY <1>3
  <2>2. ASSUME NEW i \in 1..Len(t) PROVE g[i] = Next1(t, I, g, i)
    <3>1. i \in 0..Len(t) /\ i # 0
      BY <2>2
    <3> QED
      BY <1>3, <3>1 DEF Next1
  <2> QED
    BY <2>1, <2>2 DEF Chosen
<1> QED
  BY <1>4, <1>5

LEMMA ThoseEmpty == ASSUME NEW I PROVE Those(<<>>, I) = <<>>
  BY ThoseChosen DEF Chosen

LEMMA ThoseType == ASSUME NEW S, NEW t \in Seq(S), NEW I PROVE Those(t, I) \in Seq(S)
<1>1. PICK c : Chosen(t, I, Len(t), c) /\ Those(t, I) = c[Len(t)]
  BY ThoseChosen
<1> DEFINE Bad == {i \in 0..Len(t) : c[i] \notin Seq(S)}
<1>2. SUFFICES ASSUME Bad # {} PROVE FALSE
  BY <1>1
<1>3. Bad \subseteq Nat
  OBVIOUS
<1>4. PICK x \in Bad : \A y \in Bad : ~(y < x)
  <2> HIDE DEF Bad
  <2> QED
    BY <1>2, <1>3, LeastOf
<1>5. x # 0
  BY <1>1, <1>4 DEF Chosen
<1>6. x \in 1..Len(t) /\ x - 1 \in 0..Len(t) /\ x - 1 < x
  BY <1>4, <1>5
<1>7. c[x - 1] \in Seq(S) /\ t[x] \in S
  BY <1>4, <1>6
<1>8. c[x] = Next1(t, I, c, x)
  BY <1>1, <1>6 DEF Chosen
<1>9. Append(c[x - 1], t[x]) \in Seq(S)
  BY <1>7
<1> QED
  BY <1>4, <1>7, <1>8, <1>9 DEF Next1

LEMMA ThoseAppend ==
  ASSUME NEW S, NEW t \in Seq(S), NEW e \in S, NEW I, NEW J,
         \A i \in 1..Len(t) : i \in I <=> i \in J
  PROVE  Those(t \o <<e>>, J) =
           IF Len(t) + 1 \in J THEN Append(Those(t, I), e) ELSE Those(t, I)
<1> DEFINE u == t \o <<e>>
           n == Len(t)
<1>1. n \in Nat /\ Len(u) = n + 1 /\ u[n + 1] = e /\ \A i \in 1..n : t[i] = u[i]
  OBVIOUS
<1>a. \A i \in 1..n : t[i] = u[i] /\ (i \in I <=> i \in J)
  OBVIOUS
<1> HIDE DEF u, n
<1>2. PICK c : Chosen(t, I, n, c) /\ Those(t, I) = c[n]
  BY <1>1, ThoseChosen DEF n
<1>3. PICK d : Chosen(u, J, n + 1, d) /\ Those(u, J) = d[n + 1]
  BY <1>1, ThoseChosen
<1>4. c[n] = d[n]
  <2>1. n \in Nat /\ n + 1 \in Nat /\ n <= n /\ n <= n + 1
    BY <1>1
  <2> QED
    BY <1>a, <1>2, <1>3, <2>1, ChosenAgree
<1>5. d[n + 1] = Next1(u, J, d, n + 1)
  BY <1>1, <1>3 DEF Chosen
<1>6. n + 1 - 1 = n
  BY <1>1
<1>7. Those(u, J) = IF n + 1 \in J THEN Append(Those(t, I), e) ELSE Those(t, I)
  BY <1>1, <1>2, <1>3, <1>4, <1>5, <1>6 DEF Next1
<1> QED
  BY <1>7 DEF u, n

LEMMA OfStageType ==
  ASSUME NEW S, NEW t \in Seq(S), NEW stages PROVE OfStage(t, stages) \in Seq(S)
  BY ThoseType DEF OfStage

LEMMA OfStageEmpty == ASSUME NEW stages PROVE OfStage(<<>>, stages) = <<>>
  BY ThoseEmpty DEF OfStage

LEMMA OfStageAppend ==
  ASSUME NEW S, NEW t \in Seq(S), NEW e \in S, NEW stages
  PROVE  OfStage(t \o <<e>>, stages) =
           IF e.stage \in stages THEN Append(OfStage(t, stages), e) ELSE OfStage(t, stages)
<1> DEFINE u == t \o <<e>>
           I == {i \in DOMAIN t : t[i].stage \in stages}
           J == {i \in DOMAIN u : u[i].stage \in stages}
<1>1. /\ Len(t) \in Nat /\ DOMAIN t = 1..Len(t) /\ DOMAIN u = 1..(Len(t) + 1)
      /\ u[Len(t) + 1] = e /\ \A i \in 1..Len(t) : u[i] = t[i]
  OBVIOUS
<1> HIDE DEF u
<1>2. \A i \in 1..Len(t) : i \in I <=> i \in J
  BY <1>1
<1>3. Len(t) + 1 \in J <=> e.stage \in stages
  BY <1>1
<1>4. OfStage(t, stages) = Those(t, I) /\ OfStage(u, stages) = Those(u, J)
  BY DEF OfStage
<1> HIDE DEF I, J
<1>5. Those(u, J) = IF Len(t) + 1 \in J THEN Append(Those(t, I), e) ELSE Those(t, I)
  BY <1>2, ThoseAppend DEF u
<1> QED
  BY <1>3, <1>4, <1>5 DEF u

\* The path of a trace grows by the keys of its path events.
LEMMA PathEmpty == PathOf(<<>>) = <<>>
  BY OfStageEmpty DEF PathOf

LEMMA PathType ==
  ASSUME NEW S, NEW t \in Seq(S) PROVE PathOf(t) \in Seq({Key(e) : e \in S})
<1> DEFINE p == OfStage(t, PathStages)
<1>1. p \in Seq(S)
  BY OfStageType
<1>2. PathOf(t) = [i \in DOMAIN p |-> Key(p[i])]
  BY DEF PathOf
<1> HIDE DEF p
<1>3. DOMAIN p = 1..Len(p) /\ Len(p) \in Nat /\ \A i \in 1..Len(p) : p[i] \in S
  BY <1>1
<1> QED
  BY <1>2, <1>3

LEMMA PathAppend ==
  ASSUME NEW S, NEW t \in Seq(S), NEW e \in S
  PROVE  PathOf(t \o <<e>>) =
           IF e.stage \in PathStages THEN Append(PathOf(t), Key(e)) ELSE PathOf(t)
<1> DEFINE p == OfStage(t, PathStages)
           q == OfStage(t \o <<e>>, PathStages)
<1>1. p \in Seq(S)
  BY OfStageType
<1>2. q = IF e.stage \in PathStages THEN Append(p, e) ELSE p
  BY OfStageAppend
<1>3. /\ PathOf(t) = [i \in DOMAIN p |-> Key(p[i])]
      /\ PathOf(t \o <<e>>) = [i \in DOMAIN q |-> Key(q[i])]
  BY DEF PathOf
<1> HIDE DEF p, q
<1>4. CASE e.stage \notin PathStages
  BY <1>2, <1>3, <1>4
<1>5. CASE e.stage \in PathStages
  <2>1. /\ Len(p) \in Nat /\ DOMAIN p = 1..Len(p) /\ DOMAIN q = 1..(Len(p) + 1)
        /\ q[Len(p) + 1] = e /\ \A i \in 1..Len(p) : q[i] = p[i]
    BY <1>1, <1>2, <1>5
  <2>2. PathOf(t) \in Seq({Key(x) : x \in S}) /\ Len(PathOf(t)) = Len(p)
    <3>1. PathOf(t) \in Seq({Key(x) : x \in S})
      BY PathType
    <3>2. DOMAIN PathOf(t) = 1..Len(p)
      BY <1>3, <2>1
    <3> QED
      BY <2>1, <3>1, <3>2, LenProperties
  <2> DEFINE K == Key(e)
             r == Append(PathOf(t), K)
  <2>3. K \in {Key(x) : x \in S}
    OBVIOUS
  <2> HIDE DEF K
  <2>4. /\ r \in Seq({Key(x) : x \in S}) /\ Len(r) = Len(p) + 1 /\ r[Len(p) + 1] = K
        /\ \A i \in 1..Len(p) : r[i] = PathOf(t)[i]
    BY <2>1, <2>2, <2>3
  <2> HIDE DEF r
  <2>5. r = [i \in 1..(Len(p) + 1) |-> r[i]]
    BY <2>1, <2>4
  <2>6. \A i \in 1..(Len(p) + 1) : r[i] = Key(q[i])
    BY <1>3, <2>1, <2>4 DEF K
  <2>7. PathOf(t \o <<e>>) = r
    BY <1>3, <2>1, <2>5, <2>6
  <2> QED
    BY <1>5, <2>7 DEF r, K
<1> QED
  BY <1>4, <1>5

-----------------------------------------------------------------------------
(***************************************************************************)
(* The path of a relation question at each of its places, and when it is   *)
(* answered.                                                               *)
(***************************************************************************)
Received == Plain("REQUEST", "STARTED", "received")
Tracks(t, q) == PathOf(t) = KnowledgePrefix \o q

\* The paths after the prefix, up to the evidence (Gathered)
Unstarted == <<>>
Authorised == <<Authority>>
Consulted == <<Authority, RelationLookup>>

Boundaries ==
  { <<"AUTHORITY", "FAILED", "knowledge_authority_rejected">>,
    <<"AUTHORITY", "TIMED_OUT", "knowledge_authority_timed_out">>,
    <<"AUTHORITY", "FAILED", "knowledge_post_authority_rejected">>,
    <<"SQL", "FAILED", "relation_lookup_failed">>,
    <<"SQL", "TIMED_OUT", "relation_lookup_timed_out">>,
    <<"VERIFIER", "FAILED", "relation_evidence_rejected">>,
    <<"VERIFIER", "TIMED_OUT", "relation_verification_timed_out">>,
    <<"HCLX", "TIMED_OUT", "knowledge_generation_timed_out">>,
    <<"RENDERER", "TIMED_OUT", "knowledge_rendering_timed_out">> }

\* A path that the validator accepts before a boundary
Precedes(q, stage, outcome, reason) ==
  <<stage, outcome, reason>> \in Boundaries /\ q \in PrefixesBefore(<<stage, outcome, reason>>)

\* The executions that end in each mode
Completions(mode) ==
  CASE mode = "completed" ->
         {Gathered \o <<ClaimsOk, Rendered>>, Gathered \o <<Generated, ClaimsOk, Rendered>>}
    [] mode = "not_found" -> {Gathered \o <<ClaimsOk, Rendered>>}
    [] mode = "fallback" ->
         {Gathered \o <<Generated, ClaimsBad, Rendered>>,
          Gathered \o <<NotGenerated, ClaimsBad, Rendered>>}
    [] OTHER -> {}

Composed(t) == \E q \in Completions(result.mode) : Tracks(t, q)

Broken(t, late) ==
  \E b \in Boundaries : \E q \in PrefixesBefore(b) :
    Tracks(t, q \o <<b>>) /\ (late <=> b[2] = "TIMED_OUT")

\* An error nobody expected, past the evidence
Unended(t) ==
  result.cause = "fatal" /\ \E q \in {Gathered} \cup CompletedPaths : Tracks(t, q)

Concluded(t) ==
  /\ result.status = "executed" => Composed(t)
  /\ result.status \in {"failed", "timed_out"} =>
       Broken(t, result.status = "timed_out") \/ Unended(t)
  /\ result.status \in Controls => t = <<Received>> \o ControlEvents(result.status)

Pathed ==
  /\ at \in {"received", "relation"} => trail = <<Received>>
  /\ at \in {"k_check", "k_authorize"} => Tracks(trail, Unstarted)
  /\ at = "k_lookup" => Tracks(trail, Authorised)
  /\ at = "k_verify" => Tracks(trail, Consulted)
  /\ at = "k_compose" => Tracks(trail, Gathered)
  /\ at \in {"k_verify", "k_compose"} => result.mode \in {"empty", "found"}
  /\ at = "k_post" => Composed(trail) /\ result.cause # "late"
  /\ at = "k_answer" => Concluded(trail) /\ result.cause # "late"

\* A path that follows the prefix grows by one event.
LEMMA TrackAppend ==
  ASSUME NEW S, NEW t \in Seq(S), NEW e, e.stage \in PathStages,
         NEW K, NEW q \in Seq(K), Tracks(t, q)
  PROVE  Tracks(t \o <<e>>, Append(q, Key(e))) /\ t \o <<e>> \in Seq(S \cup {e})
<1>1. t \in Seq(S \cup {e}) /\ <<e>> \in Seq(S \cup {e})
  BY SeqMonotonic
<1>2. PathOf(t \o <<e>>) = Append(KnowledgePrefix \o q, Key(e))
  <2> DEFINE V == S \cup {e}
  <2>1. t \in Seq(V) /\ e \in V
    BY <1>1
  <2> HIDE DEF V
  <2>2. PathOf(t \o <<e>>) = Append(PathOf(t), Key(e))
    BY <2>1, PathAppend
  <2> QED
    BY <2>2 DEF Tracks
<1> DEFINE P == KnowledgePrefix
           k == Key(e)
           U == K \cup {KnowledgePrefix[1], KnowledgePrefix[2], KnowledgePrefix[3], k}
<1>3. P \in Seq(U)
  <2>1. P \in Seq({P[1], P[2], P[3]})
    BY DEF KnowledgePrefix
  <2> QED
    BY <2>1, SeqMonotonic
<1>4. q \in Seq(U) /\ k \in U
  BY SeqMonotonic
<1> HIDE DEF P, k, U
<1>5. Append(P \o q, k) = P \o Append(q, k)
  <2>1. P \o q \in Seq(U) /\ <<k>> \in Seq(U)
    BY <1>3, <1>4, ConcatProperties
  <2>2. Append(P \o q, k) = (P \o q) \o <<k>> /\ Append(q, k) = q \o <<k>>
    BY <1>4, <2>1, AppendIsConcat
  <2>3. (P \o q) \o <<k>> = P \o (q \o <<k>>)
    BY <1>3, <1>4, <2>1, ConcatAssociative
  <2> QED
    BY <2>2, <2>3
<1>6. t \o <<e>> \in Seq(S \cup {e})
  BY <1>1
<1> QED
  BY <1>2, <1>5, <1>6 DEF Tracks, P, k

LEMMA KeyOfLinking ==
  ASSUME NEW stage, NEW outcome, NEW reason
  PROVE  /\ Key(Linking(stage, outcome, reason)) = <<stage, outcome, reason>>
         /\ Linking(stage, outcome, reason).stage = stage
  BY DEF Key, Linking, Event

\* The keys of the stages that succeed
LEMMA KeyOfStages ==
  ASSUME NEW key \in {Authority, RelationLookup, Evidence, Generated, NotGenerated, ClaimsOk,
                      ClaimsBad, Rendered}
  PROVE  Key(LinkingKey(key)) = key /\ LinkingKey(key).stage \in PathStages
  BY KeyOfLinking
  DEF LinkingKey, Authority, RelationLookup, Evidence, Generated, NotGenerated, ClaimsOk,
      ClaimsBad, Rendered, PathStages

LEMMA PathedInit == Init => Pathed
  BY DEF Init, Pathed, Received

\* No step of the product path reaches a place of the relation path.
LEMMA ProductPlaces ==
  ASSUME TraceInv, ProductStep
  PROVE  at' \notin {"received", "relation", "k_answer"} \cup Undertaken
  BY DEF ProductStep, Enter, Guard, RouteFails, RouteControl, RouteExecute, Compile,
         CompileWithoutProposal, CompileBlocked, Check, Admit, Decline, Break, Grant, Deny,
         DenyByPolicy, Work, Join, ShowRendered, ComposeOne, ComposeFamily, ComposeBatch, Recheck,
         Answer, Close, Step, Undertaken, TraceInv, Settled

\* The paths of completed executions are sequences of keys.
LEMMA Gathering == Gathered \in Seq({Authority, RelationLookup, Evidence})
  BY DEF Gathered

LEMMA CompletionPaths ==
  ASSUME NEW mode, NEW q \in Completions(mode)
  PROVE  q \in CompletedPaths /\ \E K : q \in Seq(K)
<1> DEFINE K == {Authority, RelationLookup, Evidence, Generated, NotGenerated, ClaimsOk, ClaimsBad,
                 Rendered}
           G == Gathered
           P == {<<ClaimsOk, Rendered>>, <<Generated, ClaimsOk, Rendered>>,
                 <<Generated, ClaimsBad, Rendered>>, <<NotGenerated, ClaimsBad, Rendered>>}
<1>1. G \in Seq(K)
  BY Gathering, SeqMonotonic
<1>2. \A p \in P : p \in Seq(K)
  <2>1. Generated \in K /\ NotGenerated \in K /\ ClaimsOk \in K /\ ClaimsBad \in K /\ Rendered \in K
    OBVIOUS
  <2> HIDE DEF K
  <2>2. <<ClaimsOk, Rendered>> \in Seq(K)
    BY <2>1
  <2>3. <<Generated, ClaimsOk, Rendered>> \in Seq(K)
    BY <2>1
  <2>4. <<Generated, ClaimsBad, Rendered>> \in Seq(K)
    BY <2>1
  <2>5. <<NotGenerated, ClaimsBad, Rendered>> \in Seq(K)
    BY <2>1
  <2> QED
    BY <2>2, <2>3, <2>4, <2>5
<1>3. PICK p \in P : q = G \o p
  BY DEF Completions
<1>4. q \in CompletedPaths
  BY <1>3 DEF CompletedPaths
<1> HIDE DEF K, G, P
<1>5. q \in Seq(K)
  BY <1>1, <1>2, <1>3
<1> QED
  BY <1>4, <1>5

LEMMA PrefixTyped ==
  ASSUME NEW b, NEW q \in PrefixesBefore(b), b \in Boundaries PROVE \E K : q \in Seq(K)
<1> DEFINE K == {Authority, RelationLookup, Evidence, Generated, NotGenerated, ClaimsOk, ClaimsBad,
                 Rendered}
           P == {<<ClaimsOk, Rendered>>, <<Generated, ClaimsOk, Rendered>>,
                 <<Generated, ClaimsBad, Rendered>>, <<NotGenerated, ClaimsBad, Rendered>>,
                 <<ClaimsBad, Rendered>>}
           G == Gathered
<1>1. /\ Authority \in K /\ RelationLookup \in K /\ Evidence \in K /\ Generated \in K
      /\ NotGenerated \in K /\ ClaimsOk \in K /\ ClaimsBad \in K /\ Rendered \in K
  OBVIOUS
<1>2. G \in Seq(K)
  BY Gathering, SeqMonotonic
<1> HIDE DEF K
<1>3. \A p \in P : p \in Seq(K)
  <2>1. <<ClaimsOk, Rendered>> \in Seq(K) /\ <<ClaimsBad, Rendered>> \in Seq(K)
    BY <1>1
  <2>2. <<Generated, ClaimsOk, Rendered>> \in Seq(K)
    BY <1>1
  <2>3. <<Generated, ClaimsBad, Rendered>> \in Seq(K)
    BY <1>1
  <2>4. <<NotGenerated, ClaimsBad, Rendered>> \in Seq(K)
    BY <1>1
  <2> QED
    BY <2>1, <2>2, <2>3, <2>4
<1>4. CompletedPaths = {G \o p : p \in P}
  BY DEF CompletedPaths
<1> HIDE DEF G, P
<1>5. \A p \in CompletedPaths : p \in Seq(K)
  <2>1. \A p \in P : G \o p \in Seq(K)
    BY <1>2, <1>3
  <2> QED
    BY <1>4, <2>1
<1>6. \A p \in CompletedPaths, n \in 3..5 : \E S : SubSeq(p, 1, n) \in Seq(S)
  <2> TAKE p \in CompletedPaths, n \in 3..5
  <2> DEFINE S == {p[i] : i \in 1..n}
  <2>1. \A i \in 1..n : p[i] \in S
    OBVIOUS
  <2> HIDE DEF S
  <2>2. SubSeq(p, 1, n) \in Seq(S)
    BY <2>1, SubSeqProperties
  <2> QED
    BY <2>2
<1>7. <<>> \in Seq(K) /\ <<Authority>> \in Seq(K) /\ <<Authority, RelationLookup>> \in Seq(K)
  BY <1>1
<1>8. q \in Seq(K) \/ \E p \in CompletedPaths, n \in 3..5 : q = SubSeq(p, 1, n)
  <2> DEFINE D == {SubSeq(p, 1, n) : p \in CompletedPaths, n \in 3..5} \ CompletedPaths
  <2>1. PrefixesBefore(b) \in
          { {<<>>}, {<<>>} \cup CompletedPaths, CompletedPaths, {<<Authority>>},
            {<<Authority, RelationLookup>>}, {Gathered}, D, {} }
    <3>1. CASE b = <<"AUTHORITY", "FAILED", "knowledge_authority_rejected">>
      BY <3>1 DEF PrefixesBefore
    <3>2. CASE b = <<"AUTHORITY", "TIMED_OUT", "knowledge_authority_timed_out">>
      BY <3>2 DEF PrefixesBefore
    <3>3. CASE b = <<"AUTHORITY", "FAILED", "knowledge_post_authority_rejected">>
      BY <3>3 DEF PrefixesBefore
    <3>4. CASE b = <<"SQL", "FAILED", "relation_lookup_failed">>
      BY <3>4 DEF PrefixesBefore
    <3>5. CASE b = <<"SQL", "TIMED_OUT", "relation_lookup_timed_out">>
      BY <3>5 DEF PrefixesBefore
    <3>6. CASE b = <<"VERIFIER", "FAILED", "relation_evidence_rejected">>
      BY <3>6 DEF PrefixesBefore
    <3>7. CASE b = <<"VERIFIER", "TIMED_OUT", "relation_verification_timed_out">>
      BY <3>7 DEF PrefixesBefore
    <3>8. CASE b = <<"HCLX", "TIMED_OUT", "knowledge_generation_timed_out">>
      BY <3>8 DEF PrefixesBefore
    <3>9. CASE b = <<"RENDERER", "TIMED_OUT", "knowledge_rendering_timed_out">>
      BY <3>9 DEF PrefixesBefore
    <3> QED
      BY <3>1, <3>2, <3>3, <3>4, <3>5, <3>6, <3>7, <3>8, <3>9 DEF Boundaries
  <2>2. q \in D => \E p \in CompletedPaths, n \in 3..5 : q = SubSeq(p, 1, n)
    OBVIOUS
  <2> HIDE DEF D
  <2> QED
    BY <1>2, <1>5, <1>7, <2>1, <2>2 DEF G
<1> QED
  BY <1>6, <1>8

\* A boundary that fails concludes the path that led to it.
LEMMA BreaksConclude ==
  ASSUME Traced, NEW here, NEW cause \in Causes \ {"late"},
         NEW stage, NEW outcome, NEW reason,
         (cause = "deadline") <=> outcome = "TIMED_OUT",
         NEW q, Precedes(q, stage, outcome, reason), Tracks(trail, q),
         Breaks(here, cause, stage, outcome, reason)
  PROVE  Concluded(trail)' /\ result'.cause # "late" /\ at' = "k_answer"
<1> DEFINE b == <<stage, outcome, reason>>
           e == Linking(stage, outcome, reason)
<1>1. PICK S : trail \in Seq(S)
  BY DEF Traced
<1>2. Key(e) = b /\ e.stage = stage
  BY KeyOfLinking
<1>3. stage \in PathStages
  BY DEF Boundaries, PathStages, Precedes
<1>4. trail' = trail \o <<e>> /\ at' = "k_answer" /\ result' = Failure(cause)
  BY DEF Breaks, Step, Raise
<1>0. PICK K : q \in Seq(K)
  BY PrefixTyped DEF Precedes
<1>5. Append(q, b) = q \o <<b>>
  <2>1. q \in Seq(K \cup {b}) /\ b \in K \cup {b}
    BY <1>0, SeqMonotonic
  <2> HIDE DEF b
  <2> QED
    BY <2>1
<1>6. b[2] = outcome
  OBVIOUS
<1> HIDE DEF b, e
<1>7. Tracks(trail', q \o <<b>>)
  BY <1>0, <1>1, <1>2, <1>3, <1>4, <1>5, TrackAppend
<1>8. /\ result'.status = IF cause = "deadline" THEN "timed_out" ELSE "failed"
      /\ result'.cause = cause
  BY <1>4 DEF Failure
<1>9. \E c \in Boundaries : \E p \in PrefixesBefore(c) :
        Tracks(trail', p \o <<c>>) /\ (result'.status = "timed_out" <=> c[2] = "TIMED_OUT")
  BY <1>6, <1>7, <1>8 DEF b, Precedes
<1>10. Broken(trail, result.status = "timed_out")'
  BY <1>9 DEF Broken, Tracks
<1>11. result'.status \notin Controls /\ result'.status # "executed"
  BY <1>8 DEF Controls
<1> QED
  BY <1>4, <1>8, <1>10, <1>11 DEF Concluded

\* A stage that succeeds takes the path one step further.
LEMMA Succeeds ==
  ASSUME Traced, NEW here, NEW there,
         NEW key \in {Authority, RelationLookup, Evidence, Generated, NotGenerated, ClaimsOk,
                      ClaimsBad, Rendered},
         NEW K, NEW q \in Seq(K), Tracks(trail, q), Step(here, there, <<LinkingKey(key)>>)
  PROVE  Tracks(trail', Append(q, key))
<1>1. PICK S : trail \in Seq(S)
  BY DEF Traced
<1>2. Key(LinkingKey(key)) = key /\ LinkingKey(key).stage \in PathStages
  BY KeyOfStages
<1>3. trail' = trail \o <<LinkingKey(key)>>
  BY DEF Step
<1> QED
  BY <1>1, <1>2, <1>3, TrackAppend

LEMMA ConcatTwo ==
  ASSUME NEW S, NEW t \in Seq(S), NEW x \in S, NEW y \in S
  PROVE  (t \o <<x>>) \o <<y>> = t \o <<x, y>>
<1> DEFINE s == (t \o <<x>>) \o <<y>>
           u == t \o <<x, y>>
<1>1. s \in Seq(S) /\ u \in Seq(S) /\ Len(s) = Len(t) + 2 /\ Len(u) = Len(t) + 2
  OBVIOUS
<1>2. \A i \in 1..(Len(t) + 2) : s[i] = u[i]
  OBVIOUS
<1> HIDE DEF s, u
<1>3. s = u
  BY <1>1, <1>2, SeqEqual
<1> QED
  BY <1>3 DEF s, u

\* What a composition writes completes the path of its mode.
LEMMA Completes ==
  ASSUME Traced, Tracks(trail, Gathered), NEW asked \in {FALSE, result.mode = "found"},
         NEW draft \in Drafts(asked), result.mode \in {"empty", "found"},
         trail' = trail \o KnowledgeComposition(draft)
  PROVE  \E q \in Completions(ComposedMode(draft)) : Tracks(trail', q)
<1> DEFINE a == LinkingKey(Generated)
           b == LinkingKey(NotGenerated)
           c == LinkingKey(ClaimsOk)
           d == LinkingKey(ClaimsBad)
           e == LinkingKey(Rendered)
           G == Gathered
<1>1. PICK S : trail \in Seq(S)
  BY DEF Traced
<1>2. /\ Key(a) = Generated /\ Key(b) = NotGenerated /\ Key(c) = ClaimsOk /\ Key(d) = ClaimsBad
      /\ Key(e) = Rendered
      /\ \A x \in {a, b, c, d, e} : x.stage \in PathStages
  BY KeyOfStages
<1>3. PICK K : G \in Seq(K)
  BY Gathering
<1>4. Tracks(trail, G)
  OBVIOUS
<1> HIDE DEF a, b, c, d, e, G
<1>5. ASSUME NEW x \in {a, b, c, d, e}, NEW y \in {a, b, c, d, e}
      PROVE  Tracks(trail \o <<x, y>>, G \o <<Key(x), Key(y)>>)
  <2>1. Tracks(trail \o <<x>>, Append(G, Key(x))) /\ trail \o <<x>> \in Seq(S \cup {x})
    BY <1>1, <1>2, <1>3, <1>4, TrackAppend
  <2>2. Append(G, Key(x)) \in Seq(K \cup {Key(x)})
    BY <1>3, SeqMonotonic
  <2>3. Tracks((trail \o <<x>>) \o <<y>>, Append(Append(G, Key(x)), Key(y)))
    BY <1>2, <2>1, <2>2, TrackAppend
  <2>4. (trail \o <<x>>) \o <<y>> = trail \o <<x, y>>
    <3> DEFINE U == S \cup {x, y}
    <3>1. trail \in Seq(U) /\ x \in U /\ y \in U
      BY <1>1, SeqMonotonic
    <3> HIDE DEF U
    <3> QED
      BY ONLY <3>1, ConcatTwo
  <2>5. Append(Append(G, Key(x)), Key(y)) = G \o <<Key(x), Key(y)>>
    <3> DEFINE k == Key(x)
               l == Key(y)
               U == K \cup {k, l}
    <3>1. G \in Seq(U) /\ k \in U /\ l \in U
      BY <1>3, SeqMonotonic
    <3> HIDE DEF U, k, l
    <3>2. Append(Append(G, k), l) = G \o <<k, l>>
      BY <3>1
    <3> QED
      BY <3>2 DEF k, l
  <2> QED
    BY <2>3, <2>4, <2>5
<1>6. ASSUME NEW x \in {a, b, c, d, e}, NEW y \in {a, b, c, d, e}, NEW z \in {a, b, c, d, e}
      PROVE  Tracks(trail \o <<x, y, z>>, G \o <<Key(x), Key(y), Key(z)>>)
  <2> DEFINE k == Key(x)
             l == Key(y)
             m == Key(z)
             U == K \cup {k, l, m}
             V == S \cup {x, y, z}
  <2>1. G \in Seq(U) /\ k \in U /\ l \in U /\ m \in U
    BY <1>3, SeqMonotonic
  <2>2. trail \in Seq(V) /\ x \in V /\ y \in V /\ z \in V
    BY <1>1, SeqMonotonic
  <2>3. Tracks(trail \o <<x, y>>, G \o <<k, l>>)
    BY <1>5
  <2>4. z.stage \in PathStages
    BY <1>2
  <2> HIDE DEF k, l, m, U, V
  <2>5. trail \o <<x, y>> \in Seq(V) /\ G \o <<k, l>> \in Seq(U)
    BY <2>1, <2>2
  <2>6. Tracks((trail \o <<x, y>>) \o <<z>>, Append(G \o <<k, l>>, Key(z)))
    BY <2>3, <2>4, <2>5, TrackAppend
  <2>7. (trail \o <<x, y>>) \o <<z>> = trail \o <<x, y, z>>
    BY <2>2
  <2>8. Append(G \o <<k, l>>, m) = G \o <<k, l, m>>
    BY <2>1
  <2> QED
    BY <2>6, <2>7, <2>8 DEF k, l, m
<1>8. draft \in {"verified", "rejected", "missing", "unasked"}
      /\ (draft # "unasked" => result.mode = "found")
  BY DEF Drafts
<1>9. CASE draft = "verified"
  <2>1. trail' = trail \o <<a, c, e>> /\ ComposedMode(draft) = "completed"
    BY <1>8, <1>9 DEF KnowledgeComposition, ComposedMode, a, c, e
  <2>2. Tracks(trail', G \o <<Generated, ClaimsOk, Rendered>>)
    BY <1>2, <1>6, <2>1
  <2>3. G \o <<Generated, ClaimsOk, Rendered>> \in Completions(ComposedMode(draft))
    BY <2>1 DEF Completions, G
  <2> QED
    BY <2>2, <2>3
<1>10. CASE draft = "rejected"
  <2>1. trail' = trail \o <<a, d, e>> /\ ComposedMode(draft) = "fallback"
    BY <1>8, <1>10 DEF KnowledgeComposition, ComposedMode, a, d, e
  <2>2. Tracks(trail', G \o <<Generated, ClaimsBad, Rendered>>)
    BY <1>2, <1>6, <2>1
  <2>3. G \o <<Generated, ClaimsBad, Rendered>> \in Completions(ComposedMode(draft))
    BY <2>1 DEF Completions, G
  <2> QED
    BY <2>2, <2>3
<1>11. CASE draft = "missing"
  <2>1. trail' = trail \o <<b, d, e>> /\ ComposedMode(draft) = "fallback"
    BY <1>8, <1>11 DEF KnowledgeComposition, ComposedMode, b, d, e
  <2>2. Tracks(trail', G \o <<NotGenerated, ClaimsBad, Rendered>>)
    BY <1>2, <1>6, <2>1
  <2>3. G \o <<NotGenerated, ClaimsBad, Rendered>> \in Completions(ComposedMode(draft))
    BY <2>1 DEF Completions, G
  <2> QED
    BY <2>2, <2>3
<1>12. CASE draft = "unasked"
  <2>1. trail' = trail \o <<c, e>> /\ ComposedMode(draft) \in {"completed", "not_found"}
    BY <1>8, <1>12 DEF KnowledgeComposition, ComposedMode, c, e
  <2>2. Tracks(trail', G \o <<ClaimsOk, Rendered>>)
    BY <1>2, <1>5, <2>1
  <2>3. G \o <<ClaimsOk, Rendered>> \in Completions(ComposedMode(draft))
    BY <2>1 DEF Completions, G
  <2> QED
    BY <2>2, <2>3
<1> QED
  BY <1>8, <1>9, <1>10, <1>11, <1>12


\* A step without events leaves the trail alone.
LEMMA NothingWritten ==
  ASSUME Traced, NEW here, NEW there, Step(here, there, <<>>) PROVE trail' = trail
<1>1. PICK S : trail \in Seq(S)
  BY DEF Traced
<1>2. trail' = trail \o <<>>
  BY DEF Step
<1> QED
  BY <1>1, <1>2

\* Short sequences grow.
LEMMA Longer ==
  ASSUME NEW S, NEW a \in S, NEW b \in S, NEW c \in S
  PROVE  /\ Append(<<>>, a) = <<a>> /\ Append(<<a>>, b) = <<a, b>>
         /\ Append(<<a, b>>, c) = <<a, b, c>>
<1>1. ASSUME NEW s \in Seq(S), NEW t \in Seq(S), Len(s) = Len(t), \A i \in 1..Len(s) : s[i] = t[i]
      PROVE  s = t
  BY <1>1, SeqEqual
<1>2. Append(<<>>, a) = <<a>>
  OBVIOUS
<1>3. Append(<<a>>, b) = <<a, b>>
  <2> DEFINE s == Append(<<a>>, b)
             t == <<a, b>>
  <2>1. s \in Seq(S) /\ t \in Seq(S) /\ Len(s) = 2 /\ Len(t) = 2 /\ \A i \in 1..2 : s[i] = t[i]
    OBVIOUS
  <2> HIDE DEF s, t
  <2>2. s = t
    BY <1>1, <2>1
  <2> QED
    BY <2>2 DEF s, t
<1>4. Append(<<a, b>>, c) = <<a, b, c>>
  <2> DEFINE s == Append(<<a, b>>, c)
             t == <<a, b, c>>
  <2>1. s \in Seq(S) /\ t \in Seq(S) /\ Len(s) = 3 /\ Len(t) = 3 /\ \A i \in 1..3 : s[i] = t[i]
    OBVIOUS
  <2> HIDE DEF s, t
  <2>2. s = t
    BY <1>1, <2>1
  <2> QED
    BY <2>2 DEF s, t
<1> QED
  BY <1>2, <1>3, <1>4

\* The path of a relation question that is executed begins with the prefix.
LEMMA ExecutionStarts ==
  ASSUME trail = <<Received>>, RelationExecute PROVE Tracks(trail', Unstarted)
<1> DEFINE a == Received
           e == Plain("SAFETY", "SUCCEEDED", "guard_allowed")
           f == Event("ROUTE", "SUCCEEDED", "knowledge_routed_execute", "EXECUTE", <<>>)
           g == Linking("COMPILER", "SUCCEEDED", "knowledge_plan_compiled")
           P == KnowledgePrefix
           U == {a, e, f, g}
           V == {Key(e), Key(f), Key(g)}
<1>1. trail' = <<a>> \o <<e, f, g>>
  BY DEF RelationExecute, Step
<1>2. /\ a.stage \notin PathStages /\ e.stage \in PathStages /\ f.stage \in PathStages
      /\ g.stage \in PathStages
      /\ P = <<Key(e), Key(f), Key(g)>>
  BY DEF Received, Plain, Event, Linking, Key, PathStages, KnowledgePrefix
<1>3. a \in U /\ e \in U /\ f \in U /\ g \in U /\ Key(e) \in V /\ Key(f) \in V /\ Key(g) \in V
  OBVIOUS
<1> HIDE DEF a, e, f, g, P, U, V
<1> DEFINE t == <<a>>
           u == t \o <<e>>
           v == u \o <<f>>
<1>4. <<>> \in Seq(U) /\ t \in Seq(U) /\ u \in Seq(U) /\ v \in Seq(U) /\ <<>> \o <<a>> = t
  BY <1>3
<1>5. v \o <<g>> = t \o <<e, f, g>>
  <2>1. t \in Seq(U)
    BY <1>4
  <2> HIDE DEF t
  <2>2. v = t \o <<e, f>>
    BY <1>3, <2>1, ConcatTwo
  <2>3. (t \o <<e, f>>) \o <<g>> = t \o <<e, f, g>>
    BY <1>3, <2>1
  <2> QED
    BY <2>2, <2>3
<1> HIDE DEF t, u, v
<1>6. PathOf(<<>> \o <<a>>) = <<>>
  BY <1>2, <1>3, <1>4, PathEmpty, PathAppend
<1>7. PathOf(u) = Append(PathOf(t), Key(e))
  BY <1>2, <1>3, <1>4, PathAppend DEF u
<1>8. PathOf(v) = Append(PathOf(u), Key(f))
  BY <1>2, <1>3, <1>4, PathAppend DEF v
<1>9. PathOf(v \o <<g>>) = Append(PathOf(v), Key(g))
  BY <1>2, <1>3, <1>4, PathAppend
<1>10. PathOf(v \o <<g>>) = P
  <2>1. PathOf(u) = Append(<<>>, Key(e))
    BY <1>4, <1>6, <1>7
  <2>2. /\ Append(<<>>, Key(e)) = <<Key(e)>> /\ Append(<<Key(e)>>, Key(f)) = <<Key(e), Key(f)>>
        /\ Append(<<Key(e), Key(f)>>, Key(g)) = <<Key(e), Key(f), Key(g)>>
    BY <1>3, Longer
  <2>3. PathOf(v) = <<Key(e), Key(f)>>
    BY <1>8, <2>1, <2>2
  <2> QED
    BY <1>2, <1>9, <2>2, <2>3
<1>11. P \o <<>> = P
  <2>1. P \in Seq(V)
    BY <1>2, <1>3
  <2> QED
    BY <2>1, ConcatEmptySeq
<1> QED
  BY <1>1, <1>5, <1>10, <1>11 DEF Tracks, Unstarted, P, t

\* The paths up to the evidence
LEMMA TrackKeys ==
  /\ Append(Unstarted, Authority) = Authorised
  /\ Append(Authorised, RelationLookup) = Consulted
  /\ Append(Consulted, Evidence) = Gathered
  /\ Unstarted \in Seq({}) /\ Authorised \in Seq({Authority})
  /\ Consulted \in Seq({Authority, RelationLookup})
<1> DEFINE a == Authority
           b == RelationLookup
           c == Evidence
           S == {a, b, c}
<1>1. a \in S /\ b \in S /\ c \in S
  OBVIOUS
<1> HIDE DEF a, b, c, S
<1>2. /\ Append(<<>>, a) = <<a>> /\ Append(<<a>>, b) = <<a, b>>
      /\ Append(<<a, b>>, c) = <<a, b, c>>
  BY <1>1, Longer
<1>3. <<>> \in Seq({}) /\ <<a>> \in Seq({a}) /\ <<a, b>> \in Seq({a, b})
  OBVIOUS
<1> QED
  BY <1>2, <1>3 DEF Gathered, Unstarted, Authorised, Consulted, a, b, c

LEMMA BeforeRendering ==
  Gathered \in PrefixesBefore(<<"RENDERER", "TIMED_OUT", "knowledge_rendering_timed_out">>)
<1> DEFINE G == Gathered
           c == ClaimsOk
           e == Rendered
           K == {Authority, RelationLookup, Evidence, Generated, NotGenerated, ClaimsOk, ClaimsBad,
                 Rendered}
           P == {<<ClaimsOk, Rendered>>, <<Generated, ClaimsOk, Rendered>>,
                 <<Generated, ClaimsBad, Rendered>>, <<NotGenerated, ClaimsBad, Rendered>>,
                 <<ClaimsBad, Rendered>>}
<1>1. G \in Seq(K) /\ Len(G) = 3
  <2>1. G \in Seq(K)
    BY Gathering, SeqMonotonic
  <2> QED
    BY <2>1 DEF Gathered
<1>2. CompletedPaths = {G \o p : p \in P}
  BY DEF CompletedPaths
<1>3. \A p \in P : p \in Seq(K) /\ p # <<>>
  <2>1. Generated \in K /\ NotGenerated \in K /\ ClaimsOk \in K /\ ClaimsBad \in K /\ Rendered \in K
    OBVIOUS
  <2> HIDE DEF K
  <2>2. <<ClaimsOk, Rendered>> \in Seq(K) /\ <<ClaimsBad, Rendered>> \in Seq(K)
    BY <2>1
  <2>3. <<Generated, ClaimsOk, Rendered>> \in Seq(K)
    BY <2>1
  <2>4. <<Generated, ClaimsBad, Rendered>> \in Seq(K)
    BY <2>1
  <2>5. <<NotGenerated, ClaimsBad, Rendered>> \in Seq(K)
    BY <2>1
  <2>6. \A p \in P : p # <<>>
    OBVIOUS
  <2> QED
    BY <2>2, <2>3, <2>4, <2>5, <2>6
<1>4. <<c, e>> \in P
  OBVIOUS
<1> HIDE DEF G, c, e, K, P
<1>5. ASSUME NEW p \in P PROVE G \o p # G /\ SubSeq(G \o p, 1, 3) = G
  <2>1. p \in Seq(K) /\ p # <<>>
    BY <1>3
  <2> DEFINE h == G \o p
             s == SubSeq(h, 1, 3)
  <2>2. h \in Seq(K) /\ Len(h) = 3 + Len(p) /\ \A i \in 1..3 : h[i] = G[i]
    <3>1. Len(p) \in Nat
      BY <2>1
    <3>2. p \in Seq(K) /\ G \in Seq(K)
      BY <1>1, <2>1
    <3>3. h \in Seq(K) /\ Len(h) = Len(G) + Len(p)
      BY <3>2, ConcatProperties
    <3>4. \A i \in 1..(Len(G) + Len(p)) : h[i] = IF i <= Len(G) THEN G[i] ELSE p[i - Len(G)]
      BY <3>2, ConcatProperties
    <3> HIDE DEF h
    <3> QED
      BY <1>1, <3>1, <3>3, <3>4
  <2>3. h # G
    BY <1>1, <2>1, ConcatSimplifications
  <2>4. Len(p) \in Nat
    BY <2>1
  <2> HIDE DEF h
  <2>5. s \in Seq(K) /\ Len(s) = 3 /\ \A i \in 1..3 : s[i] = h[i]
    BY <2>2, <2>4
  <2> HIDE DEF s
  <2>6. s = G
    BY <1>1, <2>2, <2>5, SeqEqual
  <2> QED
    BY <2>3, <2>6 DEF h, s
<1>6. G \notin CompletedPaths
  BY <1>2, <1>5
<1>7. G \in {SubSeq(p, 1, n) : p \in CompletedPaths, n \in 3..5} \ CompletedPaths
  <2> DEFINE h == G \o <<c, e>>
  <2>1. h \in CompletedPaths /\ SubSeq(h, 1, 3) = G
    BY <1>2, <1>4, <1>5
  <2> HIDE DEF h
  <2>2. SubSeq(h, 1, 3) \in {SubSeq(p, 1, n) : p \in CompletedPaths, n \in 3..5}
    BY <2>1
  <2> QED
    BY <1>6, <2>1, <2>2
<1> QED
  BY <1>7 DEF PrefixesBefore, G

-----------------------------------------------------------------------------
\* How far a relation question has come before each boundary but the last
LEMMA PathsBefore ==
  /\ Precedes(Unstarted, "AUTHORITY", "FAILED", "knowledge_authority_rejected")
  /\ Precedes(Unstarted, "AUTHORITY", "TIMED_OUT", "knowledge_authority_timed_out")
  /\ Precedes(Authorised, "SQL", "FAILED", "relation_lookup_failed")
  /\ Precedes(Authorised, "SQL", "TIMED_OUT", "relation_lookup_timed_out")
  /\ Precedes(Consulted, "VERIFIER", "FAILED", "relation_evidence_rejected")
  /\ Precedes(Consulted, "VERIFIER", "TIMED_OUT", "relation_verification_timed_out")
  /\ Precedes(Gathered, "HCLX", "TIMED_OUT", "knowledge_generation_timed_out")
  /\ Precedes(Gathered, "RENDERER", "TIMED_OUT", "knowledge_rendering_timed_out")
<1>1. Precedes(Unstarted, "AUTHORITY", "FAILED", "knowledge_authority_rejected")
  BY DEF Precedes, Boundaries, PrefixesBefore, Unstarted
<1>2. Precedes(Unstarted, "AUTHORITY", "TIMED_OUT", "knowledge_authority_timed_out")
  BY DEF Precedes, Boundaries, PrefixesBefore, Unstarted
<1>3. Precedes(Authorised, "SQL", "FAILED", "relation_lookup_failed")
  BY DEF Precedes, Boundaries, PrefixesBefore, Authorised
<1>4. Precedes(Authorised, "SQL", "TIMED_OUT", "relation_lookup_timed_out")
  BY DEF Precedes, Boundaries, PrefixesBefore, Authorised
<1>5. Precedes(Consulted, "VERIFIER", "FAILED", "relation_evidence_rejected")
  BY DEF Precedes, Boundaries, PrefixesBefore, Consulted
<1>6. Precedes(Consulted, "VERIFIER", "TIMED_OUT", "relation_verification_timed_out")
  BY DEF Precedes, Boundaries, PrefixesBefore, Consulted
<1>7. Precedes(Gathered, "HCLX", "TIMED_OUT", "knowledge_generation_timed_out")
  BY DEF Precedes, Boundaries, PrefixesBefore
<1>8. Precedes(Gathered, "RENDERER", "TIMED_OUT", "knowledge_rendering_timed_out")
  BY BeforeRendering DEF Precedes, Boundaries
<1> QED
  BY <1>1, <1>2, <1>3, <1>4, <1>5, <1>6, <1>7, <1>8

\* Every completed execution may still be late, or find the files replaced.
LEMMA LastPaths ==
  ASSUME NEW q \in CompletedPaths
  PROVE  /\ Precedes(q, "AUTHORITY", "TIMED_OUT", "knowledge_authority_timed_out")
         /\ Precedes(q, "AUTHORITY", "FAILED", "knowledge_post_authority_rejected")
<1>1. Precedes(q, "AUTHORITY", "TIMED_OUT", "knowledge_authority_timed_out")
  BY DEF Precedes, Boundaries, PrefixesBefore
<1>2. Precedes(q, "AUTHORITY", "FAILED", "knowledge_post_authority_rejected")
  BY DEF Precedes, Boundaries, PrefixesBefore
<1> QED
  BY <1>1, <1>2

LEMMA PathedStep == ASSUME TraceInv, Pathed, [Next]_vars PROVE Pathed'
<1>a. Traced 
  BY DEF TraceInv
<1>c. ASSUME NEW here, NEW cause \in Causes \ {"late"}, NEW stage, NEW outcome, NEW reason,
             (cause = "deadline") <=> outcome = "TIMED_OUT",
             NEW q, Precedes(q, stage, outcome, reason), Tracks(trail, q),
             Breaks(here, cause, stage, outcome, reason)
      PROVE  Pathed'
  <2>1. Concluded(trail)' /\ result'.cause # "late" /\ at' = "k_answer"
    BY <1>a, <1>c, BreaksConclude
  <2> QED
    BY <2>1 DEF Pathed
<1>1. CASE EnvironmentStep \/ UNCHANGED vars
  <2>1. UNCHANGED <<at, result, trail>>
    BY <1>1 DEF EnvironmentStep, Replace, Expire, CallerTimesOut, CallerAborts, vars
  <2> QED
    BY <2>1 DEF Pathed, Concluded, Composed, Broken, Unended, Tracks
<1>2. CASE ProductStep
  BY <1>2, ProductPlaces DEF Pathed, Undertaken
<1>3. CASE EnterRelation
  <2>1. at = "received" /\ at' = "relation" /\ trail' = trail
    BY <1>3, <1>a, NothingWritten DEF EnterRelation, Step
  <2> QED
    BY <2>1 DEF Pathed
<1>4. CASE RelationControl \/ RelationNotActivated
  <2>1. CASE at' = "over"
    BY <2>1 DEF Pathed
  <2>2. CASE at' # "over"
    <3>1. PICK outcome \in Controls :
            /\ at = "relation" /\ at' = "k_answer" /\ trail' = trail \o ControlEvents(outcome)
            /\ Control(outcome)
      BY <1>4, <2>2 DEF RelationControl, RelationNotActivated, Step, Controls
    <3>2. result'.status = outcome /\ result'.cause = "none"
      BY <3>1 DEF Control
    <3>3. trail' = <<Received>> \o ControlEvents(result'.status)
      BY <3>1, <3>2 DEF Pathed
    <3>4. outcome \notin {"executed", "failed", "timed_out"}
      BY DEF Controls
    <3>5. Concluded(trail)'
      BY <3>2, <3>3, <3>4 DEF Concluded
    <3> QED
      BY <3>1, <3>2, <3>5 DEF Pathed
  <2> QED
    BY <2>1, <2>2
<1>5. CASE RelationExecute
  <2>1. at = "relation" /\ at' = "k_check"
    BY <1>5 DEF RelationExecute, Step
  <2>2. Tracks(trail, Unstarted)'
    BY <1>5, <2>1, ExecutionStarts DEF Pathed, Tracks
  <2> QED
    BY <2>1, <2>2 DEF Pathed
<1>6. CASE RelationCheck
  <2>1. CASE Step("k_check", "k_authorize", <<>>)
    <3>1. at = "k_check" /\ at' = "k_authorize" /\ trail' = trail
      BY <1>a, <2>1, NothingWritten DEF Step
    <3> QED
      BY <3>1 DEF Pathed, Tracks
  <2>2. CASE ~Step("k_check", "k_authorize", <<>>)
    <3>1. /\ at = "k_check"
          /\ \/ Breaks("k_check", "deadline", "AUTHORITY", "TIMED_OUT",
                       "knowledge_authority_timed_out")
             \/ Breaks("k_check", "retryable", "AUTHORITY", "FAILED",
                       "knowledge_authority_rejected")
      BY <1>6, <2>2 DEF RelationCheck, Breaks, Step
    <3>2. Tracks(trail, Unstarted)
      BY <3>1 DEF Pathed
    <3>3. CASE Breaks("k_check", "deadline", "AUTHORITY", "TIMED_OUT",
                      "knowledge_authority_timed_out")
      BY <1>c, <3>2, <3>3, PathsBefore DEF Causes
    <3>4. CASE Breaks("k_check", "retryable", "AUTHORITY", "FAILED",
                      "knowledge_authority_rejected")
      BY <1>c, <3>2, <3>4, PathsBefore DEF Causes
    <3> QED
      BY <3>1, <3>3, <3>4
  <2> QED
    BY <2>1, <2>2
<1>7. CASE RelationAuthorize
  <2>1. at = "k_authorize"
    BY <1>7 DEF RelationAuthorize, Breaks, Step
  <2>2. Tracks(trail, Unstarted)
    BY <2>1 DEF Pathed
  <2>3. CASE Step("k_authorize", "k_lookup", <<LinkingKey(Authority)>>)
    <3>1. at' = "k_lookup" /\ Tracks(trail, Authorised)'
      BY <1>a, <2>2, <2>3, Succeeds, TrackKeys DEF Step, Tracks
    <3> QED
      BY <3>1 DEF Pathed
  <2>4. CASE ~Step("k_authorize", "k_lookup", <<LinkingKey(Authority)>>)
    <3>1. \/ Breaks("k_authorize", "deadline", "AUTHORITY", "TIMED_OUT",
                    "knowledge_authority_timed_out")
          \/ Breaks("k_authorize", "fatal", "AUTHORITY", "FAILED",
                    "knowledge_authority_rejected")
      BY <1>7, <2>4 DEF RelationAuthorize
    <3>2. CASE Breaks("k_authorize", "deadline", "AUTHORITY", "TIMED_OUT",
                      "knowledge_authority_timed_out")
      BY <1>c, <2>2, <3>2, PathsBefore DEF Causes
    <3>3. CASE Breaks("k_authorize", "fatal", "AUTHORITY", "FAILED",
                      "knowledge_authority_rejected")
      BY <1>c, <2>2, <3>3, PathsBefore DEF Causes
    <3> QED
      BY <3>1, <3>2, <3>3
  <2> QED
    BY <2>3, <2>4
<1>8. CASE Lookup
  <2>1. at = "k_lookup"
    BY <1>8 DEF Lookup, Breaks, Step
  <2>2. Tracks(trail, Authorised)
    BY <2>1 DEF Pathed
  <2>3. CASE \E mode \in {"empty", "found"} : Finds(mode) /\ at' = "k_verify"
               /\ Step("k_lookup", "k_verify", <<LinkingKey(RelationLookup)>>)
    <3>1. at' = "k_verify" /\ Tracks(trail, Consulted)'
      BY <1>a, <2>2, <2>3, Succeeds, TrackKeys DEF Tracks
    <3>2. result'.mode \in {"empty", "found"}
      BY <2>3 DEF Finds
    <3> QED
      BY <3>1, <3>2 DEF Pathed
  <2>4. CASE Breaks("k_lookup", "deadline", "SQL", "TIMED_OUT", "relation_lookup_timed_out")
    BY <1>c, <2>2, <2>4, PathsBefore DEF Causes
  <2>5. ASSUME NEW cause \in {"retryable", "fatal"},
               Breaks("k_lookup", cause, "SQL", "FAILED", "relation_lookup_failed")
        PROVE  Pathed'
    BY <1>c, <2>2, <2>5, PathsBefore DEF Causes
  <2> QED
    BY <1>8, <2>3, <2>4, <2>5 DEF Lookup, Step
<1>9. CASE VerifyEvidence
  <2>1. at = "k_verify"
    BY <1>9 DEF VerifyEvidence, Breaks, Step
  <2>2. Tracks(trail, Consulted) /\ result.mode \in {"empty", "found"}
    BY <2>1 DEF Pathed
  <2>3. CASE Step("k_verify", "k_compose", <<LinkingKey(Evidence)>>) /\ UNCHANGED result
    <3>1. at' = "k_compose"
      BY <2>3 DEF Step
    <3>2. Tracks(trail', Append(Consulted, Evidence))
      BY <1>a, <2>2, <2>3, Succeeds, TrackKeys
    <3>3. Tracks(trail, Gathered)'
      BY <3>2, TrackKeys DEF Tracks
    <3> QED
      BY <2>2, <2>3, <3>1, <3>3 DEF Pathed
  <2>4. CASE Breaks("k_verify", "deadline", "VERIFIER", "TIMED_OUT",
                    "relation_verification_timed_out")
    BY <1>c, <2>2, <2>4, PathsBefore DEF Causes
  <2>5. CASE Breaks("k_verify", "retryable", "VERIFIER", "FAILED", "relation_evidence_rejected")
    BY <1>c, <2>2, <2>5, PathsBefore DEF Causes
  <2> QED
    BY <1>9, <2>3, <2>4, <2>5 DEF VerifyEvidence
<1>10. CASE ComposeRelation
  <2>1. at = "k_compose"
    BY <1>10 DEF ComposeRelation, ComposeTimesOut, ComposeBreaks, Breaks, Step
  <2>2. Tracks(trail, Gathered) /\ result.mode \in {"empty", "found"}
    BY <2>1 DEF Pathed
  <2>3. CASE \E asked : ComposeTimesOut(asked)
    <3>1. \/ Breaks("k_compose", "deadline", "HCLX", "TIMED_OUT", "knowledge_generation_timed_out")
          \/ Breaks("k_compose", "deadline", "RENDERER", "TIMED_OUT",
                    "knowledge_rendering_timed_out")
      BY <2>3 DEF ComposeTimesOut
    <3> QED
      BY <1>c, <2>2, <3>1, PathsBefore DEF Causes
  <2>4. ASSUME NEW asked \in {FALSE, result.mode = "found"}, NEW draft \in Drafts(asked),
               Step("k_compose", "k_post", KnowledgeComposition(draft)),
               Finds(ComposedMode(draft))
        PROVE  Pathed'
    <3>1. at' = "k_post" /\ trail' = trail \o KnowledgeComposition(draft)
      BY <2>4 DEF Step
    <3>2. \E q \in Completions(ComposedMode(draft)) : Tracks(trail', q)
      BY <1>a, <2>2, <3>1, Completes
    <3>3. result'.mode = ComposedMode(draft) /\ result'.cause = "none"
      BY <2>4 DEF Finds
    <3>4. Composed(trail)'
      BY <3>2, <3>3 DEF Composed, Tracks
    <3> QED
      BY <3>1, <3>3, <3>4 DEF Pathed
  <2>5. ASSUME NEW asked \in {FALSE, result.mode = "found"}, ComposeBreaks(asked)
        PROVE  Pathed'
    <3>1. at' = "k_answer" /\ result'.cause = "fatal" /\ result'.status = "failed"
      BY <2>5 DEF ComposeBreaks, Step, Raise, Failure
    <3>2. ASSUME NEW draft \in Drafts(asked),
                 Step("k_compose", "k_answer", KnowledgeComposition(draft))
          PROVE  \E q \in CompletedPaths : Tracks(trail', q)
      <4>1. trail' = trail \o KnowledgeComposition(draft)
        BY <3>2 DEF Step
      <4>2. PICK q \in Completions(ComposedMode(draft)) : Tracks(trail', q)
        BY <1>a, <2>2, <4>1, Completes
      <4> QED
        BY <4>2, CompletionPaths
    <3>3. \E q \in {Gathered} \cup CompletedPaths : Tracks(trail', q)
      <4>1. CASE Step("k_compose", "k_answer", <<>>)
        <5>1. trail' = trail
          BY <1>a, <4>1, NothingWritten
        <5> QED
          BY <2>2, <5>1 DEF Tracks
      <4> QED
        BY <2>5, <3>2, <4>1 DEF ComposeBreaks
    <3>4. Unended(trail)'
      BY <3>1, <3>3 DEF Unended, Tracks
    <3> QED
      BY <3>1, <3>4 DEF Pathed, Concluded, Controls
  <2> QED
    BY <1>10, <2>3, <2>4, <2>5 DEF ComposeRelation
<1>11. CASE RelationPostCheck
  <2>1. at = "k_post"
    BY <1>11 DEF RelationPostCheck, Breaks, Step
  <2>2. PICK q \in Completions(result.mode) : Tracks(trail, q)
    BY <2>1 DEF Pathed, Composed
  <2>a. result.cause # "late"
    BY <2>1 DEF Pathed
  <2>3. CASE Step("k_post", "k_answer", <<>>) /\ result' = [result EXCEPT !.status = "executed"]
    <3>1. trail' = trail /\ at' = "k_answer"
      BY <1>a, <2>3, NothingWritten DEF Step
    <3>2. result'.status = "executed" /\ result'.mode = result.mode /\ result'.cause = result.cause
      BY <2>3 DEF TraceInv, Inv, TypeOK
    <3>3. Concluded(trail)'
      BY <2>2, <3>1, <3>2 DEF Concluded, Composed, Tracks, Controls
    <3> QED
      BY <2>a, <3>1, <3>2, <3>3 DEF Pathed
  <2>4. CASE \/ Breaks("k_post", "retryable", "AUTHORITY", "FAILED", RejectedAfter)
             \/ Breaks("k_post", "deadline", "AUTHORITY", "TIMED_OUT",
                       "knowledge_authority_timed_out")
    <3>1. q \in CompletedPaths
      BY CompletionPaths
    <3> QED
      BY <1>c, <2>2, <2>4, <3>1, LastPaths DEF Causes, RejectedAfter
  <2> QED
    BY <1>11, <2>3, <2>4 DEF RelationPostCheck
<1>12. CASE AnswerRelation
  BY <1>12 DEF AnswerRelation, Step, Pathed
<1> QED
  BY <1>1, <1>2, <1>3, <1>4, <1>5, <1>6, <1>7, <1>8, <1>9, <1>10, <1>11, <1>12
  DEF Next, KnowledgeStep


-----------------------------------------------------------------------------
(***************************************************************************)
(* What a request that is over was answered with, and closed.              *)
(***************************************************************************)
Told ==
  \A i \in DOMAIN trail :
    (trail[i].stage = "ANSWER" /\ IsKnowledge(trail[i])) =>
      /\ Concluded(SubSeq(trail, 1, i - 1))
      /\ trail[i] = KnowledgeAnswer
      /\ result.cause # "late"
      /\ result.status \in {"executed", "failed", "timed_out"} \cup Controls

Caused ==
  /\ result.status = "timed_out" => result.cause = "deadline"
  /\ result.status = "failed" => result.cause \in {"late", "retryable", "fatal"}

Closing ==
  /\ at = "closed" => trail[Len(trail)] = Plain("REQUEST", Terminal[1], Terminal[2])
  /\ \A i \in DOMAIN trail : trail[i].stage = "ANSWER" =>
       /\ at = "over" => i = Len(trail)
       /\ at = "closed" => i = Len(trail) - 1

\* A relation question is taken up once, and answered as one.
TakenUp == Undertaken \cup {"k_answer", "over", "closed"}

Related ==
  RelationRequest =>
    at \in TakenUp /\ \A i \in DOMAIN trail : trail[i].stage = "ANSWER" => IsKnowledge(trail[i])

\* A result that was raised, or that ended well
LEMMA RaisedCause == ASSUME NEW cause \in Causes, Raise(cause) PROVE Caused'
  BY DEF Raise, Failure, Caused, Causes

LEMMA CausedStep == ASSUME TraceInv, Caused, [Next]_vars PROVE Caused'
<1>a. ASSUME UNCHANGED result PROVE Caused'
  BY <1>a DEF Caused
<1>b. ASSUME NEW outcome \in Controls, Control(outcome) PROVE Caused'
  BY <1>b DEF Caused, Control, Controls
<1>c. ASSUME NEW mode, result' = Executed(mode) \/ Finds(mode) PROVE Caused'
  BY <1>c DEF Caused, Executed, Finds
<1>1. CASE EnvironmentStep \/ UNCHANGED vars
  BY <1>1, <1>a DEF EnvironmentStep, Replace, Expire, CallerTimesOut, CallerAborts, vars
<1>2. CASE ProductStep
  <2>1. ASSUME NEW f \in Family, Work(f) PROVE Caused'
    BY <1>a, <2>1 DEF Work
  <2>2. CASE Join
    BY <1>a, <2>2, RaisedCause DEF Join, FirstFailed, Failed
  <2>3. CASE Recheck
    <3>1. result' = result \/ Raise("retryable")
      BY <2>3 DEF Recheck, Raise
    <3> QED
      BY <1>a, <3>1, RaisedCause DEF Causes
  <2>4. CASE Enter \/ Guard \/ RouteFails \/ RouteControl \/ RouteExecute
    BY <1>a, <1>b, <2>4, RaisedCause
    DEF Enter, Guard, RouteFails, RouteControl, RouteExecute, Controls, Causes
  <2>5. CASE \/ Compile \/ CompileWithoutProposal \/ CompileBlocked \/ Check \/ Admit \/ Decline
             \/ Break
    BY <1>a, <1>b, <2>5, RaisedCause
    DEF Compile, CompileWithoutProposal, CompileBlocked, Check, Admit, Decline, Break, Controls,
        Causes
  <2>6. CASE Grant \/ Deny \/ DenyByPolicy
    BY <1>a, <1>b, <2>6, RaisedCause DEF Grant, Deny, DenyByPolicy, Causes
  <2>7. CASE ShowRendered \/ ComposeOne \/ ComposeBatch
    BY <1>c, <2>7 DEF ShowRendered, ComposeOne, ComposeBatch
  <2>8. CASE (\E i \in DOMAIN route, mode \in Modes : ComposeFamily(i, mode)) \/ Answer \/ Close
    BY <1>a, <2>8 DEF ComposeFamily, Answer, Close
  <2> QED
    BY <1>2, <2>1, <2>2, <2>3, <2>4, <2>5, <2>6, <2>7, <2>8 DEF ProductStep
<1>3. CASE KnowledgeStep
  <2>1. CASE EnterRelation \/ RelationControl \/ RelationNotActivated \/ RelationExecute
    BY <1>a, <1>b, <2>1, RaisedCause
    DEF EnterRelation, RelationControl, RelationNotActivated, RelationExecute, Controls, Causes
  <2>2. CASE RelationCheck \/ RelationAuthorize \/ VerifyEvidence
    BY <1>a, <2>2, RaisedCause DEF RelationCheck, RelationAuthorize, VerifyEvidence, Breaks, Causes
  <2>3. CASE Lookup \/ ComposeRelation
    BY <1>c, <2>3, RaisedCause
    DEF Lookup, ComposeRelation, ComposeTimesOut, ComposeBreaks, Breaks, Causes
  <2>4. CASE RelationPostCheck
    <3>1. CASE result' = [result EXCEPT !.status = "executed"]
      <4>1. result'.status = "executed"
        BY <3>1 DEF TraceInv, Inv, TypeOK
      <4> QED
        BY <4>1 DEF Caused
    <3> QED
      BY <2>4, <3>1, RaisedCause DEF RelationPostCheck, Breaks, Causes
  <2>5. CASE AnswerRelation
    BY <1>a, <2>5 DEF AnswerRelation
  <2> QED
    BY <1>3, <2>1, <2>2, <2>3, <2>4, <2>5 DEF KnowledgeStep
<1> QED
  BY <1>1, <1>2, <1>3 DEF Next

\* Nothing changes the result of a request that is over, and no caller leaves
\* one that is closed.
LEMMA ResultKept ==
  ASSUME TraceInv, at \in {"over", "closed"}, [Next]_vars
  PROVE  UNCHANGED result /\ (at = "closed" => UNCHANGED <<at, caller>>)
<1>1. ASSUME NEW f \in Family, Work(f) PROVE FALSE
  BY <1>1 DEF Work, TraceInv, Settled
<1>2. CASE ProductStep
  BY <1>1, <1>2
  DEF ProductStep, Enter, Guard, RouteFails, RouteControl, RouteExecute, Compile,
      CompileWithoutProposal, CompileBlocked, Check, Admit, Decline, Break, Grant, Deny,
      DenyByPolicy, Join, ShowRendered, ComposeOne, ComposeFamily, ComposeBatch, Recheck, Close,
      Answer, Step
<1>3. CASE KnowledgeStep
  BY <1>3
  DEF KnowledgeStep, EnterRelation, RelationControl, RelationNotActivated, RelationExecute,
      RelationCheck, RelationAuthorize, Lookup, VerifyEvidence, ComposeRelation,
      RelationPostCheck, AnswerRelation, Step, Breaks, ComposeTimesOut, ComposeBreaks
<1>4. CASE EnvironmentStep \/ UNCHANGED vars
  BY <1>4 DEF EnvironmentStep, Replace, Expire, CallerTimesOut, CallerAborts, vars
<1> QED
  BY <1>2, <1>3, <1>4 DEF Next

\* A relation question is not given back to the product path.
LEMMA StaysTakenUp ==
  ASSUME TraceInv, [Next]_vars, at \in TakenUp \cup {"relation"}
  PROVE  at' \in TakenUp \/ UNCHANGED <<at, trail>>
<1>1. ASSUME NEW f \in Family, Work(f) PROVE FALSE
  BY <1>1 DEF Work, TraceInv, Settled, TakenUp, Undertaken
<1>2. CASE ProductStep
  BY <1>1, <1>2
  DEF ProductStep, Enter, Guard, RouteFails, RouteControl, RouteExecute, Compile,
      CompileWithoutProposal, CompileBlocked, Check, Admit, Decline, Break, Grant, Deny,
      DenyByPolicy, Join, ShowRendered, ComposeOne, ComposeFamily, ComposeBatch, Recheck, Close,
      Answer, Step, TakenUp, Undertaken
<1>3. CASE KnowledgeStep
  BY <1>3
  DEF KnowledgeStep, EnterRelation, RelationControl, RelationNotActivated, RelationExecute,
      RelationCheck, RelationAuthorize, Lookup, VerifyEvidence, ComposeRelation,
      RelationPostCheck, AnswerRelation, Step, Breaks, ComposeTimesOut, ComposeBreaks, TakenUp,
      Undertaken
<1>4. CASE EnvironmentStep \/ UNCHANGED vars
  BY <1>4 DEF EnvironmentStep, Replace, Expire, CallerTimesOut, CallerAborts, vars
<1> QED
  BY <1>2, <1>3, <1>4 DEF Next

\* The two answers, the terminal, and what each writes
LEMMA ProductAnswer ==
  ASSUME TraceInv, Answer
  PROVE  \E e : /\ trail' = trail \o <<e>> /\ e.stage = "ANSWER" /\ ~IsKnowledge(e)
               /\ e.reason # "knowledge_routed_execute"
<1> DEFINE e == Event("ANSWER", AnswerOutcome[1], AnswerOutcome[2], Disposition,
                      IF result.status = "executed" THEN route ELSE <<>>)
<1>1. trail' = trail \o <<e>> /\ at = "answer"
  BY DEF Answer, Step
<1>2. result.status \in {"executed", "failed", "timed_out", "clarified", "unsupported"}
  BY <1>1 DEF TraceInv, Inv, Placed, Answerable, Controls
<1>3. expired \in BOOLEAN
  BY DEF TraceInv, Inv, TypeOK
<1>4. e.stage = "ANSWER" /\ e.reason = AnswerOutcome[2]
  BY DEF Event
<1>5. AnswerOutcome[2] \notin KnowledgeReasons \cup {"knowledge_routed_execute"}
  BY <1>2, <1>3 DEF AnswerOutcome, KnowledgeReasons
<1> HIDE DEF e
<1> QED
  BY <1>1, <1>4, <1>5 DEF IsKnowledge

LEMMA KnownAnswer ==
  ASSUME result.status \in {"executed", "failed", "timed_out"} \cup Controls,
         result.status = "executed" => result.mode \in {"completed", "not_found", "fallback"}
  PROVE  KnowledgeAnswer.stage = "ANSWER" /\ IsKnowledge(KnowledgeAnswer)
  BY DEF KnowledgeAnswer, AnswerReason, Linking, Event, IsKnowledge, KnowledgeReasons, Controls

\* An execution that was composed ended in one of three modes.
LEMMA ComposedModes ==
  ASSUME NEW t, Composed(t) PROVE result.mode \in {"completed", "not_found", "fallback"}
  BY DEF Composed, Completions

LEMMA RelationAnswer ==
  ASSUME TraceInv, Pathed, AnswerRelation
  PROVE  /\ trail' = trail \o <<KnowledgeAnswer>> /\ at = "k_answer" /\ at' = "over"
         /\ UNCHANGED result
         /\ Concluded(trail) /\ result.cause # "late"
         /\ result.status \in {"executed", "failed", "timed_out"} \cup Controls
         /\ KnowledgeAnswer.stage = "ANSWER" /\ IsKnowledge(KnowledgeAnswer)
<1>1. /\ trail' = trail \o <<KnowledgeAnswer>> /\ at = "k_answer" /\ at' = "over"
      /\ UNCHANGED result
  BY DEF AnswerRelation, Step
<1>2. Concluded(trail) /\ result.cause # "late"
  BY <1>1 DEF Pathed
<1>3. result.status \in {"executed", "failed", "timed_out"} \cup Controls
  BY <1>1 DEF TraceInv, Inv, Placed, Answerable
<1>4. KnowledgeAnswer.stage = "ANSWER" /\ IsKnowledge(KnowledgeAnswer)
  BY <1>2, <1>3, KnownAnswer, ComposedModes DEF Concluded
<1> QED
  BY <1>1, <1>2, <1>3, <1>4

LEMMA TerminalEvent ==
  ASSUME TraceInv, Close
  PROVE  \E e : /\ trail' = trail \o <<e>> /\ e.stage = "REQUEST"
               /\ e = Plain("REQUEST", Terminal[1], Terminal[2])
               /\ e.reason # "knowledge_routed_execute"
<1> DEFINE e == Plain("REQUEST", Terminal[1], Terminal[2])
<1>1. trail' = trail \o <<e>>
  BY DEF Close, Step
<1>2. e.stage = "REQUEST" /\ e.reason = Terminal[2]
  BY DEF Plain, Event
<1>3. Terminal[2] # "knowledge_routed_execute"
  <2>1. /\ result.cause \in {"none", "deadline", "late", "retryable", "fatal"}
        /\ caller.method \in {"GET", "POST"} /\ caller.left \in {"no", "timed_out", "aborted"}
    BY DEF TraceInv, Inv, TypeOK, Causes
  <2>2. Delivered[2] # "knowledge_routed_execute"
    BY <2>1 DEF Delivered
  <2> QED
    BY <2>1, <2>2 DEF Terminal
<1> HIDE DEF e
<1> QED
  BY <1>1, <1>2, <1>3 DEF e

\* One event more: what was there stays.
LEMMA OneMore ==
  ASSUME Traced, NEW e, trail' = trail \o <<e>>
  PROVE  /\ Len(trail) \in Nat /\ Len(trail') = Len(trail) + 1
         /\ DOMAIN trail = 1..Len(trail) /\ DOMAIN trail' = 1..(Len(trail) + 1)
         /\ \A i \in 1..Len(trail) :
              trail'[i] = trail[i] /\ SubSeq(trail', 1, i - 1) = SubSeq(trail, 1, i - 1)
         /\ trail'[Len(trail) + 1] = e /\ SubSeq(trail', 1, Len(trail)) = trail
<1>1. PICK S : trail \in Seq(S)
  BY DEF Traced
<1> DEFINE U == S \cup {e}
           n == Len(trail)
<1>2. trail \in Seq(U) /\ e \in U
  BY <1>1, SeqMonotonic
<1> HIDE DEF U
<1>3. trail' \in Seq(U) /\ Len(trail') = n + 1 /\ n \in Nat
  BY <1>2
<1>4. trail'[n + 1] = e /\ \A i \in 1..n : trail'[i] = trail[i]
  BY <1>2
<1>5. DOMAIN trail = 1..n /\ DOMAIN trail' = 1..(n + 1)
  BY <1>2, <1>3
<1>6. \A i \in 1..n : SubSeq(trail', 1, i - 1) = SubSeq(trail, 1, i - 1)
  <2> TAKE i \in 1..n
  <2> DEFINE s == SubSeq(trail', 1, i - 1)
             t == SubSeq(trail, 1, i - 1)
  <2>1. /\ s \in Seq(U) /\ t \in Seq(U) /\ Len(s) = i - 1 /\ Len(t) = i - 1
        /\ \A j \in 1..(i - 1) : s[j] = trail'[j] /\ t[j] = trail[j]
    BY <1>2, <1>3
  <2>2. \A j \in 1..(i - 1) : s[j] = t[j]
    BY <1>3, <1>4, <2>1
  <2> HIDE DEF s, t
  <2>3. s = t
    BY <2>1, <2>2, SeqEqual
  <2> QED
    BY <2>3 DEF s, t
<1>7. SubSeq(trail', 1, n) = trail
  <2> DEFINE s == SubSeq(trail', 1, n)
  <2>1. s \in Seq(U) /\ Len(s) = n /\ \A j \in 1..n : s[j] = trail'[j]
    BY <1>3
  <2> HIDE DEF s
  <2>2. \A j \in 1..n : s[j] = trail[j]
    BY <1>4, <2>1
  <2>3. s = trail
    BY <1>2, <1>3, <2>1, <2>2, SeqEqual
  <2> QED
    BY <2>3 DEF s
<1> QED
  BY <1>3, <1>4, <1>5, <1>6, <1>7

LEMMA ToldStep == ASSUME TraceInv, Pathed, Told, [Next]_vars PROVE Told'
<1>a. Traced
  BY DEF TraceInv
<1>1. CASE WritesQuietly
  <2>1. ASSUME NEW i \in DOMAIN trail', trail'[i].stage = "ANSWER"
        PROVE  i \in DOMAIN trail /\ trail[i].stage = "ANSWER"
    BY <1>1, <1>a, <2>1, QuietAppend DEF Outer
  <2>2. CASE at \in {"over", "closed"}
    <3>1. ~Close
      <4> SUFFICES ASSUME Close PROVE FALSE
        OBVIOUS
      <4>1. PICK e : trail' = trail \o <<e>> /\ e.stage = "REQUEST"
        BY TerminalEvent
      <4>2. /\ Len(trail) + 1 \in DOMAIN trail' \ DOMAIN trail
            /\ trail'[Len(trail) + 1] = e
        BY <1>a, <4>1, OneMore
      <4> QED
        BY <1>1, <1>a, <4>1, <4>2, QuietAppend DEF Outer
    <3>2. UNCHANGED <<trail, result>>
      BY <2>2, <3>1, OnlyTheTerminal, ResultKept DEF TraceInv
    <3> QED
      BY <3>2 DEF Told, Concluded, Composed, Broken, Unended, KnowledgeAnswer, AnswerReason
  <2>3. CASE at \notin {"over", "closed"}
    BY <2>1, <2>3 DEF TraceInv, AnswerEnds, Told
  <2> QED
    BY <2>2, <2>3
<1>2. CASE UNCHANGED trail
  <2>1. CASE at \in {"over", "closed"}
    <3>1. UNCHANGED result
      BY <2>1, ResultKept
    <3> QED
      BY <1>2, <3>1 DEF Told, Concluded, Composed, Broken, Unended, KnowledgeAnswer, AnswerReason
  <2>2. CASE at \notin {"over", "closed"}
    BY <1>2, <2>2 DEF TraceInv, AnswerEnds, Told
  <2> QED
    BY <2>1, <2>2
<1>3. CASE Close
  <2>1. PICK e : trail' = trail \o <<e>> /\ e.stage = "REQUEST"
    BY <1>3, TerminalEvent
  <2>2. UNCHANGED result
    BY <1>3, ResultKept DEF Close, Step
  <2>3. ASSUME NEW i \in DOMAIN trail', trail'[i].stage = "ANSWER"
        PROVE  /\ i \in DOMAIN trail /\ trail'[i] = trail[i]
               /\ SubSeq(trail', 1, i - 1) = SubSeq(trail, 1, i - 1)
    <3>1. DOMAIN trail = 1..Len(trail) /\ DOMAIN trail' = 1..(Len(trail) + 1)
      BY <1>a, <2>1, OneMore
    <3>2. i # Len(trail) + 1 /\ Len(trail) \in Nat
      BY <1>a, <2>1, <2>3, OneMore
    <3>3. i \in 1..Len(trail)
      BY <3>1, <3>2
    <3> QED
      BY <1>a, <2>1, <3>1, <3>3, OneMore
  <2> QED
    BY <2>2, <2>3 DEF Told, Concluded, Composed, Broken, Unended, KnowledgeAnswer, AnswerReason
<1>4. CASE Answer
  <2>1. PICK e : trail' = trail \o <<e>> /\ ~IsKnowledge(e)
    BY <1>4, ProductAnswer
  <2>2. \A i \in DOMAIN trail : trail[i].stage # "ANSWER"
    BY <1>4 DEF Answer, Step, TraceInv, AnswerEnds
  <2>3. \A i \in DOMAIN trail' : trail'[i].stage = "ANSWER" => ~IsKnowledge(trail'[i])
    BY <1>a, <2>1, <2>2, OneMore
  <2> QED
    BY <2>3 DEF Told
<1>5. CASE AnswerRelation
  <2>1. \A i \in DOMAIN trail : trail[i].stage # "ANSWER"
    BY <1>5 DEF AnswerRelation, Step, TraceInv, AnswerEnds
  <2>2. UNCHANGED result /\ trail' = trail \o <<KnowledgeAnswer>>
    BY <1>5, RelationAnswer
  <2>3. ASSUME NEW i \in DOMAIN trail', trail'[i].stage = "ANSWER"
        PROVE  i = Len(trail) + 1 /\ trail'[i] = KnowledgeAnswer /\ SubSeq(trail', 1, i - 1) = trail
    <3>1. i \in 1..(Len(trail) + 1) /\ Len(trail) \in Nat
      BY <1>a, <2>2, OneMore
    <3>2. i = Len(trail) + 1
      BY <1>a, <2>1, <2>2, <2>3, <3>1, OneMore
    <3>3. i - 1 = Len(trail)
      BY <3>1, <3>2
    <3> QED
      BY <1>a, <2>2, <3>2, <3>3, OneMore
  <2>4. KnowledgeAnswer' = KnowledgeAnswer
    BY <2>2 DEF KnowledgeAnswer, AnswerReason
  <2>5. Concluded(trail) => \A i \in DOMAIN trail' :
          trail'[i].stage = "ANSWER" => Concluded(SubSeq(trail, 1, i - 1))'
    BY <2>2, <2>3 DEF Concluded, Composed, Broken, Unended
  <2> QED
    BY <1>5, <2>2, <2>3, <2>4, <2>5, RelationAnswer DEF Told
<1> QED
  BY <1>1, <1>2, <1>3, <1>4, <1>5, Writers DEF TraceInv

LEMMA ClosingStep == ASSUME TraceInv, Closing, [Next]_vars PROVE Closing'
<1>a. Traced
  BY DEF TraceInv
<1>1. CASE Close
  <2>1. PICK e : /\ trail' = trail \o <<e>> /\ e.stage = "REQUEST"
                 /\ e = Plain("REQUEST", Terminal[1], Terminal[2])
    BY <1>1, TerminalEvent
  <2>2. at = "over" /\ at' = "closed" /\ UNCHANGED <<result, caller>>
    BY <1>1 DEF Close, Step, environment
  <2>3. Terminal' = Terminal
    BY <2>2 DEF Terminal, Delivered
  <2>4. ASSUME NEW i \in DOMAIN trail', trail'[i].stage = "ANSWER" PROVE i = Len(trail') - 1
    <3>1. i \in DOMAIN trail /\ trail[i].stage = "ANSWER"
      BY <1>a, <2>1, <2>4, OneMore
    <3>2. i = Len(trail) /\ Len(trail) \in Nat /\ Len(trail') = Len(trail) + 1
      BY <1>a, <2>1, <2>2, <3>1, OneMore DEF Closing
    <3> QED
      BY <3>2
  <2>5. trail'[Len(trail')] = e
    BY <1>a, <2>1, OneMore
  <2> QED
    BY <2>1, <2>2, <2>3, <2>4, <2>5 DEF Closing
<1>2. CASE Answer \/ AnswerRelation
  <2>1. at \in {"answer", "k_answer"} /\ at' = "over" /\ \E e : trail' = trail \o <<e>>
    BY <1>2 DEF Answer, AnswerRelation, Step
  <2>2. \A i \in DOMAIN trail : trail[i].stage # "ANSWER"
    BY <2>1 DEF TraceInv, AnswerEnds
  <2>3. ASSUME NEW i \in DOMAIN trail', trail'[i].stage = "ANSWER" PROVE i = Len(trail')
    BY <1>a, <2>1, <2>2, <2>3, OneMore
  <2> QED
    BY <2>1, <2>3 DEF Closing
<1>3. CASE (UNCHANGED trail \/ WritesQuietly) /\ ~Close
  <2>1. ASSUME NEW i \in DOMAIN trail', trail'[i].stage = "ANSWER"
        PROVE  i \in DOMAIN trail /\ trail[i].stage = "ANSWER" /\ at \in {"over", "closed"}
    BY <1>3, <1>a, <2>1, QuietAppend DEF Outer, TraceInv, AnswerEnds
  <2>2. CASE at \in {"over", "closed"}
    <3>1. UNCHANGED <<trail, result>>
      BY <1>3, <2>2, OnlyTheTerminal, ResultKept DEF TraceInv
    <3>2. CASE at = "closed"
      <4>1. UNCHANGED <<at, caller>>
        BY <3>2, ResultKept
      <4> QED
        BY <3>1, <3>2, <4>1 DEF Closing, Terminal, Delivered
    <3>3. CASE at = "over"
      <4>1. at' # "closed"
        BY <1>3, <3>3, OnlyClose
      <4> QED
        BY <3>1, <3>3, <4>1 DEF Closing
    <3> QED
      BY <2>2, <3>2, <3>3
  <2>3. CASE at \notin {"over", "closed"}
    <3>1. at' # "closed"
      BY <1>3, <2>3, OnlyClose
    <3> QED
      BY <2>1, <2>3, <3>1 DEF Closing
  <2> QED
    BY <2>2, <2>3
<1> QED
  BY <1>1, <1>2, <1>3, Writers DEF TraceInv

LEMMA RelatedStep == ASSUME TraceInv, Pathed, Related, [Next]_vars PROVE Related'
<1>a. Traced
  BY DEF TraceInv
<1>1. CASE WritesQuietly
  <2>1. RelationRequest' => RelationRequest \/ (at = "relation" /\ trail' # trail)
    BY <1>1, <1>a, QuietAppend DEF RelationRequest
  <2>2. ASSUME NEW i \in DOMAIN trail', trail'[i].stage = "ANSWER"
        PROVE  i \in DOMAIN trail /\ trail'[i] = trail[i] /\ trail[i].stage = "ANSWER"
    BY <1>1, <1>a, <2>2, QuietAppend DEF Outer
  <2>3. RelationRequest' => at' \in TakenUp
    BY <2>1, StaysTakenUp DEF Related
  <2>4. at = "relation" => \A i \in DOMAIN trail : trail[i].stage # "ANSWER"
    BY DEF TraceInv, AnswerEnds
  <2> QED
    BY <2>1, <2>2, <2>3, <2>4 DEF Related
<1>2. CASE UNCHANGED trail
  <2>1. RelationRequest' => RelationRequest
    BY <1>2 DEF RelationRequest
  <2> QED
    BY <1>2, <2>1, StaysTakenUp DEF Related
<1>3. CASE Close
  <2>1. PICK e : /\ trail' = trail \o <<e>> /\ e.stage = "REQUEST"
                 /\ e.reason # "knowledge_routed_execute"
    BY <1>3, TerminalEvent
  <2>2. RelationRequest' => RelationRequest
    BY <1>a, <2>1, OneMore DEF RelationRequest
  <2>3. \A i \in DOMAIN trail' :
          trail'[i].stage = "ANSWER" => i \in DOMAIN trail /\ trail'[i] = trail[i]
    BY <1>a, <2>1, OneMore
  <2> QED
    BY <1>3, <2>2, <2>3 DEF Related, TakenUp, Close, Step
<1>4. CASE Answer
  <2>1. PICK e : trail' = trail \o <<e>> /\ e.reason # "knowledge_routed_execute"
    BY <1>4, ProductAnswer
  <2>2. at \notin TakenUp
    BY <1>4 DEF Answer, Step, TakenUp, Undertaken
  <2>3. RelationRequest' => RelationRequest
    BY <1>a, <2>1, OneMore DEF RelationRequest
  <2> QED
    BY <2>2, <2>3 DEF Related
<1>5. CASE AnswerRelation
  <2>1. \A i \in DOMAIN trail : trail[i].stage # "ANSWER"
    BY <1>5 DEF AnswerRelation, Step, TraceInv, AnswerEnds
  <2>2. \A i \in DOMAIN trail' : trail'[i].stage = "ANSWER" => IsKnowledge(trail'[i])
    BY <1>5, <1>a, <2>1, RelationAnswer, OneMore
  <2> QED
    BY <1>5, <2>2 DEF Related, TakenUp, AnswerRelation, Step
<1> QED
  BY <1>1, <1>2, <1>3, <1>4, <1>5, Writers DEF TraceInv

LEMMA AnsweredInit == Init => Told /\ Caused /\ Closing /\ Related
<1> SUFFICES ASSUME Init PROVE Told /\ Caused /\ Closing /\ Related
  OBVIOUS
<1>1. /\ trail = <<Plain("REQUEST", "STARTED", "received")>> /\ at = "received"
      /\ result.status = "none"
  BY DEF Init, NoResult
<1>2. DOMAIN trail = {1} /\ trail[1].stage = "REQUEST" /\ trail[1].reason = "received"
  BY <1>1 DEF Plain, Event
<1> QED
  BY <1>1, <1>2 DEF Told, Caused, Closing, Related, RelationRequest


\* A trace without events of these stages has none to look at.
LEMMA OfStageNone ==
  ASSUME NEW S, NEW t \in Seq(S), NEW stages, \A i \in DOMAIN t : t[i].stage \notin stages
  PROVE  OfStage(t, stages) = <<>>
<1> DEFINE I == {i \in DOMAIN t : t[i].stage \in stages}
           n == Len(t)
<1>1. I = {} /\ n \in Nat
  OBVIOUS
<1>2. OfStage(t, stages) = Those(t, I)
  BY DEF OfStage
<1> HIDE DEF I
<1>3. PICK d : Chosen(t, I, n, d) /\ Those(t, I) = d[n]
  BY <1>1, ThoseChosen
<1> HIDE DEF n
<1> DEFINE Bad == {i \in 0..n : d[i] # <<>>}
<1>4. Bad = {}
  <2>1. SUFFICES ASSUME Bad # {} PROVE FALSE
    OBVIOUS
  <2>2. Bad \subseteq Nat
    BY <1>1
  <2>3. PICK x \in Bad : \A y \in Bad : ~(y < x)
    <3> HIDE DEF Bad
    <3> QED
      BY <2>1, <2>2, LeastOf
  <2>4. x # 0
    BY <1>3, <2>3 DEF Chosen
  <2>5. x \in 1..n /\ x - 1 \in 0..n /\ x - 1 < x
    BY <1>1, <2>3, <2>4
  <2>6. d[x - 1] = <<>>
    BY <2>3, <2>5
  <2>7. d[x] = d[x - 1]
    BY <1>1, <1>3, <2>5 DEF Chosen, Next1
  <2> QED
    BY <2>3, <2>6, <2>7
<1> QED
  BY <1>1, <1>2, <1>3, <1>4

\* A broken path: the prefix, what came before the boundary, and the boundary
LEMMA BrokenPath ==
  ASSUME NEW K, NEW q \in Seq(K), NEW b, NEW path, path = KnowledgePrefix \o (q \o <<b>>)
  PROVE  /\ Len(path) > 3 /\ path[Len(path)] = b
         /\ SubSeq(path, 1, 3) = KnowledgePrefix /\ SubSeq(path, 4, Len(path) - 1) = q
<1> DEFINE P == KnowledgePrefix
           U == K \cup {P[1], P[2], P[3], b}
           n == Len(q)
<1>1. P \in Seq(U) /\ Len(P) = 3
  <2>1. P \in Seq({P[1], P[2], P[3]}) /\ Len(P) = 3
    BY DEF KnowledgePrefix
  <2> QED
    BY <2>1, SeqMonotonic
<1>2. q \in Seq(U) /\ b \in U /\ n \in Nat
  BY SeqMonotonic
<1> HIDE DEF P, U
<1> DEFINE r == q \o <<b>>
<1>3. /\ r \in Seq(U) /\ Len(r) = n + 1 /\ r[n + 1] = b /\ \A i \in 1..n : r[i] = q[i]
  BY <1>2
<1>4. path = P \o r
  BY DEF P
<1> HIDE DEF r
<1>5. /\ path \in Seq(U) /\ Len(path) = n + 4
      /\ \A i \in 1..(3 + (n + 1)) : path[i] = IF i <= 3 THEN P[i] ELSE r[i - 3]
  <2> DEFINE s == P \o r
  <2>1. s \in Seq(U) /\ Len(s) = Len(P) + Len(r) /\ path = s
    BY <1>1, <1>3, <1>4, ConcatProperties
  <2>2. \A i \in 1..(Len(P) + Len(r)) : s[i] = IF i <= Len(P) THEN P[i] ELSE r[i - Len(P)]
    BY <1>1, <1>3, ConcatProperties
  <2> HIDE DEF s, n
  <2>3. Len(P) + Len(r) = 3 + (n + 1) /\ 3 + (n + 1) = n + 4
    BY <1>1, <1>2, <1>3
  <2>4. \A i \in 1..(3 + (n + 1)) : s[i] = IF i <= 3 THEN P[i] ELSE r[i - 3]
    BY <1>1, <2>2, <2>3
  <2>5. path \in Seq(U) /\ Len(path) = n + 4
    BY <2>1, <2>3
  <2>6. \A i \in 1..(3 + (n + 1)) : path[i] = IF i <= 3 THEN P[i] ELSE r[i - 3]
    <3> SUFFICES ASSUME NEW i \in 1..(3 + (n + 1))
                 PROVE  path[i] = IF i <= 3 THEN P[i] ELSE r[i - 3]
      OBVIOUS
    <3>1. s[i] = IF i <= 3 THEN P[i] ELSE r[i - 3]
      BY <2>4
    <3>2. path[i] = s[i]
      BY ONLY <2>1
    <3> QED
      BY <3>1, <3>2
  <2> QED
    BY <2>5, <2>6
<1>6. path[n + 4] = b
  BY <1>2, <1>3, <1>5
<1>7. SubSeq(path, 1, 3) = P
  <2> DEFINE s == SubSeq(path, 1, 3)
  <2>1. s \in Seq(U) /\ Len(s) = 3 /\ \A i \in 1..3 : s[i] = path[i]
    BY <1>2, <1>5
  <2> HIDE DEF s
  <2>2. \A i \in 1..3 : s[i] = P[i]
    BY <1>2, <1>5, <2>1
  <2>3. s = P
    BY <1>1, <2>1, <2>2, SeqEqual
  <2> QED
    BY <2>3 DEF s
<1>8. SubSeq(path, 4, n + 3) = q
  <2> DEFINE s == SubSeq(path, 4, n + 3)
  <2>1. s \in Seq(U) /\ Len(s) = n /\ \A i \in 1..n : s[i] = path[i + 3]
    BY <1>2, <1>5
  <2> HIDE DEF s
  <2>2. ASSUME NEW i \in 1..n PROVE s[i] = q[i]
    <3>1. path[i + 3] = r[i + 3 - 3] /\ i + 3 - 3 = i
      BY <1>2, <1>5
    <3> QED
      BY <1>3, <2>1, <3>1
  <2>3. s = q
    BY <1>2, <2>1, <2>2, SeqEqual
  <2> QED
    BY <2>3 DEF s
<1>9. Len(path) - 1 = n + 3 /\ Len(path) > 3
  BY <1>2, <1>5
<1> QED
  BY <1>5, <1>6, <1>7, <1>8, <1>9 DEF P


\* Where the elements of a completed execution are
LEMMA AfterGathered ==
  ASSUME NEW S, NEW p \in Seq(S)
  PROVE  /\ Len(Gathered \o p) = 3 + Len(p) /\ Len(p) \in Nat
         /\ DOMAIN (Gathered \o p) = 1..(3 + Len(p))
         /\ \A i \in 1..3 : (Gathered \o p)[i] \in {Authority, RelationLookup, Evidence}
         /\ \A i \in 4..(3 + Len(p)) : (Gathered \o p)[i] = p[i - 3]
<1> DEFINE G == Gathered
           U == S \cup {Authority, RelationLookup, Evidence}
           h == G \o p
<1>1. G \in Seq(U) /\ Len(G) = 3 /\ p \in Seq(U) /\ Len(p) \in Nat
  <2>1. G \in Seq(U) /\ p \in Seq(U)
    BY Gathering, SeqMonotonic
  <2> QED
    BY <2>1 DEF Gathered
<1>2. \A i \in 1..3 : G[i] \in {Authority, RelationLookup, Evidence}
  BY DEF Gathered
<1> HIDE DEF G, U
<1>3. h \in Seq(U) /\ Len(h) = Len(G) + Len(p)
  BY <1>1, ConcatProperties
<1>4. \A i \in 1..(Len(G) + Len(p)) : h[i] = IF i <= Len(G) THEN G[i] ELSE p[i - Len(G)]
  BY <1>1, ConcatProperties
<1> HIDE DEF h
<1>5. Len(h) = 3 + Len(p) /\ DOMAIN h = 1..(3 + Len(p))
  BY <1>1, <1>3
<1>6. \A i \in 1..3 : h[i] = G[i]
  BY <1>1, <1>4
<1>7. \A i \in 4..(3 + Len(p)) : h[i] = p[i - 3]
  BY <1>1, <1>4
<1> QED
  BY <1>1, <1>2, <1>5, <1>6, <1>7 DEF h, G

\* What tells the completed executions of one mode from those of another: a
\* rejected claim, in the fifth place of six.
LEMMA Executions ==
  ASSUME NEW q
  PROVE  /\ q \in Completions("completed") => \A i \in DOMAIN q : q[i] # ClaimsBad
         /\ q \in Completions("fallback") => Len(q) = 6 /\ q[5] = ClaimsBad
<1> DEFINE g == Gathered
           a == <<ClaimsOk, Rendered>>
           b == <<Generated, ClaimsOk, Rendered>>
           c == <<Generated, ClaimsBad, Rendered>>
           d == <<NotGenerated, ClaimsBad, Rendered>>
           S == {Generated, NotGenerated, ClaimsOk, ClaimsBad, Rendered}
<1>1. /\ Completions("completed") = {g \o a, g \o b}
      /\ Completions("fallback") = {g \o c, g \o d}
  BY DEF Completions
<1>2. /\ a \in Seq(S) /\ b \in Seq(S) /\ c \in Seq(S) /\ d \in Seq(S)
      /\ Len(a) = 2 /\ Len(b) = 3 /\ Len(c) = 3 /\ Len(d) = 3
      /\ c[2] = ClaimsBad /\ d[2] = ClaimsBad
  <2>1. Generated \in S /\ NotGenerated \in S /\ ClaimsOk \in S /\ ClaimsBad \in S /\ Rendered \in S
    OBVIOUS
  <2> HIDE DEF S
  <2> QED
    BY <2>1
<1>3. /\ \A i \in 1..2 : a[i] # ClaimsBad
      /\ \A i \in 1..3 : b[i] # ClaimsBad
  BY DEF ClaimsOk, ClaimsBad, Rendered, Generated
<1>4. \A k \in {Authority, RelationLookup, Evidence} : k # ClaimsBad
  BY DEF Authority, RelationLookup, Evidence, ClaimsBad
<1> HIDE DEF a, b, c, d, g, S
<1>5. CASE q \in Completions("completed")
  <2>1. PICK p \in {a, b} : q = g \o p
    BY <1>1, <1>5
  <2>2. p \in Seq(S) /\ \A i \in 1..Len(p) : p[i] # ClaimsBad
    BY <1>2, <1>3, <2>1
  <2>3. /\ DOMAIN q = 1..(3 + Len(p)) /\ Len(p) \in Nat
        /\ \A i \in 1..3 : q[i] \in {Authority, RelationLookup, Evidence}
        /\ \A i \in 4..(3 + Len(p)) : q[i] = p[i - 3]
    BY <2>1, <2>2, AfterGathered DEF g
  <2>4. ASSUME NEW i \in DOMAIN q PROVE q[i] # ClaimsBad
    <3>1. CASE i \in 1..3
      BY <1>4, <2>3, <3>1
    <3>2. CASE i \notin 1..3
      <4>1. i \in 4..(3 + Len(p)) /\ i - 3 \in 1..Len(p)
        BY <2>3, <3>2
      <4> QED
        BY <2>2, <2>3, <4>1
    <3> QED
      BY <3>1, <3>2
  <2>5. q \notin Completions("fallback")
    <3>1. SUFFICES ASSUME NEW r \in {c, d}, q = g \o r PROVE FALSE
      BY <1>1
    <3>2. r \in Seq(S) /\ Len(r) = 3 /\ r[2] = ClaimsBad
      BY <1>2, <3>1
    <3>3. DOMAIN q = 1..(3 + Len(r)) /\ \A i \in 4..(3 + Len(r)) : q[i] = r[i - 3]
      BY <3>1, <3>2, AfterGathered DEF g
    <3>4. 5 \in DOMAIN q /\ q[5] = r[5 - 3] /\ 5 - 3 = 2
      BY <3>2, <3>3
    <3> QED
      BY <2>4, <3>2, <3>4
  <2> QED
    BY <2>4, <2>5
<1>6. CASE q \in Completions("fallback")
  <2>1. PICK r \in {c, d} : q = g \o r
    BY <1>1, <1>6
  <2>2. r \in Seq(S) /\ Len(r) = 3 /\ r[2] = ClaimsBad
    BY <1>2, <2>1
  <2>3. Len(q) = 3 + Len(r) /\ \A i \in 4..(3 + Len(r)) : q[i] = r[i - 3]
    BY <2>1, <2>2, AfterGathered DEF g
  <2>4. Len(q) = 6 /\ q[5] = r[5 - 3] /\ 5 - 3 = 2
    BY <2>2, <2>3
  <2> QED
    BY <1>5, <2>2, <2>4
<1> QED
  BY <1>5, <1>6

\* A completed execution is one that the success rules accept.
LEMMA CompletedAccepted ==
  ASSUME NEW t, PlanLinked(t), Composed(t), result.status = "executed"
  PROVE  KnowledgeSuccessIssues(t, KnowledgeAnswer) = {}
<1> DEFINE e == KnowledgeAnswer
           fallback == e.reason = "knowledge_execution_fallback"
           executed ==
             {p \in CompletedPaths :
                IF fallback THEN Len(p) = 6 /\ p[5] = ClaimsBad
                ELSE \A i \in DOMAIN p : p[i] # ClaimsBad}
           expected ==
             IF e.reason = "knowledge_execution_not_found"
             THEN {Gathered \o <<ClaimsOk, Rendered>>} ELSE executed
<1>1. e.plans = <<Relation>> /\ e.reason = AnswerReason
  BY DEF KnowledgeAnswer, Linking, Event
<1>2. PICK q \in Completions(result.mode) : PathOf(t) = KnowledgePrefix \o q
  BY DEF Composed, Tracks
<1>3. q \in expected
  <2>1. result.mode \in {"completed", "not_found", "fallback"}
    BY ComposedModes
  <2>2. CASE result.mode = "not_found"
    BY <1>1, <1>2, <2>2 DEF AnswerReason, Completions
  <2>3. CASE result.mode = "completed"
    <3>1. ~fallback /\ e.reason # "knowledge_execution_not_found"
      BY <1>1, <2>3 DEF AnswerReason
    <3>2. q \in Completions("completed")
      BY <1>2, <2>3
    <3>3. q \in CompletedPaths /\ \A i \in DOMAIN q : q[i] # ClaimsBad
      BY <3>2, CompletionPaths, Executions
    <3> QED
      BY <3>1, <3>3
  <2>4. CASE result.mode = "fallback"
    <3>1. fallback /\ e.reason # "knowledge_execution_not_found"
      BY <1>1, <2>4 DEF AnswerReason
    <3>2. q \in Completions("fallback")
      BY <1>2, <2>4
    <3>3. q \in CompletedPaths /\ Len(q) = 6 /\ q[5] = ClaimsBad
      BY <3>2, CompletionPaths, Executions
    <3> QED
      BY <3>1, <3>3
  <2> QED
    BY <2>1, <2>2, <2>3, <2>4
<1>4. PathOf(t) \in {KnowledgePrefix \o p : p \in expected}
  BY <1>2, <1>3
<1>5. KnowledgeSuccessIssues(t, e) \subseteq
        {"knowledge_stage_order_invalid", "knowledge_plan_link_mismatch"}
  BY DEF KnowledgeSuccessIssues
<1>6. "knowledge_stage_order_invalid" \notin KnowledgeSuccessIssues(t, e)
  BY <1>4 DEF KnowledgeSuccessIssues
<1>7. "knowledge_plan_link_mismatch" \notin KnowledgeSuccessIssues(t, e)
  <2> HIDE DEF e
  <2> QED
    BY <1>1 DEF KnowledgeSuccessIssues
<1> QED
  BY <1>5, <1>6, <1>7


\* One event before two others, and the same events one after the other
LEMMA OneByOne ==
  ASSUME NEW S, NEW r \in S, NEW s \in S, NEW u \in S
  PROVE  /\ <<>> \in Seq(S) /\ <<r>> \in Seq(S) /\ <<r>> \o <<s>> \in Seq(S)
         /\ <<>> \o <<r>> = <<r>> /\ <<r>> \o <<s>> = <<r, s>>
         /\ <<r>> \o <<s, u>> = (<<r>> \o <<s>>) \o <<u>>
<1>1. <<>> \in Seq(S) /\ <<r>> \in Seq(S) /\ <<s>> \in Seq(S)
  OBVIOUS
<1>2. <<r>> \o <<s>> \in Seq(S)
  BY <1>1, ConcatProperties
<1>3. <<>> \o <<r>> = <<r>>
  BY <1>1, ConcatSimplifications
<1>4. <<r>> \o <<s>> = Append(<<r>>, s)
  BY <1>1, AppendIsConcat
<1>5. (<<r>> \o <<s>>) \o <<u>> = <<r>> \o <<s, u>>
  BY <1>1, ConcatTwo
<1> QED
  BY <1>1, <1>2, <1>3, <1>4, <1>5, Longer

LEMMA PicksTwo ==
  ASSUME NEW r, NEW s, NEW u, NEW stages,
         r.stage \notin stages, s.stage \in stages, u.stage \in stages
  PROVE  OfStage(<<r>> \o <<s, u>>, stages) = <<s, u>>
<1> DEFINE S == {r, s, u}
           a == <<>>
           b == <<r>>
           c == b \o <<s>>
<1>1. r \in S /\ s \in S /\ u \in S
  OBVIOUS
<1> HIDE DEF S
<1>2. a \in Seq(S) /\ b \in Seq(S) /\ c \in Seq(S) /\ b = a \o <<r>> /\ b \o <<s, u>> = c \o <<u>>
  BY <1>1, OneByOne
<1>3. OfStage(a, stages) = <<>>
  BY OfStageEmpty
<1> HIDE DEF a, b, c
<1>4. OfStage(b, stages) = <<>>
  BY <1>1, <1>2, <1>3, OfStageAppend
<1>5. OfStage(c, stages) = Append(<<>>, s)
  <2>1. b \in Seq(S) /\ s \in S
    BY <1>1, <1>2
  <2>2. OfStage(b \o <<s>>, stages) =
          IF s.stage \in stages THEN Append(OfStage(b, stages), s) ELSE OfStage(b, stages)
    BY <2>1, OfStageAppend
  <2> QED
    BY <1>4, <2>2 DEF c
<1>6. OfStage(c \o <<u>>, stages) = Append(Append(<<>>, s), u)
  BY <1>1, <1>2, <1>5, OfStageAppend
<1> QED
  BY <1>1, <1>2, <1>6, Longer DEF b

LEMMA PathOfTwo ==
  ASSUME NEW s, NEW u, s.stage \in PathStages, u.stage \in PathStages
  PROVE  PathOf(<<s, u>>) = <<Key(s), Key(u)>>
<1> DEFINE S == {s, u}
           K == {Key(s), Key(u)}
           a == <<>>
           b == <<s>>
<1>1. s \in S /\ u \in S /\ Key(s) \in K /\ Key(u) \in K
  OBVIOUS
<1> HIDE DEF S, K
<1>2. a \in Seq(S) /\ b \in Seq(S) /\ b = a \o <<s>> /\ <<s, u>> = b \o <<u>>
  BY <1>1, OneByOne
<1>3. PathOf(a) = <<>>
  BY PathEmpty
<1> HIDE DEF a, b
<1>4. PathOf(b) = Append(<<>>, Key(s))
  BY <1>1, <1>2, <1>3, PathAppend
<1>5. PathOf(b \o <<u>>) = Append(Append(<<>>, Key(s)), Key(u))
  BY <1>1, <1>2, <1>4, PathAppend
<1> QED
  BY <1>1, <1>2, <1>5, Longer

\* A control decision leaves the path that the control rules ask for.
LEMMA ControlPath ==
  ASSUME NEW t, result.status \in Controls, t = <<Received>> \o ControlEvents(result.status)
  PROVE  KnowledgeControlIssues(t, KnowledgeAnswer) = {}
<1> DEFINE o == result.status
           r == Received
           s == Plain("SAFETY", "SUCCEEDED", "guard_allowed")
           u == Event("ROUTE", Outcome(o), RouteReason(o), Suffix(o), <<>>)
           e == KnowledgeAnswer
<1>1. t = <<r>> \o <<s, u>>
  BY DEF ControlEvents
<1>2. r.stage = "REQUEST" /\ s.stage = "SAFETY" /\ u.stage = "ROUTE"
  BY DEF Received, Plain, Event
<1>3. Key(s) = KnowledgePrefix[1] /\ Key(u) = <<"ROUTE", Outcome(o), RouteReason(o)>>
  BY DEF Key, Plain, Event, KnowledgePrefix
<1>4. e.outcome = Outcome(o)
  BY DEF KnowledgeAnswer, Event, Outcome, Controls
<1>5. RouteReason(o) = IF (IF e.outcome = "CLARIFIED" THEN "clarify" ELSE "unsupported") = "clarify"
                       THEN "knowledge_routed_clarify" ELSE "knowledge_routed_unsupported"
  BY <1>4 DEF Outcome, RouteReason, Controls
<1> HIDE DEF o, r, s, u, e
<1>6. PathOf(OfStage(t, {"SAFETY", "ROUTE"})) = <<Key(s), Key(u)>>
  <2> DEFINE looked == {"SAFETY", "ROUTE"}
  <2>1. r.stage \notin looked /\ s.stage \in looked /\ u.stage \in looked
    BY <1>2
  <2>2. s.stage \in PathStages /\ u.stage \in PathStages
    BY <1>2 DEF PathStages
  <2> HIDE DEF looked
  <2>3. OfStage(<<r>> \o <<s, u>>, looked) = <<s, u>>
    BY <2>1, PicksTwo
  <2>4. PathOf(<<s, u>>) = <<Key(s), Key(u)>>
    BY <2>2, PathOfTwo
  <2>5. PathOf(OfStage(t, looked)) = <<Key(s), Key(u)>>
    BY <1>1, <2>3, <2>4, Zenon
  <2> QED
    BY <2>5 DEF looked
<1>7. OfStage(t, PathStages \ {"SAFETY", "ROUTE", "PLAN"}) = <<>>
  <2> DEFINE S == {r, s, u}
             stages == PathStages \ {"SAFETY", "ROUTE", "PLAN"}
  <2>1. t \in Seq(S)
    <3>1. <<r>> \in Seq(S) /\ <<s, u>> \in Seq(S)
      OBVIOUS
    <3> QED
      BY <1>1, <3>1, ConcatProperties
  <2>2. \A x \in S : x.stage \notin stages
    BY <1>2 DEF PathStages
  <2> HIDE DEF S, stages
  <2>3. \A i \in DOMAIN t : t[i].stage \notin stages
    BY <2>1, <2>2
  <2>4. OfStage(t, stages) = <<>>
    BY <2>1, <2>3, OfStageNone
  <2> QED
    BY <2>4 DEF stages
<1>8. KnowledgeControlIssues(t, e) \subseteq
        {"knowledge_control_route_missing", "knowledge_control_path_executed"}
  BY DEF KnowledgeControlIssues
<1>9. "knowledge_control_path_executed" \notin KnowledgeControlIssues(t, e)
  BY <1>7 DEF KnowledgeControlIssues
<1>10. "knowledge_control_route_missing" \notin KnowledgeControlIssues(t, e)
  <2>1. PathOf(OfStage(t, {"SAFETY", "ROUTE"})) =
          << KnowledgePrefix[1],
             <<"ROUTE", e.outcome,
               IF (IF e.outcome = "CLARIFIED" THEN "clarify" ELSE "unsupported") = "clarify"
               THEN "knowledge_routed_clarify" ELSE "knowledge_routed_unsupported">> >>
    BY <1>3, <1>4, <1>5, <1>6
  <2> QED
    BY <2>1 DEF KnowledgeControlIssues
<1> QED
  BY <1>8, <1>9, <1>10 DEF e


LEMMA OfStageOne ==
  ASSUME NEW e, NEW stages, e.stage \in stages PROVE OfStage(<<e>>, stages) = <<e>>
<1> DEFINE S == {e}
           a == <<>>
<1>1. e \in S /\ a \in Seq(S) /\ a \o <<e>> = <<e>>
  BY OneByOne
<1>2. OfStage(a, stages) = <<>>
  BY OfStageEmpty
<1> HIDE DEF S, a
<1>3. OfStage(a \o <<e>>, stages) = Append(<<>>, e)
  BY <1>1, <1>2, OfStageAppend
<1>4. Append(<<>>, e) = <<e>>
  BY <1>1, Longer
<1> QED
  BY <1>1, <1>3, <1>4

\* The last stage of an execution past its evidence succeeded.
LEMMA OpenPath ==
  ASSUME NEW q \in {Gathered} \cup CompletedPaths, NEW path, path = KnowledgePrefix \o q
  PROVE  Len(path) > 0 /\ path[Len(path)] \in {Evidence, Rendered}
<1> DEFINE K == {Authority, RelationLookup, Evidence, Generated, NotGenerated, ClaimsOk, ClaimsBad,
                 Rendered}
           a == <<ClaimsOk, Rendered>>
           b == <<Generated, ClaimsOk, Rendered>>
           c == <<Generated, ClaimsBad, Rendered>>
           d == <<NotGenerated, ClaimsBad, Rendered>>
           e == <<ClaimsBad, Rendered>>
           n == Len(q)
<1>1. /\ Authority \in K /\ RelationLookup \in K /\ Evidence \in K /\ Generated \in K
      /\ NotGenerated \in K /\ ClaimsOk \in K /\ ClaimsBad \in K /\ Rendered \in K
  OBVIOUS
<1>2. Gathered \in Seq(K)
  BY Gathering, SeqMonotonic
<1> HIDE DEF K
<1>3. q \in Seq(K) /\ n \in Nat /\ n > 0 /\ q[n] \in {Evidence, Rendered}
  <2>1. CASE q = Gathered
    <3>1. Len(Gathered) = 3 /\ Gathered[3] = Evidence
      BY DEF Gathered
    <3> QED
      BY <1>2, <2>1, <3>1
  <2>2. CASE q \in CompletedPaths
    <3>1. /\ a \in Seq(K) /\ b \in Seq(K) /\ c \in Seq(K) /\ d \in Seq(K) /\ e \in Seq(K)
          /\ \A p \in {a, e} : Len(p) = 2 /\ p[2] = Rendered
          /\ \A p \in {b, c, d} : Len(p) = 3 /\ p[3] = Rendered
      BY <1>1
    <3>2. \E p \in {a, b, c, d, e} : q = Gathered \o p
      BY <2>2 DEF CompletedPaths
    <3> HIDE DEF a, b, c, d, e
    <3>3. PICK p \in {a, b, c, d, e} : q = Gathered \o p
      BY <3>2
    <3>4. p \in Seq(K) /\ Len(p) \in 2..3 /\ p[Len(p)] = Rendered
      <4>1. p \in Seq(K) /\ (p \in {a, e} \/ p \in {b, c, d})
        BY <3>1, <3>3
      <4>2. \/ Len(p) = 2 /\ p[2] = Rendered
            \/ Len(p) = 3 /\ p[3] = Rendered
        BY ONLY <3>1, <4>1
      <4> QED
        BY <4>1, <4>2
    <3>5. n = 3 + Len(p) /\ \A i \in 4..(3 + Len(p)) : q[i] = p[i - 3]
      BY <3>3, <3>4, AfterGathered
    <3>6. q[n] = p[Len(p)]
      <4>1. n \in 4..(3 + Len(p)) /\ n - 3 = Len(p)
        BY ONLY <3>4, <3>5
      <4>2. q[n] = p[n - 3]
        BY ONLY <3>5, <4>1
      <4> QED
        BY ONLY <4>1, <4>2
    <3>7. q \in Seq(K)
      BY <1>2, <3>3, <3>4, ConcatProperties
    <3> QED
      BY <3>4, <3>5, <3>6, <3>7
  <2> QED
    BY <2>1, <2>2
<1> DEFINE P == KnowledgePrefix
           U == K \cup {P[1], P[2], P[3]}
<1>4. P \in Seq(U) /\ Len(P) = 3 /\ q \in Seq(U)
  <2>1. P \in Seq({P[1], P[2], P[3]}) /\ Len(P) = 3
    BY DEF KnowledgePrefix
  <2> QED
    BY <1>3, <2>1, SeqMonotonic
<1>5. path = P \o q
  OBVIOUS
<1> HIDE DEF P, U
<1>6. Len(path) = 3 + n /\ path[3 + n] = q[n]
  <2>1. /\ Len(P \o q) = Len(P) + Len(q)
        /\ \A i \in 1..(Len(P) + Len(q)) :
             (P \o q)[i] = IF i <= Len(P) THEN P[i] ELSE q[i - Len(P)]
    BY <1>4, ConcatProperties
  <2> HIDE DEF n
  <2>2. /\ 3 + n \in 1..(Len(P) + n) /\ ~(3 + n <= Len(P)) /\ 3 + n - Len(P) = n
        /\ Len(P) + n = 3 + n
    BY <1>3, <1>4
  <2>3. n = Len(q)
    BY DEF n
  <2>4. (P \o q)[3 + n] = q[n]
    BY ONLY <2>1, <2>2, <2>3
  <2> QED
    BY <1>5, <2>1, <2>2, <2>3, <2>4
<1> QED
  BY <1>3, <1>6

\* What the failure rules can still report of an execution that broke off at
\* one of the boundaries: a terminal that does not fit the answer; and of one
\* that broke off past its evidence: that no boundary ended it.
LEMMA FailureAccepted ==
  ASSUME NEW t, NEW answer, NEW close, PlanLinked(t), answer.plans = <<Relation>>,
         answer.reason = IF answer.outcome = "TIMED_OUT" THEN "knowledge_deadline_exceeded"
                         ELSE "knowledge_execution_failed",
         \/ Broken(t, answer.outcome = "TIMED_OUT")
         \/ answer.outcome # "TIMED_OUT" /\ Unended(t),
         OfStage(t, {"ANSWER"}) = <<>>, close.stage = "REQUEST"
  PROVE  KnowledgeFailureIssues(t, answer, <<close>>) \subseteq
           {code \in {"knowledge_failure_prefix_invalid"} : Unended(t)} \cup
           {code \in {"knowledge_timeout_terminal_mismatch"} :
              /\ answer.outcome = "TIMED_OUT"
              /\ Key(close) # <<"REQUEST", "TIMED_OUT", "deadline_exceeded">>}
             \cup {code \in {"knowledge_failure_terminal_mismatch"} :
                     answer.outcome # "TIMED_OUT" /\ close.outcome # "FAILED"}
<1> DEFINE rest == <<close>>
           path == PathOf(t)
           found == KnowledgeFailureIssues(t, answer, rest)
<1>1. /\ OfStage(rest, {"REQUEST", "SCHEMA_LINK_SHADOW"}) = rest
      /\ OfStage(rest, {"REQUEST"}) = rest /\ rest[1] = close
  BY OfStageOne
<1>2. ASSUME Broken(t, answer.outcome = "TIMED_OUT")
      PROVE  /\ Len(path) > 3 /\ SubSeq(path, 1, 3) = KnowledgePrefix
             /\ SubSeq(path, 4, Len(path) - 1) \in PrefixesBefore(path[Len(path)])
             /\ answer.outcome = "TIMED_OUT" <=> path[Len(path)][2] = "TIMED_OUT"
  <2>1. PICK b \in Boundaries : \E q \in PrefixesBefore(b) :
          Tracks(t, q \o <<b>>) /\ (answer.outcome = "TIMED_OUT" <=> b[2] = "TIMED_OUT")
    BY <1>2 DEF Broken
  <2>2. PICK q \in PrefixesBefore(b) :
          Tracks(t, q \o <<b>>) /\ (answer.outcome = "TIMED_OUT" <=> b[2] = "TIMED_OUT")
    BY <2>1
  <2>3. PICK K : q \in Seq(K)
    BY <2>2, PrefixTyped
  <2>4. path = KnowledgePrefix \o (q \o <<b>>)
    BY <2>2 DEF Tracks
  <2> HIDE DEF path
  <2>5. /\ Len(path) > 3 /\ path[Len(path)] = b
        /\ SubSeq(path, 1, 3) = KnowledgePrefix /\ SubSeq(path, 4, Len(path) - 1) = q
    <3>1. \A c, p : p = KnowledgePrefix \o (q \o <<c>>) =>
            /\ Len(p) > 3 /\ p[Len(p)] = c
            /\ SubSeq(p, 1, 3) = KnowledgePrefix /\ SubSeq(p, 4, Len(p) - 1) = q
      BY <2>3, BrokenPath, Zenon
    <3> QED
      BY <2>4, <3>1, Zenon
  <2> QED
    BY <2>2, <2>5
<1>3. ASSUME answer.outcome # "TIMED_OUT", Unended(t)
      PROVE  path[Len(path)][2] # "TIMED_OUT"
  <2>1. PICK q \in {Gathered} \cup CompletedPaths : path = KnowledgePrefix \o q
    BY <1>3 DEF Unended, Tracks
  <2> HIDE DEF path
  <2>2. path[Len(path)] \in {Evidence, Rendered}
    BY <2>1, OpenPath
  <2> QED
    BY <2>2 DEF Evidence, Rendered
<1>4. (answer.outcome = "TIMED_OUT") = (path[Len(path)][2] = "TIMED_OUT")
  BY <1>2, <1>3
<1>5. found \subseteq
        {"knowledge_failure_reason_invalid", "knowledge_failure_prefix_invalid",
         "knowledge_plan_link_mismatch", "knowledge_success_after_failure",
         "answer_terminal_duplicate", "knowledge_failure_outcome_mismatch",
         "knowledge_timeout_terminal_mismatch", "knowledge_failure_terminal_mismatch"}
  BY DEF KnowledgeFailureIssues
<1> HIDE DEF rest
<1>6. "knowledge_failure_reason_invalid" \notin found
  BY DEF KnowledgeFailureIssues
<1>7. "knowledge_failure_prefix_invalid" \in found => Unended(t)
  BY <1>2 DEF KnowledgeFailureIssues
<1>8. "knowledge_plan_link_mismatch" \notin found
  BY DEF KnowledgeFailureIssues
<1>9. "knowledge_success_after_failure" \notin found
  BY <1>1 DEF KnowledgeFailureIssues
<1>10. "answer_terminal_duplicate" \notin found
  BY DEF KnowledgeFailureIssues
<1>11. "knowledge_failure_outcome_mismatch" \notin found
  BY <1>4 DEF KnowledgeFailureIssues
<1>12. "knowledge_timeout_terminal_mismatch" \in found =>
         answer.outcome = "TIMED_OUT" /\ Key(close) # <<"REQUEST", "TIMED_OUT", "deadline_exceeded">>
  BY <1>1 DEF KnowledgeFailureIssues
<1>13. "knowledge_failure_terminal_mismatch" \in found =>
         answer.outcome # "TIMED_OUT" /\ close.outcome # "FAILED"
  BY <1>1 DEF KnowledgeFailureIssues
<1> HIDE DEF found
<1>14. found \subseteq
         {code \in {"knowledge_failure_prefix_invalid"} : Unended(t)} \cup
         {code \in {"knowledge_timeout_terminal_mismatch"} :
            /\ answer.outcome = "TIMED_OUT"
            /\ Key(close) # <<"REQUEST", "TIMED_OUT", "deadline_exceeded">>}
           \cup {code \in {"knowledge_failure_terminal_mismatch"} :
                   answer.outcome # "TIMED_OUT" /\ close.outcome # "FAILED"}
  BY <1>5, <1>6, <1>7, <1>8, <1>9, <1>10, <1>11, <1>12, <1>13
<1> QED
  BY <1>14 DEF found, rest

\* When the terminal does not fit the answer of a failed execution, the caller
\* had left, or got the response of an error that a GET reports as an answer.
LEMMA TerminalsFit ==
  ASSUME TypeOK, Caused, result.cause # "late"
  PROVE  /\ result.status = "timed_out" =>
              \/ caller.left = "aborted"
              \/ Terminal[1] = "TIMED_OUT" /\ Terminal[2] = "deadline_exceeded"
         /\ result.status = "failed" =>
              \/ caller.left = "timed_out" \/ (caller.method = "GET" /\ result.cause = "fatal")
              \/ Terminal[1] = "FAILED"
<1>1. /\ result.cause \in {"none", "deadline", "late", "retryable", "fatal"}
      /\ caller.method \in {"GET", "POST"} /\ caller.left \in {"no", "timed_out", "aborted"}
  BY DEF TypeOK, Causes
<1>2. CASE result.status = "timed_out"
  <2>1. result.cause = "deadline"
    BY <1>2 DEF Caused
  <2>2. Delivered = <<"TIMED_OUT", "deadline_exceeded">>
    BY <2>1 DEF Delivered
  <2> QED
    BY <1>1, <1>2, <2>2 DEF Terminal
<1>3. CASE result.status = "failed"
  <2>1. result.cause \in {"retryable", "fatal"}
    BY <1>3 DEF Caused
  <2>2. (caller.method = "GET" /\ result.cause = "fatal") \/ Delivered[1] = "FAILED"
    BY <1>1, <2>1 DEF Delivered
  <2> QED
    BY <1>1, <1>3, <2>2 DEF Terminal
<1> QED
  BY <1>2, <1>3


\* What surrounds the answer of a closed request: no other answer before it,
\* the transport's terminal after it.
LEMMA AnswerFramed ==
  ASSUME TraceInv, Framed, Closing, at = "closed",
         NEW i \in DOMAIN trail, trail[i].stage = "ANSWER"
  PROVE  /\ OfStage(SubSeq(trail, 1, i - 1), {"ANSWER"}) = <<>>
         /\ SubSeq(trail, i + 1, Len(trail)) = <<Plain("REQUEST", Terminal[1], Terminal[2])>>
         /\ \A j \in DOMAIN SubSeq(trail, 1, i - 1) :
              j \in DOMAIN trail /\ SubSeq(trail, 1, i - 1)[j] = trail[j]
<1> DEFINE before == SubSeq(trail, 1, i - 1)
           rest == SubSeq(trail, i + 1, Len(trail))
           close == Plain("REQUEST", Terminal[1], Terminal[2])
<1>1. PICK T : trail \in Seq(T)
  BY DEF TraceInv, Traced
<1>2. i = Len(trail) - 1 /\ trail[Len(trail)] = close
  BY DEF Closing
<1>3. Len(trail) \in Nat /\ DOMAIN trail = 1..Len(trail) /\ i \in 1..Len(trail)
  BY <1>1
<1>4. before \in Seq(T) /\ \A j \in DOMAIN before : j \in DOMAIN trail /\ j < i /\ before[j] = trail[j]
  BY <1>1, <1>3
<1> HIDE DEF close
<1>5. rest \in Seq(T) /\ Len(rest) = 1 /\ rest[1] = trail[Len(trail)]
  BY <1>1, <1>2, <1>3
<1> HIDE DEF rest, before
<1>6. rest = <<close>>
  BY <1>2, <1>5
<1>7. \A j \in DOMAIN before : before[j].stage \notin {"ANSWER"}
  BY <1>3, <1>4 DEF Framed
<1>8. OfStage(before, {"ANSWER"}) = <<>>
  BY <1>4, <1>7, OfStageNone
<1> QED
  BY <1>4, <1>6, <1>8 DEF before, rest, close

\* The answer and the terminal are no stages of a path.
LEMMA NoMorePath ==
  ASSUME Traced, NEW i \in DOMAIN trail, trail[i].stage = "ANSWER", NEW close,
         close.stage = "REQUEST", SubSeq(trail, i + 1, Len(trail)) = <<close>>
  PROVE  PathOf(trail) = PathOf(SubSeq(trail, 1, i - 1))
<1> DEFINE n == Len(trail)
           before == SubSeq(trail, 1, i - 1)
           rest == SubSeq(trail, i + 1, n)
<1>1. PICK S : trail \in Seq(S)
  BY DEF Traced
<1>2. n \in Nat /\ i \in 1..n /\ \A j \in 1..n : trail[j] \in S
  BY <1>1
<1>3. /\ before \in Seq(S) /\ Len(before) = i - 1 /\ \A j \in 1..(i - 1) : before[j] = trail[j]
      /\ Len(rest) = n - i /\ \A j \in 1..(n - i) : rest[j] = trail[i + j]
  BY <1>1, <1>2
<1>a. rest = <<close>>
  OBVIOUS
<1> HIDE DEF before, rest
<1>4. Len(rest) = 1 /\ rest[1] = close
  BY <1>a
<1>5. i = n - 1 /\ trail[n] = close
  <2> HIDE DEF n
  <2>1. n \in Nat /\ i \in Nat /\ n - i = 1
    <3>1. Len(rest) = n - i /\ Len(rest) = 1
      BY <1>3, <1>4
    <3>2. n \in Nat /\ i \in 1..n
      BY <1>2
    <3>3. n - i = 1
      BY ONLY <3>1
    <3>4. i \in Nat
      BY ONLY <3>2
    <3> QED
      BY ONLY <3>2, <3>3, <3>4
  <2>2. rest[1] = trail[i + 1]
    BY ONLY <1>3, <2>1
  <2>3. i = n - 1 /\ i + 1 = n
    BY ONLY <2>1
  <2> QED
    BY ONLY <1>4, <2>2, <2>3
<1> DEFINE longer == before \o <<trail[i]>>
           whole == longer \o <<close>>
<1>6. close \in S /\ trail[i] \in S
  BY <1>2, <1>5
<1>7. /\ longer \in Seq(S) /\ Len(longer) = i /\ \A j \in 1..i : longer[j] = trail[j]
  BY <1>2, <1>3, <1>6
<1> HIDE DEF longer
<1>8. whole \in Seq(S) /\ Len(whole) = n /\ \A j \in 1..n : whole[j] = trail[j]
  BY <1>2, <1>5, <1>6, <1>7
<1>9. trail = whole
  BY <1>1, <1>8, SeqEqual
<1>10. PathOf(longer) = PathOf(before)
  BY <1>3, <1>6, PathAppend DEF longer, PathStages
<1>11. PathOf(whole) = PathOf(longer)
  BY <1>6, <1>7, PathAppend DEF PathStages
<1> QED
  BY <1>9, <1>10, <1>11 DEF before

\* What a closed request has recorded of a relation answer is accepted.
LEMMA KnowledgeAnswerAccepted ==
  ASSUME TraceInv, Framed, Tied, Told, Caused, Closing, DenialsAccepted, at = "closed",
         NEW i \in DOMAIN trail, trail[i].stage = "ANSWER", IsKnowledge(trail[i])
  PROVE  AnswerIssues(trail, i) \subseteq KnownGaps
<1> DEFINE answer == trail[i]
           before == SubSeq(trail, 1, i - 1)
           rest == SubSeq(trail, i + 1, Len(trail))
           close == Plain("REQUEST", Terminal[1], Terminal[2])
<1>1. /\ Concluded(before) /\ answer = KnowledgeAnswer /\ result.cause # "late"
      /\ result.status \in {"executed", "failed", "timed_out"} \cup Controls
  BY DEF Told
<1>2. /\ OfStage(before, {"ANSWER"}) = <<>> /\ rest = <<close>>
      /\ \A j \in DOMAIN before : j \in DOMAIN trail /\ before[j] = trail[j]
  BY AnswerFramed
<1>3. answer.outcome \notin Denials =>
        /\ PlanLinked(before) /\ answer.plans = <<Relation>>
        /\ answer.outcome \in Failures =>
             answer.reason = IF answer.outcome = "TIMED_OUT" THEN "knowledge_deadline_exceeded"
                             ELSE "knowledge_execution_failed"
  BY <1>2 DEF Tied, PlanLinked
<1>4. answer.outcome \in Denials => ControlIssues(before) \subseteq KnownGaps
  BY DEF DenialsAccepted
<1>5. AnswerIssues(trail, i) =
        CASE Serves(answer) ->
               IF IsKnowledge(answer) THEN KnowledgeSuccessIssues(before, answer)
               ELSE SuccessIssues(before, answer)
          [] answer.outcome \in {"CLARIFIED", "UNSUPPORTED"} ->
               ControlIssues(before)
                 \cup IF IsKnowledge(answer) THEN KnowledgeControlIssues(before, answer) ELSE {}
          [] answer.outcome \in {"FAILED", "TIMED_OUT"} /\ IsKnowledge(answer) ->
               KnowledgeFailureIssues(before, answer, rest)
          [] OTHER -> {}
  BY DEF AnswerIssues
<1>6. Serves(answer) => answer.outcome = "SUCCEEDED"
  BY DEF Serves
<1>7. /\ result.status = "executed" => answer.outcome = "SUCCEEDED" /\ Serves(answer)
      /\ result.status = "failed" => answer.outcome = "FAILED"
      /\ result.status = "timed_out" => answer.outcome = "TIMED_OUT"
      /\ result.status \in Controls => answer.outcome \in Denials
  BY <1>1 DEF KnowledgeAnswer, Linking, Event, Serves, Controls, Denials
<1>8. IsKnowledge(answer)
  OBVIOUS
<1>9. close.stage = "REQUEST" /\ close.outcome = Terminal[1] /\ close.reason = Terminal[2]
  BY DEF Plain, Event
<1> HIDE DEF answer, before, rest, close
<1>10. CASE result.status = "executed"
  <2>1. AnswerIssues(trail, i) = KnowledgeSuccessIssues(before, answer)
    BY <1>5, <1>7, <1>8, <1>10
  <2>2. PlanLinked(before) /\ Composed(before)
    BY <1>1, <1>3, <1>7, <1>10 DEF Concluded, Denials
  <2>3. KnowledgeSuccessIssues(before, answer) = {}
    BY <1>1, <1>10, <2>2, CompletedAccepted
  <2> QED
    BY <2>1, <2>3
<1>11. CASE result.status \in Controls
  <2>1. AnswerIssues(trail, i) = ControlIssues(before) \cup KnowledgeControlIssues(before, answer)
    BY <1>5, <1>6, <1>7, <1>8, <1>11 DEF Denials
  <2>2. before = <<Received>> \o ControlEvents(result.status)
    BY <1>1, <1>11 DEF Concluded
  <2>3. KnowledgeControlIssues(before, answer) = {}
    BY <1>1, <1>11, <2>2, ControlPath
  <2> QED
    BY <1>4, <1>7, <1>11, <2>1, <2>3
<1>12. CASE result.status \in {"failed", "timed_out"}
  <2>1. answer.outcome \in Failures /\ answer.outcome \notin Denials
        /\ (answer.outcome = "TIMED_OUT" <=> result.status = "timed_out")
    BY <1>7, <1>12 DEF Failures, Denials
  <2>2. AnswerIssues(trail, i) = KnowledgeFailureIssues(before, answer, rest)
    BY <1>5, <1>6, <1>8, <2>1 DEF Failures, Denials
  <2>3. \/ Broken(before, answer.outcome = "TIMED_OUT")
        \/ answer.outcome # "TIMED_OUT" /\ Unended(before)
    <3>1. Broken(before, result.status = "timed_out") \/ Unended(before)
      BY <1>1, <1>12 DEF Concluded
    <3>2. CASE Broken(before, result.status = "timed_out")
      BY <2>1, <3>2 DEF Broken
    <3>3. CASE Unended(before)
      BY <2>1, <3>3 DEF Unended, Caused
    <3> QED
      BY <3>1, <3>2, <3>3
  <2>4. KnowledgeFailureIssues(before, answer, <<close>>) \subseteq
          {code \in {"knowledge_failure_prefix_invalid"} : Unended(before)} \cup
          {code \in {"knowledge_timeout_terminal_mismatch"} :
             /\ answer.outcome = "TIMED_OUT"
             /\ Key(close) # <<"REQUEST", "TIMED_OUT", "deadline_exceeded">>}
            \cup {code \in {"knowledge_failure_terminal_mismatch"} :
                    answer.outcome # "TIMED_OUT" /\ close.outcome # "FAILED"}
    BY <1>2, <1>3, <1>9, <2>1, <2>3, FailureAccepted
  <2>5. /\ result.status = "timed_out" =>
             \/ caller.left = "aborted" \/ Key(close) = <<"REQUEST", "TIMED_OUT", "deadline_exceeded">>
        /\ result.status = "failed" =>
             \/ caller.left = "timed_out" \/ (caller.method = "GET" /\ result.cause = "fatal")
             \/ close.outcome = "FAILED"
    BY <1>1, <1>9, TerminalsFit DEF Key, TraceInv, Inv
  <2>6. Unended(before) => LeftOpen /\ result.cause = "fatal"
    <3>1. answer.stage = "ANSWER"
      BY DEF answer
    <3>2. PathOf(trail) = PathOf(before)
      <4>1. rest = <<close>> /\ Traced
        BY <1>2 DEF TraceInv
      <4> QED
        BY <1>9, <3>1, <4>1, NoMorePath DEF answer, before, rest
    <3> QED
      BY <3>2 DEF Unended, LeftOpen, Tracks
  <2> QED
    BY <1>2, <1>7, <1>12, <2>1, <2>2, <2>4, <2>5, <2>6 DEF KnownGaps
<1> QED
  BY <1>1, <1>10, <1>11, <1>12

\* Whatever interleaving of failures, file replacements, deadlines and callers
\* leads to it, the trail of a closed relation request is one the validator
\* accepts, but for the known gaps (KnowledgeTrailAccepted).
THEOREM KnowledgeAccepted == Spec => []KnowledgeTrailAccepted
<1> DEFINE Answered == Pathed /\ Told /\ Caused /\ Closing /\ Related
<1>1. Init => Tied /\ Framed /\ Answered
  BY TiedInit, FramedInit, PathedInit, AnsweredInit
<1>2. TraceInv /\ Tied /\ Framed /\ Answered /\ [Next]_vars => (Tied /\ Framed /\ Answered)'
  BY TiedStep, FramedStep, PathedStep, ToldStep, CausedStep, ClosingStep, RelatedStep
<1>3. ASSUME TraceInv, Tied, Framed, Answered, DenialsAccepted,
             at = "closed" => LifecycleIssues(trail) = {}
      PROVE  KnowledgeTrailAccepted
  <2>1. SUFFICES ASSUME at = "closed", RelationRequest PROVE Issues(trail) \subseteq KnownGaps
    BY DEF KnowledgeTrailAccepted
  <2>2. \A i \in DOMAIN trail : trail[i].stage = "ANSWER" => AnswerIssues(trail, i) \subseteq KnownGaps
    BY <1>3, <2>1, KnowledgeAnswerAccepted DEF Related
  <2>3. Issues(trail) =
          UNION {AnswerIssues(trail, i) : i \in {j \in DOMAIN trail : trail[j].stage = "ANSWER"}}
    BY <1>3, <2>1 DEF Issues
  <2> QED
    BY <2>2, <2>3
<1> QED
  BY <1>1, <1>2, <1>3, TraceInvariant, ControlAccepted, LifecycleAccepted, PTL DEF Spec


-----------------------------------------------------------------------------
(***************************************************************************)
(* The compiled plans of a trace, when events are added to it.             *)
(***************************************************************************)
\* The elements of a concatenation
LEMMA Joined2 ==
  ASSUME NEW S, NEW t \in Seq(S), NEW u \in Seq(S)
  PROVE  /\ t \o u \in Seq(S) /\ Len(t) \in Nat /\ Len(u) \in Nat
         /\ Len(t \o u) = Len(t) + Len(u) /\ DOMAIN (t \o u) = 1..(Len(t) + Len(u))
         /\ DOMAIN t = 1..Len(t) /\ DOMAIN u = 1..Len(u)
         /\ \A i \in 1..Len(t) : (t \o u)[i] = t[i]
         /\ \A i \in 1..Len(u) : (t \o u)[Len(t) + i] = u[i]
<1> DEFINE w == t \o u
<1>1. Len(t) \in Nat /\ Len(u) \in Nat /\ DOMAIN t = 1..Len(t) /\ DOMAIN u = 1..Len(u)
  OBVIOUS
<1>2. w \in Seq(S) /\ Len(w) = Len(t) + Len(u)
  BY ConcatProperties
<1>3. \A i \in 1..(Len(t) + Len(u)) : w[i] = IF i <= Len(t) THEN t[i] ELSE u[i - Len(t)]
  BY ConcatProperties
<1> HIDE DEF w
<1>4. DOMAIN w = 1..(Len(t) + Len(u))
  BY <1>2
<1>5. \A i \in 1..Len(t) : w[i] = t[i]
  BY <1>1, <1>3
<1>6. ASSUME NEW i \in 1..Len(u) PROVE w[Len(t) + i] = u[i]
  <2>1. Len(t) + i \in 1..(Len(t) + Len(u)) /\ ~(Len(t) + i <= Len(t)) /\ Len(t) + i - Len(t) = i
    BY <1>1
  <2> QED
    BY <1>3, <2>1
<1> QED
  BY <1>1, <1>2, <1>4, <1>5, <1>6 DEF w

\* Positions before an addition choose what they chose before it.
LEMMA ThoseBefore ==
  ASSUME NEW S, NEW t \in Seq(S), NEW u \in Seq(S), NEW I, NEW J,
         \A i \in 1..Len(t) : i \in I <=> i \in J,
         \A i \in 1..Len(u) : Len(t) + i \notin J
  PROVE  Those(t \o u, J) = Those(t, I)
<1> DEFINE w == t \o u
           n == Len(t)
           m == Len(u)
           p == n + m
<1>1. /\ n \in Nat /\ m \in Nat /\ Len(w) = p /\ \A i \in 1..n : w[i] = t[i]
  BY Joined2
<1>2. /\ \A i \in 1..n : i \in I <=> i \in J
      /\ \A i \in 1..m : n + i \notin J
  OBVIOUS
<1> HIDE DEF w, n, m
<1>a. p \in Nat /\ n <= n /\ n <= p
  BY <1>1
<1>b. \A x \in 1..m : n + x \in 1..p /\ (n + x) - 1 = n + (x - 1)
  BY <1>1
<1>c. n + m = p
  OBVIOUS
<1> HIDE DEF p
<1>3. PICK c : Chosen(t, I, n, c) /\ Those(t, I) = c[n]
  BY <1>1, ThoseChosen DEF n
<1>4. PICK d : Chosen(w, J, p, d) /\ Those(w, J) = d[p]
  BY <1>1, <1>a, ThoseChosen
<1>5. c[n] = d[n]
  <2>1. \A i \in 1..n : t[i] = w[i] /\ (i \in I <=> i \in J)
    BY <1>1, <1>2
  <2> QED
    <3>1. n \in Nat /\ Chosen(t, I, n, c) /\ Chosen(w, J, p, d)
      BY <1>1, <1>3, <1>4
    <3>2. ASSUME NEW k \in Nat, k <= n, k <= p, \A i \in 1..k : t[i] = w[i] /\ (i \in I <=> i \in J)
          PROVE  c[k] = d[k]
      BY ONLY <1>a, <3>1, <3>2, ChosenAgree
    <3> QED
      BY ONLY <1>a, <2>1, <3>1, <3>2
<1> DEFINE Bad == {i \in 0..m : d[n + i] # d[n]}
<1>6. Bad = {}
  <2>1. SUFFICES ASSUME Bad # {} PROVE FALSE
    OBVIOUS
  <2>2. Bad \subseteq Nat
    BY <1>1
  <2>3. PICK x \in Bad : \A y \in Bad : ~(y < x)
    <3> HIDE DEF Bad
    <3> QED
      BY <2>1, <2>2, LeastOf
  <2>4. x # 0
    BY <1>1, <2>3
  <2>5. x \in 1..m /\ x - 1 \in 0..m /\ x - 1 < x
    BY <1>1, <2>3, <2>4
  <2>6. d[n + (x - 1)] = d[n]
    BY <2>3, <2>5
  <2>7. n + x \in 1..p /\ (n + x) - 1 = n + (x - 1) /\ n + x \notin J
    BY <1>2, <1>b, <2>5
  <2>8. d[n + x] = d[(n + x) - 1]
    <3> DEFINE y == n + x
    <3>1. y \in 1..p /\ y \notin J
      BY <2>7
    <3> HIDE DEF y
    <3>2. d[y] = Next1(w, J, d, y)
      BY <1>4, <3>1 DEF Chosen
    <3>3. d[y] = d[y - 1]
      BY <3>1, <3>2 DEF Next1
    <3> QED
      BY <3>3 DEF y
  <2> QED
    BY <2>3, <2>6, <2>7, <2>8
<1>7. d[n + m] = d[n]
  <2>1. m \in 0..m
    BY <1>1
  <2> QED
    BY <1>6, <2>1
<1> QED
  BY <1>3, <1>4, <1>5, <1>7, <1>c DEF w

\* The positions of an addition choose the addition.
LEMMA ThoseAdded ==
  ASSUME NEW S, NEW t \in Seq(S), NEW u \in Seq(S)
  PROVE  Those(t \o u, (Len(t) + 1)..(Len(t) + Len(u))) = u
<1> DEFINE w == t \o u
           n == Len(t)
           m == Len(u)
           p == n + m
           J == (n + 1)..p
           head(k) == [i \in 1..k |-> u[i]]
<1>1. /\ n \in Nat /\ m \in Nat /\ Len(w) = p /\ \A i \in 1..m : w[n + i] = u[i]
  BY Joined2
<1>2. u \in Seq(S) /\ DOMAIN u = 1..m /\ \A i \in 1..m : u[i] \in S
  OBVIOUS
<1> HIDE DEF w, n, m
<1>a. p \in Nat
  BY <1>1
<1>b. \A x \in 1..m : n + x \in 1..p /\ (n + x) - 1 = n + (x - 1) /\ n + x \in J
  BY <1>1
<1>c. n + m = p /\ \A x \in 1..n : x \in 1..p /\ x \notin J
  BY <1>1
<1> HIDE DEF p, J
<1>3. PICK d : Chosen(w, J, p, d) /\ Those(w, J) = d[p]
  BY <1>1, <1>a, ThoseChosen
<1> DEFINE Low == {i \in 0..n : d[i] # <<>>}
           Bad == {i \in 0..m : d[n + i] # head(i)}
<1>4. Low = {}
  <2>1. SUFFICES ASSUME Low # {} PROVE FALSE
    OBVIOUS
  <2>2. Low \subseteq Nat
    BY <1>1
  <2>3. PICK x \in Low : \A y \in Low : ~(y < x)
    <3> HIDE DEF Low
    <3> QED
      BY <2>1, <2>2, LeastOf
  <2>4. x # 0
    BY <1>3, <2>3 DEF Chosen
  <2>a. x \in 1..n /\ x - 1 \in 0..n /\ x - 1 < x
    BY <1>1, <2>3, <2>4
  <2>5. x \in 1..p /\ x \notin J
    BY <1>c, <2>a
  <2>6. d[x - 1] = <<>>
    BY <2>3, <2>a
  <2>7. d[x] = d[x - 1]
    BY <1>3, <2>5 DEF Chosen, Next1
  <2> QED
    BY <2>3, <2>6, <2>7
<1>5. ASSUME NEW k \in 1..m PROVE Append(head(k - 1), u[k]) = head(k)
  <2>1. k \in Nat /\ k - 1 \in Nat /\ k - 1 + 1 = k /\ u[k] \in S
    BY <1>1, <1>2, <1>5
  <2>2. head(k - 1) \in Seq(S) /\ Len(head(k - 1)) = k - 1
    BY <1>1, <1>2, <1>5, <2>1
  <2>3. head(k) \in Seq(S) /\ Len(head(k)) = k
    <3>1. \A i \in 1..k : u[i] \in S
      BY <1>1, <1>2, <1>5
    <3> QED
      BY <2>1, <3>1
  <2> DEFINE a == Append(head(k - 1), u[k])
             h == head(k)
             g == head(k - 1)
  <2>4. /\ a \in Seq(S) /\ Len(a) = k /\ a[k] = u[k]
        /\ \A i \in 1..(k - 1) : a[i] = g[i]
    <3> HIDE DEF g
    <3>1. g \in Seq(S) /\ Len(g) = k - 1
      BY <2>2 DEF g
    <3>2. a = Append(g, u[k])
      BY DEF g
    <3> HIDE DEF a
    <3> QED
      BY <2>1, <3>1, <3>2, AppendProperties
  <2>5. \A i \in 1..(k - 1) : g[i] = u[i]
    OBVIOUS
  <2>6. \A i \in 1..k : h[i] = u[i]
    OBVIOUS
  <2> HIDE DEF a, h, g
  <2>7. \A i \in 1..k : a[i] = h[i]
    BY <2>1, <2>4, <2>5, <2>6
  <2>8. h \in Seq(S) /\ Len(h) = k
    BY <2>3 DEF h
  <2>9. a = h
    BY <2>4, <2>7, <2>8, SeqEqual
  <2> QED
    BY <2>9 DEF a, h
<1>6. head(0) = <<>>
  OBVIOUS
<1> HIDE DEF head
<1>7. Bad = {}
  <2>1. SUFFICES ASSUME Bad # {} PROVE FALSE
    OBVIOUS
  <2>2. Bad \subseteq Nat
    BY <1>1
  <2>3. PICK x \in Bad : \A y \in Bad : ~(y < x)
    <3> HIDE DEF Bad
    <3> QED
      BY <2>1, <2>2, LeastOf
  <2>4. x # 0
    <3>1. d[n] = <<>> /\ n + 0 = n
      BY <1>1, <1>4
    <3> QED
      BY <1>6, <2>3, <3>1
  <2>5. x \in 1..m /\ x - 1 \in 0..m /\ x - 1 < x
    BY <1>1, <2>3, <2>4
  <2>6. d[n + (x - 1)] = head(x - 1)
    BY <2>3, <2>5
  <2>7. n + x \in 1..p /\ (n + x) - 1 = n + (x - 1) /\ n + x \in J /\ w[n + x] = u[x]
    BY <1>1, <1>b, <2>5
  <2>8. d[n + x] = Append(d[(n + x) - 1], w[n + x])
    <3> DEFINE y == n + x
    <3>1. y \in 1..p /\ y \in J
      BY <2>7
    <3> HIDE DEF y
    <3>2. d[y] = Next1(w, J, d, y)
      BY <1>3, <3>1 DEF Chosen
    <3>3. d[y] = Append(d[y - 1], w[y])
      BY <3>1, <3>2 DEF Next1
    <3> QED
      BY <3>3 DEF y
  <2> QED
    BY <1>5, <2>3, <2>5, <2>6, <2>7, <2>8
<1>8. d[n + m] = head(m)
  <2>1. m \in 0..m
    BY <1>1
  <2> QED
    BY <1>7, <2>1
<1>9. head(m) = u
  BY <1>1, <1>2 DEF head
<1> QED
  BY <1>3, <1>8, <1>9, <1>c DEF w, n, m, p, J


\* Where the plans of a trace are compiled first
FirstCompiled(t) ==
  {i \in DOMAIN t :
     Compiles(t[i]) /\ \A j \in 1..(i - 1) : Compiles(t[j]) => t[j].plans[1] # t[i].plans[1]}

LEMMA PlansOfFirst ==
  ASSUME NEW t
  PROVE  CompiledPlans(t) =
           [i \in DOMAIN Those(t, FirstCompiled(t)) |-> Those(t, FirstCompiled(t))[i].plans[1]]
  BY DEF CompiledPlans, FirstCompiled

\* Events that compile nothing leave the compiled plans alone.
LEMMA CompiledStays ==
  ASSUME NEW S, NEW t \in Seq(S), NEW u \in Seq(S), \A i \in DOMAIN u : ~Compiles(u[i])
  PROVE  CompiledPlans(t \o u) = CompiledPlans(t)
<1> DEFINE w == t \o u
           n == Len(t)
           I == FirstCompiled(t)
           J == FirstCompiled(w)
<1>1. /\ n \in Nat /\ Len(u) \in Nat /\ DOMAIN w = 1..(n + Len(u)) /\ DOMAIN t = 1..n
      /\ DOMAIN u = 1..Len(u)
      /\ \A i \in 1..n : w[i] = t[i]
      /\ \A i \in 1..Len(u) : w[n + i] = u[i]
  BY Joined2
<1> HIDE DEF w, n
<1>2. \A i \in 1..n : i \in I <=> i \in J
  <2> SUFFICES ASSUME NEW i \in 1..n PROVE i \in I <=> i \in J
    OBVIOUS
  <2>1. i \in DOMAIN t /\ i \in DOMAIN w /\ w[i] = t[i] /\ \A j \in 1..(i - 1) : w[j] = t[j]
    BY <1>1
  <2> QED
    BY <2>1 DEF FirstCompiled
<1>3. \A i \in 1..Len(u) : n + i \notin J
  BY <1>1 DEF FirstCompiled
<1> HIDE DEF I, J
<1>4. Those(w, J) = Those(t, I)
  BY <1>2, <1>3, ThoseBefore DEF w, n
<1> QED
  BY <1>4, PlansOfFirst DEF I, J, w

\* Events that each compile another plan of a list
CompilesEach(u, r) ==
  /\ Len(r) = Len(u)
  /\ \A i, j \in DOMAIN r : r[i] = r[j] => i = j
  /\ \A i \in DOMAIN u : Compiles(u[i]) /\ u[i].plans[1] = r[i]
CompilesNone(t) == \A i \in DOMAIN t : ~Compiles(t[i])

\* Events that each compile another plan, after some that compile none, make
\* these the compiled plans.
LEMMA CompiledOf ==
  ASSUME NEW S, NEW t \in Seq(S), NEW u \in Seq(S), NEW R, NEW r \in Seq(R),
         CompilesNone(t), CompilesEach(u, r)
  PROVE  CompiledPlans(t \o u) = r
<1> DEFINE w == t \o u
           n == Len(t)
           m == Len(u)
           p == n + m
           J == FirstCompiled(w)
<1>1. /\ n \in Nat /\ m \in Nat /\ DOMAIN w = 1..p /\ DOMAIN t = 1..n /\ DOMAIN u = 1..m
      /\ \A i \in 1..n : w[i] = t[i]
      /\ \A i \in 1..m : w[n + i] = u[i]
  BY Joined2
<1>2. \A i \in 1..n : ~Compiles(w[i])
  BY <1>1 DEF CompilesNone
<1>3. \A i \in 1..m : Compiles(w[n + i]) /\ w[n + i].plans[1] = r[i]
  BY <1>1 DEF CompilesEach
<1>4. DOMAIN r = 1..m /\ \A i, j \in 1..m : r[i] = r[j] => i = j
  BY DEF CompilesEach
<1> HIDE DEF w, n, m
<1>5. J = (n + 1)..p
  <2>1. ASSUME NEW i \in J PROVE i \in (n + 1)..p
    <3>1. i \in 1..p /\ Compiles(w[i])
      BY <1>1 DEF FirstCompiled
    <3>2. i \notin 1..n
      BY <1>2, <3>1
    <3> QED
      BY <1>1, <3>1, <3>2
  <2>2. ASSUME NEW i \in (n + 1)..p PROVE i \in J
    <3> DEFINE k == i - n
    <3>1. k \in 1..m /\ n + k = i /\ i \in 1..p
      BY <1>1
    <3>2. Compiles(w[i]) /\ w[i].plans[1] = r[k]
      BY <1>3, <3>1
    <3>3. ASSUME NEW j \in 1..(i - 1), Compiles(w[j]) PROVE w[j].plans[1] # w[i].plans[1]
      <4> DEFINE l == j - n
      <4>1. j \notin 1..n
        BY <1>2, <3>3
      <4>2. l \in 1..m /\ n + l = j /\ l # k
        BY <1>1, <3>1, <4>1
      <4>3. w[j].plans[1] = r[l]
        BY <1>3, <4>2
      <4>4. r[l] # r[k]
        <5> HIDE DEF k, l
        <5> QED
          BY <1>4, <3>1, <4>2
      <4> QED
        BY <3>2, <4>3, <4>4
    <3> HIDE DEF k
    <3> QED
      BY <1>1, <3>1, <3>2, <3>3 DEF FirstCompiled
  <2> QED
    BY <2>1, <2>2
<1> HIDE DEF J
<1>6. Those(w, J) = u
  BY <1>5, ThoseAdded DEF w, n, m, p
<1>7. CompiledPlans(w) = [i \in DOMAIN u |-> u[i].plans[1]]
  BY <1>6, PlansOfFirst DEF J
<1>8. [i \in DOMAIN u |-> u[i].plans[1]] = r
  <2>1. DOMAIN u = DOMAIN r /\ r = [i \in DOMAIN r |-> r[i]]
    BY <1>1, <1>4 DEF m
  <2> QED
    BY <2>1 DEF CompilesEach
<1> QED
  BY <1>7, <1>8 DEF w

-----------------------------------------------------------------------------
(***************************************************************************)
(* The chain of stages of a plan (Linked): positions that follow one       *)
(* another are enough, because the validator always takes the nearest.     *)
(***************************************************************************)
Marked(t, plan, n, pos) ==
  /\ pos \in [0..n -> DOMAIN t]
  /\ Compiles(t[pos[0]]) /\ t[pos[0]].plans[1] = plan
  /\ \A k \in 1..n :
       /\ pos[k - 1] < pos[k]
       /\ Key(t[pos[k]]) = RequiredStages[k] /\ t[pos[k]].plans = <<plan>>

\* Of the chain, the first n stages end at or before a position.
Marks(t, plan, n, end) == \E pos : Marked(t, plan, n, pos) /\ pos[n] <= end

LEMMA MinOf ==
  ASSUME NEW S, S \subseteq Nat, S # {} PROVE Min(S) \in S /\ \A y \in S : Min(S) <= y
<1>1. PICK x \in S : \A y \in S : ~(y < x)
  BY LeastOf
<1>2. \A y \in S : x <= y
  BY <1>1
<1> QED
  BY <1>1, <1>2 DEF Min

LEMMA NextNear ==
  ASSUME NEW t, Len(t) \in Nat, NEW i \in Nat, NEW plan, NEW key,
         NEW j \in (i + 1)..Len(t), Key(t[j]) = key, t[j].plans = <<plan>>
  PROVE  NextOf(t, i, plan, key) \in Nat /\ NextOf(t, i, plan, key) <= j
<1> DEFINE S == {x \in (i + 1)..Len(t) : Key(t[x]) = key /\ t[x].plans = <<plan>>} \cup {Len(t) + 1}
<1>1. S \subseteq Nat /\ j \in S
  OBVIOUS
<1>2. NextOf(t, i, plan, key) = Min(S)
  BY DEF NextOf
<1> HIDE DEF S
<1>3. Min(S) \in S /\ Min(S) <= j
  BY <1>1, MinOf
<1> QED
  BY <1>1, <1>2, <1>3


LEMMA StageCount == Len(RequiredStages) = 5 /\ DOMAIN RequiredStages = 1..5
  BY DEF RequiredStages

\* The chain that the validator follows, step by step
Follows(t, plan, start, f) ==
  /\ f[0] = start
  /\ \A k \in 1..5 : f[k] = NextOf(t, f[k - 1], plan, RequiredStages[k])

LEMMA ChainFollowed ==
  ASSUME NEW t, NEW plan
  PROVE  \E f : /\ Follows(t, plan, Min({i \in DOMAIN t : Compiles(t[i]) /\ t[i].plans[1] = plan}), f)
                /\ Linked(t, plan) <=> f[5] <= Len(t)
<1> DEFINE start == Min({i \in DOMAIN t : Compiles(t[i]) /\ t[i].plans[1] = plan})
           after(a, k) == NextOf(t, a, plan, RequiredStages[k])
           rec(f) == f = [k \in 0..Len(RequiredStages) |->
                            IF k = 0 THEN start
                            ELSE NextOf(t, f[k - 1], plan, RequiredStages[k])]
           one == after(start, 1)
           two == after(one, 2)
           three == after(two, 3)
           four == after(three, 4)
           five == after(four, 5)
           h == [k \in 0..5 |->
                   IF k = 0 THEN start ELSE IF k = 1 THEN one ELSE IF k = 2 THEN two
                   ELSE IF k = 3 THEN three ELSE IF k = 4 THEN four ELSE five]
           g == CHOOSE f : rec(f)
<1>1. rec(h)
  <2> HIDE DEF start, after, one, two, three, four, five
  <2>1. /\ h[0] = start /\ h[1] = one /\ h[2] = two /\ h[3] = three /\ h[4] = four /\ h[5] = five
    OBVIOUS
  <2>2. /\ h[1] = after(h[0], 1) /\ h[2] = after(h[1], 2) /\ h[3] = after(h[2], 3)
        /\ h[4] = after(h[3], 4) /\ h[5] = after(h[4], 5)
    BY <2>1 DEF one, two, three, four, five
  <2> DEFINE w == h
  <2>3. DOMAIN w = 0..5 /\ w = [k \in 0..5 |-> w[k]]
    OBVIOUS
  <2>4. w[0] = start /\ \A k \in 1..5 : w[k] = after(w[k - 1], k)
    <3>1. /\ w[0] = start /\ w[1] = after(w[0], 1) /\ w[2] = after(w[1], 2)
          /\ w[3] = after(w[2], 3) /\ w[4] = after(w[3], 4) /\ w[5] = after(w[4], 5)
      BY <2>1, <2>2
    <3> HIDE DEF w, after
    <3> SUFFICES ASSUME NEW k \in 1..5 PROVE w[k] = after(w[k - 1], k)
      BY <3>1
    <3>2. k \in {1, 2, 3, 4, 5}
      OBVIOUS
    <3> QED
      BY <3>1, <3>2
  <2> HIDE DEF w, h
  <2>5. w = [k \in 0..5 |-> IF k = 0 THEN start ELSE after(w[k - 1], k)]
    <3>1. \A k \in 0..5 : w[k] = IF k = 0 THEN start ELSE after(w[k - 1], k)
      <4> SUFFICES ASSUME NEW k \in 0..5
                   PROVE  w[k] = IF k = 0 THEN start ELSE after(w[k - 1], k)
        OBVIOUS
      <4>1. k = 0 \/ k \in 1..5
        OBVIOUS
      <4> QED
        BY <2>4, <4>1
    <3> QED
      BY <2>3, <3>1
  <2> QED
    BY <2>5, StageCount DEF w, after
<1>2. rec(g)
  <2> HIDE DEF h
  <2> QED
    BY <1>1
<1>3. Linked(t, plan) <=> g[5] <= Len(t)
  BY StageCount DEF Linked
<1> HIDE DEF g, start
<1>4. g[0] = start /\ \A k \in 1..5 : g[k] = NextOf(t, g[k - 1], plan, RequiredStages[k])
  <2>1. g = [k \in 0..5 |-> IF k = 0 THEN start ELSE NextOf(t, g[k - 1], plan, RequiredStages[k])]
    BY <1>2, StageCount
  <2>2. ASSUME NEW k \in 1..5 PROVE g[k] = NextOf(t, g[k - 1], plan, RequiredStages[k])
    <3>1. k \in 0..5 /\ k # 0
      OBVIOUS
    <3> QED
      BY <2>1, <3>1
  <2> QED
    BY <2>1, <2>2
<1> QED
  BY <1>3, <1>4 DEF Follows, start

\* A plan with a chain of its stages is linked.
LEMMA MarksLinked ==
  ASSUME NEW t, Len(t) \in Nat, DOMAIN t = 1..Len(t), NEW plan, NEW end, Marks(t, plan, 5, end)
  PROVE  Linked(t, plan)
<1> DEFINE C == {i \in DOMAIN t : Compiles(t[i]) /\ t[i].plans[1] = plan}
           start == Min(C)
<1>1. PICK pos : Marked(t, plan, 5, pos)
  BY DEF Marks
<1>2. PICK f : Follows(t, plan, start, f) /\ (Linked(t, plan) <=> f[5] <= Len(t))
  BY ChainFollowed
<1>3. \A k \in 0..5 : pos[k] \in 1..Len(t)
  BY <1>1 DEF Marked
<1>4. start \in Nat /\ start <= pos[0]
  <2>1. C \subseteq Nat /\ pos[0] \in C
    BY <1>1, <1>3 DEF Marked
  <2> HIDE DEF C
  <2> QED
    BY <2>1, MinOf
<1> HIDE DEF start
<1> DEFINE Bad == {k \in 0..5 : ~(f[k] \in Nat /\ f[k] <= pos[k])}
<1>5. Bad = {}
  <2>1. SUFFICES ASSUME Bad # {} PROVE FALSE
    OBVIOUS
  <2>2. Bad \subseteq Nat
    OBVIOUS
  <2>3. PICK x \in Bad : \A y \in Bad : ~(y < x)
    <3> HIDE DEF Bad
    <3> QED
      BY <2>1, <2>2, LeastOf
  <2>4. x # 0
    BY <1>2, <1>4, <2>3 DEF Follows
  <2>5. x \in 1..5 /\ x - 1 \in 0..5 /\ x - 1 < x /\ x \in 0..5
    BY <2>3, <2>4
  <2>6. f[x - 1] \in Nat /\ f[x - 1] <= pos[x - 1]
    BY <2>3, <2>5
  <2>7. /\ pos[x - 1] < pos[x] /\ pos[x] \in 1..Len(t) /\ pos[x - 1] \in 1..Len(t)
        /\ Key(t[pos[x]]) = RequiredStages[x] /\ t[pos[x]].plans = <<plan>>
    BY <1>1, <1>3, <2>5 DEF Marked
  <2> DEFINE i == f[x - 1]
             j == pos[x]
  <2>8. i \in Nat /\ j \in (i + 1)..Len(t)
    BY <2>6, <2>7
  <2>9. f[x] = NextOf(t, i, plan, RequiredStages[x])
    BY <1>2, <2>5 DEF Follows
  <2>10. Key(t[j]) = RequiredStages[x] /\ t[j].plans = <<plan>>
    BY <2>7
  <2> HIDE DEF i
  <2>11. f[x] \in Nat /\ f[x] <= j
    <3> HIDE DEF j
    <3> QED
      BY <2>8, <2>9, <2>10, NextNear
  <2> QED
    BY <2>3, <2>11
<1>6. f[5] \in Nat /\ f[5] <= pos[5]
  BY <1>5
<1> QED
  BY <1>2, <1>3, <1>6

\* What is marked stays marked when events are added, and the chain grows by
\* the next stage.
LEMMA MarksStay ==
  ASSUME NEW t, NEW u, NEW plan, NEW n \in Nat, NEW end, Marks(t, plan, n, end),
         \A i \in DOMAIN t : i \in DOMAIN u /\ u[i] = t[i]
  PROVE  Marks(u, plan, n, end)
<1>1. PICK pos : Marked(t, plan, n, pos) /\ pos[n] <= end
  BY DEF Marks
<1>2. pos \in [0..n -> DOMAIN t]
  BY <1>1 DEF Marked
<1>3. pos \in [0..n -> DOMAIN u] /\ \A k \in 0..n : u[pos[k]] = t[pos[k]]
  BY <1>2
<1>4. Marked(u, plan, n, pos)
  BY <1>1, <1>3 DEF Marked
<1> QED
  BY <1>1, <1>4 DEF Marks

LEMMA MarksGrow ==
  ASSUME NEW t, DOMAIN t \subseteq Nat, NEW plan, NEW n \in Nat, NEW end \in Nat,
         Marks(t, plan, n, end),
         NEW j \in DOMAIN t, end < j, Key(t[j]) = RequiredStages[n + 1], t[j].plans = <<plan>>
  PROVE  Marks(t, plan, n + 1, j)
<1>1. PICK pos : Marked(t, plan, n, pos) /\ pos[n] <= end
  BY DEF Marks
<1> DEFINE q == [k \in 0..(n + 1) |-> IF k = n + 1 THEN j ELSE pos[k]]
<1>2. pos \in [0..n -> DOMAIN t] /\ pos[n] \in Nat
  BY <1>1 DEF Marked
<1>3. \A k \in 0..n : k \in 0..(n + 1) /\ k # n + 1 /\ q[k] = pos[k]
  OBVIOUS
<1>4. q[n + 1] = j
  OBVIOUS
<1>5. q \in [0..(n + 1) -> DOMAIN t]
  BY <1>2
<1> HIDE DEF q
<1>6. ASSUME NEW k \in 1..(n + 1)
      PROVE  /\ q[k - 1] < q[k]
             /\ Key(t[q[k]]) = RequiredStages[k] /\ t[q[k]].plans = <<plan>>
  <2>1. CASE k = n + 1
    <3>1. q[k - 1] = pos[n] /\ q[k] = j
      BY <1>3, <1>4, <2>1
    <3> QED
      BY <1>1, <1>2, <2>1, <3>1
  <2>2. CASE k # n + 1
    <3>1. k \in 1..n /\ k \in 0..n /\ k - 1 \in 0..n
      BY <2>2
    <3> QED
      BY <1>1, <1>3, <3>1 DEF Marked
  <2> QED
    BY <2>1, <2>2
<1>7. q[0] = pos[0]
  BY <1>3
<1>8. Marked(t, plan, n + 1, q)
  BY <1>1, <1>5, <1>6, <1>7 DEF Marked
<1>9. q[n + 1] <= j
  BY <1>4
<1> QED
  BY <1>8, <1>9 DEF Marks


-----------------------------------------------------------------------------
(***************************************************************************)
(* The order of a product request: routed once, then compiled, then        *)
(* executed with the plans compiled.                                       *)
(***************************************************************************)
Unplanned == {"received", "guard", "routing"}
Planned == {"checking", "admitting", "authorizing", "running", "composing"}
Ending == {"recheck", "answer"}
Product == Unplanned \cup {"compiling"} \cup Planned \cup Ending

Ordered ==
  /\ at \in Unplanned => \A i \in DOMAIN trail : ~RoutesTo(trail[i])
  /\ at \in Unplanned \cup {"compiling"} => \A i \in DOMAIN trail : ~Compiles(trail[i])
  /\ \A i, j \in DOMAIN trail :
       RoutesTo(trail[i]) => (Compiles(trail[j]) => i < j) /\ (RoutesTo(trail[j]) => i = j)
  /\ route # <<>> => \E i \in DOMAIN trail : RoutesTo(trail[i])

PlansCompiled ==
  /\ at \in {"compiling"} \cup Planned => route # <<>>
  /\ at \in Planned => CompiledPlans(trail) = route
  /\ (at \in Ending /\ result.status = "executed") =>
       CompiledPlans(trail) = route /\ route # <<>>

\* The answers and the terminal are one event each.
LEMMA EndWriters ==
  ASSUME TraceInv, Answer \/ AnswerRelation \/ Close
  PROVE  \E e : trail' = trail \o <<e>> /\ e.stage \in Outer
<1>1. CASE Answer
  BY <1>1, ProductAnswer DEF Outer
<1>2. CASE AnswerRelation
  <2>1. at = "k_answer" /\ trail' = trail \o <<KnowledgeAnswer>>
    BY <1>2 DEF AnswerRelation, Step
  <2>2. result.status \in {"executed", "failed", "timed_out"} \cup Controls
    BY <2>1 DEF TraceInv, Inv, Placed, Answerable
  <2>3. KnowledgeAnswer.stage = "ANSWER"
    BY <2>2 DEF KnowledgeAnswer, Linking, Event, Controls
  <2> QED
    BY <2>1, <2>3 DEF Outer
<1>3. CASE Close
  BY <1>3, TerminalEvent DEF Outer
<1> QED
  BY <1>1, <1>2, <1>3

\* Only routing routes, and only the compilation compiles.
LEMMA RoutedAndCompiled ==
  ASSUME TraceInv, [Next]_vars
  PROVE  /\ Len(trail) \in Nat /\ DOMAIN trail = 1..Len(trail)
         /\ Len(trail') \in Nat /\ DOMAIN trail' = 1..Len(trail')
         /\ \A i \in DOMAIN trail : i \in DOMAIN trail' /\ trail'[i] = trail[i]
         /\ ~RouteExecute => \A i \in DOMAIN trail' \ DOMAIN trail : ~RoutesTo(trail'[i])
         /\ ~CompilesPlans => \A i \in DOMAIN trail' \ DOMAIN trail : ~Compiles(trail'[i])
<1> USE DEF TraceInv
<1>a. Len(trail) \in Nat /\ DOMAIN trail = 1..Len(trail)
  BY DEF Traced
<1>b. ASSUME Traced' PROVE Len(trail') \in Nat /\ DOMAIN trail' = 1..Len(trail')
  BY <1>b DEF Traced
<1>c. \A e : RoutesTo(e) => e.stage = "ROUTE" /\ e.reason = "routed_execute"
  BY DEF RoutesTo, Key
<1>d. \A e : Compiles(e) => /\ e.stage = "COMPILER"
                            /\ e.reason \in {"plan_compiled", "family_plan_compiled"}
  BY DEF Compiles
<1>1. CASE WritesQuietly
  BY <1>1, <1>a, <1>b, <1>c, <1>d, QuietAppend
<1>2. ASSUME NEW e, trail' = trail \o <<e>>, e.stage \in Outer
      PROVE  /\ Len(trail') \in Nat /\ DOMAIN trail' = 1..Len(trail')
             /\ \A i \in DOMAIN trail : i \in DOMAIN trail' /\ trail'[i] = trail[i]
             /\ \A i \in DOMAIN trail' \ DOMAIN trail : trail'[i] = e
  <2>1. /\ Traced' /\ Len(trail') = Len(trail) + 1
        /\ \A i \in DOMAIN trail' : (i \in DOMAIN trail /\ trail'[i] = trail[i]) \/ trail'[i] = e
    BY <1>2, AnswerAppend
  <2>2. \A i \in DOMAIN trail : trail'[i] = trail[i]
    BY <1>2, OneMore
  <2> QED
    BY <1>a, <1>b, <2>1, <2>2
<1>3. CASE Answer \/ AnswerRelation \/ Close
  <2>1. PICK e : trail' = trail \o <<e>> /\ e.stage \in Outer
    BY <1>3, EndWriters
  <2>2. "ROUTE" \notin Outer /\ "COMPILER" \notin Outer
    BY DEF Outer
  <2> QED
    BY <1>a, <1>2, <1>c, <1>d, <2>1, <2>2
<1>4. CASE UNCHANGED trail
  BY <1>4, <1>a
<1> QED
  BY <1>1, <1>3, <1>4, Writers

\* Where the request can be is never left against the order of its parts, and
\* its route stays.
LEMMA PlacesFollow ==
  ASSUME TraceInv, [Next]_vars, ~RouteExecute, ~CompilesPlans
  PROVE  /\ UNCHANGED route
         /\ at' \in Unplanned => at \in Unplanned
         /\ at' = "compiling" => at = "compiling"
         /\ at' \in Planned => at \in Planned
         /\ at' \in Product => at \in Product
         /\ (at' \in Ending /\ result'.status = "executed") =>
              at \in Planned \/ (at \in Ending /\ result.status = "executed")
<1> USE DEF Unplanned, Planned, Ending, Product
<1>1. CASE ProductStep
  <2>1. ASSUME NEW cause, Raise(cause) PROVE result'.status # "executed"
    BY <2>1 DEF Raise, Failure
  <2>2. ASSUME NEW outcome \in Controls, Control(outcome) PROVE result'.status # "executed"
    BY <2>2 DEF Control, Controls
  <2>3. CASE Enter \/ Guard \/ RouteFails \/ RouteControl
    BY <2>1, <2>2, <2>3 DEF Enter, Guard, RouteFails, RouteControl, Step, Controls
  <2>4. CASE CompileBlocked \/ Check \/ Admit \/ Decline \/ Break
    BY <2>1, <2>2, <2>4 DEF CompileBlocked, Check, Admit, Decline, Break, Step, Controls
  <2>5. CASE Grant
    BY <2>5 DEF Grant, Step
  <2>6. CASE Deny \/ DenyByPolicy
    BY <2>1, <2>2, <2>6 DEF Deny, DenyByPolicy, Step, Controls
  <2>7. ASSUME NEW f \in Family, Work(f)
        PROVE  UNCHANGED <<at, route, result>>
    BY <2>7 DEF Work
  <2>8. CASE Join
    BY <2>1, <2>8 DEF Join, Step
  <2>9. CASE ShowRendered \/ ComposeOne \/ ComposeBatch
    BY <2>9 DEF ShowRendered, ComposeOne, ComposeBatch, Step
  <2>10. ASSUME NEW i \in DOMAIN route, NEW mode \in Modes, ComposeFamily(i, mode)
         PROVE  at = "composing" /\ at' = "composing" /\ UNCHANGED <<route, result>>
    BY <2>10 DEF ComposeFamily, Step
  <2>11. CASE Recheck
    BY <2>11 DEF Recheck, Step, Failure
  <2>12. CASE Answer \/ Close
    BY <2>12 DEF Answer, Close, Step
  <2> QED
    BY <1>1, <2>3, <2>4, <2>5, <2>6, <2>7, <2>8, <2>9, <2>10, <2>11, <2>12
    DEF ProductStep, CompilesPlans
<1>2. CASE KnowledgeStep
  BY <1>2
  DEF KnowledgeStep, EnterRelation, RelationControl, RelationNotActivated, RelationExecute,
      RelationCheck, RelationAuthorize, Lookup, VerifyEvidence, ComposeRelation,
      RelationPostCheck, AnswerRelation, Step, Breaks, ComposeTimesOut, ComposeBreaks, KnowledgeOnly
<1>3. CASE EnvironmentStep \/ UNCHANGED vars
  BY <1>3 DEF EnvironmentStep, Replace, Expire, CallerTimesOut, CallerAborts, vars
<1> QED
  BY <1>1, <1>2, <1>3 DEF Next

LEMMA OrderedInit == Init => Ordered /\ PlansCompiled
<1> SUFFICES ASSUME Init PROVE Ordered /\ PlansCompiled
  OBVIOUS
<1>1. DOMAIN trail = {1} /\ trail[1].stage = "REQUEST"
  BY DEF Init, Plain, Event
<1>2. \A i \in DOMAIN trail : ~RoutesTo(trail[i]) /\ ~Compiles(trail[i])
  BY <1>1 DEF RoutesTo, Compiles, Key
<1> QED
  BY <1>2 DEF Ordered, PlansCompiled, Init, Planned, Ending

LEMMA OrderedStep == ASSUME TraceInv, Ordered, [Next]_vars PROVE Ordered'
<1>a. /\ Len(trail) \in Nat /\ DOMAIN trail = 1..Len(trail)
      /\ Len(trail') \in Nat /\ DOMAIN trail' = 1..Len(trail')
      /\ \A i \in DOMAIN trail : i \in DOMAIN trail' /\ trail'[i] = trail[i]
      /\ ~RouteExecute => \A i \in DOMAIN trail' \ DOMAIN trail : ~RoutesTo(trail'[i])
      /\ ~CompilesPlans => \A i \in DOMAIN trail' \ DOMAIN trail : ~Compiles(trail'[i])
  BY RoutedAndCompiled
<1>1. CASE RouteExecute
  <2> DEFINE e == Event("ROUTE", "SUCCEEDED", "routed_execute", "EXECUTE", <<>>)
  <2>1. at = "routing" /\ at' = "compiling" /\ trail' = trail \o <<e>>
    BY <1>1 DEF RouteExecute, Step
  <2>2. RoutesTo(e) /\ ~Compiles(e)
    BY DEF RoutesTo, Compiles, Key, Event
  <2> HIDE DEF e
  <2>3. \A i \in DOMAIN trail : ~RoutesTo(trail[i]) /\ ~Compiles(trail[i])
    BY <2>1 DEF Ordered, Unplanned
  <2>4. Len(trail') = Len(trail) + 1 /\ trail'[Len(trail) + 1] = e
    BY <2>1, AnswerAppend DEF TraceInv
  <2>5. \A i \in DOMAIN trail' : ~Compiles(trail'[i]) /\ (RoutesTo(trail'[i]) => i = Len(trail) + 1)
    BY <1>a, <2>2, <2>3, <2>4
  <2>6. \E i \in DOMAIN trail' : RoutesTo(trail'[i])
    BY <1>a, <2>2, <2>4
  <2> QED
    BY <2>1, <2>5, <2>6 DEF Ordered, Unplanned
<1>2. CASE CompilesPlans
  <2>1. at = "compiling" /\ at' \notin Unplanned \cup {"compiling"} /\ UNCHANGED route
    BY <1>2 DEF CompilesPlans, Compile, CompileWithoutProposal, Step, Unplanned
  <2>2. \A i \in DOMAIN trail : ~Compiles(trail[i])
    BY <2>1 DEF Ordered
  <2>3. ~RouteExecute
    BY <2>1 DEF RouteExecute, Step
  <2>4. \A i \in DOMAIN trail' : RoutesTo(trail'[i]) => i \in DOMAIN trail /\ RoutesTo(trail[i])
    BY <1>a, <2>3
  <2>5. \A i \in DOMAIN trail' : Compiles(trail'[i]) => i \notin DOMAIN trail
    BY <1>a, <2>2
  <2>6. ASSUME NEW i \in DOMAIN trail', NEW j \in DOMAIN trail', RoutesTo(trail'[i])
        PROVE  (Compiles(trail'[j]) => i < j) /\ (RoutesTo(trail'[j]) => i = j)
    <3>1. i \in 1..Len(trail) /\ RoutesTo(trail[i])
      BY <1>a, <2>4, <2>6
    <3>2. Compiles(trail'[j]) => i < j
      BY <1>a, <2>5, <3>1
    <3>3. RoutesTo(trail'[j]) => i = j
      BY <1>a, <2>4, <3>1 DEF Ordered
    <3> QED
      BY <3>2, <3>3
  <2>7. route' # <<>> => \E i \in DOMAIN trail' : RoutesTo(trail'[i])
    BY <1>a, <2>1 DEF Ordered
  <2> QED
    BY <2>1, <2>6, <2>7 DEF Ordered
<1>3. CASE ~RouteExecute /\ ~CompilesPlans
  <2>1. /\ UNCHANGED route
        /\ at' \in Unplanned => at \in Unplanned
        /\ at' = "compiling" => at = "compiling"
    BY <1>3, PlacesFollow
  <2>2. \A i \in DOMAIN trail' : RoutesTo(trail'[i]) => i \in DOMAIN trail /\ RoutesTo(trail[i])
    BY <1>3, <1>a
  <2>3. \A i \in DOMAIN trail' : Compiles(trail'[i]) => i \in DOMAIN trail /\ Compiles(trail[i])
    BY <1>3, <1>a
  <2>4. route' # <<>> => \E i \in DOMAIN trail' : RoutesTo(trail'[i])
    BY <1>a, <2>1 DEF Ordered
  <2> QED
    BY <2>1, <2>2, <2>3, <2>4 DEF Ordered
<1> QED
  BY <1>1, <1>2, <1>3


\* The compiled plans change by the compilation only.
LEMMA CompiledKept ==
  ASSUME TraceInv, [Next]_vars, ~CompilesPlans
  PROVE  CompiledPlans(trail') = CompiledPlans(trail)
<1> USE DEF TraceInv
<1>a. \A e : Compiles(e) => /\ e.stage = "COMPILER"
                            /\ e.reason \in {"plan_compiled", "family_plan_compiled"}
  BY DEF Compiles
<1>1. ASSUME NEW S, NEW events \in Seq(S), trail' = trail \o events, \A e \in S : ~Compiles(e)
      PROVE  CompiledPlans(trail') = CompiledPlans(trail)
  <2>1. PICK T : trail \in Seq(T)
    BY DEF Traced
  <2>2. trail \in Seq(S \cup T) /\ events \in Seq(S \cup T)
    BY <1>1, <2>1, SeqMonotonic
  <2>3. \A i \in DOMAIN events : ~Compiles(events[i])
    BY <1>1
  <2> QED
    BY <1>1, <2>2, <2>3, CompiledStays
<1>2. CASE WritesQuietly
  <2>1. PICK events : Quiet(events) /\ trail' = trail \o events
    BY <1>2 DEF WritesQuietly
  <2>2. PICK S : events \in Seq(S) /\ \A e \in S : Soft(e)
    BY <2>1 DEF Quiet
  <2>3. \A e \in S : ~Compiles(e)
    BY <2>2, <1>a DEF Soft
  <2> QED
    BY <1>1, <2>1, <2>2, <2>3
<1>3. ASSUME NEW e, trail' = trail \o <<e>>, e.stage \in Outer
      PROVE  CompiledPlans(trail') = CompiledPlans(trail)
  <2> DEFINE S == {e}
  <2>1. <<e>> \in Seq(S) /\ \A x \in S : ~Compiles(x)
    BY <1>3, <1>a DEF Outer
  <2> HIDE DEF S
  <2> QED
    BY <1>1, <1>3, <2>1
<1>4. CASE Answer \/ AnswerRelation \/ Close
  BY <1>3, <1>4, EndWriters
<1>5. CASE UNCHANGED trail
  BY <1>5
<1> QED
  BY <1>2, <1>4, <1>5, Writers

\* A route is one of the lists it may be, and lists every family once.
LEMMA RouteDistinct ==
  ASSUME route \in Routes
  PROVE  /\ route # <<>> /\ route \in Seq(Family) /\ Len(route) \in Nat /\ Len(route) > 0
         /\ DOMAIN route = 1..Len(route)
         /\ \A i, j \in DOMAIN route : route[i] = route[j] => i = j
<1>1. /\ Families \in Seq(Family) /\ Len(Families) \in Nat /\ Len(Families) > 0
      /\ DOMAIN Families = 1..Len(Families)
      /\ \A i, j \in DOMAIN Families : Families[i] = Families[j] => i = j
  BY ValidationAssumption DEF Family, IsInjective
<1>2. /\ SubSeq(Families, 1, 1) \in Seq(Family) /\ Len(SubSeq(Families, 1, 1)) = 1
  BY <1>1
<1>3. route \in Seq(Family) /\ Len(route) > 0
  <2>1. route = Families \/ route = SubSeq(Families, 1, 1)
    BY DEF Routes
  <2>2. CASE route = Families
    BY <1>1, <2>2
  <2>3. CASE route = SubSeq(Families, 1, 1)
    BY <1>2, <2>3
  <2> QED
    BY <2>1, <2>2, <2>3
<1>4. \A i, j \in DOMAIN route : route[i] = route[j] => i = j
  <2>1. CASE route = Families
    BY <1>1, <2>1
  <2>2. CASE route = SubSeq(Families, 1, 1)
    BY <1>2, <2>2
  <2> QED
    BY <2>1, <2>2 DEF Routes
<1> QED
  BY <1>3, <1>4

\* A compilation ends a trail in which nothing was compiled.
LEMMA CompilationEnds ==
  ASSUME TraceInv, Ordered, CompilesPlans
  PROVE  \E U : /\ Compiled \in Seq(U)
                /\ \E t \in Seq(U) : trail' = t \o Compiled /\ CompilesNone(t)
<1>1. CompilesNone(trail)
  BY DEF CompilesPlans, Compile, CompileWithoutProposal, Step, Ordered, CompilesNone
<1>2. PICK T : trail \in Seq(T)
  BY DEF TraceInv, Traced
<1> DEFINE blocked == Blocked("COMPILER", "grounded_plan_rejected")
           Events == {Compiled[j] : j \in DOMAIN route}
           U == T \cup {blocked} \cup Events
<1>3. Compiled \in Seq(Events)
  <2>1. route \in Seq(Family)
    BY RouteFamilies DEF TraceInv, Inv, TypeOK
  <2>2. Compiled \in [1..Len(route) -> Events] /\ Len(route) \in Nat
    BY <2>1 DEF Compiled
  <2> QED
    BY <2>2
<1>4. trail \in Seq(U) /\ Compiled \in Seq(U) /\ blocked \in U
  <2>1. T \subseteq U /\ Events \subseteq U /\ blocked \in U
    OBVIOUS
  <2> HIDE DEF U, Events
  <2> QED
    BY <1>2, <1>3, <2>1, SeqMonotonic
<1>5. ~Compiles(blocked)
  BY DEF Blocked, Compiles, Event
<1> HIDE DEF U, Events, blocked
<1>6. CASE Compile
  <2>1. trail' = trail \o Compiled
    BY <1>6 DEF Compile, Step
  <2> QED
    BY <1>1, <1>4, <2>1, Zenon
<1>7. CASE CompileWithoutProposal
  <2> DEFINE t == trail \o <<blocked>>
  <2>1. trail' = trail \o (<<blocked>> \o Compiled)
    BY <1>7 DEF CompileWithoutProposal, Step, blocked
  <2>2. <<blocked>> \in Seq(U)
    BY <1>4
  <2>3. trail' = t \o Compiled
    BY <1>4, <2>1, <2>2, ConcatAssociative
  <2>4. /\ t \in Seq(U)
        /\ \A i \in DOMAIN t : (i \in DOMAIN trail /\ t[i] = trail[i]) \/ t[i] = blocked
    <3>1. Len(<<blocked>>) = 1 /\ DOMAIN <<blocked>> = {1} /\ <<blocked>>[1] = blocked
      OBVIOUS
    <3> QED
      BY <1>4, <2>2, <3>1, Joined2
  <2>5. CompilesNone(t)
    BY <1>1, <1>5, <2>4 DEF CompilesNone
  <2> HIDE DEF t
  <2> QED
    BY <1>4, <2>3, <2>4, <2>5, Zenon
<1> QED
  BY <1>6, <1>7 DEF CompilesPlans

\* It compiles the plans of the route, in order.
LEMMA CompiledRoute ==
  ASSUME route \in Routes, NEW U, Compiled \in Seq(U) PROVE CompilesEach(Compiled, route)
<1>1. DOMAIN Compiled = DOMAIN route
  BY DEF Compiled
<1>2. Len(route) = Len(Compiled)
  BY <1>1, RouteDistinct
<1>3. \A i \in DOMAIN Compiled : Compiles(Compiled[i]) /\ Compiled[i].plans[1] = route[i]
  BY DEF Compiled, Compiles, Event
<1> QED
  BY <1>2, <1>3, RouteDistinct DEF CompilesEach

LEMMA CompilesRoute ==
  ASSUME TraceInv, Ordered, PlansCompiled, CompilesPlans
  PROVE  CompiledPlans(trail') = route
<1>1. route \in Routes
  BY DEF CompilesPlans, Compile, CompileWithoutProposal, Step, TraceInv, Inv, TypeOK,
         PlansCompiled
<1>2. PICK U : /\ Compiled \in Seq(U)
               /\ \E t \in Seq(U) : trail' = t \o Compiled /\ CompilesNone(t)
  BY CompilationEnds
<1>3. PICK t \in Seq(U) : trail' = t \o Compiled /\ CompilesNone(t)
  BY <1>2
<1>4. CompiledPlans(t \o Compiled) = route
  BY <1>1, <1>2, <1>3, RouteDistinct, CompiledRoute, CompiledOf
<1> QED
  BY <1>3, <1>4

LEMMA PlansCompiledStep ==
  ASSUME TraceInv, Ordered, PlansCompiled, [Next]_vars PROVE PlansCompiled'
<1>1. CASE RouteExecute
  <2>1. at' = "compiling" /\ route' \in Routes
    BY <1>1 DEF RouteExecute, Step
  <2>2. route' # <<>>
    <3>1. \A r \in Routes : r # <<>>
      <4>1. Len(Families) > 0 /\ Families \in Seq(Family) /\ SubSeq(Families, 1, 1) # <<>>
        BY ValidationAssumption DEF Family
      <4> QED
        BY <4>1 DEF Routes
    <3> QED
      BY <2>1, <3>1
  <2> QED
    BY <2>1, <2>2 DEF PlansCompiled, Planned, Ending
<1>2. CASE CompilesPlans
  <2>1. /\ at = "compiling" /\ UNCHANGED route /\ at' \notin Ending
    BY <1>2 DEF CompilesPlans, Compile, CompileWithoutProposal, Step, Ending
  <2>2. route # <<>> /\ CompiledPlans(trail') = route
    BY <1>2, <2>1, CompilesRoute DEF PlansCompiled
  <2> QED
    BY <2>1, <2>2 DEF PlansCompiled
<1>3. CASE ~RouteExecute /\ ~CompilesPlans
  <2>1. /\ UNCHANGED route
        /\ at' = "compiling" => at = "compiling"
        /\ at' \in Planned => at \in Planned
        /\ (at' \in Ending /\ result'.status = "executed") =>
              at \in Planned \/ (at \in Ending /\ result.status = "executed")
    BY <1>3, PlacesFollow
  <2>2. CompiledPlans(trail') = CompiledPlans(trail)
    BY <1>3, CompiledKept
  <2> QED
    BY <2>1, <2>2 DEF PlansCompiled
<1> QED
  BY <1>1, <1>2, <1>3


-----------------------------------------------------------------------------
\* Every stage executed for a plan names a plan of the route, but for the
\* verification of a cross-family answer.
LinkedStages == {"AUTHORITY", "SQL", "ORACLE", "VERIFIER", "RENDERER"}
Counted(e) == e.stage \in LinkedStages /\ e.outcome = "SUCCEEDED" /\ e.disposition = "EXECUTE"
FitsPlans(e, plans) ==
  Counted(e) => (\E p \in plans : e.plans = <<p>>) \/ e.reason = "cross_composition_verified"
Fits(e) == FitsPlans(e, Routed)
LinkedToRoute == at \in Product => \A i \in DOMAIN trail : Fits(trail[i])
AddsFitting == \E S : Adds(S) /\ \A e \in S : Fits(e)

\* What a search is under way or done for is a family of the route.
LEMMA AtWork ==
  ASSUME Inv, NEW f \in Family, worker[f] # "idle" PROVE f \in Routed /\ granted = Len(route)
  BY DEF Inv, AllOrNone

LEMMA ProductFits ==
  ASSUME TraceInv, PlansCompiled, ProductStep, ~RouteExecute PROVE AddsFitting
<1>a. Traced
  BY DEF TraceInv
<1>b. ASSUME NEW S, Adds(S), \A e \in S : Fits(e) PROVE AddsFitting
  BY <1>b DEF AddsFitting
<1>c. ASSUME NEW here, NEW there, Step(here, there, <<>>) PROVE AddsFitting
  BY <1>c, <1>a, StepAddsNone, <1>b
<1>d. ASSUME NEW here, NEW there, NEW e, Step(here, there, <<e>>), Fits(e) PROVE AddsFitting
  BY <1>d, <1>a, StepAddsOne, <1>b
<1>e. ASSUME NEW here, NEW there, NEW e, NEW f, Step(here, there, <<e, f>>), Fits(e), Fits(f)
      PROVE  AddsFitting
  <2>1. Adds({e, f})
    BY <1>e, <1>a, StepAddsTwo
  <2>2. \A x \in {e, f} : Fits(x)
    BY <1>e
  <2> QED
    BY <2>1, <2>2, <1>b
<1>f. ASSUME NEW e, e.stage \notin LinkedStages \/ e.outcome # "SUCCEEDED" \/ e.disposition # "EXECUTE"
      PROVE  Fits(e)
  BY <1>f DEF Fits, FitsPlans, Counted
<1>g. ASSUME NEW stage, NEW outcome, NEW reason, NEW disposition, NEW plans
      PROVE  /\ Event(stage, outcome, reason, disposition, plans).stage = stage
             /\ Event(stage, outcome, reason, disposition, plans).outcome = outcome
             /\ Event(stage, outcome, reason, disposition, plans).reason = reason
             /\ Event(stage, outcome, reason, disposition, plans).disposition = disposition
             /\ Event(stage, outcome, reason, disposition, plans).plans = plans
  BY DEF Event
<1>h. ASSUME NEW stage, NEW outcome, NEW reason PROVE Fits(Plain(stage, outcome, reason))
  BY <1>f, <1>g DEF Plain
<1>i. ASSUME NEW stage, NEW outcome, NEW reason, NEW disposition, NEW plans,
             stage \notin LinkedStages \/ outcome # "SUCCEEDED" \/ disposition # "EXECUTE"
      PROVE  Fits(Event(stage, outcome, reason, disposition, plans))
  BY <1>f, <1>g, <1>i
<1>j. ASSUME NEW stage, NEW outcome, NEW reason, NEW f \in Routed PROVE Fits(Of(f, stage, outcome, reason))
  BY <1>g DEF Of, Fits, FitsPlans
<1>1. CASE Enter \/ Guard \/ Admit \/ Decline \/ Break \/ Join \/ ShowRendered \/ Recheck
  BY <1>1, <1>c DEF Enter, Guard, Admit, Decline, Break, Join, ShowRendered, Recheck
<1>2. CASE RouteFails
  BY <1>2, <1>d, <1>h DEF RouteFails
<1>3. CASE RouteControl
  BY <1>3, <1>d, <1>i DEF RouteControl
<1>4. CASE Compile \/ CompileWithoutProposal
  <2> DEFINE C == {Compiled[i] : i \in DOMAIN route} \cup {Blocked("COMPILER", "grounded_plan_rejected")}
  <2>1. \A e \in C : Fits(e)
    BY <1>f DEF Compiled, Blocked, Event, LinkedStages
  <2>2. Compiled \in Seq(C)
    <3>1. route \in Seq(Family)
      BY RouteFamilies DEF TraceInv, Inv, TypeOK
    <3>2. Compiled \in [1..Len(route) -> C] /\ Len(route) \in Nat
      BY <3>1 DEF Compiled
    <3> QED
      BY <3>2
  <2>3. <<Blocked("COMPILER", "grounded_plan_rejected")>> \o Compiled \in Seq(C)
    <3>1. <<Blocked("COMPILER", "grounded_plan_rejected")>> \in Seq(C)
      OBVIOUS
    <3> QED
      BY <2>2, <3>1
  <2> HIDE DEF C
  <2>4. Adds(C)
    BY <1>4, <1>a, <2>2, <2>3, Wrote DEF Compile, CompileWithoutProposal, Step
  <2> QED
    BY <1>b, <2>1, <2>4
<1>5. CASE CompileBlocked
  BY <1>5, <1>d, <1>i DEF CompileBlocked, Blocked
<1>6. CASE Check
  BY <1>6, <1>c, <1>d, <1>i DEF Check
<1>7. CASE Grant
  <2>1. Pending \in Routed
    <3>1. granted < Len(route) /\ granted \in Nat /\ route \in Seq(Family)
      BY <1>7, RouteFamilies DEF Grant, TraceInv, Inv, TypeOK
    <3>2. granted + 1 \in DOMAIN route
      BY <3>1
    <3> QED
      BY <3>2 DEF Pending, Range, Routed
  <2>2. Fits(Event("AUTHORITY", "SUCCEEDED", "authority_granted", "EXECUTE", <<Pending>>))
    BY <2>1, <1>j DEF Of
  <2> QED
    BY <1>7, <1>e, <1>h, <2>2 DEF Grant, Opened
<1>8. CASE Deny \/ DenyByPolicy
  <2>1. \A cause : Fits(Refused(cause))
    BY <1>i DEF Refused
  <2>2. Fits(Opened)
    BY <1>h DEF Opened
  <2>3. CASE DenyByPolicy
    BY <2>1, <2>3, <1>d DEF DenyByPolicy
  <2>4. CASE Deny
    <3>1. PICK cause \in {"late", "retryable", "fatal"}, opened \in {<<>>, <<Opened>>} :
            trail' = trail \o (opened \o <<Refused(cause)>>)
      <4>1. PICK cause \in {"late", "retryable", "fatal"}, opened \in {<<>>, <<Opened>>} :
              Step("authorizing", "recheck", opened \o <<Refused(cause)>>)
        BY <2>4 DEF Deny
      <4>2. trail' = trail \o (opened \o <<Refused(cause)>>)
        BY <4>1 DEF Step
      <4> QED
        BY <4>1, <4>2
    <3> DEFINE r == Refused(cause)
               o == Opened
               S == {o, r}
    <3>2. opened \in Seq(S) /\ <<r>> \in Seq(S)
      <4> HIDE DEF r
      <4>1. <<>> \in Seq(S) /\ <<o>> \in Seq(S) /\ <<r>> \in Seq(S)
        <5> HIDE DEF o
        <5> QED
          OBVIOUS
      <4> QED
        BY <3>1, <4>1
    <3>3. opened \o <<Refused(cause)>> \in Seq(S) /\ \A e \in S : Fits(e)
      BY <2>1, <2>2, <3>2
    <3> HIDE DEF S
    <3> QED
      BY <1>a, <1>b, <3>1, <3>3, Wrote
  <2> QED
    BY <1>8, <2>3, <2>4
<1>9. ASSUME NEW f \in Family, Work(f) PROVE AddsFitting
  <2>1. worker[f] \in Working /\ f \in Routed
    BY <1>9, AtWork DEF Work, TraceInv, Working
  <2>2. \A stage \in Working :
          \A e \in Range(StageEvents(f, stage)) \cup Range(FailureEvents(f, stage)) : Fits(e)
    <3>1. \A x, y, z : Range(<<x>>) = {x} /\ Range(<<x, y>>) = {x, y} /\ Range(<<x, y, z>>) = {x, y, z}
      BY DEF Range
    <3> QED
      BY <1>h, <1>j, <2>1, <3>1 DEF StageEvents, FailureEvents, Working
  <2>3. \A stage \in Working : /\ StageEvents(f, stage) \in Seq(Range(StageEvents(f, stage)))
                               /\ FailureEvents(f, stage) \in Seq(Range(FailureEvents(f, stage)))
    <3>1. \A x, y, z : /\ <<x>> \in Seq(Range(<<x>>)) /\ <<x, y>> \in Seq(Range(<<x, y>>))
                       /\ <<x, y, z>> \in Seq(Range(<<x, y, z>>))
      BY DEF Range
    <3> QED
      BY <3>1 DEF StageEvents, FailureEvents, Working
  <2>4. PICK events \in {StageEvents(f, worker[f]), FailureEvents(f, worker[f])} :
          trail' = trail \o events
    BY <1>9 DEF Work
  <2> DEFINE S == Range(events)
  <2>5. events \in Seq(S) /\ \A e \in S : Fits(e)
    BY <2>1, <2>2, <2>3, <2>4
  <2> HIDE DEF S
  <2> QED
    BY <1>a, <1>b, <2>4, <2>5, Wrote
<1>k. ASSUME NEW here, NEW there, NEW f \in Routed, NEW mode \in Modes,
             Step(here, there, CompositionEvents(f, mode))
      PROVE  AddsFitting
  BY <1>k, <1>c, <1>d, <1>j DEF CompositionEvents, Modes
<1>10. CASE ComposeOne
  <2>1. route[1] \in Routed
    <3>1. route # <<>> /\ route \in Seq(Family)
      BY <1>10, RouteFamilies DEF ComposeOne, Step, PlansCompiled, Planned, TraceInv, Inv, TypeOK
    <3>2. 1 \in DOMAIN route
      BY <3>1
    <3> QED
      BY <3>2 DEF Range, Routed
  <2> QED
    BY <1>10, <1>k, <2>1 DEF ComposeOne
<1>11. ASSUME NEW i \in DOMAIN route, NEW mode \in Modes, ComposeFamily(i, mode) PROVE AddsFitting
  <2>1. route[i] \in Routed
    BY DEF Range, Routed
  <2> QED
    BY <1>11, <1>k, <2>1 DEF ComposeFamily
<1>12. CASE ComposeBatch
  <2>1. \A passed \in BOOLEAN : Fits(CrossEvent(passed))
    BY <1>g, <1>i DEF CrossEvent, Fits, FitsPlans
  <2>2. \A isolated \in BOOLEAN : CrossVerified(isolated) \in BOOLEAN
    BY DEF CrossVerified
  <2> QED
    BY <1>12, <1>d, <2>1, <2>2 DEF ComposeBatch
<1>13. CASE Answer
  BY <1>13, <1>d, <1>i DEF Answer, LinkedStages
<1>14. CASE Close
  BY <1>14, <1>d, <1>h DEF Close
<1> QED
  BY <1>1, <1>2, <1>3, <1>4, <1>5, <1>6, <1>7, <1>8, <1>9, <1>10, <1>11, <1>12, <1>13, <1>14
  DEF ProductStep

LEMMA LinkedToRouteStep ==
  ASSUME TraceInv, Ordered, PlansCompiled, LinkedToRoute, [Next]_vars PROVE LinkedToRoute'
<1> SUFFICES ASSUME at' \in Product PROVE \A i \in DOMAIN trail' : FitsPlans(trail'[i], Routed')
  BY DEF LinkedToRoute, Fits
<1>a. ASSUME AddsFitting, at \in Product, UNCHANGED route
      PROVE  \A i \in DOMAIN trail' : FitsPlans(trail'[i], Routed')
  <2>1. Routed' = Routed
    BY <1>a DEF Routed
  <2>2. PICK S : Adds(S) /\ \A e \in S : FitsPlans(e, Routed)
    BY <1>a DEF AddsFitting, Fits
  <2>3. \A i \in DOMAIN trail : FitsPlans(trail[i], Routed)
    BY <1>a DEF LinkedToRoute, Fits
  <2>4. \A i \in DOMAIN trail' : FitsPlans(trail'[i], Routed)
    BY <2>2, <2>3 DEF Adds
  <2> QED
    BY <2>1, <2>4
<1>1. CASE RouteExecute
  <2> DEFINE e == Event("ROUTE", "SUCCEEDED", "routed_execute", "EXECUTE", <<>>)
  <2>1. at = "routing" /\ Adds({e})
    BY <1>1, StepAddsOne DEF RouteExecute, Step, TraceInv
  <2>2. Routed = {}
    BY <2>1 DEF TraceInv, Inv, Placed, Unrouted, Early, Range, Routed
  <2>3. ASSUME NEW x, FitsPlans(x, {}) PROVE FitsPlans(x, Routed')
    BY <2>3 DEF FitsPlans
  <2>4. FitsPlans(e, Routed')
    BY DEF FitsPlans, Counted, Event, LinkedStages
  <2> HIDE DEF e
  <2>5. \A i \in DOMAIN trail : FitsPlans(trail[i], {})
    BY <2>1, <2>2 DEF LinkedToRoute, Product, Unplanned, Fits
  <2> QED
    BY <2>1, <2>3, <2>4, <2>5 DEF Adds
<1>2. CASE ProductStep /\ ~RouteExecute
  <2>1. AddsFitting
    BY <1>2, ProductFits
  <2>2. at \in Product /\ UNCHANGED route
    <3>1. CASE CompilesPlans
      BY <3>1 DEF CompilesPlans, Compile, CompileWithoutProposal, Step, Product
    <3>2. CASE ~CompilesPlans
      BY <1>2, <3>2, PlacesFollow
    <3> QED
      BY <3>1, <3>2
  <2> QED
    BY <1>a, <2>1, <2>2
<1>3. CASE KnowledgeStep
  <2>1. at' \notin Product
    BY <1>3
    DEF KnowledgeStep, EnterRelation, RelationControl, RelationNotActivated, RelationExecute,
        RelationCheck, RelationAuthorize, Lookup, VerifyEvidence, ComposeRelation,
        RelationPostCheck, AnswerRelation, Step, Breaks, ComposeTimesOut, ComposeBreaks, Product,
        Unplanned, Planned, Ending
  <2> QED
    BY <2>1
<1>4. CASE EnvironmentStep \/ UNCHANGED vars
  <2>1. UNCHANGED <<at, route, trail>>
    BY <1>4 DEF EnvironmentStep, Replace, Expire, CallerTimesOut, CallerAborts, vars
  <2>2. Routed' = Routed
    BY <2>1 DEF Routed
  <2> QED
    BY <2>1, <2>2 DEF LinkedToRoute, Fits
<1> QED
  BY <1>1, <1>2, <1>3, <1>4 DEF Next


-----------------------------------------------------------------------------
(***************************************************************************)
(* Which stages of a plan are in the trail: its compilation from then on,  *)
(* its authority once it is granted, and those its search has left behind. *)
(***************************************************************************)
Reached == [search |-> 1, verify |-> 3, render |-> 4, done |-> 5]

\* Of the chain of a plan, its first n stages are in the trail.
Behind(plan, n) == Marks(trail, plan, n, Len(trail))

Staged ==
  /\ at \in Planned => \A i \in DOMAIN route : Behind(route[i], 0)
  /\ \A i \in DOMAIN route : i <= granted => Behind(route[i], 1)
  /\ \A f \in Family : worker[f] \in DOMAIN Reached => Behind(f, Reached[worker[f]])

\* A later end of the same chain
LEMMA MarksLater ==
  ASSUME NEW t, DOMAIN t \subseteq Nat, NEW plan, NEW n \in Nat, NEW end \in Nat,
         NEW later \in Nat, end <= later, Marks(t, plan, n, end)
  PROVE  Marks(t, plan, n, later)
<1>1. PICK pos : Marked(t, plan, n, pos) /\ pos[n] <= end
  BY DEF Marks
<1>2. pos[n] \in Nat
  BY <1>1 DEF Marked
<1>3. pos[n] <= later
  BY <1>1, <1>2
<1> QED
  BY <1>1, <1>3 DEF Marks

\* A compilation is a chain without stages.
LEMMA MarksStart ==
  ASSUME NEW t, NEW k \in DOMAIN t, NEW plan, NEW end, k <= end, Compiles(t[k]), t[k].plans[1] = plan
  PROVE  Marks(t, plan, 0, end)
<1> DEFINE pos == [x \in 0..0 |-> k]
<1>1. pos \in [0..0 -> DOMAIN t] /\ pos[0] = k
  OBVIOUS
<1> HIDE DEF pos
<1>2. Marked(t, plan, 0, pos)
  BY <1>1 DEF Marked
<1> QED
  BY <1>1, <1>2 DEF Marks

\* What is behind stays behind.
LEMMA BehindKept ==
  ASSUME TraceInv, [Next]_vars
  PROVE  /\ Len(trail) \in Nat /\ Len(trail') \in Nat /\ Len(trail) <= Len(trail')
         /\ DOMAIN trail' = 1..Len(trail')
         /\ \A plan : \A n \in Nat : Behind(plan, n) =>
              Marks(trail', plan, n, Len(trail)) /\ Marks(trail', plan, n, Len(trail'))
<1>1. /\ Len(trail) \in Nat /\ DOMAIN trail = 1..Len(trail)
      /\ Len(trail') \in Nat /\ DOMAIN trail' = 1..Len(trail')
      /\ \A i \in DOMAIN trail : i \in DOMAIN trail' /\ trail'[i] = trail[i]
  BY RoutedAndCompiled
<1>2. Len(trail) <= Len(trail')
  <2>1. CASE Len(trail) = 0
    BY <1>1, <2>1
  <2>2. CASE Len(trail) # 0
    <3>1. Len(trail) \in DOMAIN trail
      BY <1>1, <2>2
    <3>2. Len(trail) \in 1..Len(trail')
      BY <1>1, <3>1
    <3> QED
      BY <1>1, <3>2
  <2> QED
    BY <2>1, <2>2
<1>3. ASSUME NEW plan, NEW n \in Nat, Behind(plan, n)
      PROVE  Marks(trail', plan, n, Len(trail)) /\ Marks(trail', plan, n, Len(trail'))
  <2>1. Marks(trail', plan, n, Len(trail))
    BY <1>1, <1>3, MarksStay DEF Behind
  <2>2. DOMAIN trail' \subseteq Nat
    BY <1>1
  <2> QED
    BY <1>1, <1>2, <2>1, <2>2, MarksLater
<1> QED
  BY <1>1, <1>2, <1>3

\* The next stage of a chain is written.
LEMMA BehindGrown ==
  ASSUME NEW t, Len(t) \in Nat, DOMAIN t = 1..Len(t), NEW plan, NEW n \in Nat, NEW end \in Nat,
         Marks(t, plan, n, end), NEW j \in DOMAIN t, end < j,
         Key(t[j]) = RequiredStages[n + 1], t[j].plans = <<plan>>
  PROVE  Marks(t, plan, n + 1, j) /\ Marks(t, plan, n + 1, Len(t))
<1>1. DOMAIN t \subseteq Nat /\ j \in Nat /\ j <= Len(t)
  OBVIOUS
<1>2. Marks(t, plan, n + 1, j)
  BY <1>1, MarksGrow
<1> QED
  BY <1>1, <1>2, MarksLater

\* A compilation puts every plan of the route behind.
LEMMA CompilationBehind ==
  ASSUME TraceInv, Ordered, PlansCompiled, CompilesPlans, [Next]_vars
  PROVE  \A i \in DOMAIN route : Marks(trail', route[i], 0, Len(trail'))
<1>1. route \in Routes
  BY DEF CompilesPlans, Compile, CompileWithoutProposal, Step, TraceInv, Inv, TypeOK,
         PlansCompiled
<1>2. PICK U : /\ Compiled \in Seq(U)
               /\ \E t \in Seq(U) : trail' = t \o Compiled /\ CompilesNone(t)
  BY CompilationEnds
<1>3. PICK t \in Seq(U) : trail' = t \o Compiled
  BY <1>2
<1>4. /\ Len(t) \in Nat /\ DOMAIN trail' = 1..Len(trail')
      /\ Len(trail') = Len(t) + Len(Compiled) /\ Len(Compiled) \in Nat
      /\ \A i \in 1..Len(Compiled) : trail'[Len(t) + i] = Compiled[i]
  BY <1>2, <1>3, Joined2
<1>5. CompilesEach(Compiled, route)
  BY <1>1, <1>2, CompiledRoute
<1> SUFFICES ASSUME NEW i \in DOMAIN route PROVE Marks(trail', route[i], 0, Len(trail'))
  OBVIOUS
<1>6. i \in 1..Len(Compiled) /\ i \in DOMAIN Compiled
  BY <1>1, <1>5, RouteDistinct DEF CompilesEach, Compiled
<1>7. /\ Len(t) + i \in DOMAIN trail' /\ Len(t) + i <= Len(trail')
      /\ trail'[Len(t) + i] = Compiled[i]
  BY <1>4, <1>6
<1>8. Compiles(Compiled[i]) /\ Compiled[i].plans[1] = route[i]
  BY <1>5, <1>6 DEF CompilesEach
<1> DEFINE k == Len(t) + i
           u == trail'
<1>9. k \in DOMAIN u /\ k <= Len(u) /\ Compiles(u[k]) /\ u[k].plans[1] = route[i]
  BY <1>7, <1>8
<1> HIDE DEF k, u
<1>10. Marks(u, route[i], 0, Len(u))
  BY <1>9, MarksStart
<1> QED
  BY <1>10 DEF u


\* Who grants and who searches
LEMMA GatesKept ==
  ASSUME Next \/ UNCHANGED vars, ~Grant, \A f \in Family : ~Work(f)
  PROVE  UNCHANGED <<granted, worker>>
<1>1. CASE ProductStep
  BY <1>1
  DEF ProductStep, Enter, Guard, RouteFails, RouteControl, RouteExecute, Compile,
      CompileWithoutProposal, CompileBlocked, Check, Admit, Decline, Break, Deny, DenyByPolicy,
      Join, ShowRendered, ComposeOne, ComposeFamily, ComposeBatch, Recheck, Answer, Close,
      searches
<1>2. CASE KnowledgeStep
  BY <1>2
  DEF KnowledgeStep, EnterRelation, RelationControl, RelationNotActivated, RelationExecute,
      RelationCheck, RelationAuthorize, Lookup, VerifyEvidence, ComposeRelation,
      RelationPostCheck, AnswerRelation, KnowledgeOnly, searches
<1>3. CASE EnvironmentStep \/ UNCHANGED vars
  BY <1>3 DEF EnvironmentStep, Replace, Expire, CallerTimesOut, CallerAborts, vars, searches
<1> QED
  BY <1>1, <1>2, <1>3 DEF Next

\* Where the events of a step are
LEMMA WrittenAt ==
  ASSUME Traced, NEW S, NEW events \in Seq(S), trail' = trail \o events
  PROVE  /\ Len(trail) \in Nat /\ Len(trail') = Len(trail) + Len(events)
         /\ DOMAIN trail' = 1..Len(trail')
         /\ \A i \in 1..Len(events) : trail'[Len(trail) + i] = events[i]
<1>1. PICK T : trail \in Seq(T)
  BY DEF Traced
<1> DEFINE U == S \cup T
<1>2. trail \in Seq(U) /\ events \in Seq(U)
  BY <1>1, SeqMonotonic
<1> HIDE DEF U
<1>3. Len(trail) \in Nat /\ trail' \in Seq(U)
  BY <1>2
<1>4. Len(trail') = Len(trail) + Len(events)
  BY <1>2, Joined2
<1>5. DOMAIN trail' = 1..Len(trail')
  BY <1>3
<1>6. \A i \in 1..Len(events) : trail'[Len(trail) + i] = events[i]
  BY <1>2, Joined2
<1> QED
  BY <1>3, <1>4, <1>5, <1>6

LEMMA ReachedStages ==
  /\ DOMAIN Reached = {"search", "verify", "render", "done"}
  /\ Reached["search"] = 1 /\ Reached["verify"] = 3 /\ Reached["render"] = 4 /\ Reached["done"] = 5
  /\ \A w \in DOMAIN Reached : Reached[w] \in Nat
  BY DEF Reached

\* The authority of the next plan is granted.
LEMMA GrantBehind ==
  ASSUME TraceInv, Staged, Grant, [Next]_vars
  PROVE  \A i \in DOMAIN route : i <= granted' => Marks(trail', route[i], 1, Len(trail'))
<1> DEFINE opened == Opened
           granting == Event("AUTHORITY", "SUCCEEDED", "authority_granted", "EXECUTE", <<Pending>>)
           u == trail'
           n == Len(trail)
<1>1. /\ at = "authorizing" /\ granted' = granted + 1 /\ granted < Len(route)
      /\ u = trail \o <<opened, granting>>
  BY DEF Grant, Step
<1>2. granted \in Nat /\ DOMAIN route = 1..Len(route) /\ Len(route) \in Nat
  BY RouteFamilies DEF TraceInv, Inv, TypeOK
<1>3. /\ Key(granting) = RequiredStages[1] /\ granting.plans = <<Pending>>
  BY DEF Key, Event, RequiredStages
<1> HIDE DEF opened, granting
<1>5. n \in Nat /\ DOMAIN u = 1..Len(u) /\ Len(u) = n + 2 /\ u[n + 2] = granting
  <2> DEFINE U == {opened, granting}
             w == <<opened, granting>>
  <2>1. w \in Seq(U) /\ Len(w) = 2 /\ w[2] = granting /\ 2 \in 1..Len(w) /\ trail' = trail \o w
    BY <1>1
  <2> HIDE DEF U, w
  <2> QED
    BY <2>1, WrittenAt DEF TraceInv
<1>6. ASSUME NEW i \in DOMAIN route, i <= granted PROVE Marks(u, route[i], 1, Len(u))
  BY <1>6, BehindKept DEF Staged
<1>7. Marks(u, Pending, 0, n)
  <2>1. Behind(Pending, 0)
    BY <1>1, <1>2 DEF Staged, Planned, Pending
  <2> QED
    BY <2>1, BehindKept
<1> DEFINE j == n + 2
<1>8. j \in DOMAIN u /\ n < j /\ Len(u) \in Nat
  BY <1>5
<1>9. Key(u[j]) = RequiredStages[0 + 1] /\ u[j].plans = <<Pending>>
  BY <1>3, <1>5
<1> HIDE DEF u, n, j
<1>10. Marks(u, Pending, 0 + 1, Len(u))
  BY <1>5, <1>7, <1>8, <1>9, BehindGrown
<1>11. ASSUME NEW i \in DOMAIN route, i <= granted', ~(i <= granted)
       PROVE  route[i] = Pending
  BY <1>1, <1>2, <1>11 DEF Pending
<1> QED
  BY <1>6, <1>10, <1>11 DEF u

LEMMA GrantStaged == ASSUME TraceInv, PlansCompiled, Staged, Grant, [Next]_vars PROVE Staged'
<1>1. /\ at \in Planned /\ UNCHANGED route /\ granted' = granted + 1
      /\ worker' = [f \in Family |-> Started(f)]
  BY DEF Grant, Step, Planned
<1>2. \A i \in DOMAIN route : i <= granted' => Marks(trail', route[i], 1, Len(trail'))
  BY GrantBehind
<1>3. \A i \in DOMAIN route : Marks(trail', route[i], 0, Len(trail'))
  BY <1>1, BehindKept DEF Staged
<1>4. ASSUME NEW f \in Family, worker'[f] \in DOMAIN Reached
      PROVE  Marks(trail', f, Reached[worker'[f]], Len(trail'))
  <2>1. worker'[f] = Started(f)
    BY <1>1
  <2>2. CASE AllGranted /\ f \in Routed /\ worker[f] = "idle"
    <3>1. PICK i \in DOMAIN route : route[i] = f
      BY <2>2 DEF Routed, Range
    <3>2. i <= granted'
      BY <2>2, RouteFamilies DEF AllGranted, TraceInv, Inv, TypeOK
    <3> QED
      BY <1>2, <2>1, <2>2, <3>1, <3>2, ReachedStages DEF Started
  <2>3. CASE ~(AllGranted /\ f \in Routed /\ worker[f] = "idle")
    <3>1. worker'[f] = worker[f]
      BY <2>1, <2>3 DEF Started
    <3> QED
      BY <1>4, <3>1, BehindKept, ReachedStages DEF Staged
  <2> QED
    BY <2>2, <2>3
<1> QED
  BY <1>1, <1>2, <1>3, <1>4 DEF Staged, Behind

\* A stage of a search is left behind.
LEMMA WorkBehind ==
  ASSUME TraceInv, Staged, [Next]_vars, NEW f \in Family, worker[f] \in Working,
         trail' = trail \o StageEvents(f, worker[f])
  PROVE  Marks(trail', f, Reached[After(worker[f])], Len(trail'))
<1> DEFINE u == trail'
           n == Len(trail)
<1>1. Marks(u, f, Reached[worker[f]], n)
  <2>1. worker[f] \in DOMAIN Reached
    BY ReachedStages DEF Working
  <2>2. Behind(f, Reached[worker[f]]) /\ Reached[worker[f]] \in Nat
    BY <2>1, ReachedStages DEF Staged
  <2> QED
    BY <2>2, BehindKept
<1>3. ASSUME NEW e, u = trail \o <<e>>
      PROVE  n \in Nat /\ Len(u) = n + 1 /\ DOMAIN u = 1..Len(u) /\ u[n + 1] = e
  <2> DEFINE U == {e}
             w == <<e>>
  <2>1. w \in Seq(U) /\ Len(w) = 1 /\ w[1] = e /\ 1 \in 1..Len(w) /\ trail' = trail \o w
    BY <1>3
  <2> HIDE DEF U, w
  <2> QED
    BY <2>1, WrittenAt DEF TraceInv
<1>4. ASSUME NEW d, NEW e, NEW g, u = trail \o <<d, e, g>>
      PROVE  /\ n \in Nat /\ Len(u) = n + 3 /\ DOMAIN u = 1..Len(u)
             /\ u[n + 2] = e /\ u[n + 3] = g
  <2> DEFINE U == {d, e, g}
             w == <<d, e, g>>
  <2>1. /\ w \in Seq(U) /\ Len(w) = 3 /\ w[2] = e /\ w[3] = g
        /\ 2 \in 1..Len(w) /\ 3 \in 1..Len(w) /\ trail' = trail \o w
    BY <1>4
  <2> HIDE DEF U, w
  <2> QED
    BY <2>1, WrittenAt DEF TraceInv
<1>5. ASSUME NEW outcome, NEW stage, NEW reason
      PROVE  /\ Key(Of(f, stage, outcome, reason)) = <<stage, outcome, reason>>
             /\ Of(f, stage, outcome, reason).plans = <<f>>
  BY DEF Of, Event, Key
<1>6. u = trail \o StageEvents(f, worker[f])
  OBVIOUS
<1> HIDE DEF u
<1>7. CASE worker[f] = "search"
  <2> DEFINE d == Plain("SQL", "SUCCEEDED", "oracle_connection_opened")
             e == Of(f, "SQL", "SUCCEEDED", "parameterized_statement_completed")
             g == Of(f, "ORACLE", "SUCCEEDED", "oracle_completed")
  <2>1. u = trail \o <<d, e, g>>
    BY <1>6, <1>7 DEF StageEvents
  <2>2. /\ Key(e) = RequiredStages[1 + 1] /\ e.plans = <<f>>
        /\ Key(g) = RequiredStages[2 + 1] /\ g.plans = <<f>>
    BY <1>5 DEF RequiredStages
  <2> HIDE DEF d, e, g
  <2>3. /\ n \in Nat /\ Len(u) = n + 3 /\ DOMAIN u = 1..Len(u)
        /\ u[n + 2] = e /\ u[n + 3] = g
    BY <1>4, <2>1
  <2>4. Marks(u, f, 1, n)
    BY <1>1, <1>7, ReachedStages
  <2> DEFINE i == n + 2
             j == n + 3
  <2>5. /\ n < i /\ i < j /\ i \in DOMAIN u /\ j \in DOMAIN u /\ i \in Nat /\ Len(u) \in Nat
        /\ u[i] = e /\ u[j] = g
    BY <2>3
  <2> HIDE DEF i, j, n
  <2>6. Marks(u, f, 1 + 1, i)
    BY <2>2, <2>3, <2>4, <2>5, BehindGrown
  <2>7. Marks(u, f, 2 + 1, Len(u))
    <3>1. Marks(u, f, 2, i)
      BY <2>6
    <3> QED
      BY <2>2, <2>3, <2>5, <3>1, BehindGrown
  <2> QED
    BY <1>7, <2>7, ReachedStages DEF After, u
<1>8. CASE worker[f] = "verify" \/ worker[f] = "render"
  <2> DEFINE k == Reached[worker[f]]
             e == StageEvents(f, worker[f])[1]
  <2>1. u = trail \o <<e>>
    BY <1>6, <1>8 DEF StageEvents
  <2>2. Key(e) = RequiredStages[k + 1] /\ e.plans = <<f>> /\ k \in Nat
    <3>1. CASE worker[f] = "verify"
      BY <1>5, <3>1, ReachedStages DEF RequiredStages, StageEvents
    <3>2. CASE worker[f] = "render"
      BY <1>5, <3>2, ReachedStages DEF RequiredStages, StageEvents
    <3> QED
      BY <1>8, <3>1, <3>2
  <2>3. k + 1 = Reached[After(worker[f])]
    BY <1>8, ReachedStages DEF After
  <2> HIDE DEF e
  <2>4. n \in Nat /\ Len(u) = n + 1 /\ DOMAIN u = 1..Len(u) /\ u[n + 1] = e
    BY <1>3, <2>1
  <2>5. Marks(u, f, k, n)
    BY <1>1
  <2> DEFINE j == n + 1
  <2>6. n < j /\ j \in DOMAIN u /\ u[j] = e /\ Len(u) \in Nat
    BY <2>4
  <2> HIDE DEF k, j, n
  <2>7. Marks(u, f, k + 1, Len(u))
    BY <2>2, <2>4, <2>5, <2>6, BehindGrown
  <2> QED
    BY <2>3, <2>7 DEF k, u
<1> QED
  BY <1>7, <1>8 DEF Working

LEMMA WorkStaged ==
  ASSUME TraceInv, Staged, [Next]_vars, NEW f \in Family, Work(f) PROVE Staged'
<1>1. worker[f] \in Working /\ UNCHANGED <<at, route, granted>>
  BY DEF Work
<1>2. worker \in [Family -> WorkerStates]
  BY DEF TraceInv, Inv, TypeOK
<1>3. ASSUME NEW g \in Family, g # f, worker'[g] \in DOMAIN Reached
      PROVE  Marks(trail', g, Reached[worker'[g]], Len(trail'))
  <2>1. worker'[g] = worker[g]
    BY <1>2, <1>3 DEF Work
  <2> QED
    BY <1>3, <2>1, BehindKept, ReachedStages DEF Staged
<1>4. ASSUME worker'[f] \in DOMAIN Reached
      PROVE  Marks(trail', f, Reached[worker'[f]], Len(trail'))
  <2>1. CASE trail' = trail \o StageEvents(f, worker[f]) /\ worker' = [worker EXCEPT ![f] = After(@)]
    <3>1. worker'[f] = After(worker[f])
      BY <1>2, <2>1
    <3> QED
      BY <1>1, <2>1, <3>1, WorkBehind
  <2>2. CASE \E cause \in {"deadline", "retryable", "fatal"} : worker' = [worker EXCEPT ![f] = cause]
    <3>1. worker'[f] \in {"deadline", "retryable", "fatal"}
      BY <1>2, <2>2
    <3> QED
      BY <1>4, <3>1, ReachedStages
  <2> QED
    BY <2>1, <2>2 DEF Work
<1>5. \A i \in DOMAIN route : i <= granted => Marks(trail', route[i], 1, Len(trail'))
  BY BehindKept DEF Staged
<1>6. at \in Planned => \A i \in DOMAIN route : Marks(trail', route[i], 0, Len(trail'))
  BY BehindKept DEF Staged
<1> QED
  BY <1>1, <1>3, <1>4, <1>5, <1>6 DEF Staged, Behind

LEMMA StagedInit == Init => Staged
  BY ReachedStages DEF Init, Staged, Planned

LEMMA StagedStep ==
  ASSUME TraceInv, Ordered, PlansCompiled, Staged, [Next]_vars PROVE Staged'
<1>1. CASE Grant
  BY <1>1, GrantStaged
<1>2. ASSUME NEW f \in Family, Work(f) PROVE Staged'
  BY <1>2, WorkStaged
<1>3. CASE ~Grant /\ \A f \in Family : ~Work(f)
  <2>1. UNCHANGED <<granted, worker>>
    BY <1>3, GatesKept
  <2>2. \A f \in Family : worker[f] \in DOMAIN Reached =>
          Marks(trail', f, Reached[worker[f]], Len(trail'))
    BY BehindKept, ReachedStages DEF Staged
  <2>3. CASE RouteExecute
    <3>1. at' \notin Planned /\ granted = 0 /\ route' \in Routes
      BY <2>3 DEF RouteExecute, Step, Planned, TraceInv, Inv, Placed, Unrouted, Early
    <3>2. \A i \in DOMAIN route' : ~(i <= granted')
      <4>1. \A r \in Routes : DOMAIN r \subseteq Nat \ {0}
        <5>1. Families \in Seq(Family) /\ SubSeq(Families, 1, 1) \in Seq(Family)
          BY ValidationAssumption DEF Family
        <5> QED
          BY <5>1 DEF Routes
      <4> QED
        BY <2>1, <3>1, <4>1
    <3> QED
      BY <2>1, <2>2, <3>1, <3>2 DEF Staged, Behind
  <2>4. CASE CompilesPlans
    <3>1. UNCHANGED route
      BY <2>4 DEF CompilesPlans, Compile, CompileWithoutProposal
    <3>2. \A i \in DOMAIN route : Marks(trail', route[i], 0, Len(trail'))
      BY <2>4, CompilationBehind
    <3>3. \A i \in DOMAIN route : i <= granted => Marks(trail', route[i], 1, Len(trail'))
      BY BehindKept DEF Staged
    <3> QED
      BY <2>1, <2>2, <3>1, <3>2, <3>3 DEF Staged, Behind
  <2>5. CASE ~RouteExecute /\ ~CompilesPlans
    <3>1. UNCHANGED route /\ (at' \in Planned => at \in Planned)
      BY <2>5, PlacesFollow
    <3>2. at' \in Planned => \A i \in DOMAIN route : Marks(trail', route[i], 0, Len(trail'))
      BY <3>1, BehindKept DEF Staged
    <3>3. \A i \in DOMAIN route : i <= granted => Marks(trail', route[i], 1, Len(trail'))
      BY BehindKept DEF Staged
    <3> QED
      BY <2>1, <2>2, <3>1, <3>2, <3>3 DEF Staged, Behind
  <2> QED
    BY <2>3, <2>4, <2>5
<1> QED
  BY <1>1, <1>2, <1>3


-----------------------------------------------------------------------------
(***************************************************************************)
(* An answer with data: what the validator demands of the trace before it. *)
(***************************************************************************)
PlansFit(t) ==
  \A i \in DOMAIN t : Counted(t[i]) => \E p \in Range(CompiledPlans(t)) : t[i].plans = <<p>>

LEMMA SuccessRules ==
  ASSUME NEW t, DOMAIN t \subseteq Nat, NEW answer,
         NEW r \in DOMAIN t, \A i \in DOMAIN t : RoutesTo(t[i]) <=> i = r,
         \E j \in DOMAIN t : Compiles(t[j]),
         \A j \in DOMAIN t : Compiles(t[j]) => r < j,
         answer.plans = CompiledPlans(t),
         \A p \in Range(CompiledPlans(t)) : Linked(t, p)
  PROVE  SuccessIssues(t, answer) \subseteq {code \in {"execution_plan_link_mismatch"} : ~PlansFit(t)}
<1> DEFINE compiled == {i \in DOMAIN t : Compiles(t[i])}
           routes == {i \in DOMAIN t : RoutesTo(t[i])}
           plans == CompiledPlans(t)
           ordered == routes # {} => Max(routes) < Min(compiled)
           answered == answer.plans = plans
           fitting ==
             \A i \in DOMAIN t :
               (/\ t[i].stage \in {"AUTHORITY", "SQL", "ORACLE", "VERIFIER", "RENDERER"}
                /\ t[i].outcome = "SUCCEEDED" /\ t[i].disposition = "EXECUTE")
               => \E p \in Range(plans) : t[i].plans = <<p>>
           linked == \A p \in Range(plans) : Linked(t, p)
           rules ==
             [execution_stage_order_invalid |-> ordered,
              answer_plan_link_mismatch |-> answered,
              execution_plan_link_mismatch |-> fitting,
              execution_stage_missing |-> linked]
<1>1. SuccessIssues(t, answer) =
        {code \in {"execution_route_missing"} : routes = {}}
          \cup IF compiled = {} THEN {"execution_queryplan_missing"}
               ELSE {code \in DOMAIN rules : ~rules[code]}
  BY DEF SuccessIssues
<1>2. routes = {r} /\ compiled # {} /\ compiled \subseteq Nat /\ r \in Nat
  OBVIOUS
<1>3. ordered
  <2>1. Min(compiled) \in compiled
    <3> HIDE DEF compiled
    <3> QED
      BY <1>2, MinOf
  <2>2. Max(routes) = r
    <3> HIDE DEF routes
    <3> QED
      BY <1>2 DEF Max
  <2>3. r < Min(compiled)
    <3> DEFINE m == Min(compiled)
    <3>1. m \in DOMAIN t /\ Compiles(t[m])
      BY <2>1
    <3> HIDE DEF m
    <3>2. r < m
      BY <3>1
    <3> QED
      BY <3>2 DEF m
  <2> QED
    BY <2>2, <2>3
<1>4. answered /\ linked
  OBVIOUS
<1>5. PlansFit(t) => fitting
  BY DEF PlansFit, Counted, LinkedStages
<1> HIDE DEF routes, compiled, ordered, answered, fitting, linked
<1>6. DOMAIN rules = {"execution_stage_order_invalid", "answer_plan_link_mismatch",
                      "execution_plan_link_mismatch", "execution_stage_missing"}
  OBVIOUS
<1>7. /\ rules["execution_stage_order_invalid"] = ordered
      /\ rules["answer_plan_link_mismatch"] = answered
      /\ rules["execution_plan_link_mismatch"] = fitting
      /\ rules["execution_stage_missing"] = linked
  OBVIOUS
<1> HIDE DEF rules
<1>8. {code \in DOMAIN rules : ~rules[code]}
        \subseteq {code \in {"execution_plan_link_mismatch"} : ~PlansFit(t)}
  BY <1>3, <1>4, <1>5, <1>6, <1>7
<1> QED
  BY <1>1, <1>2, <1>8

Gap == {code \in {"execution_plan_link_mismatch"} : CrossVerifiedEvent}

ServedProducts ==
  \A i \in DOMAIN trail :
    (Serves(trail[i]) /\ ~IsKnowledge(trail[i])) =>
      SuccessIssues(SubSeq(trail, 1, i - 1), trail[i]) \subseteq Gap

\* Each plan of an answer with data has left all its stages behind.
LEMMA AllLinked ==
  ASSUME TraceInv, Staged, at = "answer", result.status = "executed", route # <<>>,
         NEW f \in Routed
  PROVE  Linked(trail, f) /\ \E j \in DOMAIN trail : Compiles(trail[j])
<1>1. f \in Family
  BY RouteFamilies, RoutedFamilies DEF TraceInv, Inv, TypeOK
<1>2. worker[f] = "done"
  BY <1>1 DEF TraceInv, Inv, AllOrNone
<1>3. Behind(f, 5)
  BY <1>1, <1>2, ReachedStages DEF Staged
<1>4. Len(trail) \in Nat /\ DOMAIN trail = 1..Len(trail)
  BY DEF TraceInv, Traced
<1>5. Linked(trail, f)
  BY <1>3, <1>4, MarksLinked DEF Behind
<1>6. PICK pos : Marked(trail, f, 5, pos)
  BY <1>3 DEF Behind, Marks
<1>7. pos[0] \in DOMAIN trail /\ Compiles(trail[pos[0]])
  BY <1>6 DEF Marked
<1> QED
  BY <1>5, <1>7

LEMMA ServedAnswer ==
  ASSUME TraceInv, Ordered, PlansCompiled, LinkedToRoute, Staged, at = "answer",
         result.status = "executed", NEW e, e.plans = route
  PROVE  SuccessIssues(trail, e) \subseteq Gap
<1>1. CompiledPlans(trail) = route /\ route # <<>>
  BY DEF PlansCompiled, Ending
<1>2. Len(trail) \in Nat /\ DOMAIN trail = 1..Len(trail) /\ DOMAIN trail \subseteq Nat
  BY DEF TraceInv, Traced
<1>3. PICK r \in DOMAIN trail : RoutesTo(trail[r])
  BY <1>1 DEF Ordered
<1>4. /\ \A i \in DOMAIN trail : RoutesTo(trail[i]) <=> i = r
      /\ \A j \in DOMAIN trail : Compiles(trail[j]) => r < j
  BY <1>3 DEF Ordered
<1>5. PICK f : f \in Routed
  <2>1. route \in Seq(Family)
    BY RouteFamilies DEF TraceInv, Inv, TypeOK
  <2>2. 1 \in DOMAIN route
    BY <1>1, <2>1
  <2> QED
    BY <2>2 DEF Routed, Range
<1>6. /\ \A p \in Routed : Linked(trail, p)
      /\ \E j \in DOMAIN trail : Compiles(trail[j])
  BY <1>1, <1>5, AllLinked
<1>7. Range(CompiledPlans(trail)) = Routed
  BY <1>1 DEF Routed
<1>8. ~PlansFit(trail) => CrossVerifiedEvent
  <2>1. \A i \in DOMAIN trail : FitsPlans(trail[i], Routed)
    BY DEF LinkedToRoute, Product, Ending, Fits
  <2> QED
    BY <1>7, <2>1 DEF PlansFit, FitsPlans, CrossVerifiedEvent
<1>9. SuccessIssues(trail, e) \subseteq {code \in {"execution_plan_link_mismatch"} : ~PlansFit(trail)}
  <2>1. e.plans = CompiledPlans(trail) /\ \A p \in Range(CompiledPlans(trail)) : Linked(trail, p)
    BY <1>1, <1>6, <1>7
  <2> QED
    BY <1>2, <1>4, <1>6, <2>1, SuccessRules
<1> QED
  BY <1>8, <1>9 DEF Gap

\* What an answer event with data says, and of which result
AnswersRoute(e) == Serves(e) => result.status = "executed" /\ e.plans = route

LEMMA AnswerEvent ==
  ASSUME TraceInv, Answer
  PROVE  at = "answer" /\ \E e : trail' = trail \o <<e>> /\ AnswersRoute(e)
<1> DEFINE e == Event("ANSWER", AnswerOutcome[1], AnswerOutcome[2], Disposition,
                      IF result.status = "executed" THEN route ELSE <<>>)
<1>1. trail' = trail \o <<e>> /\ at = "answer"
  BY DEF Answer, Step
<1>2. result.status \in {"executed", "failed", "timed_out", "clarified", "unsupported"}
  BY <1>1 DEF TraceInv, Inv, Placed, Answerable, Controls
<1>3. expired \in BOOLEAN
  BY DEF TraceInv, Inv, TypeOK
<1>4. AnswerOutcome[1] = "SUCCEEDED" => result.status = "executed"
  BY <1>2, <1>3 DEF AnswerOutcome
<1>5. e.outcome = AnswerOutcome[1] /\ e.plans = IF result.status = "executed" THEN route ELSE <<>>
  BY DEF Event
<1>6. AnswersRoute(e)
  BY <1>4, <1>5 DEF Serves, AnswersRoute
<1> HIDE DEF e
<1> QED
  BY <1>1, <1>6

LEMMA ServedInit == Init => ServedProducts
  BY DEF Init, Plain, Event, ServedProducts, Serves

LEMMA ServedStep ==
  ASSUME TraceInv, Pathed, Ordered, PlansCompiled, LinkedToRoute, Staged, ServedProducts, [Next]_vars
  PROVE  ServedProducts'
<1>a. Traced
  BY DEF TraceInv
<1>b. Gap \subseteq Gap'
  <2>1. \A i \in DOMAIN trail : i \in DOMAIN trail' /\ trail'[i] = trail[i]
    BY RoutedAndCompiled
  <2> QED
    BY <2>1 DEF Gap, CrossVerifiedEvent
<1>c. CASE UNCHANGED trail
  BY <1>c DEF ServedProducts, Gap, CrossVerifiedEvent
<1>d. ASSUME NEW e, trail' = trail \o <<e>>,
             (Serves(e) /\ ~IsKnowledge(e)) => SuccessIssues(trail, e) \subseteq Gap
      PROVE  ServedProducts'
  <2>1. /\ Len(trail) \in Nat /\ DOMAIN trail = 1..Len(trail)
        /\ DOMAIN trail' = 1..(Len(trail) + 1) /\ trail'[Len(trail) + 1] = e
        /\ \A i \in 1..Len(trail) : trail'[i] = trail[i]
        /\ \A i \in 1..Len(trail) : SubSeq(trail', 1, i - 1) = SubSeq(trail, 1, i - 1)
        /\ SubSeq(trail', 1, Len(trail)) = trail
    BY <1>a, <1>d, OneMore
  <2>2. ASSUME NEW i \in DOMAIN trail', Serves(trail'[i]), ~IsKnowledge(trail'[i])
        PROVE  SuccessIssues(SubSeq(trail', 1, i - 1), trail'[i]) \subseteq Gap'
    <3>1. CASE i \in 1..Len(trail)
      BY <1>b, <2>1, <2>2, <3>1 DEF ServedProducts
    <3>2. CASE i = Len(trail) + 1
      <4>1. i - 1 = Len(trail)
        BY <2>1, <3>2
      <4>2. SubSeq(trail', 1, i - 1) = trail /\ trail'[i] = e
        BY <2>1, <3>2, <4>1
      <4> QED
        BY <1>b, <1>d, <2>2, <4>2
    <3> QED
      BY <2>1, <3>1, <3>2
  <2> QED
    BY <2>2 DEF ServedProducts
<1>1. CASE Answer
  <2>1. PICK e : trail' = trail \o <<e>> /\ AnswersRoute(e)
    BY <1>1, AnswerEvent
  <2>2. Serves(e) => SuccessIssues(trail, e) \subseteq Gap
    BY <1>1, <2>1, AnswerEvent, ServedAnswer DEF AnswersRoute
  <2> QED
    BY <1>d, <2>1, <2>2
<1>2. CASE AnswerRelation
  BY <1>2, <1>d, RelationAnswer
<1>3. CASE Close
  <2>1. PICK e : trail' = trail \o <<e>> /\ e.stage = "REQUEST"
    BY <1>3, TerminalEvent
  <2>2. ~Serves(e)
    BY <2>1 DEF Serves
  <2> QED
    BY <1>d, <2>1, <2>2
<1>4. CASE WritesQuietly
  <2>1. ASSUME NEW i \in DOMAIN trail', trail'[i].stage = "ANSWER"
        PROVE  i \in DOMAIN trail /\ trail[i].stage = "ANSWER"
    BY <1>4, <1>a, <2>1, QuietAppend DEF Outer
  <2>2. CASE at \in {"over", "closed"}
    <3>1. ~Close
      <4> SUFFICES ASSUME Close PROVE FALSE
        OBVIOUS
      <4>1. PICK e : trail' = trail \o <<e>> /\ e.stage = "REQUEST"
        BY TerminalEvent
      <4>2. /\ Len(trail) + 1 \in DOMAIN trail' \ DOMAIN trail
            /\ trail'[Len(trail) + 1] = e
        BY <1>a, <4>1, OneMore
      <4> QED
        BY <1>4, <1>a, <4>1, <4>2, QuietAppend DEF Outer
    <3>2. UNCHANGED trail
      BY <2>2, <3>1, OnlyTheTerminal DEF TraceInv
    <3> QED
      BY <3>2, <1>c
  <2>3. CASE at \notin {"over", "closed"}
    BY <2>1, <2>3 DEF TraceInv, AnswerEnds, ServedProducts, Serves
  <2> QED
    BY <2>2, <2>3
<1> QED
  BY <1>c, <1>1, <1>2, <1>3, <1>4, Writers DEF TraceInv


\* What a closed request has recorded of any answer is accepted.
LEMMA AnswerAccepted ==
  ASSUME TraceInv, Framed, Tied, Told, Caused, Closing, DenialsAccepted, ServedProducts,
         at = "closed", NEW i \in DOMAIN trail, trail[i].stage = "ANSWER"
  PROVE  AnswerIssues(trail, i) \subseteq KnownGaps
<1>1. CASE IsKnowledge(trail[i])
  BY <1>1, KnowledgeAnswerAccepted
<1>2. CASE ~IsKnowledge(trail[i])
  <2> DEFINE answer == trail[i]
             before == SubSeq(trail, 1, i - 1)
  <2>1. AnswerIssues(trail, i) =
          CASE Serves(answer) -> SuccessIssues(before, answer)
            [] answer.outcome \in {"CLARIFIED", "UNSUPPORTED"} -> ControlIssues(before) \cup {}
            [] OTHER -> {}
    <3>1. IsKnowledge(answer) = FALSE
      BY <1>2 DEF IsKnowledge
    <3> QED
      BY <3>1 DEF AnswerIssues
  <2>2. Serves(answer) => answer.outcome \notin {"CLARIFIED", "UNSUPPORTED"}
    BY DEF Serves
  <2>3. Serves(answer) => SuccessIssues(before, answer) \subseteq KnownGaps
    BY <1>2 DEF ServedProducts, Gap, KnownGaps
  <2>4. answer.outcome \in Denials => ControlIssues(before) \subseteq KnownGaps
    BY DEF DenialsAccepted
  <2> HIDE DEF answer, before
  <2> QED
    BY <2>1, <2>2, <2>3, <2>4 DEF Denials, answer, before
<1> QED
  BY <1>1, <1>2

LEMMA LinkedToRouteInit == Init => LinkedToRoute
  BY DEF Init, Plain, Event, LinkedToRoute, Fits, FitsPlans, Counted, LinkedStages

\* Whatever interleaving of searches, failures, file replacements, deadlines
\* and callers leads to it, the trail of a closed product request is one the
\* validator accepts, but for the known gaps (ProductTrailAccepted).
THEOREM ProductAccepted == Spec => []ProductTrailAccepted
<1> DEFINE Answered == Pathed /\ Told /\ Caused /\ Closing /\ Related
           Planning == Ordered /\ PlansCompiled /\ LinkedToRoute /\ Staged /\ ServedProducts
<1>1. Init => Tied /\ Framed /\ Answered /\ Planning
  BY TiedInit, FramedInit, PathedInit, AnsweredInit, OrderedInit, LinkedToRouteInit, StagedInit,
     ServedInit
<1>2. TraceInv /\ Tied /\ Framed /\ Answered /\ [Next]_vars => (Tied /\ Framed /\ Answered)'
  BY TiedStep, FramedStep, PathedStep, ToldStep, CausedStep, ClosingStep, RelatedStep
<1>3. TraceInv /\ Answered /\ Planning /\ [Next]_vars => Planning'
  BY OrderedStep, PlansCompiledStep, LinkedToRouteStep, StagedStep, ServedStep
<1>4. ASSUME TraceInv, Tied, Framed, Answered, Planning, DenialsAccepted,
             at = "closed" => LifecycleIssues(trail) = {}
      PROVE  ProductTrailAccepted
  <2>1. SUFFICES ASSUME at = "closed" PROVE Issues(trail) \subseteq KnownGaps
    BY DEF ProductTrailAccepted
  <2>2. \A i \in DOMAIN trail : trail[i].stage = "ANSWER" => AnswerIssues(trail, i) \subseteq KnownGaps
    BY <1>4, <2>1, AnswerAccepted
  <2>3. Issues(trail) =
          UNION {AnswerIssues(trail, i) : i \in {j \in DOMAIN trail : trail[j].stage = "ANSWER"}}
    BY <1>4, <2>1 DEF Issues
  <2> QED
    BY <2>2, <2>3
<1> QED
  BY <1>1, <1>2, <1>3, <1>4, TraceInvariant, ControlAccepted, LifecycleAccepted, PTL DEF Spec

=============================================================================
