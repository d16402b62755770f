---------------------------- MODULE RoutedRequest ----------------------------
(***************************************************************************)
(* One public request from the moment a worker thread has it until its     *)
(* invocation is closed: the product path of RoutedFinanceAgent            *)
(* (agent/routed_service.py), with the batch that searches several         *)
(* families on threads of its own, and the caller who waits for it         *)
(* (routes/answer.py, http_audit.py).  Module KnowledgeRequest adds the    *)
(* relation path of the same entry.                                        *)
(*                                                                         *)
(* Every stage writes the audit events the path rules of AuditValidation   *)
(* look at.  The events of one stage of one thread are one step.  Which    *)
(* plan a question gets and what a search finds are free choices; the      *)
(* connections behind a search are in module PinnedDatabase, the trace     *)
(* after the caller left in AuditTrail.                                    *)
(***************************************************************************)
EXTENDS AuditValidation

VARIABLES
  at,       \* where the request is
  route,    \* product families it was routed to, in order
  granted,  \* plans authorised so far
  worker,   \* per family: the stage its search is at, or how it failed
  composed, \* per family: mode of its AnswerComposition
  shown,    \* per family: the text the answer shows
  result,   \* what the Agent returns or raises
  current,  \* databases and release files are the approved ones
  expired,  \* RequestDeadline.should_stop
  caller,   \* method, and whether the route still waits
  trail     \* the events of the invocation

vars == <<at, route, granted, worker, composed, shown, result, current, expired, caller, trail>>
environment == <<current, expired, caller>>
searches == <<worker, composed, shown>>

Family == Range(Families)
Routes == {SubSeq(Families, 1, 1), Families}
Batch == Len(route) > 1
Routed == Range(route)

\* Causes of a failure: the deadline, the authority gate's own deadline error,
\* an error worth a retry, any other error.
Causes == {"deadline", "late", "retryable", "fatal"}
NoResult == [status |-> "none", mode |-> "none", cause |-> "none"]
Failure(cause) ==
  [status |-> IF cause = "deadline" THEN "timed_out" ELSE "failed", mode |-> "none",
   cause |-> cause]

Init ==
  /\ at = "received"
  /\ route = <<>>
  /\ granted = 0
  /\ worker = [f \in Family |-> "idle"]
  /\ composed = [f \in Family |-> "none"]
  /\ shown = [f \in Family |-> "none"]
  /\ result = NoResult
  /\ current = TRUE
  /\ expired = FALSE
  /\ caller \in [method : {"GET", "POST"}, left : {"no"}]
  /\ trail = <<Plain("REQUEST", "STARTED", "received")>>

\* A step of the request: where it was, where it goes, the events it writes
Step(here, there, events) ==
  /\ at = here
  /\ at' = there
  /\ trail' = trail \o events
  /\ UNCHANGED environment

Raise(cause) == result' = Failure(cause)

\* _control_result: an answer without data
Control(outcome) ==
  result' = [status |-> outcome, mode |-> "none", cause |-> "none"]

Controls == {"clarified", "unsupported"}

-----------------------------------------------------------------------------
(***************************************************************************)
(* _answer_public_atomically and _answer_atomically_checked: the boundary  *)
(* before routing.                                                         *)
(***************************************************************************)
Enter ==
  /\ IF current THEN Step("received", "guard", <<>>) /\ UNCHANGED result
     ELSE Step("received", "over", <<>>) /\ Raise("retryable")
  /\ UNCHANGED <<route, granted, searches>>

Guard ==
  /\ IF current THEN Step("guard", "routing", <<>>) /\ UNCHANGED result
     ELSE Step("guard", "answer", <<>>) /\ Raise("retryable")
  /\ UNCHANGED <<route, granted, searches>>

(***************************************************************************)
(* _answer_once: the router, and the resolution of an exact identity.      *)
(***************************************************************************)
RouteFails ==
  /\ \E cause \in {"deadline", "fatal"}, there \in {"answer", "recheck"} :
       /\ Step("routing", there, <<Plain("ROUTE", "FAILED", "routing_failed")>>)
       /\ Raise(cause)
  /\ UNCHANGED <<route, granted, searches>>

RouteControl ==
  /\ \/ Step("routing", "recheck",
             <<Event("ROUTE", "CLARIFIED", "routed_clarify", "CLARIFY", <<>>)>>)
        /\ Control("clarified")
     \/ Step("routing", "recheck",
             <<Event("ROUTE", "UNSUPPORTED", "routed_unsupported", "UNSUPPORTED", <<>>)>>)
        /\ Control("unsupported")
  /\ UNCHANGED <<route, granted, searches>>

RouteExecute ==
  /\ Step("routing", "compiling",
          <<Event("ROUTE", "SUCCEEDED", "routed_execute", "EXECUTE", <<>>)>>)
  /\ route' \in Routes
  /\ UNCHANGED <<granted, searches, result>>

-----------------------------------------------------------------------------
(***************************************************************************)
(* _answer_from_decision up to the authority gate.  A control answer may   *)
(* be given before compiling (semantic resolver, fund lock), by the        *)
(* compiler, by the first check, and after it without an event (the        *)
(* provider's plan differs, the second check, no database path).           *)
(***************************************************************************)
Blocked(stage, reason) == Event(stage, "BLOCKED", reason, "EXECUTE", <<>>)

\* Mutant: the compilation of a batch is recorded once.
CompiledOnce ==
  << Event("COMPILER", "SUCCEEDED",
           IF Batch THEN "family_plan_compiled" ELSE "plan_compiled", "EXECUTE",
           <<route[1]>>) >>

Compiled ==
  [i \in DOMAIN route |->
     Event("COMPILER", "SUCCEEDED",
           IF Batch THEN "family_plan_compiled" ELSE "plan_compiled", "EXECUTE",
           <<route[i]>>)]

Compile ==
  /\ Step("compiling", IF Batch THEN "admitting" ELSE "checking", Compiled)
  /\ UNCHANGED <<route, granted, searches, result>>

\* A grounded proposal is advisory: without it the server's plan is compiled.
CompileWithoutProposal ==
  /\ ~Batch
  /\ Step("compiling", "checking",
          <<Blocked("COMPILER", "grounded_plan_rejected")>> \o Compiled)
  /\ UNCHANGED <<route, granted, searches, result>>

CompileBlocked ==
  /\ Step("compiling", "recheck", <<Blocked("COMPILER", "plan_blocked")>>)
  /\ Control("clarified")
  /\ UNCHANGED <<route, granted, searches>>

Check ==
  /\ \/ Step("checking", "admitting", <<>>) /\ UNCHANGED result
     \/ /\ Step("checking", "recheck",
                <<Event("AUTHORITY", "BLOCKED", "authority_denied", "EXECUTE", <<route[1]>>)>>)
        /\ \E outcome \in Controls : Control(outcome)
  /\ UNCHANGED <<route, granted, searches>>

Admit ==
  /\ Step("admitting", "authorizing", <<>>)
  /\ UNCHANGED <<route, granted, searches, result>>

\* The control answers that write no event of their own
Decline ==
  /\ \E here \in {"compiling", "admitting"} : Step(here, "recheck", <<>>)
  /\ \E outcome \in Controls : Control(outcome)
  /\ UNCHANGED <<route, granted, searches>>

\* A model that times out, or an error nobody expected
Break ==
  /\ \E here \in {"compiling", "checking", "admitting"} : Step(here, "recheck", <<>>)
  /\ \E cause \in {"deadline", "fatal"} : Raise(cause)
  /\ UNCHANGED <<route, granted, searches>>

-----------------------------------------------------------------------------
(***************************************************************************)
(* PlanAuthorityGate.validate_routed, of each plan in order.               *)
(***************************************************************************)
Opened == Plain("SQL", "SUCCEEDED", "authority_connection_opened")
Pending == route[granted + 1]

\* Mutant: the search of a family starts as soon as its own plan is granted.
SearchesGranted == granted' > 0

\* Workers are started when the whole batch is authorised.
AllGranted == granted' = Len(route)

Started(f) ==
  IF AllGranted /\ f \in Routed /\ worker[f] = "idle" THEN "search" ELSE worker[f]

Grant ==
  /\ current
  /\ granted < Len(route)
  /\ granted' = granted + 1
  /\ Step("authorizing", IF granted' = Len(route) THEN "running" ELSE "authorizing",
          <<Opened,
            Event("AUTHORITY", "SUCCEEDED", "authority_granted", "EXECUTE", <<Pending>>)>>)
  /\ worker' = [f \in Family |-> Started(f)]
  /\ UNCHANGED <<route, composed, shown, result>>

\* The verdict of a single plan says whether it was late; a batch says denied.
Refused(cause) ==
  IF cause = "late" /\ ~Batch
  THEN Event("AUTHORITY", "TIMED_OUT", "deadline_exceeded", "EXECUTE", <<Pending>>)
  ELSE Event("AUTHORITY", "BLOCKED", "authority_denied", "EXECUTE", <<Pending>>)

Deny ==
  /\ \E cause \in {"late", "retryable", "fatal"}, opened \in {<<>>, <<Opened>>} :
       /\ cause = "late" => expired
       /\ cause = "retryable" => ~current
       /\ Step("authorizing", "recheck", opened \o <<Refused(cause)>>)
       /\ Raise(cause)
  /\ UNCHANGED <<route, granted, searches>>

\* EXECUTION_POLICY_BLOCKED, decided before the database is looked at
DenyByPolicy ==
  /\ Step("authorizing", "recheck", <<Refused("fatal")>>)
  /\ \E outcome \in Controls : Control(outcome)
  /\ UNCHANGED <<route, granted, searches>>

-----------------------------------------------------------------------------
(***************************************************************************)
(* _execute_family_search, and the same stages of a single plan.           *)
(***************************************************************************)
Of(f, stage, outcome, reason) == Event(stage, outcome, reason, "EXECUTE", <<f>>)

StageEvents(f, stage) ==
  CASE stage = "search" ->
         << Plain("SQL", "SUCCEEDED", "oracle_connection_opened"),
            Of(f, "SQL", "SUCCEEDED", "parameterized_statement_completed"),
            Of(f, "ORACLE", "SUCCEEDED", "oracle_completed") >>
    [] stage = "verify" -> << Of(f, "VERIFIER", "SUCCEEDED", "verification_passed") >>
    [] stage = "render" -> << Of(f, "RENDERER", "SUCCEEDED", "rendering_completed") >>

FailureEvents(f, stage) ==
  CASE stage = "search" -> << Of(f, "SQL", "FAILED", "statement_failed"),
                              Of(f, "ORACLE", "FAILED", "oracle_failed") >>
    [] stage = "verify" -> << Of(f, "VERIFIER", "FAILED", "verification_failed") >>
    [] stage = "render" -> << Of(f, "RENDERER", "FAILED", "rendering_failed") >>

Working == {"search", "verify", "render"}
After(stage) ==
  CASE stage = "search" -> "verify" [] stage = "verify" -> "render" [] stage = "render" -> "done"

\* A worker thread takes no notice of what happens to the request.
Work(f) ==
  /\ worker[f] \in Working
  /\ \/ /\ worker[f] = "search" => current
        /\ worker' = [worker EXCEPT ![f] = After(@)]
        /\ trail' = trail \o StageEvents(f, worker[f])
     \/ /\ \E cause \in {"deadline", "retryable", "fatal"} :
             /\ cause = "deadline" => expired
             /\ worker' = [worker EXCEPT ![f] = cause]
        /\ trail' = trail \o FailureEvents(f, worker[f])
  /\ UNCHANGED <<at, route, granted, composed, shown, result, environment>>

Ended(f) == worker[f] \notin Working
Failed(f) == worker[f] \in Causes

\* Mutants: the batch is left on the first failure, or waits for successes only.
FirstFailureEnds == (\E f \in Routed : Failed(f)) \/ \A f \in Routed : Ended(f)
SuccessesOnly == \A f \in Routed : worker[f] = "done"

\* ThreadPoolExecutor.__exit__
Joined == \A f \in Routed : Ended(f)

\* The failure of the first family in order is the one that is raised.
FirstFailed(i) == Failed(route[i]) /\ \A j \in 1..(i - 1) : ~Failed(route[j])

Join ==
  /\ Joined
  /\ \/ \E i \in DOMAIN route :
          FirstFailed(i) /\ Step("running", "recheck", <<>>) /\ Raise(worker[route[i]])
     \/ /\ \A f \in Routed : ~Failed(f)
        /\ Step("running", "composing", <<>>)
        /\ UNCHANGED result
  /\ UNCHANGED <<route, granted, searches>>

-----------------------------------------------------------------------------
(***************************************************************************)
(* The answer: rendered by the server, or composed by a provider           *)
(* (compose_grounded_answer) and, for a batch, kept only as a whole        *)
(* (_compose_cross_family_grounded_answer).                                *)
(***************************************************************************)
Executed(mode) == [status |-> "executed", mode |-> mode, cause |-> "none"]

ShowRendered ==
  /\ \A f \in Routed : composed[f] = "none"
  /\ Step("composing", "recheck", <<>>)
  /\ shown' = [f \in Family |-> IF f \in Routed THEN "rendered" ELSE shown[f]]
  /\ result' = Executed("none")
  /\ UNCHANGED <<route, granted, worker, composed>>

Modes == {"llm_grounded", "deterministic", "deterministic_fallback"}

\* _emit_composition_audit
CompositionEvents(f, mode) ==
  CASE mode = "llm_grounded" -> <<Of(f, "VERIFIER", "SUCCEEDED", "composition_verified")>>
    [] mode = "deterministic" -> <<>>
    [] mode = "deterministic_fallback" -> <<Of(f, "VERIFIER", "FAILED", "composition_rejected")>>

Text(mode) == IF mode = "llm_grounded" THEN "generated" ELSE "rendered"

ComposeOne ==
  /\ ~Batch
  /\ \E mode \in Modes :
       /\ Step("composing", "recheck", CompositionEvents(route[1], mode))
       /\ composed' = [composed EXCEPT ![route[1]] = mode]
       /\ shown' = [shown EXCEPT ![route[1]] = Text(mode)]
       /\ result' = Executed(mode)
  /\ UNCHANGED <<route, granted, worker>>

\* A batch composes its families in order.
Turn(i) == \A j \in DOMAIN route : composed[route[j]] = "none" <=> j >= i

ComposeFamily(i, mode) ==
  /\ Batch
  /\ Turn(i)
  /\ Step("composing", "composing", CompositionEvents(route[i], mode))
  /\ composed' = [composed EXCEPT ![route[i]] = mode]
  /\ UNCHANGED <<route, granted, worker, shown, result>>

\* CrossFamilyAnswerVerifier.verify: it also checks that no family's text
\* names a product of another.
CrossVerified(isolated) ==
  isolated /\ \A f \in Routed : composed[f] # "deterministic_fallback"

CrossMode ==
  IF \E f \in Routed : composed[f] = "llm_grounded" THEN "llm_grounded" ELSE "deterministic"

CrossEvent(passed) ==
  IF passed THEN Event("VERIFIER", "SUCCEEDED", "cross_composition_verified", "EXECUTE", <<>>)
  ELSE Event("VERIFIER", "FAILED", "cross_composition_rejected", "EXECUTE", <<>>)

ComposeBatch ==
  /\ Batch
  /\ \A f \in Routed : composed[f] # "none"
  /\ \E isolated \in BOOLEAN :
       LET passed == CrossVerified(isolated)
       IN /\ Step("composing", "recheck", <<CrossEvent(passed)>>)
          /\ shown' = [f \in Family |->
                         IF f \notin Routed THEN shown[f]
                         ELSE IF passed THEN Text(composed[f]) ELSE "rendered"]
          /\ result' = Executed(IF passed THEN CrossMode ELSE "deterministic_fallback")
  /\ UNCHANGED <<route, granted, worker, composed>>

\* The second half of _answer_atomically_checked: a stale boundary replaces
\* the result, or the cause of the failure.
Recheck ==
  /\ Step("recheck", "answer", <<>>)
  /\ result' = IF current THEN result ELSE Failure("retryable")
  /\ UNCHANGED <<route, granted, searches>>

-----------------------------------------------------------------------------
(***************************************************************************)
(* _emit_terminal_audit                                                    *)
(***************************************************************************)
Disposition ==
  CASE result.status = "executed" -> "EXECUTE"
    [] result.status = "clarified" -> "CLARIFY"
    [] result.status = "unsupported" -> "UNSUPPORTED"
    [] result.status \in {"failed", "timed_out"} -> IF route = <<>> THEN "none" ELSE "EXECUTE"

AnswerOutcome ==
  CASE result.status = "failed" -> <<"FAILED", "execution_failed">>
    [] result.status = "timed_out" -> <<"TIMED_OUT", "deadline_exceeded">>
    [] result.status \notin {"failed", "timed_out"} /\ expired ->
         <<"TIMED_OUT", "completed_after_deadline">>
    [] result.status = "executed" /\ ~expired ->
         <<"SUCCEEDED", IF result.mode = "deterministic_fallback" THEN "execution_fallback"
                        ELSE "execution_completed">>
    [] result.status = "clarified" /\ ~expired -> <<"CLARIFIED", "execution_clarified">>
    [] result.status = "unsupported" /\ ~expired -> <<"UNSUPPORTED", "execution_unsupported">>

Answer ==
  /\ Step("answer", "over",
          <<Event("ANSWER", AnswerOutcome[1], AnswerOutcome[2], Disposition,
                  IF result.status = "executed" THEN route ELSE <<>>)>>)
  /\ UNCHANGED <<route, granted, searches, result>>

-----------------------------------------------------------------------------
(***************************************************************************)
(* The environment and the caller.                                         *)
(***************************************************************************)
\* A file of a database or of the release is replaced.
Replace ==
  /\ current
  /\ current' = FALSE
  /\ UNCHANGED <<at, route, granted, searches, result, expired, caller, trail>>

Expire ==
  /\ ~expired
  /\ expired' = TRUE
  /\ UNCHANGED <<at, route, granted, searches, result, current, caller, trail>>

\* wait_for times out; the route cancels the deadline and answers 504.
CallerTimesOut ==
  /\ at # "closed" /\ caller.left = "no"
  /\ caller' = [caller EXCEPT !.left = "timed_out"]
  /\ expired' = TRUE
  /\ UNCHANGED <<at, route, granted, searches, result, current, trail>>

\* The client goes away: only a POST stops its worker.
CallerAborts ==
  /\ at # "closed" /\ caller.left = "no"
  /\ caller' = [caller EXCEPT !.left = "aborted"]
  /\ expired' = (expired \/ caller.method = "POST")
  /\ UNCHANGED <<at, route, granted, searches, result, current, trail>>

\* The terminal of a response: execute_answer_request, _map_error, the routes
Delivered ==
  CASE result.cause \in {"deadline", "late"} -> <<"TIMED_OUT", "deadline_exceeded">>
    [] result.cause = "none" -> <<"SUCCEEDED", "response_completed">>
    [] result.cause \in {"retryable", "fatal"} /\ caller.method = "POST" ->
         <<"FAILED", "adapter_failure">>
    [] result.cause = "retryable" /\ caller.method = "GET" ->
         <<"FAILED", "retryable_adapter_failure">>
    [] result.cause = "fatal" /\ caller.method = "GET" -> <<"SUCCEEDED", "response_completed">>

Terminal ==
  CASE caller.left = "no" -> Delivered
    [] caller.left = "timed_out" -> <<"TIMED_OUT", "deadline_exceeded">>
    [] caller.left = "aborted" -> <<"FAILED", "response_aborted">>

\* The barrier holds the terminal until the worker is over.
Close ==
  /\ Step("over", "closed", <<Plain("REQUEST", Terminal[1], Terminal[2])>>)
  /\ UNCHANGED <<route, granted, searches, result>>

-----------------------------------------------------------------------------
ProductStep ==
  \/ Enter \/ Guard
  \/ RouteFails \/ RouteControl \/ RouteExecute
  \/ Compile \/ CompileWithoutProposal \/ CompileBlocked
  \/ Check \/ Admit \/ Decline \/ Break
  \/ Grant \/ Deny \/ DenyByPolicy
  \/ \E f \in Family : Work(f)
  \/ Join \/ ShowRendered \/ ComposeOne \/ ComposeBatch
  \/ \E i \in DOMAIN route, mode \in Modes : ComposeFamily(i, mode)
  \/ Recheck \/ Answer \/ Close

EnvironmentStep == Replace \/ Expire \/ CallerTimesOut \/ CallerAborts

=============================================================================
