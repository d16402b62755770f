--------------------------- MODULE KnowledgeRequest ---------------------------
(***************************************************************************)
(* The public entry of the Agent as a whole: the product path of           *)
(* RoutedRequest and the relation path that the knowledge router takes     *)
(* before it (_execute_knowledge_audited and what it calls, and            *)
(* KnowledgeAgent.execute in agent/knowledge_service.py).                  *)
(*                                                                         *)
(* Every boundary of a relation execution ends it with an event of its own *)
(* and an exception; the answer event and the transport's terminal follow. *)
(* What happens to the index under a lookup is in module RelationLookup.   *)
(***************************************************************************)
EXTENDS RoutedRequest

Linking(stage, outcome, reason) == Event(stage, outcome, reason, "EXECUTE", <<Relation>>)
LinkingKey(key) == Linking(key[1], key[2], key[3])

\* A boundary that fails: its event, and what it raises
Breaks(here, cause, stage, outcome, reason) ==
  Step(here, "k_answer", <<Linking(stage, outcome, reason)>>) /\ Raise(cause)

KnowledgeOnly == UNCHANGED <<route, granted, searches>>

-----------------------------------------------------------------------------
(***************************************************************************)
(* _answer_public_atomically: the knowledge router takes the question, and *)
(* decides.  A control decision rechecks the boundary; a stale one is      *)
(* raised outside the audited part.                                        *)
(***************************************************************************)
EnterRelation ==
  /\ current
  /\ Step("received", "relation", <<>>)
  /\ UNCHANGED result
  /\ KnowledgeOnly

Suffix(outcome) == IF outcome = "clarified" THEN "CLARIFY" ELSE "UNSUPPORTED"
RouteReason(outcome) ==
  IF outcome = "clarified" THEN "knowledge_routed_clarify" ELSE "knowledge_routed_unsupported"
Outcome(outcome) == IF outcome = "clarified" THEN "CLARIFIED" ELSE "UNSUPPORTED"

\* _emit_knowledge_route_audit of a control decision
ControlEvents(outcome) ==
  << Plain("SAFETY", "SUCCEEDED", "guard_allowed"),
     Event("ROUTE", Outcome(outcome), RouteReason(outcome), Suffix(outcome), <<>>) >>

RelationControl ==
  /\ \/ /\ current
        /\ \E outcome \in Controls :
             Step("relation", "k_answer", ControlEvents(outcome)) /\ Control(outcome)
     \/ /\ ~current
        /\ Step("relation", "over", <<>>)
        /\ Raise("retryable")
  /\ KnowledgeOnly

\* An executable plan for an Agent without relation retrieval
RelationNotActivated ==
  /\ Step("relation", "k_answer", ControlEvents("unsupported"))
  /\ Control("unsupported")
  /\ KnowledgeOnly

RelationExecute ==
  /\ Step("relation", "k_check",
          << Plain("SAFETY", "SUCCEEDED", "guard_allowed"),
             Event("ROUTE", "SUCCEEDED", "knowledge_routed_execute", "EXECUTE", <<>>),
             Linking("COMPILER", "SUCCEEDED", "knowledge_plan_compiled") >>)
  /\ UNCHANGED result
  /\ KnowledgeOnly

-----------------------------------------------------------------------------
(***************************************************************************)
(* _execute_knowledge_route_checked before execution, and the plan gate.   *)
(***************************************************************************)
RelationCheck ==
  /\ \/ /\ expired
        /\ Breaks("k_check", "deadline", "AUTHORITY", "TIMED_OUT",
                  "knowledge_authority_timed_out")
     \/ /\ ~current
        /\ Breaks("k_check", "retryable", "AUTHORITY", "FAILED", "knowledge_authority_rejected")
     \/ /\ current /\ ~expired
        /\ Step("k_check", "k_authorize", <<>>)
        /\ UNCHANGED result
  /\ KnowledgeOnly

RelationAuthorize ==
  /\ \/ /\ expired
        /\ Breaks("k_authorize", "deadline", "AUTHORITY", "TIMED_OUT",
                  "knowledge_authority_timed_out")
     \/ Breaks("k_authorize", "fatal", "AUTHORITY", "FAILED", "knowledge_authority_rejected")
     \/ /\ ~expired
        /\ Step("k_authorize", "k_lookup", <<LinkingKey(Authority)>>)
        /\ UNCHANGED result
  /\ KnowledgeOnly

(***************************************************************************)
(* _execute_relation: the lookup, whose result.mode says whether anything  *)
(* was found, and the verification of its evidence.                        *)
(***************************************************************************)
Finds(mode) == result' = [status |-> "none", mode |-> mode, cause |-> "none"]

Lookup ==
  /\ \/ /\ expired
        /\ Breaks("k_lookup", "deadline", "SQL", "TIMED_OUT", "relation_lookup_timed_out")
     \/ \E cause \in {"retryable", "fatal"} :
          Breaks("k_lookup", cause, "SQL", "FAILED", "relation_lookup_failed")
     \/ /\ ~expired
        /\ Step("k_lookup", "k_verify", <<LinkingKey(RelationLookup)>>)
        /\ \E mode \in {"empty", "found"} : Finds(mode)
  /\ KnowledgeOnly

VerifyEvidence ==
  /\ \/ /\ expired
        /\ Breaks("k_verify", "deadline", "VERIFIER", "TIMED_OUT",
                  "relation_verification_timed_out")
     \/ Breaks("k_verify", "retryable", "VERIFIER", "FAILED", "relation_evidence_rejected")
     \/ /\ ~expired
        /\ Step("k_verify", "k_compose", <<LinkingKey(Evidence)>>)
        /\ UNCHANGED result
  /\ KnowledgeOnly

-----------------------------------------------------------------------------
(***************************************************************************)
(* compose_knowledge_answer: no provider is asked when nothing was found;  *)
(* a provider that fails, or whose claims do not verify, is replaced by    *)
(* the deterministic answer.                                               *)
(***************************************************************************)
\* How a provider's draft can turn out, and what a composition writes for it
Drafts(asked) == IF asked THEN {"verified", "rejected", "missing"} ELSE {"unasked"}

KnowledgeComposition(draft) ==
  CASE draft = "verified" -> <<LinkingKey(Generated), LinkingKey(ClaimsOk), LinkingKey(Rendered)>>
    [] draft = "rejected" -> <<LinkingKey(Generated), LinkingKey(ClaimsBad), LinkingKey(Rendered)>>
    [] draft = "missing" ->
         <<LinkingKey(NotGenerated), LinkingKey(ClaimsBad), LinkingKey(Rendered)>>
    [] draft = "unasked" -> <<LinkingKey(ClaimsOk), LinkingKey(Rendered)>>

ComposedMode(draft) ==
  IF draft \in {"rejected", "missing"} THEN "fallback"
  ELSE IF result.mode = "empty" THEN "not_found" ELSE "completed"

ComposeTimesOut(asked) ==
  /\ expired
  /\ IF asked
     THEN Breaks("k_compose", "deadline", "HCLX", "TIMED_OUT", "knowledge_generation_timed_out")
     ELSE Breaks("k_compose", "deadline", "RENDERER", "TIMED_OUT",
                 "knowledge_rendering_timed_out")

\* An error nobody expected, before the composition's events or after them:
\* execute has no handler for it, and _execute_knowledge_route_checked raises it
\* again "without a fabricated boundary".
ComposeBreaks(asked) ==
  /\ \/ Step("k_compose", "k_answer", <<>>)
     \/ /\ ~expired
        /\ \E draft \in Drafts(asked) :
             Step("k_compose", "k_answer", KnowledgeComposition(draft))
  /\ Raise("fatal")

ComposeRelation ==
  /\ \E asked \in {FALSE, result.mode = "found"} :
       \/ ComposeTimesOut(asked)
       \/ ComposeBreaks(asked)
       \/ /\ ~expired
          /\ \E draft \in Drafts(asked) :
               /\ Step("k_compose", "k_post", KnowledgeComposition(draft))
               /\ Finds(ComposedMode(draft))
  /\ KnowledgeOnly

\* Mutants: the files are not looked at again; their replacement is reported
\* like a refusal before the execution.
NotLookedAt == TRUE
RejectedAlike == "knowledge_authority_rejected"

\* The boundary after the execution
StillCurrent == current
RejectedAfter == "knowledge_post_authority_rejected"

RelationPostCheck ==
  /\ \/ /\ ~StillCurrent
        /\ Breaks("k_post", "retryable", "AUTHORITY", "FAILED", RejectedAfter)
     \/ /\ StillCurrent /\ expired
        /\ Breaks("k_post", "deadline", "AUTHORITY", "TIMED_OUT",
                  "knowledge_authority_timed_out")
     \/ /\ StillCurrent /\ ~expired
        /\ Step("k_post", "k_answer", <<>>)
        /\ result' = [result EXCEPT !.status = "executed"]
  /\ KnowledgeOnly

-----------------------------------------------------------------------------
(***************************************************************************)
(* _emit_knowledge_terminal_audit                                          *)
(***************************************************************************)
AnswerReason ==
  CASE result.mode = "completed" -> "knowledge_execution_completed"
    [] result.mode = "not_found" -> "knowledge_execution_not_found"
    [] result.mode = "fallback" -> "knowledge_execution_fallback"

KnowledgeAnswer ==
  CASE result.status = "executed" -> Linking("ANSWER", "SUCCEEDED", AnswerReason)
    [] result.status = "failed" -> Linking("ANSWER", "FAILED", "knowledge_execution_failed")
    [] result.status = "timed_out" ->
         Linking("ANSWER", "TIMED_OUT", "knowledge_deadline_exceeded")
    [] result.status = "clarified" ->
         Event("ANSWER", "CLARIFIED", "knowledge_execution_clarified", "CLARIFY", <<>>)
    [] result.status = "unsupported" ->
         Event("ANSWER", "UNSUPPORTED", "knowledge_execution_unsupported", "UNSUPPORTED", <<>>)

AnswerRelation ==
  /\ Step("k_answer", "over", <<KnowledgeAnswer>>)
  /\ UNCHANGED result
  /\ KnowledgeOnly

KnowledgeStep ==
  \/ EnterRelation \/ RelationControl \/ RelationNotActivated \/ RelationExecute
  \/ RelationCheck \/ RelationAuthorize \/ Lookup \/ VerifyEvidence
  \/ ComposeRelation \/ RelationPostCheck \/ AnswerRelation

Next == ProductStep \/ KnowledgeStep \/ EnvironmentStep

Spec == Init /\ [][Next]_vars

\* Worker threads run; files are replaced, deadlines pass and callers leave
\* whenever they like, or never.
FairSpec ==
  /\ Spec
  /\ WF_vars(KnowledgeStep)
  /\ WF_vars(ProductStep)

-----------------------------------------------------------------------------
Places ==
  {"received", "guard", "routing", "compiling", "checking", "admitting", "authorizing",
   "running", "composing", "recheck", "answer", "relation", "k_check", "k_authorize",
   "k_lookup", "k_verify", "k_compose", "k_post", "k_answer", "over", "closed"}

WorkerStates == {"idle", "done"} \cup Working \cup Causes

\* Every variable keeps the shape of what it stands for.
TypeOK ==
  /\ at \in Places
  /\ route \in Routes \cup {<<>>}
  /\ granted \in Nat
  /\ worker \in [Family -> WorkerStates]
  /\ composed \in [Family -> Modes \cup {"none"}]
  /\ shown \in [Family -> {"none", "rendered", "generated"}]
  /\ result \in [status : {"none", "executed", "failed", "timed_out"} \cup Controls,
                 mode : Modes \cup {"none", "empty", "found", "completed", "not_found", "fallback"},
                 cause : Causes \cup {"none"}]
  /\ current \in BOOLEAN /\ expired \in BOOLEAN
  /\ caller \in [method : {"GET", "POST"}, left : {"no", "timed_out", "aborted"}]

\* A question over several families is answered with all of them or none: no
\* search starts before every plan of the batch is authorised (the comment in
\* _answer_cross_family_search: "Authorize the complete ordered batch before
\* starting any worker"), the answer shows families only when the searches of
\* all ended well, and shows a generated text only when no family's
\* composition was rejected (_compose_cross_family_grounded_answer).
AllOrNone ==
  /\ \A f \in Family : worker[f] # "idle" => f \in Routed /\ granted = Len(route)
  /\ \A f \in Family : shown[f] # "none" => f \in Routed /\ \A g \in Routed : worker[g] = "done"
  /\ (result.status = "executed" /\ route # <<>>) => \A f \in Routed : shown[f] # "none"
  /\ (\E f \in Family : shown[f] = "generated") =>
       \A f \in Routed : composed[f] # "deterministic_fallback"

\* Once the answer is recorded no thread of the request writes anything but the
\* transport's terminal: the pool is joined even when a search failed
\* (_answer_cross_family_search, the with block of ThreadPoolExecutor).
SilentAfterAnswer ==
  [][ \A i \in DOMAIN trail :
        trail[i].stage = "ANSWER" =>
          \A j \in (Len(trail) + 1)..Len(trail') : trail'[j].stage = "REQUEST" ]_vars

RelationRequest == \E i \in DOMAIN trail : trail[i].reason = "knowledge_routed_execute"

CrossVerifiedEvent ==
  \E i \in DOMAIN trail : trail[i].reason = "cross_composition_verified"

\* A relation execution past its evidence that no boundary ended
LeftOpen == PathOf(trail) \in {KnowledgePrefix \o p : p \in {Gathered} \cup CompletedPaths}

\* The gaps between what the Agent writes and what the validator accepts: the
\* event of a cross-family verification has no plan; a batch whose later plan
\* the policy refuses is answered without data after an earlier plan was
\* authorised; a relation answer whose composition breaks unexpectedly has no
\* boundary, on purpose; the transport's terminal follows the caller who left,
\* or the status of the response, and not the answer event.
KnownGaps ==
  {code \in {"execution_plan_link_mismatch"} : CrossVerifiedEvent}
    \cup {code \in {"control_path_executed"} : Batch /\ granted > 0}
    \cup {code \in {"knowledge_failure_prefix_invalid"} : LeftOpen /\ result.cause = "fatal"}
    \cup {code \in {"knowledge_timeout_terminal_mismatch"} : caller.left = "aborted"}
    \cup {code \in {"knowledge_failure_terminal_mismatch"} :
            caller.left = "timed_out" \/ (caller.method = "GET" /\ result.cause = "fatal")}

\* Whatever interleaving of searches, failures, file replacements, deadlines
\* and callers leads to it, the trace of a closed product request is one the
\* validator accepts, but for the known gaps (audit_validation.py is the gate
\* every recorded trace has to pass).
ProductTrailAccepted ==
  (at = "closed" /\ ~RelationRequest) => Issues(trail) \subseteq KnownGaps

\* The same of a relation request, whose failures have to form one of the paths
\* the validator knows (_validate_knowledge_failure_path).
KnowledgeTrailAccepted ==
  (at = "closed" /\ RelationRequest) => Issues(trail) \subseteq KnownGaps

Served == \E i \in DOMAIN trail : trail[i].stage = "ANSWER" /\ trail[i].outcome = "SUCCEEDED"
Decided == at \in {"answer", "k_answer", "over", "closed"}

\* When a database or a release file is replaced before the last look at the
\* boundary, nothing of what was read is answered: not by the searches that had
\* already ended, and not by the relation lookup (the checks after execution in
\* _answer_atomically_checked and _execute_knowledge_route_checked).
StaleNeverServed == []((~current /\ ~Decided) => []~Served)

\* Every request is closed: no search, no boundary and no caller keeps its
\* invocation open (the pool joins, and the barrier releases the terminal).
RequestEnds == <>(at = "closed")

-----------------------------------------------------------------------------
\* "Router -> QueryPlan -> Oracle -> Verifier -> Answer" of an answered request
\* is a complete path for the validator, that of a verified cross-family answer
\* included (deterministic-performance-decomposition.md, section 9).
BatchAnswersTraced ==
  (at = "closed" /\ CrossVerifiedEvent) => "execution_plan_link_mismatch" \notin Issues(trail)

=============================================================================
