--------------------------- MODULE AuditValidation ---------------------------
(***************************************************************************)
(* What the audit validator demands of the trace of one invocation         *)
(* (audit_validation.py: _validate_invocations and the path validators it  *)
(* calls).  A trace is the sequence of its events; Issues is the set of    *)
(* issue codes the validator would report.                                 *)
(*                                                                         *)
(* Abstractions: an event keeps the fields the path rules compare; a plan  *)
(* hash is named by its product family and a relation plan by Relation, so *)
(* the family and relation-set links, which every event copies from its    *)
(* plan, need no fields of their own; a bundle hash is the sequence it is  *)
(* taken of.  Counts, release and dataset links, hashes of questions and   *)
(* sequence numbers are left out (module AuditSink has the numbers).       *)
(***************************************************************************)
EXTENDS Naturals, Sequences, FiniteSets, FiniteSetsExt, SequencesExt

CONSTANTS
  Families, \* product families, in the order a route lists them
  Relation  \* the plan of a relation question

ASSUME ValidationAssumption ==
  /\ Len(Families) > 0
  /\ Families \in Seq(Range(Families))
  /\ IsInjective(Families)
  /\ Relation \notin Range(Families)

Event(stage, outcome, reason, disposition, plans) ==
  [stage |-> stage, outcome |-> outcome, reason |-> reason,
   disposition |-> disposition, plans |-> plans]

\* Events that name neither a route nor a plan
Plain(stage, outcome, reason) == Event(stage, outcome, reason, "none", <<>>)

\* What a path rule identifies an event by
Key(e) == <<e.stage, e.outcome, e.reason>>

\* The events of a trace at the given positions, in order
Those(t, positions) ==
  LET chosen[i \in 0..Len(t)] ==
        IF i = 0 THEN <<>>
        ELSE IF i \in positions THEN Append(chosen[i - 1], t[i]) ELSE chosen[i - 1]
  IN chosen[Len(t)]

OfStage(t, stages) == Those(t, {i \in DOMAIN t : t[i].stage \in stages})

-----------------------------------------------------------------------------
(***************************************************************************)
(* _validate_success_path: the product path before a successful answer.    *)
(***************************************************************************)
Compiles(e) ==
  /\ e.stage = "COMPILER" /\ e.outcome = "SUCCEEDED"
  /\ e.reason \in {"plan_compiled", "family_plan_compiled"}
  /\ e.plans # <<>>

\* The compiled plans, each where it was compiled first
CompiledPlans(t) ==
  LET first ==
        Those(t, {i \in DOMAIN t :
                    /\ Compiles(t[i])
                    /\ \A j \in 1..(i - 1) : Compiles(t[j]) => t[j].plans[1] # t[i].plans[1]})
  IN [i \in DOMAIN first |-> first[i].plans[1]]

RoutesTo(e) == Key(e) = <<"ROUTE", "SUCCEEDED", "routed_execute">> /\ e.disposition = "EXECUTE"

RequiredStages ==
  << <<"AUTHORITY", "SUCCEEDED", "authority_granted">>,
     <<"SQL", "SUCCEEDED", "parameterized_statement_completed">>,
     <<"ORACLE", "SUCCEEDED", "oracle_completed">>,
     <<"VERIFIER", "SUCCEEDED", "verification_passed">>,
     <<"RENDERER", "SUCCEEDED", "rendering_completed">> >>

\* The first event of the stage after position i; past the end if there is none
NextOf(t, i, plan, key) ==
  Min({j \in (i + 1)..Len(t) : Key(t[j]) = key /\ t[j].plans = <<plan>>} \cup {Len(t) + 1})

Linked(t, plan) ==
  LET start == Min({i \in DOMAIN t : Compiles(t[i]) /\ t[i].plans[1] = plan})
      reached[k \in 0..Len(RequiredStages)] ==
        IF k = 0 THEN start ELSE NextOf(t, reached[k - 1], plan, RequiredStages[k])
  IN reached[Len(RequiredStages)] <= Len(t)

SuccessIssues(t, answer) ==
  LET compiled == {i \in DOMAIN t : Compiles(t[i])}
      routes == {i \in DOMAIN t : RoutesTo(t[i])}
      plans == CompiledPlans(t)
      rules ==
        [execution_stage_order_invalid |-> routes # {} => Max(routes) < Min(compiled),
         answer_plan_link_mismatch |-> answer.plans = plans,
         execution_plan_link_mismatch |->
           \A i \in DOMAIN t :
             (/\ t[i].stage \in {"AUTHORITY", "SQL", "ORACLE", "VERIFIER", "RENDERER"}
              /\ t[i].outcome = "SUCCEEDED" /\ t[i].disposition = "EXECUTE")
             => \E p \in Range(plans) : t[i].plans = <<p>>,
         execution_stage_missing |-> \A p \in Range(plans) : Linked(t, p)]
  IN {code \in {"execution_route_missing"} : routes = {}}
     \cup IF compiled = {} THEN {"execution_queryplan_missing"}
          ELSE {code \in DOMAIN rules : ~rules[code]}

-----------------------------------------------------------------------------
(***************************************************************************)
(* _validate_knowledge_success_path and _validate_knowledge_failure_path:  *)
(* the stages of a relation execution form one of a closed set of paths.   *)
(***************************************************************************)
KnowledgePrefix ==
  << <<"SAFETY", "SUCCEEDED", "guard_allowed">>,
     <<"ROUTE", "SUCCEEDED", "knowledge_routed_execute">>,
     <<"COMPILER", "SUCCEEDED", "knowledge_plan_compiled">> >>

Authority == <<"AUTHORITY", "SUCCEEDED", "knowledge_authority_granted">>
RelationLookup == <<"SQL", "SUCCEEDED", "relation_lookup_completed">>
Evidence == <<"VERIFIER", "SUCCEEDED", "relation_evidence_verified">>
Generated == <<"HCLX", "SUCCEEDED", "knowledge_generation_completed">>
NotGenerated == <<"HCLX", "FAILED", "knowledge_generation_failed">>
ClaimsOk == <<"VERIFIER", "SUCCEEDED", "knowledge_claims_verified">>
ClaimsBad == <<"VERIFIER", "FAILED", "knowledge_claims_rejected">>
Rendered == <<"RENDERER", "SUCCEEDED", "knowledge_rendering_completed">>

Gathered == <<Authority, RelationLookup, Evidence>>

\* Completed relation executions; the last needs no generation event in a
\* trace that fails after all.
CompletedPaths ==
  {Gathered \o p : p \in {<<ClaimsOk, Rendered>>, <<Generated, ClaimsOk, Rendered>>,
                          <<Generated, ClaimsBad, Rendered>>,
                          <<NotGenerated, ClaimsBad, Rendered>>, <<ClaimsBad, Rendered>>}}

\* How far an execution may have come when a boundary fails
PrefixesBefore(boundary) ==
  CASE boundary = <<"AUTHORITY", "FAILED", "knowledge_authority_rejected">> -> {<<>>}
    [] boundary = <<"AUTHORITY", "TIMED_OUT", "knowledge_authority_timed_out">> ->
         {<<>>} \cup CompletedPaths
    [] boundary = <<"AUTHORITY", "FAILED", "knowledge_post_authority_rejected">> ->
         CompletedPaths
    [] boundary \in {<<"SQL", "FAILED", "relation_lookup_failed">>,
                     <<"SQL", "TIMED_OUT", "relation_lookup_timed_out">>} -> {<<Authority>>}
    [] boundary \in {<<"VERIFIER", "FAILED", "relation_evidence_rejected">>,
                     <<"VERIFIER", "TIMED_OUT", "relation_verification_timed_out">>} ->
         {<<Authority, RelationLookup>>}
    [] boundary = <<"HCLX", "TIMED_OUT", "knowledge_generation_timed_out">> -> {Gathered}
    [] boundary = <<"RENDERER", "TIMED_OUT", "knowledge_rendering_timed_out">> ->
         {SubSeq(p, 1, n) : p \in CompletedPaths, n \in 3..5} \ CompletedPaths
    [] OTHER -> {}

PathStages ==
  {"SAFETY", "ROUTE", "COMPILER", "PLAN", "AUTHORITY", "EXECUTION", "SQL", "ORACLE",
   "VERIFIER", "HCLX", "RENDERER"}

PathOf(t) ==
  LET path == OfStage(t, PathStages) IN [i \in DOMAIN path |-> Key(path[i])]

PlanLinked(t) ==
  \A i \in DOMAIN t :
    t[i].stage \in PathStages \ {"SAFETY"} =>
      /\ t[i].disposition = "EXECUTE"
      /\ t[i].stage # "ROUTE" => t[i].plans = <<Relation>>

KnowledgeSuccessIssues(t, answer) ==
  LET path == PathOf(t)
      fallback == answer.reason = "knowledge_execution_fallback"
      executed ==
        {p \in CompletedPaths :
           IF fallback THEN Len(p) = 6 /\ p[5] = ClaimsBad
           ELSE \A i \in DOMAIN p : p[i] # ClaimsBad}
      expected ==
        IF answer.reason = "knowledge_execution_not_found"
        THEN {Gathered \o <<ClaimsOk, Rendered>>} ELSE executed
      rules ==
        [knowledge_stage_order_invalid |-> path \in {KnowledgePrefix \o p : p \in expected},
         knowledge_plan_link_mismatch |-> PlanLinked(t) /\ answer.plans = <<Relation>>]
  IN {code \in DOMAIN rules : ~rules[code]}

\* The path up to the boundary, and the boundary itself, are the last things
\* before a failed answer; the transport's terminal agrees with it.
KnowledgeFailureIssues(t, answer, rest) ==
  LET path == PathOf(t)
      n == Len(path)
      boundary == path[n]
      timedOut == answer.outcome = "TIMED_OUT"
      terminals == OfStage(rest, {"REQUEST"})
      rules ==
        [knowledge_failure_reason_invalid |->
           answer.reason = IF timedOut THEN "knowledge_deadline_exceeded"
                           ELSE "knowledge_execution_failed",
         knowledge_failure_prefix_invalid |->
           /\ n > 3 /\ SubSeq(path, 1, 3) = KnowledgePrefix
           /\ SubSeq(path, 4, n - 1) \in PrefixesBefore(boundary),
         knowledge_plan_link_mismatch |-> PlanLinked(t) /\ answer.plans = <<Relation>>,
         knowledge_success_after_failure |->
           OfStage(rest, {"REQUEST", "SCHEMA_LINK_SHADOW"}) = rest,
         answer_terminal_duplicate |-> OfStage(t, {"ANSWER"}) = <<>>,
         knowledge_failure_outcome_mismatch |-> n > 0 => timedOut = (boundary[2] = "TIMED_OUT"),
         knowledge_timeout_terminal_mismatch |->
           (timedOut /\ terminals # <<>>) =>
             Key(terminals[1]) = <<"REQUEST", "TIMED_OUT", "deadline_exceeded">>,
         knowledge_failure_terminal_mismatch |->
           (~timedOut /\ terminals # <<>>) => terminals[1].outcome = "FAILED"]
  IN {code \in DOMAIN rules : ~rules[code]}

\* _validate_knowledge_control_path
KnowledgeControlIssues(t, answer) ==
  LET suffix == IF answer.outcome = "CLARIFIED" THEN "clarify" ELSE "unsupported"
      route == IF suffix = "clarify" THEN "knowledge_routed_clarify"
               ELSE "knowledge_routed_unsupported"
      rules ==
        [knowledge_control_route_missing |->
           PathOf(OfStage(t, {"SAFETY", "ROUTE"})) =
             << KnowledgePrefix[1], <<"ROUTE", answer.outcome, route>> >>,
         knowledge_control_path_executed |->
           OfStage(t, PathStages \ {"SAFETY", "ROUTE", "PLAN"}) = <<>>]
  IN {code \in DOMAIN rules : ~rules[code]}

-----------------------------------------------------------------------------
\* The control rule of _validate_invocations: an answer that says nothing was
\* executed follows no authority but a refusal, and no data access at all.
Executes(e) ==
  \/ e.stage = "AUTHORITY" /\ Key(e) # <<"AUTHORITY", "BLOCKED", "authority_denied">>
  \/ e.stage \in {"EXECUTION", "SQL", "ORACLE", "VERIFIER", "RENDERER"}

ControlIssues(t) ==
  {code \in {"control_path_executed"} : \E i \in DOMAIN t : Executes(t[i])}

KnowledgeReasons ==
  {"knowledge_execution_completed", "knowledge_execution_not_found",
   "knowledge_execution_fallback", "knowledge_execution_clarified",
   "knowledge_execution_unsupported", "knowledge_execution_failed",
   "knowledge_deadline_exceeded"}

\* _is_knowledge_event, of an answer
IsKnowledge(e) == e.reason \in KnowledgeReasons

Serves(e) == e.stage = "ANSWER" /\ e.outcome = "SUCCEEDED" /\ e.disposition = "EXECUTE"

AnswerIssues(t, i) ==
  LET answer == t[i]
      before == SubSeq(t, 1, i - 1)
      rest == SubSeq(t, i + 1, Len(t))
  IN CASE Serves(answer) ->
            IF IsKnowledge(answer) THEN KnowledgeSuccessIssues(before, answer)
            ELSE SuccessIssues(before, answer)
       [] answer.outcome \in {"CLARIFIED", "UNSUPPORTED"} ->
            ControlIssues(before)
              \cup IF IsKnowledge(answer) THEN KnowledgeControlIssues(before, answer) ELSE {}
       [] answer.outcome \in {"FAILED", "TIMED_OUT"} /\ IsKnowledge(answer) ->
            KnowledgeFailureIssues(before, answer, rest)
       [] OTHER -> {}

\* The lifecycle rules: opened first and once, closed once and last.
LifecycleIssues(t) ==
  LET requests == {i \in DOMAIN t : t[i].stage = "REQUEST"}
      rules ==
        [request_start_not_first |->
           {i \in requests : t[i].outcome = "STARTED"} = {1},
         request_terminal_not_last |->
           \E i \in requests :
             /\ {j \in requests : t[j].outcome # "STARTED"} = {i}
             /\ \A j \in (i + 1)..Len(t) : t[j].stage = "SCHEMA_LINK_SHADOW",
         answer_terminal_duplicate |->
           Cardinality({i \in DOMAIN t : Serves(t[i])}) <= 1]
  IN {code \in DOMAIN rules : ~rules[code]}

Issues(t) ==
  LifecycleIssues(t)
    \cup UNION {AnswerIssues(t, i) : i \in {j \in DOMAIN t : t[j].stage = "ANSWER"}}

=============================================================================
