------------------------ MODULE InvocationLifecycle ------------------------
(***************************************************************************)
(* What the audit-artifact validator demands of every invocation, as a     *)
(* protocol: the transport opens it with one REQUEST/STARTED event and     *)
(* closes it with one REQUEST terminal; only a Schema Link Shadow event    *)
(* may come after that.  A shutdown calls the trail complete only when     *)
(* every invocation is closed and nothing was lost, and then nothing is    *)
(* emitted any more.  AuditTrail implements it.                            *)
(***************************************************************************)
EXTENDS Sequences

CONSTANT Invocations

VARIABLES
  log,   \* stages of an invocation's events, in the order of their numbers
  lost,  \* an event did not get into the trail
  seal   \* what the shutdown made of the trail: open, complete or incomplete

vars == <<log, lost, seal>>

Has(i, stage) == \E n \in DOMAIN log[i] : log[i][n] = stage

Init ==
  /\ log = [i \in Invocations |-> <<>>]
  /\ lost = FALSE
  /\ seal = "open"

Emit(i, stage) ==
  /\ seal # "complete"
  /\ log' = [log EXCEPT ![i] = Append(@, stage)]
  /\ lost' \in {lost, TRUE}
  /\ UNCHANGED seal

Begin(i) == log[i] = <<>> /\ Emit(i, "started")
Record(i) == Has(i, "started") /\ ~Has(i, "terminal") /\ Emit(i, "event")
End(i) == Has(i, "started") /\ ~Has(i, "terminal") /\ Emit(i, "terminal")
Shadow(i) == Has(i, "started") /\ Emit(i, "shadow")

Seal(complete) ==
  /\ seal = "open"
  /\ complete =>
       ~lost /\ \A i \in Invocations : Has(i, "started") => Has(i, "terminal")
  /\ seal' = IF complete THEN "complete" ELSE "incomplete"
  /\ UNCHANGED <<log, lost>>

Next ==
  \/ \E i \in Invocations : Begin(i) \/ Record(i) \/ End(i) \/ Shadow(i)
  \/ \E complete \in BOOLEAN : Seal(complete)

Spec == Init /\ [][Next]_vars

=============================================================================
