--------------------------- MODULE SharedExecution ---------------------------
(***************************************************************************)
(* What IdempotentRequestCoordinator promises its callers, without locks,  *)
(* callbacks, admission or time: one execution at a time per request key,  *)
(* shared by the calls that ask the same question, forgotten only once it  *)
(* is over.  RequestExecution implements it.                               *)
(***************************************************************************)
CONSTANTS Calls, Keys, None

VARIABLES
  ask,   \* what each call asks: its route and, for a GET, key and input
  desk,  \* the execution a key currently stands for
  leg,   \* life of the execution a call may start
  seat   \* the execution a call shares

vars == <<ask, desk, leg, seat>>

Init ==
  /\ desk = [k \in Keys |-> None]
  /\ leg = [c \in Calls |-> "parked"]
  /\ seat = [c \in Calls |-> None]

\* Keys may be forgotten at any time, but never one whose execution runs.
Forgettable(E) == \A k \in E : desk[k] # None => leg[desk[k]] = "over"

\* A call without a current execution for its key starts one.
StartOne(c, E) ==
  LET k == ask[c].key IN
  /\ ask[c].route = "get" /\ seat[c] = None /\ leg[c] = "parked"
  /\ Forgettable(E)
  /\ desk[k] = None \/ k \in E
  /\ desk' = [j \in Keys |-> IF j = k THEN c ELSE IF j \in E THEN None ELSE desk[j]]
  /\ leg' = [leg EXCEPT ![c] = "running"]
  /\ seat' = [seat EXCEPT ![c] = c]
  /\ UNCHANGED ask

\* A call shares the current execution of its key if it asks the same.
ShareOne(c, E) ==
  LET k == ask[c].key IN
  /\ ask[c].route = "get" /\ seat[c] = None /\ leg[c] = "parked"
  /\ Forgettable(E) /\ k \notin E
  /\ desk[k] # None /\ ask[desk[k]] = ask[c]
  /\ seat' = [seat EXCEPT ![c] = desk[k]]
  /\ desk' = [j \in Keys |-> IF j \in E THEN None ELSE desk[j]]
  /\ UNCHANGED <<ask, leg>>

End(f) ==
  /\ leg[f] = "running"
  /\ leg' = [leg EXCEPT ![f] = "over"]
  /\ UNCHANGED <<ask, desk, seat>>

Forget(E) ==
  /\ Forgettable(E)
  /\ desk' = [j \in Keys |-> IF j \in E THEN None ELSE desk[j]]
  /\ UNCHANGED <<ask, leg, seat>>

Next ==
  \E E \in SUBSET Keys :
    \/ \E c \in Calls : StartOne(c, E) \/ ShareOne(c, E) \/ End(c)
    \/ Forget(E)

Spec == Init /\ [][Next]_vars

=============================================================================
