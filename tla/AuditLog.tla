------------------------------ MODULE AuditLog ------------------------------
(***************************************************************************)
(* What the durable audit path promises, without threads, queue bounds,    *)
(* locks or lines: accepted events reach the log in the order they were    *)
(* accepted, and the shutdown calls the log clean only if no event was     *)
(* refused, failed or is still on its way.  AuditSink implements it.       *)
(***************************************************************************)
EXTENDS Sequences

CONSTANTS
  Events,
  Spoiled  \* what an entry of the log is whose event was lost on the way into it

VARIABLES
  backlog, \* accepted events on their way to the log
  log,     \* events in the log, and spoiled entries
  lossy,   \* an event of this process was refused or failed
  seal     \* what the shutdown made of the log: open, clean or lossy

vars == <<backlog, log, lossy, seal>>

Init == backlog = <<>> /\ log = <<>> /\ lossy = FALSE /\ seal = "open"

Accept(e) ==
  /\ seal = "open"
  /\ backlog' = Append(backlog, e)
  /\ UNCHANGED <<log, lossy, seal>>

Refuse ==
  /\ lossy' = TRUE
  /\ UNCHANGED <<backlog, log, seal>>

Store ==
  /\ backlog # <<>>
  /\ log' = Append(log, Head(backlog))
  /\ backlog' = Tail(backlog)
  /\ lossy => lossy'
  /\ lossy' \in BOOLEAN
  /\ UNCHANGED seal

Lose ==
  /\ backlog # <<>>
  /\ backlog' = Tail(backlog)
  /\ log' \in {log, Append(log, Spoiled)}
  /\ lossy' = TRUE
  /\ UNCHANGED seal

Seal ==
  /\ seal = "open" /\ backlog = <<>>
  /\ seal' \in {"clean", "lossy"}
  /\ seal' = "clean" => ~lossy
  /\ UNCHANGED <<backlog, log, lossy>>

\* A crash loses what was on its way; the write under way may have made it, or
\* a part of it.
Stop ==
  /\ backlog' = <<>>
  /\ \/ UNCHANGED log
     \/ backlog # <<>> /\ log' \in {Append(log, Head(backlog)), Append(log, Spoiled)}
  /\ UNCHANGED <<lossy, seal>>

Reopen ==
  /\ backlog = <<>>
  /\ lossy' = FALSE /\ seal' = "open"
  /\ UNCHANGED <<backlog, log>>

Next ==
  \/ \E e \in Events : Accept(e)
  \/ Refuse \/ Store \/ Lose \/ Seal \/ Stop \/ Reopen

Spec == Init /\ [][Next]_vars

=============================================================================
