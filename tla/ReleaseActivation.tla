------------------------- MODULE ReleaseActivation -------------------------
(***************************************************************************)
(* Activating a release on a host: the launcher's persistent Binding       *)
(* snapshot (compose-release.sh) and the activation broker                 *)
(* (fastapi_backend/scripts/release_activation.py).                        *)
(*                                                                         *)
(* Several launcher runs may be started at once.  Each first publishes its *)
(* Binding under its hash with a hard link, outside any lock, and then     *)
(* runs the broker: lock, trust verification, transition check, Compose    *)
(* up, state file, and Compose down if the state could not be written.  A  *)
(* run may be killed between any two steps, and the host may go down: the  *)
(* kernel frees the lock, the containers survive or come back, and a       *)
(* rename whose directory was not synced may be undone.  The Compose child *)
(* of a killed broker works on: the lock descriptor is close-on-exec, so   *)
(* the child does not hold the lock.                                       *)
(*                                                                         *)
(* Abstractions: a Binding is a value with a generation and the Binding    *)
(* its rollback object pins (all seven identity fields of it); trust       *)
(* verification succeeds or fails; the stack serves one Binding or none.   *)
(***************************************************************************)
EXTENDS Naturals

CONSTANTS
  Runs,       \* launcher runs, each of one process
  Bindings,   \* signed DeploymentBindings
  Generation, \* activation_generation of a Binding
  Pinned,     \* the Binding its rollback pins, or None for initial_bootstrap
  None        \* no state file, no stack, no lock holder

ASSUME BindingAssumption ==
  /\ None \notin Bindings \cup Runs
  /\ Generation \in [Bindings -> Nat \ {0}]
  /\ Pinned \in [Bindings -> Bindings \cup {None}]

VARIABLES
  at,        \* where each run is
  candidate, \* the Binding it is to activate
  seen,      \* the active record it validated against
  composing, \* its docker compose up runs
  linked,    \* its temporary file is a second link of the snapshot
  links,     \* link count of <sha256>.json, 0 if there is none
  lock,      \* holder of activation.lock
  recorded,  \* active-binding.json
  durable,   \* the states a host crash may leave in active-binding.json
  serving    \* the Binding whose containers are up

runVars == <<at, candidate, seen, composing>>
snapshotVars == <<linked, links>>
hostVars == <<lock, recorded, durable, serving>>
vars == <<runVars, snapshotVars, hostVars>>

Over == {"refused", "failed", "activated", "killed"}
Broker == {"verifying", "validating", "composing", "recording", "syncing", "downing"}

Init ==
  /\ at = [r \in Runs |-> "ready"]
  /\ candidate = [r \in Runs |-> None]
  /\ seen = [r \in Runs |-> None]
  /\ composing = [r \in Runs |-> FALSE]
  /\ linked = [r \in Runs |-> FALSE]
  /\ links = [b \in Bindings |-> 0]
  /\ lock = None
  /\ recorded = None
  /\ durable = {None}
  /\ serving = None

Goto(r, where) == at' = [at EXCEPT ![r] = where]
End(r, how) == Goto(r, how) /\ lock' = None

-----------------------------------------------------------------------------
(***************************************************************************)
(* persistent_binding_snapshot                                             *)
(***************************************************************************)

\* The temporary file is written and synced.
Begin(r, b) ==
  /\ at[r] = "ready"
  /\ Goto(r, "publishing")
  /\ candidate' = [candidate EXCEPT ![r] = b]
  /\ UNCHANGED <<seen, composing, snapshotVars, hostVars>>

\* os.link, or FileExistsError.
Publish(r) ==
  /\ at[r] = "publishing"
  /\ Goto(r, "unlinking")
  /\ LET b == candidate[r] IN
     IF links[b] = 0
     THEN links' = [links EXCEPT ![b] = 2] /\ linked' = [linked EXCEPT ![r] = TRUE]
     ELSE UNCHANGED snapshotVars
  /\ UNCHANGED <<candidate, seen, composing, hostVars>>

\* temporary.unlink in the finally block.
Unlink(r) ==
  /\ at[r] = "unlinking"
  /\ Goto(r, "checking")
  /\ IF linked[r]
     THEN /\ links' = [links EXCEPT ![candidate[r]] = @ - 1]
          /\ linked' = [linked EXCEPT ![r] = FALSE]
     ELSE UNCHANGED snapshotVars
  /\ UNCHANGED <<candidate, seen, composing, hostVars>>

\* st_nlink # 1 makes the snapshot invalid.
SkipCheck(r) ==
  /\ at[r] = "checking"
  /\ Goto(r, "waiting")
  /\ UNCHANGED <<candidate, seen, composing, snapshotVars, hostVars>>
CheckSnapshot(r) ==
  /\ at[r] = "checking"
  /\ Goto(r, IF links[candidate[r]] = 1 THEN "waiting" ELSE "refused")
  /\ UNCHANGED <<candidate, seen, composing, snapshotVars, hostVars>>

-----------------------------------------------------------------------------
(***************************************************************************)
(* activate                                                                *)
(***************************************************************************)

\* flock(LOCK_EX)
AcquireUnlocked(r) ==
  /\ at[r] = "waiting"
  /\ lock' = r
  /\ Goto(r, "verifying")
  /\ UNCHANGED <<candidate, seen, composing, snapshotVars, recorded, durable, serving>>
Acquire(r) ==
  /\ at[r] = "waiting" /\ lock = None
  /\ lock' = r
  /\ Goto(r, "verifying")
  /\ UNCHANGED <<candidate, seen, composing, snapshotVars, recorded, durable, serving>>

\* _run_trust_verification and _load_candidate
Verify(r) ==
  /\ at[r] = "verifying"
  /\ (Goto(r, "validating") /\ UNCHANGED lock) \/ End(r, "refused")
  /\ UNCHANGED <<candidate, seen, composing, snapshotVars, recorded, durable, serving>>

\* _validate_transition: bootstrap, idempotent or advance
Follows(b, active) ==
  IF active = None
  THEN Generation[b] = 1 /\ Pinned[b] = None
  ELSE \/ b = active
       \/ Generation[b] = Generation[active] + 1 /\ Pinned[b] = active

Validate(r) ==
  /\ at[r] = "validating"
  /\ seen' = [seen EXCEPT ![r] = recorded]
  /\ IF Follows(candidate[r], recorded)
     THEN /\ Goto(r, "composing") /\ UNCHANGED lock
          /\ composing' = [composing EXCEPT ![r] = TRUE]
     ELSE End(r, "refused") /\ UNCHANGED composing
  /\ UNCHANGED <<candidate, snapshotVars, recorded, durable, serving>>

\* docker compose up --force-recreate: the stack goes and comes back.
Recreate(r) ==
  /\ composing[r]
  /\ serving' \in {None, candidate[r]}
  /\ UNCHANGED <<runVars, snapshotVars, lock, recorded, durable>>

\* --wait saw a healthy stack of the candidate, or the child ended with another
\* status, after which nothing is taken down.
ComposeUp(r) ==
  /\ at[r] = "composing"
  /\ \/ serving = candidate[r] /\ Goto(r, "recording") /\ UNCHANGED lock
     \/ End(r, "failed")
  /\ composing' = [composing EXCEPT ![r] = FALSE]
  /\ UNCHANGED <<candidate, seen, snapshotVars, recorded, durable, serving>>

\* The child of a killed broker ends.
OrphanEnds(r) ==
  /\ at[r] = "killed" /\ composing[r]
  /\ composing' = [composing EXCEPT ![r] = FALSE]
  /\ UNCHANGED <<at, candidate, seen, snapshotVars, hostVars>>

\* _write_active_state: os.replace, then fsync of the directory.
Replace(r) ==
  /\ at[r] = "recording"
  /\ recorded' = candidate[r]
  /\ durable' = durable \cup {candidate[r]}
  /\ Goto(r, "syncing")
  /\ UNCHANGED <<candidate, seen, composing, snapshotVars, lock, serving>>

SyncNever(r) ==
  /\ at[r] = "syncing"
  /\ End(r, "activated")
  /\ UNCHANGED <<candidate, seen, composing, snapshotVars, recorded, durable, serving>>
Sync(r) ==
  /\ at[r] = "syncing"
  /\ durable' = {recorded}
  /\ End(r, "activated")
  /\ UNCHANGED <<candidate, seen, composing, snapshotVars, recorded, serving>>

\* An exception of _write_active_state, before or after the rename.
WriteFails(r) ==
  /\ at[r] \in {"recording", "syncing"}
  /\ Goto(r, "downing")
  /\ UNCHANGED <<candidate, seen, composing, snapshotVars, hostVars>>

\* docker compose down, whose exit status is not looked at.
DownSwallows(r) ==
  /\ at[r] = "downing"
  /\ serving' \in {serving, None}
  /\ End(r, "activated")
  /\ UNCHANGED <<candidate, seen, composing, snapshotVars, recorded, durable>>
Down(r) ==
  /\ at[r] = "downing"
  /\ serving' \in {serving, None}
  /\ End(r, "failed")
  /\ UNCHANGED <<candidate, seen, composing, snapshotVars, recorded, durable>>

-----------------------------------------------------------------------------
(***************************************************************************)
(* Crashes.                                                                *)
(***************************************************************************)
KillKeepsLock(r) ==
  /\ at[r] \notin Over \cup {"ready"}
  /\ Goto(r, "killed")
  /\ UNCHANGED <<candidate, seen, composing, snapshotVars, hostVars>>

\* The process is gone, and with it its lock; its temporary file stays.
Kill(r) ==
  /\ at[r] \notin Over \cup {"ready"}
  /\ Goto(r, "killed")
  /\ lock' = IF lock = r THEN None ELSE lock
  /\ UNCHANGED <<candidate, seen, composing, snapshotVars, recorded, durable, serving>>

HostCrash ==
  /\ at' = [r \in Runs |-> IF at[r] \in Over \cup {"ready"} THEN at[r] ELSE "killed"]
  /\ lock' = None
  /\ recorded' \in durable
  /\ durable' = {recorded'}
  /\ serving' \in {serving, None}
  /\ composing' = [r \in Runs |-> FALSE]
  /\ UNCHANGED <<candidate, seen, snapshotVars>>

-----------------------------------------------------------------------------
Step(r) ==
  \/ Publish(r) \/ Unlink(r) \/ CheckSnapshot(r)
  \/ Acquire(r) \/ Verify(r) \/ Validate(r) \/ ComposeUp(r)
  \/ Replace(r) \/ Sync(r) \/ WriteFails(r) \/ Down(r)

Next ==
  \/ \E r \in Runs :
       \/ Step(r) \/ Recreate(r) \/ Kill(r) \/ OrphanEnds(r)
       \/ \E b \in Bindings : Begin(r, b)
  \/ HostCrash

Spec == Init /\ [][Next]_vars

\* A run that was started goes on; whether runs are started, and what is
\* killed, is not assumed.
FairSpec == Spec /\ \A r \in Runs : WF_vars(Step(r))

-----------------------------------------------------------------------------
(***************************************************************************)
(* Properties.                                                             *)
(***************************************************************************)

\* Every variable has the shape of what it stands for.
TypeOK ==
  /\ at \in [Runs -> Broker \cup Over \cup {"ready", "publishing", "unlinking", "checking",
                                            "waiting"}]
  /\ candidate \in [Runs -> Bindings \cup {None}]
  /\ seen \in [Runs -> Bindings \cup {None}]
  /\ composing \in [Runs -> BOOLEAN]
  /\ linked \in [Runs -> BOOLEAN]
  /\ links \in [Bindings -> 0..2]
  /\ lock \in Runs \cup {None}
  /\ recorded \in Bindings \cup {None}
  /\ durable \subseteq Bindings \cup {None}
  /\ serving \in Bindings \cup {None}

\* The host's state only ever moves from a Binding to one that follows it: no
\* replay, no skipped generation, no fork by two activations that validated
\* against the same state.  A host crash may take back what was not synced.
ChainUnbroken ==
  [][recorded' # recorded =>
       \/ recorded' \in durable /\ durable' = {recorded'} /\ lock' = None
       \/ /\ Pinned[recorded'] = recorded
          /\ Generation[recorded'] = IF recorded = None THEN 1 ELSE Generation[recorded] + 1]_vars

\* A success the launcher reports is one: at that moment its Binding serves, is
\* recorded and would survive a host crash, whatever other runs do; only the
\* Compose child of a killed run may have changed what serves.
SuccessIsTrue ==
  [][\A r \in Runs : at[r] # "activated" /\ at'[r] = "activated" =>
       /\ recorded' = candidate[r]
       /\ durable' = {candidate[r]}
       /\ (\A q \in Runs : at[q] # "killed") => serving' = candidate[r]]_vars

\* "Never leave an unrecorded new release serving": when no activation is under
\* way, the stack serves the recorded release, unless a run that tried to
\* activate what it serves has failed or was killed.
UnrecordedIsKnown ==
  lock = None /\ serving # None /\ serving # recorded =>
    \E r \in Runs : at[r] \in {"failed", "killed"} /\ candidate[r] = serving

\* A Binding reaches the broker only from a snapshot nobody else holds a link
\* to, so nothing can change the file that Compose mounts.
SnapshotSealed ==
  \A r \in Runs :
    at[r] \in Broker \cup {"waiting", "activated"} =>
      \A q \in Runs : linked[q] => candidate[q] # candidate[r]

\* Whoever waits for the lock gets an answer, even if a holder is killed.
RunEnds == \A r \in Runs : at[r] # "ready" ~> at[r] \in Over

\* "on a failed state write, take the new stack down and keep the previous
\* state": a run whose state write failed leaves the record it had found.
FailedWriteKeepsState ==
  [][\A r \in Runs : at[r] = "downing" /\ at'[r] = "failed" => recorded' = seen[r]]_vars

=============================================================================
