---------------------- MODULE ReleaseActivationProofs ----------------------
(***************************************************************************)
(* Proofs about ReleaseActivation, for any number of launcher runs and any *)
(* set of Bindings.                                                        *)
(*                                                                         *)
(* IInv adds to the type invariant what the code relies on: whoever is in  *)
(* the broker holds the lock (Locked), what it validated is still so when  *)
(* it writes (Validated), whoever changes the stack is validated or dead   *)
(* (Composes, Serves, Known), what a host crash may undo was written by a  *)
(* run that did not succeed (Undurable), and a snapshot that passed its    *)
(* check has the one link (Sealed).                                        *)
(***************************************************************************)
EXTENDS ReleaseActivation, TLAPS

Locked == \A r \in Runs : at[r] \in Broker => lock = r

Composes == \A r \in Runs : composing[r] => at[r] \in {"composing", "killed"}

Candidates == \A r \in Runs : at[r] # "ready" => candidate[r] \in Bindings

Validated ==
  \A r \in Runs :
    /\ at[r] \in {"composing", "recording"} => Follows(candidate[r], recorded)
    /\ at[r] = "syncing" => recorded = candidate[r]

Serves ==
  \A r \in Runs : at[r] \in {"recording", "syncing", "downing"} =>
    \/ serving = candidate[r]
    \/ \E q \in Runs : at[q] = "killed" /\ serving \in {None, candidate[q]}

Known ==
  serving # None /\ serving # recorded =>
    \E r \in Runs : /\ candidate[r] = serving
                    /\ at[r] \in {"composing", "recording", "downing", "failed", "killed"}

Undurable ==
  durable # {recorded} =>
    \E r \in Runs : /\ candidate[r] = recorded
                    /\ at[r] \in {"syncing", "downing", "failed", "killed"}

Sealed ==
  /\ \A r \in Runs : at[r] \in Broker \cup {"waiting", "activated"} => links[candidate[r]] = 1
  /\ \A r \in Runs : linked[r] =>
       /\ at[r] \in {"unlinking", "killed"}
       /\ links[candidate[r]] = 2
       /\ \A q \in Runs : linked[q] /\ candidate[q] = candidate[r] => q = r

IInv ==
  /\ TypeOK /\ Locked /\ Composes /\ Candidates
  /\ Validated /\ Serves /\ Known /\ Undurable /\ Sealed

-----------------------------------------------------------------------------
\* The invariant holds initially.
LEMMA InitIInv == Init => IInv
BY BindingAssumption
DEF Init, IInv, TypeOK, Over, Broker, Locked, Composes, Candidates, Validated, Serves, Known,
    Undurable, Sealed

\* Every step keeps the types; the link count stays within 0..2 because a run
\* that unlinks still has its second link (Sealed).
LEMMA TypeStep ==
  ASSUME IInv, [Next]_vars
  PROVE  TypeOK'
<1> USE BindingAssumption
        DEF IInv, TypeOK, Over, Broker, runVars, snapshotVars, hostVars
<1>1. CASE UNCHANGED vars
  BY <1>1 DEF vars
<1>2. CASE HostCrash
  BY <1>2 DEF HostCrash
<1>3. ASSUME NEW r \in Runs, NEW b \in Bindings, Begin(r, b)
      PROVE  TypeOK'
  BY <1>3 DEF Begin, Goto
<1>4. ASSUME NEW r \in Runs, Publish(r) PROVE TypeOK'
  <2>1. candidate[r] \in Bindings
    BY <1>4 DEF Publish, Candidates
  <2>2. links' \in [Bindings -> 0..2]
    <3>1. links' = links \/ links' = [links EXCEPT ![candidate[r]] = 2]
      BY <1>4 DEF Publish
    <3>2. 2 \in 0..2
      OBVIOUS
    <3> QED
      BY <3>1, <3>2
  <2>3. linked' \in [Runs -> BOOLEAN]
    BY <1>4 DEF Publish
  <2> QED
    BY <1>4, <2>2, <2>3 DEF Publish, Goto
<1>5. ASSUME NEW r \in Runs, Unlink(r) PROVE TypeOK'
  <2>1. candidate[r] \in Bindings /\ (linked[r] => links[candidate[r]] = 2)
    BY <1>5 DEF Unlink, Candidates, Sealed
  <2>2. links' \in [Bindings -> 0..2]
    <3>1. links' = links \/ links' = [links EXCEPT ![candidate[r]] = 1]
      BY <1>5, <2>1 DEF Unlink
    <3>2. 1 \in 0..2
      OBVIOUS
    <3> QED
      BY <3>1, <3>2
  <2>3. linked' \in [Runs -> BOOLEAN]
    BY <1>5 DEF Unlink
  <2> QED
    BY <1>5, <2>2, <2>3 DEF Unlink, Goto
<1>6. ASSUME NEW r \in Runs, CheckSnapshot(r) PROVE TypeOK'
  BY <1>6 DEF CheckSnapshot, Goto
<1>7. ASSUME NEW r \in Runs, Acquire(r) PROVE TypeOK'
  BY <1>7 DEF Acquire, Goto
<1>8. ASSUME NEW r \in Runs, Verify(r) PROVE TypeOK'
  BY <1>8 DEF Verify, Goto, End
<1>9. ASSUME NEW r \in Runs, Validate(r) PROVE TypeOK'
  BY <1>9 DEF Validate, Goto, End, Follows
<1>10. ASSUME NEW r \in Runs, ComposeUp(r) PROVE TypeOK'
  BY <1>10 DEF ComposeUp, Goto, End
<1>11. ASSUME NEW r \in Runs, Replace(r) PROVE TypeOK'
  BY <1>11 DEF Replace, Goto
<1>12. ASSUME NEW r \in Runs, Sync(r) PROVE TypeOK'
  BY <1>12 DEF Sync, Goto, End
<1>13. ASSUME NEW r \in Runs, WriteFails(r) PROVE TypeOK'
  BY <1>13 DEF WriteFails, Goto
<1>14. ASSUME NEW r \in Runs, Down(r) PROVE TypeOK'
  BY <1>14 DEF Down, Goto, End
<1>15. ASSUME NEW r \in Runs, Recreate(r) PROVE TypeOK'
  BY <1>15 DEF Recreate
<1>16. ASSUME NEW r \in Runs, Kill(r) PROVE TypeOK'
  BY <1>16 DEF Kill, Goto
<1>17. ASSUME NEW r \in Runs, OrphanEnds(r) PROVE TypeOK'
  BY <1>17 DEF OrphanEnds
<1> QED
  BY <1>1, <1>2, <1>3, <1>4, <1>5, <1>6, <1>7, <1>8, <1>9,
     <1>10, <1>11, <1>12, <1>13, <1>14, <1>15, <1>16, <1>17
  DEF Next, Step

\* Whoever is in the broker after a step holds the lock.
LEMMA LockedStep ==
  ASSUME IInv, [Next]_vars
  PROVE  Locked'
<1> USE BindingAssumption
        DEF IInv, TypeOK, Over, Broker, runVars, snapshotVars, hostVars,
            Locked
<1>1. CASE UNCHANGED vars
  BY <1>1 DEF vars
<1>2. CASE HostCrash
  BY <1>2 DEF HostCrash
<1>3. ASSUME NEW r \in Runs, NEW b \in Bindings, Begin(r, b)
      PROVE  Locked'
  BY <1>3 DEF Begin, Goto
<1>4. ASSUME NEW r \in Runs, Publish(r) PROVE Locked'
  BY <1>4 DEF Publish, Goto
<1>5. ASSUME NEW r \in Runs, Unlink(r) PROVE Locked'
  BY <1>5 DEF Unlink, Goto
<1>6. ASSUME NEW r \in Runs, CheckSnapshot(r) PROVE Locked'
  BY <1>6 DEF CheckSnapshot, Goto
<1>7. ASSUME NEW r \in Runs, Acquire(r) PROVE Locked'
  BY <1>7 DEF Acquire, Goto
<1>8. ASSUME NEW r \in Runs, Verify(r) PROVE Locked'
  BY <1>8 DEF Verify, Goto, End
<1>9. ASSUME NEW r \in Runs, Validate(r) PROVE Locked'
  BY <1>9 DEF Validate, Goto, End
<1>10. ASSUME NEW r \in Runs, ComposeUp(r) PROVE Locked'
  BY <1>10 DEF ComposeUp, Goto, End
<1>11. ASSUME NEW r \in Runs, Replace(r) PROVE Locked'
  BY <1>11 DEF Replace, Goto
<1>12. ASSUME NEW r \in Runs, Sync(r) PROVE Locked'
  BY <1>12 DEF Sync, Goto, End
<1>13. ASSUME NEW r \in Runs, WriteFails(r) PROVE Locked'
  BY <1>13 DEF WriteFails, Goto
<1>14. ASSUME NEW r \in Runs, Down(r) PROVE Locked'
  BY <1>14 DEF Down, Goto, End
<1>15. ASSUME NEW r \in Runs, Recreate(r) PROVE Locked'
  BY <1>15 DEF Recreate
<1>16. ASSUME NEW r \in Runs, Kill(r) PROVE Locked'
  BY <1>16 DEF Kill, Goto
<1>17. ASSUME NEW r \in Runs, OrphanEnds(r) PROVE Locked'
  BY <1>17 DEF OrphanEnds
<1> QED
  BY <1>1, <1>2, <1>3, <1>4, <1>5, <1>6, <1>7, <1>8, <1>9,
     <1>10, <1>11, <1>12, <1>13, <1>14, <1>15, <1>16, <1>17
  DEF Next, Step

\* Compose works for a run that is composing or was killed.
LEMMA ComposesStep ==
  ASSUME IInv, [Next]_vars
  PROVE  Composes'
<1> USE BindingAssumption
        DEF IInv, TypeOK, Over, Broker, runVars, snapshotVars, hostVars,
            Composes
<1>1. CASE UNCHANGED vars
  BY <1>1 DEF vars
<1>2. CASE HostCrash
  BY <1>2 DEF HostCrash
<1>3. ASSUME NEW r \in Runs, NEW b \in Bindings, Begin(r, b)
      PROVE  Composes'
  BY <1>3 DEF Begin, Goto
<1>4. ASSUME NEW r \in Runs, Publish(r) PROVE Composes'
  BY <1>4 DEF Publish, Goto
<1>5. ASSUME NEW r \in Runs, Unlink(r) PROVE Composes'
  BY <1>5 DEF Unlink, Goto
<1>6. ASSUME NEW r \in Runs, CheckSnapshot(r) PROVE Composes'
  BY <1>6 DEF CheckSnapshot, Goto
<1>7. ASSUME NEW r \in Runs, Acquire(r) PROVE Composes'
  BY <1>7 DEF Acquire, Goto
<1>8. ASSUME NEW r \in Runs, Verify(r) PROVE Composes'
  BY <1>8 DEF Verify, Goto, End
<1>9. ASSUME NEW r \in Runs, Validate(r) PROVE Composes'
  BY <1>9 DEF Validate, Goto, End
<1>10. ASSUME NEW r \in Runs, ComposeUp(r) PROVE Composes'
  BY <1>10 DEF ComposeUp, Goto, End
<1>11. ASSUME NEW r \in Runs, Replace(r) PROVE Composes'
  BY <1>11 DEF Replace, Goto
<1>12. ASSUME NEW r \in Runs, Sync(r) PROVE Composes'
  BY <1>12 DEF Sync, Goto, End
<1>13. ASSUME NEW r \in Runs, WriteFails(r) PROVE Composes'
  BY <1>13 DEF WriteFails, Goto
<1>14. ASSUME NEW r \in Runs, Down(r) PROVE Composes'
  BY <1>14 DEF Down, Goto, End
<1>15. ASSUME NEW r \in Runs, Recreate(r) PROVE Composes'
  BY <1>15 DEF Recreate
<1>16. ASSUME NEW r \in Runs, Kill(r) PROVE Composes'
  BY <1>16 DEF Kill, Goto
<1>17. ASSUME NEW r \in Runs, OrphanEnds(r) PROVE Composes'
  BY <1>17 DEF OrphanEnds
<1> QED
  BY <1>1, <1>2, <1>3, <1>4, <1>5, <1>6, <1>7, <1>8, <1>9,
     <1>10, <1>11, <1>12, <1>13, <1>14, <1>15, <1>16, <1>17
  DEF Next, Step

\* A run that was started has its Binding.
LEMMA CandidatesStep ==
  ASSUME IInv, [Next]_vars
  PROVE  Candidates'
<1> USE BindingAssumption
        DEF IInv, TypeOK, Over, Broker, runVars, snapshotVars, hostVars,
            Candidates
<1>1. CASE UNCHANGED vars
  BY <1>1 DEF vars
<1>2. CASE HostCrash
  BY <1>2 DEF HostCrash
<1>3. ASSUME NEW r \in Runs, NEW b \in Bindings, Begin(r, b)
      PROVE  Candidates'
  BY <1>3 DEF Begin, Goto
<1>4. ASSUME NEW r \in Runs, Publish(r) PROVE Candidates'
  BY <1>4 DEF Publish, Goto
<1>5. ASSUME NEW r \in Runs, Unlink(r) PROVE Candidates'
  BY <1>5 DEF Unlink, Goto
<1>6. ASSUME NEW r \in Runs, CheckSnapshot(r) PROVE Candidates'
  BY <1>6 DEF CheckSnapshot, Goto
<1>7. ASSUME NEW r \in Runs, Acquire(r) PROVE Candidates'
  BY <1>7 DEF Acquire, Goto
<1>8. ASSUME NEW r \in Runs, Verify(r) PROVE Candidates'
  BY <1>8 DEF Verify, Goto, End
<1>9. ASSUME NEW r \in Runs, Validate(r) PROVE Candidates'
  BY <1>9 DEF Validate, Goto, End
<1>10. ASSUME NEW r \in Runs, ComposeUp(r) PROVE Candidates'
  BY <1>10 DEF ComposeUp, Goto, End
<1>11. ASSUME NEW r \in Runs, Replace(r) PROVE Candidates'
  BY <1>11 DEF Replace, Goto
<1>12. ASSUME NEW r \in Runs, Sync(r) PROVE Candidates'
  BY <1>12 DEF Sync, Goto, End
<1>13. ASSUME NEW r \in Runs, WriteFails(r) PROVE Candidates'
  BY <1>13 DEF WriteFails, Goto
<1>14. ASSUME NEW r \in Runs, Down(r) PROVE Candidates'
  BY <1>14 DEF Down, Goto, End
<1>15. ASSUME NEW r \in Runs, Recreate(r) PROVE Candidates'
  BY <1>15 DEF Recreate
<1>16. ASSUME NEW r \in Runs, Kill(r) PROVE Candidates'
  BY <1>16 DEF Kill, Goto
<1>17. ASSUME NEW r \in Runs, OrphanEnds(r) PROVE Candidates'
  BY <1>17 DEF OrphanEnds
<1> QED
  BY <1>1, <1>2, <1>3, <1>4, <1>5, <1>6, <1>7, <1>8, <1>9,
     <1>10, <1>11, <1>12, <1>13, <1>14, <1>15, <1>16, <1>17
  DEF Next, Step

\* What a run validated still holds when it writes: only it could have changed
\* the record, as it holds the lock.
LEMMA ValidatedStep ==
  ASSUME IInv, [Next]_vars
  PROVE  Validated'
<1> USE BindingAssumption
        DEF IInv, TypeOK, Over, Broker, runVars, snapshotVars, hostVars,
            Locked, Composes, Candidates, Validated, Follows
<1>1. CASE UNCHANGED vars
  BY <1>1 DEF vars
<1>2. CASE HostCrash
  BY <1>2 DEF HostCrash
<1>3. ASSUME NEW r \in Runs, NEW b \in Bindings, Begin(r, b)
      PROVE  Validated'
  BY <1>3 DEF Begin, Goto
<1>4. ASSUME NEW r \in Runs, Publish(r) PROVE Validated'
  BY <1>4 DEF Publish, Goto
<1>5. ASSUME NEW r \in Runs, Unlink(r) PROVE Validated'
  BY <1>5 DEF Unlink, Goto
<1>6. ASSUME NEW r \in Runs, CheckSnapshot(r) PROVE Validated'
  BY <1>6 DEF CheckSnapshot, Goto
<1>7. ASSUME NEW r \in Runs, Acquire(r) PROVE Validated'
  BY <1>7 DEF Acquire, Goto
<1>8. ASSUME NEW r \in Runs, Verify(r) PROVE Validated'
  BY <1>8 DEF Verify, Goto, End
<1>9. ASSUME NEW r \in Runs, Validate(r) PROVE Validated'
  BY <1>9 DEF Validate, Goto, End
<1>10. ASSUME NEW r \in Runs, ComposeUp(r) PROVE Validated'
  BY <1>10 DEF ComposeUp, Goto, End
<1>11. ASSUME NEW r \in Runs, Replace(r) PROVE Validated'
  BY <1>11 DEF Replace, Goto
<1>12. ASSUME NEW r \in Runs, Sync(r) PROVE Validated'
  BY <1>12 DEF Sync, Goto, End
<1>13. ASSUME NEW r \in Runs, WriteFails(r) PROVE Validated'
  BY <1>13 DEF WriteFails, Goto
<1>14. ASSUME NEW r \in Runs, Down(r) PROVE Validated'
  BY <1>14 DEF Down, Goto, End
<1>15. ASSUME NEW r \in Runs, Recreate(r) PROVE Validated'
  BY <1>15 DEF Recreate
<1>16. ASSUME NEW r \in Runs, Kill(r) PROVE Validated'
  BY <1>16 DEF Kill, Goto
<1>17. ASSUME NEW r \in Runs, OrphanEnds(r) PROVE Validated'
  BY <1>17 DEF OrphanEnds
<1> QED
  BY <1>1, <1>2, <1>3, <1>4, <1>5, <1>6, <1>7, <1>8, <1>9,
     <1>10, <1>11, <1>12, <1>13, <1>14, <1>15, <1>16, <1>17
  DEF Next, Step

\* The stack of a run past its Compose startup can only be changed by the Compose
\* child of a killed run.
LEMMA ServesStep ==
  ASSUME IInv, [Next]_vars
  PROVE  Serves'
<1> USE BindingAssumption
        DEF IInv, TypeOK, Over, Broker, runVars, snapshotVars, hostVars,
            Locked, Composes, Candidates, Serves
<1>1. CASE UNCHANGED vars
  BY <1>1 DEF vars
<1>2. CASE HostCrash
  BY <1>2 DEF HostCrash
<1>3. ASSUME NEW r \in Runs, NEW b \in Bindings, Begin(r, b)
      PROVE  Serves'
  BY <1>3 DEF Begin, Goto
<1>4. ASSUME NEW r \in Runs, Publish(r) PROVE Serves'
  BY <1>4 DEF Publish, Goto
<1>5. ASSUME NEW r \in Runs, Unlink(r) PROVE Serves'
  BY <1>5 DEF Unlink, Goto
<1>6. ASSUME NEW r \in Runs, CheckSnapshot(r) PROVE Serves'
  BY <1>6 DEF CheckSnapshot, Goto
<1>7. ASSUME NEW r \in Runs, Acquire(r) PROVE Serves'
  BY <1>7 DEF Acquire, Goto
<1>8. ASSUME NEW r \in Runs, Verify(r) PROVE Serves'
  BY <1>8 DEF Verify, Goto, End
<1>9. ASSUME NEW r \in Runs, Validate(r) PROVE Serves'
  BY <1>9 DEF Validate, Goto, End
<1>10. ASSUME NEW r \in Runs, ComposeUp(r) PROVE Serves'
  BY <1>10 DEF ComposeUp, Goto, End
<1>11. ASSUME NEW r \in Runs, Replace(r) PROVE Serves'
  BY <1>11 DEF Replace, Goto
<1>12. ASSUME NEW r \in Runs, Sync(r) PROVE Serves'
  BY <1>12 DEF Sync, Goto, End
<1>13. ASSUME NEW r \in Runs, WriteFails(r) PROVE Serves'
  BY <1>13 DEF WriteFails, Goto
<1>14. ASSUME NEW r \in Runs, Down(r) PROVE Serves'
  BY <1>14 DEF Down, Goto, End
<1>15. ASSUME NEW r \in Runs, Recreate(r) PROVE Serves'
  BY <1>15 DEF Recreate
<1>16. ASSUME NEW r \in Runs, Kill(r) PROVE Serves'
  BY <1>16 DEF Kill, Goto
<1>17. ASSUME NEW r \in Runs, OrphanEnds(r) PROVE Serves'
  BY <1>17 DEF OrphanEnds
<1> QED
  BY <1>1, <1>2, <1>3, <1>4, <1>5, <1>6, <1>7, <1>8, <1>9,
     <1>10, <1>11, <1>12, <1>13, <1>14, <1>15, <1>16, <1>17
  DEF Next, Step

\* What serves without being recorded is the Binding of a run under way or lost.
LEMMA KnownStep ==
  ASSUME IInv, [Next]_vars
  PROVE  Known'
<1> USE BindingAssumption
        DEF IInv, TypeOK, Over, Broker, runVars, snapshotVars, hostVars,
            Locked, Composes, Candidates, Validated, Serves, Known, Undurable
<1>1. CASE UNCHANGED vars
  BY <1>1 DEF vars
<1>2. CASE HostCrash
  BY <1>2 DEF HostCrash
<1>3. ASSUME NEW r \in Runs, NEW b \in Bindings, Begin(r, b)
      PROVE  Known'
  BY <1>3 DEF Begin, Goto
<1>4. ASSUME NEW r \in Runs, Publish(r) PROVE Known'
  BY <1>4 DEF Publish, Goto
<1>5. ASSUME NEW r \in Runs, Unlink(r) PROVE Known'
  BY <1>5 DEF Unlink, Goto
<1>6. ASSUME NEW r \in Runs, CheckSnapshot(r) PROVE Known'
  BY <1>6 DEF CheckSnapshot, Goto
<1>7. ASSUME NEW r \in Runs, Acquire(r) PROVE Known'
  BY <1>7 DEF Acquire, Goto
<1>8. ASSUME NEW r \in Runs, Verify(r) PROVE Known'
  BY <1>8 DEF Verify, Goto, End
<1>9. ASSUME NEW r \in Runs, Validate(r) PROVE Known'
  BY <1>9 DEF Validate, Goto, End
<1>10. ASSUME NEW r \in Runs, ComposeUp(r) PROVE Known'
  BY <1>10 DEF ComposeUp, Goto, End
<1>11. ASSUME NEW r \in Runs, Replace(r) PROVE Known'
  BY <1>11 DEF Replace, Goto
<1>12. ASSUME NEW r \in Runs, Sync(r) PROVE Known'
  BY <1>12 DEF Sync, Goto, End
<1>13. ASSUME NEW r \in Runs, WriteFails(r) PROVE Known'
  BY <1>13 DEF WriteFails, Goto
<1>14. ASSUME NEW r \in Runs, Down(r) PROVE Known'
  BY <1>14 DEF Down, Goto, End
<1>15. ASSUME NEW r \in Runs, Recreate(r) PROVE Known'
  BY <1>15 DEF Recreate
<1>16. ASSUME NEW r \in Runs, Kill(r) PROVE Known'
  BY <1>16 DEF Kill, Goto
<1>17. ASSUME NEW r \in Runs, OrphanEnds(r) PROVE Known'
  BY <1>17 DEF OrphanEnds
<1> QED
  BY <1>1, <1>2, <1>3, <1>4, <1>5, <1>6, <1>7, <1>8, <1>9,
     <1>10, <1>11, <1>12, <1>13, <1>14, <1>15, <1>16, <1>17
  DEF Next, Step

\* A record a host crash may take back is that of a run that did not succeed.
LEMMA UndurableStep ==
  ASSUME IInv, [Next]_vars
  PROVE  Undurable'
<1> USE BindingAssumption
        DEF IInv, TypeOK, Over, Broker, runVars, snapshotVars, hostVars,
            Locked, Candidates, Validated, Undurable
<1>1. CASE UNCHANGED vars
  BY <1>1 DEF vars
<1>2. CASE HostCrash
  BY <1>2 DEF HostCrash
<1>3. ASSUME NEW r \in Runs, NEW b \in Bindings, Begin(r, b)
      PROVE  Undurable'
  BY <1>3 DEF Begin, Goto
<1>4. ASSUME NEW r \in Runs, Publish(r) PROVE Undurable'
  BY <1>4 DEF Publish, Goto
<1>5. ASSUME NEW r \in Runs, Unlink(r) PROVE Undurable'
  BY <1>5 DEF Unlink, Goto
<1>6. ASSUME NEW r \in Runs, CheckSnapshot(r) PROVE Undurable'
  BY <1>6 DEF CheckSnapshot, Goto
<1>7. ASSUME NEW r \in Runs, Acquire(r) PROVE Undurable'
  BY <1>7 DEF Acquire, Goto
<1>8. ASSUME NEW r \in Runs, Verify(r) PROVE Undurable'
  BY <1>8 DEF Verify, Goto, End
<1>9. ASSUME NEW r \in Runs, Validate(r) PROVE Undurable'
  BY <1>9 DEF Validate, Goto, End
<1>10. ASSUME NEW r \in Runs, ComposeUp(r) PROVE Undurable'
  BY <1>10 DEF ComposeUp, Goto, End
<1>11. ASSUME NEW r \in Runs, Replace(r) PROVE Undurable'
  BY <1>11 DEF Replace, Goto
<1>12. ASSUME NEW r \in Runs, Sync(r) PROVE Undurable'
  BY <1>12 DEF Sync, Goto, End
<1>13. ASSUME NEW r \in Runs, WriteFails(r) PROVE Undurable'
  BY <1>13 DEF WriteFails, Goto
<1>14. ASSUME NEW r \in Runs, Down(r) PROVE Undurable'
  BY <1>14 DEF Down, Goto, End
<1>15. ASSUME NEW r \in Runs, Recreate(r) PROVE Undurable'
  BY <1>15 DEF Recreate
<1>16. ASSUME NEW r \in Runs, Kill(r) PROVE Undurable'
  BY <1>16 DEF Kill, Goto
<1>17. ASSUME NEW r \in Runs, OrphanEnds(r) PROVE Undurable'
  BY <1>17 DEF OrphanEnds
<1> QED
  BY <1>1, <1>2, <1>3, <1>4, <1>5, <1>6, <1>7, <1>8, <1>9,
     <1>10, <1>11, <1>12, <1>13, <1>14, <1>15, <1>16, <1>17
  DEF Next, Step

\* A snapshot that passed the check keeps its one link: it exists, so that no run
\* links it again.
LEMMA SealedStep ==
  ASSUME IInv, [Next]_vars
  PROVE  Sealed'
<1> USE BindingAssumption
        DEF IInv, TypeOK, Over, Broker, runVars, snapshotVars, hostVars,
            Candidates, Sealed
<1>1. CASE UNCHANGED vars
  BY <1>1 DEF vars
<1>2. CASE HostCrash
  BY <1>2 DEF HostCrash
<1>3. ASSUME NEW r \in Runs, NEW b \in Bindings, Begin(r, b)
      PROVE  Sealed'
  BY <1>3 DEF Begin, Goto
<1>4. ASSUME NEW r \in Runs, Publish(r) PROVE Sealed'
  BY <1>4 DEF Publish, Goto
<1>5. ASSUME NEW r \in Runs, Unlink(r) PROVE Sealed'
  BY <1>5 DEF Unlink, Goto
<1>6. ASSUME NEW r \in Runs, CheckSnapshot(r) PROVE Sealed'
  BY <1>6 DEF CheckSnapshot, Goto
<1>7. ASSUME NEW r \in Runs, Acquire(r) PROVE Sealed'
  BY <1>7 DEF Acquire, Goto
<1>8. ASSUME NEW r \in Runs, Verify(r) PROVE Sealed'
  BY <1>8 DEF Verify, Goto, End
<1>9. ASSUME NEW r \in Runs, Validate(r) PROVE Sealed'
  BY <1>9 DEF Validate, Goto, End
<1>10. ASSUME NEW r \in Runs, ComposeUp(r) PROVE Sealed'
  BY <1>10 DEF ComposeUp, Goto, End
<1>11. ASSUME NEW r \in Runs, Replace(r) PROVE Sealed'
  BY <1>11 DEF Replace, Goto
<1>12. ASSUME NEW r \in Runs, Sync(r) PROVE Sealed'
  BY <1>12 DEF Sync, Goto, End
<1>13. ASSUME NEW r \in Runs, WriteFails(r) PROVE Sealed'
  BY <1>13 DEF WriteFails, Goto
<1>14. ASSUME NEW r \in Runs, Down(r) PROVE Sealed'
  BY <1>14 DEF Down, Goto, End
<1>15. ASSUME NEW r \in Runs, Recreate(r) PROVE Sealed'
  BY <1>15 DEF Recreate
<1>16. ASSUME NEW r \in Runs, Kill(r) PROVE Sealed'
  BY <1>16 DEF Kill, Goto
<1>17. ASSUME NEW r \in Runs, OrphanEnds(r) PROVE Sealed'
  BY <1>17 DEF OrphanEnds
<1> QED
  BY <1>1, <1>2, <1>3, <1>4, <1>5, <1>6, <1>7, <1>8, <1>9,
     <1>10, <1>11, <1>12, <1>13, <1>14, <1>15, <1>16, <1>17
  DEF Next, Step

-----------------------------------------------------------------------------
\* The invariant is inductive.
LEMMA IInvStep == IInv /\ [Next]_vars => IInv'
<1> SUFFICES ASSUME IInv, [Next]_vars PROVE IInv'
  OBVIOUS
<1>1. TypeOK' /\ Locked' /\ Composes' /\ Candidates'
  BY TypeStep, LockedStep, ComposesStep, CandidatesStep
<1>2. Validated' /\ Serves' /\ Known' /\ Undurable' /\ Sealed'
  BY ValidatedStep, ServesStep, KnownStep, UndurableStep, SealedStep
<1> QED
  BY <1>1, <1>2 DEF IInv

\* The invariant holds in every reachable state.
THEOREM Invariance == Spec => []IInv
BY InitIInv, IInvStep, PTL DEF Spec

\* Every variable keeps its type, for any number of runs and Bindings.
THEOREM TypeCorrect == Spec => []TypeOK
<1>1. IInv => TypeOK
  BY DEF IInv
<1> QED
  BY Invariance, <1>1, PTL

\* No run is past the snapshot check with a Binding whose file somebody else
\* still holds a link to.
THEOREM SnapshotStaysSealed == Spec => []SnapshotSealed
<1>1. IInv => SnapshotSealed
  BY DEF IInv, Sealed, SnapshotSealed, Broker
<1> QED
  BY Invariance, <1>1, PTL

\* When no activation is under way, what serves is recorded, or is the Binding
\* of a run that failed or was killed.
THEOREM UnrecordedStaysKnown == Spec => []UnrecordedIsKnown
<1>1. IInv => UnrecordedIsKnown
  BY BindingAssumption DEF IInv, TypeOK, Known, Locked, UnrecordedIsKnown, Broker
<1> QED
  BY Invariance, <1>1, PTL

\* The record only moves to a Binding that follows it, whatever runs race and
\* whatever crashes.
THEOREM ChainStaysUnbroken == Spec => ChainUnbroken
<1> DEFINE Chain ==
      recorded' # recorded =>
        \/ recorded' \in durable /\ durable' = {recorded'} /\ lock' = None
        \/ /\ Pinned[recorded'] = recorded
           /\ Generation[recorded'] = IF recorded = None THEN 1 ELSE Generation[recorded] + 1
<1>1. ASSUME IInv, [Next]_vars PROVE [Chain]_vars
  <2> SUFFICES ASSUME recorded' # recorded PROVE Chain
    OBVIOUS
  <2>1. CASE HostCrash
    BY <2>1 DEF HostCrash
  <2>2. ASSUME NEW r \in Runs, Replace(r) PROVE Chain
    <3>1. recorded' = candidate[r] /\ Follows(candidate[r], recorded)
      BY <1>1, <2>2 DEF Replace, IInv, Validated
    <3> QED
      BY <3>1 DEF Follows
  <2>3. HostCrash \/ \E r \in Runs : Replace(r)
    BY <1>1
    DEF Next, Step, vars, runVars, snapshotVars, hostVars, Begin, Publish, Unlink, CheckSnapshot,
        Acquire, Verify, Validate, ComposeUp, Sync, WriteFails, Down, Recreate, Kill, OrphanEnds
  <2> QED
    BY <2>1, <2>2, <2>3
<1> QED
  BY Invariance, <1>1, PTL DEF Spec, ChainUnbroken

\* A run that reports success has its Binding recorded, safe from a host crash
\* and, unless the Compose child of a killed run interferes, serving.
THEOREM SuccessStaysTrue == Spec => SuccessIsTrue
<1> DEFINE Success ==
      \A r \in Runs : at[r] # "activated" /\ at'[r] = "activated" =>
        /\ recorded' = candidate[r]
        /\ durable' = {candidate[r]}
        /\ (\A q \in Runs : at[q] # "killed") => serving' = candidate[r]
<1>1. ASSUME IInv, [Next]_vars PROVE [Success]_vars
  <2> SUFFICES ASSUME NEW r \in Runs, at[r] # "activated", at'[r] = "activated"
               PROVE  /\ recorded' = candidate[r]
                      /\ durable' = {candidate[r]}
                      /\ (\A q \in Runs : at[q] # "killed") => serving' = candidate[r]
    OBVIOUS
  <2>1. Sync(r)
    BY <1>1
    DEF IInv, TypeOK, Next, Step, vars, runVars, snapshotVars, hostVars, Goto, End, Over, Broker,
        Begin, Publish, Unlink, CheckSnapshot, Acquire, Verify, Validate, ComposeUp, Replace,
        Sync, WriteFails, Down, Recreate, Kill, OrphanEnds, HostCrash
  <2> QED
    BY <1>1, <2>1 DEF Sync, IInv, Validated, Serves
<1> QED
  BY Invariance, <1>1, PTL DEF Spec, SuccessIsTrue

=============================================================================
