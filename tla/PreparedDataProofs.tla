-------------------------- MODULE PreparedDataProofs --------------------------
(***************************************************************************)
(* Proofs about PreparedData, for any number of releases, datasets and     *)
(* preparations.                                                           *)
(*                                                                         *)
(* Progress says what of the volume is of the image of the preparation at  *)
(* each of its places, whatever it found there: the datasets it is past,   *)
(* then all of them, then index, artifact, anchor and state one after the  *)
(* other.  A preparation that reuses a release skips the three renames,    *)
(* and has compared all of it with the state file of its own image.        *)
(***************************************************************************)
EXTENDS PreparedData, TLAPS

Whole(d) == database[d].of = prep.image /\ sidecar[d] = prep.image

Placed == prep.at # "never" => prep.image \in Images

Progress ==
  /\ prep.at \in {"dataset", "sidecar"} => \A d \in Datasets : d < prep.next => Whole(d)
  /\ prep.at = "sidecar" => prep.next \in Datasets /\ database[prep.next].of = prep.image
  /\ prep.at \in {"index", "artifact", "anchor", "record", "done"} =>
       \A d \in Datasets : Whole(d)
  /\ prep.at \in {"artifact", "anchor", "record", "done"} => index.of = prep.image
  /\ prep.at \in {"anchor", "record", "done"} => artifact = prep.image
  /\ prep.at \in {"record", "done"} => anchor = prep.image
  /\ prep.at = "done" => state = prep.image

IInv == TypeOK /\ Placed /\ Progress

-----------------------------------------------------------------------------
\* The initial state: no file, and no preparation.
LEMMA InitIInv == Init => IInv
  BY PreparedDataAssumption
  DEF Init, IInv, TypeOK, Placed, Progress, Datasets, Known, File, NoFile

\* Every step keeps the types.
LEMMA TypeStep == ASSUME TypeOK, [Next]_vars PROVE TypeOK'
<1> USE PreparedDataAssumption DEF TypeOK
<1>1. CASE \E image, sources \in Images, force \in BOOLEAN : Begin(image, sources, force)
  BY <1>1 DEF Begin, Known, diskVars
<1>2. CASE RefuseSources
  BY <1>2 DEF RefuseSources, PrepGoto, diskVars
<1>3. CASE ReuseDatabase
  <2>1. prep.next + 1 \in Nat \ {0}
    OBVIOUS
  <2> QED
    BY <1>3, <2>1 DEF ReuseDatabase, NextDataset, diskVars
<1>4. CASE ReplaceDatabase
  BY <1>4 DEF ReplaceDatabase, PrepGoto, Replaced, File, InLoop
<1>5. CASE ReplaceSidecar
  <2>1. prep.next + 1 \in Nat \ {0}
    OBVIOUS
  <2> QED
    BY <1>5, <2>1 DEF ReplaceSidecar, NextDataset
<1>6. CASE ReuseRelease
  BY <1>6 DEF ReuseRelease, PrepGoto, diskVars
<1>7. CASE StageRelease
  BY <1>7 DEF StageRelease, PrepGoto, diskVars
<1>8. CASE InstallIndex
  BY <1>8 DEF InstallIndex, PrepGoto, Replaced, File
<1>9. CASE InstallArtifact
  BY <1>9 DEF InstallArtifact, PrepGoto
<1>10. CASE InstallAnchor
  BY <1>10 DEF InstallAnchor, PrepGoto
<1>11. CASE Record
  BY <1>11 DEF Record, PrepGoto
<1>12. CASE Cut
  BY <1>12 DEF Cut, PrepGoto, diskVars
<1>13. CASE UNCHANGED vars
  BY <1>13 DEF vars, diskVars
<1> QED
  BY <1>1, <1>2, <1>3, <1>4, <1>5, <1>6, <1>7, <1>8, <1>9, <1>10, <1>11, <1>12, <1>13
  DEF Next, PrepareStep

\* Every step keeps what the preparation has got done.
LEMMA ProgressStep == ASSUME IInv, [Next]_vars PROVE Placed' /\ Progress'
<1> USE PreparedDataAssumption DEF IInv, TypeOK, Placed, Progress, Whole
<1>1. CASE \E image, sources \in Images, force \in BOOLEAN : Begin(image, sources, force)
  BY <1>1 DEF Begin, diskVars, Datasets
<1>2. CASE RefuseSources
  BY <1>2 DEF RefuseSources, PrepGoto, diskVars, InLoop
<1>3. CASE ReuseDatabase
  <2>1. Whole(prep.next)
    BY <1>3 DEF ReuseDatabase, Reusable, Prepared, InLoop
  <2>2. \A d \in Datasets : d < prep.next + 1 => d < prep.next \/ d = prep.next
    BY <1>3 DEF ReuseDatabase, InLoop, Datasets
  <2> QED
    BY <1>3, <2>1, <2>2 DEF ReuseDatabase, NextDataset, diskVars, InLoop
<1>4. CASE ReplaceDatabase
  BY <1>4 DEF ReplaceDatabase, PrepGoto, Replaced, InLoop, Datasets, File
<1>5. CASE ReplaceSidecar
  <2>1. \A d \in Datasets : d < prep.next + 1 => d < prep.next \/ d = prep.next
    BY <1>5 DEF ReplaceSidecar, Datasets
  <2> QED
    BY <1>5, <2>1 DEF ReplaceSidecar, NextDataset, Datasets
<1>6. CASE ReuseRelease
  <2>1. LoopOver => \A d \in Datasets : Whole(d)
    BY DEF LoopOver, Datasets
  <2> QED
    BY <1>6, <2>1 DEF ReuseRelease, PrepGoto, diskVars, ReleaseIsValid, LoopOver
<1>7. CASE StageRelease
  <2>1. LoopOver => \A d \in Datasets : Whole(d)
    BY DEF LoopOver, Datasets
  <2> QED
    BY <1>7, <2>1 DEF StageRelease, PrepGoto, diskVars, LoopOver
<1>8. CASE InstallIndex
  BY <1>8 DEF InstallIndex, PrepGoto, Replaced
<1>9. CASE InstallArtifact
  BY <1>9 DEF InstallArtifact, PrepGoto
<1>10. CASE InstallAnchor
  BY <1>10 DEF InstallAnchor, PrepGoto
<1>11. CASE Record
  BY <1>11 DEF Record, PrepGoto
<1>12. CASE Cut
  BY <1>12 DEF Cut, PrepGoto, diskVars, Idle
<1>13. CASE UNCHANGED vars
  BY <1>13 DEF vars, diskVars
<1> QED
  BY <1>1, <1>2, <1>3, <1>4, <1>5, <1>6, <1>7, <1>8, <1>9, <1>10, <1>11, <1>12, <1>13
  DEF Next, PrepareStep

\* The inductive invariant, of any number of preparations cut anywhere.
THEOREM InductiveInvariant == Spec => []IInv
<1>1. IInv /\ [Next]_vars => IInv'
  BY TypeStep, ProgressStep DEF IInv
<1> QED
  BY InitIInv, <1>1, PTL DEF Spec

-----------------------------------------------------------------------------
\* Type correctness.
THEOREM TypeCorrect == Spec => []TypeOK
  BY InductiveInvariant, PTL DEF IInv

\* A preparation that ends well leaves one whole release of its image and the
\* state file that says so (prepare_databases).
THEOREM EndsWhole == Spec => []PublishedIsWhole
<1>1. IInv => PublishedIsWhole
  BY DEF IInv, Progress, Whole, PublishedIsWhole
<1> QED
  BY InductiveInvariant, <1>1, PTL

\* A whole volume is reused by a restart of its image: no database is replaced
\* and the preparation is not refused.
THEOREM ReusesWhole == Spec => WholeIsReused
<1> DEFINE Unforced == prep.at # "never" /\ WholeVolume(prep.image) /\ prep.previous = state
                         /\ prep.sources = prep.image /\ ~prep.force
           Reuses == database' = database /\ prep'.at # "refused"
<1>1. ASSUME IInv, [Next]_vars PROVE [Unforced => Reuses]_vars
  <2> SUFFICES ASSUME Unforced PROVE Reuses \/ UNCHANGED vars
    OBVIOUS
  <2> USE PreparedDataAssumption, <1>1
  <2>0. prep.image \in Images /\ prep.previous = prep.image /\ prep.image # None
    BY DEF IInv, Placed, WholeVolume
  <2>1. CASE \E image, sources \in Images, force \in BOOLEAN : Begin(image, sources, force)
    BY <2>1 DEF Begin, diskVars
  <2>2. CASE RefuseSources
    BY <2>2 DEF RefuseSources
  <2>3. CASE ReuseDatabase
    BY <2>3 DEF ReuseDatabase, NextDataset, diskVars, InLoop, IInv, TypeOK
  <2>4. CASE ReplaceDatabase
    BY <2>4, <2>0 DEF ReplaceDatabase, InLoop, Reusable, Prepared, WholeVolume
  <2>5. CASE ReplaceSidecar
    BY <2>5 DEF ReplaceSidecar, NextDataset, IInv, TypeOK, Progress
  <2>6. CASE ReuseRelease
    BY <2>6, <2>0
    DEF ReuseRelease, PrepGoto, ReleaseIsValid, AllApproved, WholeVolume, diskVars, IInv, TypeOK
  <2>7. CASE StageRelease
    BY <2>7, <2>0 DEF StageRelease
  <2>8. CASE InstallIndex
    BY <2>8 DEF InstallIndex, PrepGoto, IInv, TypeOK
  <2>9. CASE InstallArtifact
    BY <2>9 DEF InstallArtifact, PrepGoto, IInv, TypeOK
  <2>10. CASE InstallAnchor
    BY <2>10 DEF InstallAnchor, PrepGoto, AllApproved, WholeVolume, IInv, TypeOK
  <2>11. CASE Record
    BY <2>11 DEF Record, PrepGoto, IInv, TypeOK
  <2>12. CASE Cut
    BY <2>12 DEF Cut, PrepGoto, diskVars, IInv, TypeOK
  <2>13. CASE UNCHANGED vars
    BY <2>13
  <2> QED
    BY <2>1, <2>2, <2>3, <2>4, <2>5, <2>6, <2>7, <2>8, <2>9, <2>10, <2>11, <2>12, <2>13
    DEF Next, PrepareStep
<1> QED
  BY InductiveInvariant, <1>1, PTL DEF Spec, WholeIsReused

=============================================================================
