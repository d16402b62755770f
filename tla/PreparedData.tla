---------------------------- MODULE PreparedData ----------------------------
(***************************************************************************)
(* The data volume of one deployment and the one-shot preparation that     *)
(* builds or reuses the databases and the relation release on it           *)
(* (storage/prepare.py, storage/sqlite.py, retrieval/relations.py).        *)
(*                                                                         *)
(* A preparation publishes by renames: database and sidecar of each        *)
(* dataset, then index, artifact and digest anchor, then its state file.   *)
(* It may stop between any two of them, and the next one may be run from   *)
(* another release of the code, with or without --force.                   *)
(*                                                                         *)
(* Abstractions: a file is named by the image whose approved data it was   *)
(* built from, for builds are deterministic (a test compares two); a       *)
(* stat version is the number of times the path was replaced, since every  *)
(* writer renames a new file over it; field-by-field comparison of         *)
(* manifests, digests and the state file is comparison of images.          *)
(***************************************************************************)
EXTENDS Naturals

CONSTANTS
  Images,       \* releases of the code, each with one approved data release
  NumDatasets,  \* DATASETS, in their order
  None,
  MaxPrepares   \* bound: preparations

ASSUME PreparedDataAssumption ==
  /\ None \notin Images
  /\ NumDatasets \in Nat \ {0}
  /\ MaxPrepares \in Nat

VARIABLES
  database, \* per dataset: image its content is of, and its stat version
  sidecar,  \* per dataset: image its manifest sidecar is of
  index,    \* provided-relations.sqlite3: image and stat version
  artifact, \* relation-retrieval-artifact.json: the image it binds
  anchor,   \* relation-retrieval-artifact.sha256: the artifact it names
  state,    \* .finance-data-state.json
  prep,     \* the preparation: where it is and what it was started with
  prepares  \* preparations so far

diskVars == <<database, sidecar, index, artifact, anchor, state>>
vars == <<diskVars, prep, prepares>>

Datasets == 1..NumDatasets
Known == Images \cup {None}
File == [of : Known, version : Nat]
NoFile == [of |-> None, version |-> 0]
Replaced(f, image) == [of |-> image, version |-> f.version + 1]

Init ==
  /\ database = [d \in Datasets |-> NoFile]
  /\ sidecar = [d \in Datasets |-> None]
  /\ index = NoFile
  /\ artifact = None
  /\ anchor = None
  /\ state = None
  /\ prep = [at |-> "never", image |-> None, force |-> FALSE, sources |-> None,
             next |-> 1, previous |-> None]
  /\ prepares = 0

-----------------------------------------------------------------------------
(***************************************************************************)
(* prepare_databases: main loads the approval of its image, then the state *)
(* file, then takes the datasets in order.                                 *)
(***************************************************************************)
PrepGoto(where) == prep' = [prep EXCEPT !.at = where]
Idle == prep.at \in {"never", "done", "refused", "cut"}

Begin(image, sources, force) ==
  /\ Idle
  /\ prepares < MaxPrepares
  /\ prepares' = prepares + 1
  /\ prep' = [at |-> "dataset", image |-> image, force |-> force, sources |-> sources,
              next |-> 1, previous |-> state]
  /\ UNCHANGED diskVars

\* The loop over DATASETS; with none left the relation release is next.
InLoop == prep.at = "dataset" /\ prep.next \in Datasets

\* require_approved_source_files
RefuseSources ==
  /\ InLoop
  /\ prep.sources # prep.image
  /\ PrepGoto("refused")
  /\ UNCHANGED <<diskVars, prepares>>

\* Mutant: --force is read the wrong way round.
ReusableWhenForced(d) ==
  database[d].of = prep.image /\ sidecar[d] = prep.image /\ prep.previous = prep.image /\ prep.force

\* validate_prepared_database and require_approved_database, then the hash
\* the state file has for it
Prepared(d) == database[d].of = prep.image /\ sidecar[d] = database[d].of
Reusable(d) == Prepared(d) /\ prep.previous = database[d].of /\ ~prep.force

NextDataset == [prep EXCEPT !.at = "dataset", !.next = @ + 1]

ReuseDatabase ==
  /\ InLoop
  /\ prep.sources = prep.image
  /\ Reusable(prep.next)
  /\ prep' = NextDataset
  /\ UNCHANGED <<diskVars, prepares>>

\* BUILDERS: a temporary file is written and renamed, then the sidecar is.
ReplaceDatabase ==
  /\ InLoop
  /\ prep.sources = prep.image
  /\ ~Reusable(prep.next)
  /\ database' = [database EXCEPT ![prep.next] = Replaced(@, prep.image)]
  /\ PrepGoto("sidecar")
  /\ UNCHANGED <<sidecar, index, artifact, anchor, state, prepares>>

\* _write_manifest_sidecar, and the validation of what was built
ReplaceSidecar ==
  /\ prep.at = "sidecar"
  /\ sidecar' = [sidecar EXCEPT ![prep.next] = prep.image]
  /\ prep' = IF database[prep.next].of = prep.image THEN NextDataset
             ELSE [prep EXCEPT !.at = "refused"]
  /\ UNCHANGED <<database, index, artifact, anchor, state, prepares>>

(***************************************************************************)
(* prepare_relation_retrieval_artifacts.                                   *)
(***************************************************************************)
LoopOver == prep.at = "dataset" /\ prep.next \notin Datasets
AllApproved == \A d \in Datasets : database[d].of = prep.image

\* Mutant: the digest pair is taken for the release, the index not hashed.
ReleaseByDigestOnly ==
  anchor = prep.previous /\ artifact = prep.previous /\ AllApproved /\ prep.image = prep.previous

\* _validate_relation_artifacts against the previous state
ReleaseIsValid ==
  /\ anchor = prep.previous
  /\ artifact = prep.previous
  /\ index.of = prep.previous
  /\ AllApproved
  /\ prep.image = prep.previous

ReuseRelease ==
  /\ LoopOver
  /\ ~prep.force
  /\ prep.previous # None
  /\ PrepGoto(IF ReleaseIsValid THEN "record" ELSE "refused")
  /\ UNCHANGED <<diskVars, prepares>>

\* Any output without a validated prepared state
Unrecorded == index.of # None \/ artifact # None \/ anchor # None

\* Mutant: unrecorded outputs stop a forced preparation too.
StageUnforced ==
  /\ LoopOver
  /\ prep.force \/ prep.previous = None
  /\ PrepGoto(IF Unrecorded \/ ~AllApproved THEN "refused" ELSE "index")
  /\ UNCHANGED <<diskVars, prepares>>

\* The staging directory, the build and its validation
StageRelease ==
  /\ LoopOver
  /\ prep.force \/ prep.previous = None
  /\ PrepGoto(IF (~prep.force /\ Unrecorded) \/ ~AllApproved THEN "refused" ELSE "index")
  /\ UNCHANGED <<diskVars, prepares>>

\* Three os.replace in this order, then the validation of what was installed
InstallIndex ==
  /\ prep.at = "index"
  /\ index' = Replaced(index, prep.image)
  /\ PrepGoto("artifact")
  /\ UNCHANGED <<database, sidecar, artifact, anchor, state, prepares>>

InstallArtifact ==
  /\ prep.at = "artifact"
  /\ artifact' = prep.image
  /\ PrepGoto("anchor")
  /\ UNCHANGED <<database, sidecar, index, anchor, state, prepares>>

InstallAnchor ==
  /\ prep.at = "anchor"
  /\ anchor' = prep.image
  /\ PrepGoto(IF /\ index.of = prep.image /\ artifact = prep.image /\ AllApproved
              THEN "record" ELSE "refused")
  /\ UNCHANGED <<database, sidecar, index, artifact, state, prepares>>

\* _write_state, then _secure_outputs
Record ==
  /\ prep.at = "record"
  /\ state' = prep.image
  /\ PrepGoto("done")
  /\ UNCHANGED <<database, sidecar, index, artifact, anchor, prepares>>

\* A failing step or a kill: finally removes the staging directory, or nobody does.
Cut ==
  /\ ~Idle
  /\ PrepGoto("cut")
  /\ UNCHANGED <<diskVars, prepares>>

PrepareStep ==
  \/ RefuseSources \/ ReuseDatabase \/ ReplaceDatabase \/ ReplaceSidecar
  \/ ReuseRelease \/ StageRelease \/ InstallIndex \/ InstallArtifact \/ InstallAnchor
  \/ Record

Next ==
  \/ \E image, sources \in Images, force \in BOOLEAN : Begin(image, sources, force)
  \/ PrepareStep
  \/ Cut

Spec == Init /\ [][Next]_vars

\* A preparation that is not cut goes on: it waits for nobody.
FairSpec == Spec /\ WF_vars(PrepareStep)

-----------------------------------------------------------------------------
TypeOK ==
  /\ database \in [Datasets -> File]
  /\ sidecar \in [Datasets -> Known]
  /\ index \in File
  /\ artifact \in Known /\ anchor \in Known /\ state \in Known
  /\ prep \in [at : {"never", "dataset", "sidecar", "index", "artifact", "anchor", "record",
                     "done", "refused", "cut"},
              image : Known, force : BOOLEAN, sources : Known,
              next : Nat \ {0}, previous : Known]
  /\ prepares \in Nat

\* A preparation that ends well leaves one release: the databases, their
\* sidecars and the three relation files are all of its image and the state
\* file says so, whatever earlier preparations, cut anywhere and of whatever
\* image, left behind (prepare_databases: "then publish one ready state").
PublishedIsWhole ==
  prep.at = "done" =>
    /\ \A d \in Datasets : database[d].of = prep.image /\ sidecar[d] = prep.image
    /\ index.of = prep.image
    /\ artifact = prep.image /\ anchor = prep.image
    /\ state = prep.image

\* A volume that is whole is never refused: a restart of the same image over
\* what a finished preparation left reuses it and replaces no database.
WholeVolume(image) ==
  /\ \A d \in Datasets : database[d].of = image /\ sidecar[d] = image
  /\ index.of = image /\ artifact = image /\ anchor = image /\ state = image

WholeIsReused ==
  [][prep.at # "never" /\ WholeVolume(prep.image) /\ prep.previous = state
       /\ prep.sources = prep.image /\ ~prep.force
     => database' = database /\ prep'.at # "refused"]_vars

\* What --force is for: a forced preparation from the approved workbooks
\* publishes its release unless it is cut, whatever state it finds.
ForcedPublishes ==
  \A image \in Images :
    (prep.at = "dataset" /\ prep.force /\ prep.image = image /\ prep.sources = image)
      ~> (prep.at \in {"done", "cut"})

=============================================================================
