--------------------------- MODULE RelationLookup ---------------------------
(***************************************************************************)
(* The service that answers relation questions from the data volume of     *)
(* PreparedData while a later preparation may be replacing its files:      *)
(* Compose restarts a service only after the preparation it depends on.    *)
(*                                                                         *)
(* The start reads the digest anchor and the artifact it names             *)
(* (app/dependencies.py) and verifies the index and the databases          *)
(* (KnowledgeAgent.verify_ready).  Every lookup verifies them again        *)
(* (_execute_relation, SQLiteRelationIndex.search), through three caches   *)
(* keyed by stat versions: approved databases (storage/approval.py), index *)
(* manifests (_verify_relation_index_cached) and product identities        *)
(* (ProductIdentitySnapshotCache; RecordSnapshotCache is its twin).  Each  *)
(* cache looks at the path once for its key and opens it again to fill the *)
(* entry, so the two may be different files.                               *)
(*                                                                         *)
(* Abstractions: one reader at a time, for the cache that lookups share is *)
(* locked while it fills; a hash taken between two equal stats is one      *)
(* step; product and relation rows are named by the image of their file.   *)
(***************************************************************************)
EXTENDS PreparedData

CONSTANTS
  MaxStarts,  \* bound: service starts
  MaxLookups  \* bound: lookups

ASSUME LookupAssumption == MaxStarts \in Nat /\ MaxLookups \in Nat

VARIABLES
  service,   \* image of the process, and the artifact it was started with
  reader,    \* the check of a start or the lookup that is under way
  approved,  \* _require_packaged_database_cached: versions found approved
  manifests, \* _verify_relation_index_cached: index versions and their manifests
  identity,  \* _entries of the identity cache: version and content per dataset
  starts, lookups

serviceVars == <<service, reader, approved, manifests, identity, starts, lookups>>
allVars == <<vars, serviceVars>>

NoReader ==
  [at |-> "idle", kind |-> "start",
   held |-> 0,       \* version of the index file when it was hashed
   version |-> 0,    \* key of the index manifest
   manifest |-> None,
   rows |-> None,    \* file the search connection has open
   next |-> 1,       \* dataset under verification
   seen |-> 0,       \* its version before loading
   loaded |-> None,
   attempt |-> 1,
   identities |-> [d \in Datasets |-> None]]

InitLookup ==
  /\ Init
  /\ service = [at |-> "down", image |-> None, release |-> None]
  /\ reader = NoReader
  /\ approved = [d \in Datasets |-> {}]
  /\ manifests = {}
  /\ identity = [d \in Datasets |-> NoFile]
  /\ starts = 0
  /\ lookups = 0

Caches == <<approved, manifests, identity>>
Counts == <<starts, lookups>>

\* A reader that refuses ends its start or its lookup.
Refuse ==
  /\ reader' = [NoReader EXCEPT !.at = "refused", !.kind = reader.kind]
  /\ service' = IF reader.kind = "start" THEN [service EXCEPT !.at = "down"] ELSE service

Continue(update) == reader' = update /\ UNCHANGED service

-----------------------------------------------------------------------------
(***************************************************************************)
(* Start of the process: after the preparation of its image, or again with *)
(* the image it had, whatever the volume holds by then.                    *)
(***************************************************************************)
Start(image) ==
  /\ starts < MaxStarts
  /\ image = service.image \/ (prep.at = "done" /\ image = prep.image)
  /\ image \in Images
  /\ starts' = starts + 1
  /\ service' = [at |-> "starting", image |-> image, release |-> None]
  /\ reader' = [NoReader EXCEPT !.at = "anchor"]
  /\ approved' = [d \in Datasets |-> {}]
  /\ manifests' = {}
  /\ identity' = [d \in Datasets |-> NoFile]
  /\ UNCHANGED lookups

\* _relation_artifact_trust_sha256
ReadAnchor ==
  /\ reader.at = "anchor"
  /\ IF anchor = None THEN Refuse
     ELSE /\ service' = [service EXCEPT !.release = anchor]
          /\ reader' = [reader EXCEPT !.at = "artifact"]
  /\ UNCHANGED <<Caches, Counts>>

\* load_relation_retrieval_artifact_release
LoadArtifact ==
  /\ reader.at = "artifact"
  /\ IF artifact = service.release THEN Continue([reader EXCEPT !.at = "hash"]) ELSE Refuse
  /\ UNCHANGED <<Caches, Counts>>

\* KnowledgeAgent.execute of a relation plan
Lookup ==
  /\ service.at = "serving"
  /\ reader.at \in {"idle", "refused", "answered"}
  /\ lookups < MaxLookups
  /\ lookups' = lookups + 1
  /\ reader' = [NoReader EXCEPT !.at = "hash", !.kind = "lookup"]
  /\ UNCHANGED <<service, Caches, starts>>

-----------------------------------------------------------------------------
\* _verify_release_file
HashIndex ==
  /\ reader.at = "hash"
  /\ IF index.of # None /\ index.of = service.release
     THEN Continue([reader EXCEPT !.held = index.version,
                                  !.at = IF reader.kind = "lookup" THEN "manifest" ELSE "stat"])
     ELSE Refuse
  /\ UNCHANGED <<Caches, Counts>>

\* The manifest a lookup compares with its release before it searches.  It is
\* the cached one when the version is known, else read by a second open.
ManifestOf(version) ==
  {m.of : m \in {e \in manifests : e.version = version}}

CheckManifest ==
  /\ reader.at = "manifest"
  /\ LET cached == ManifestOf(index.version)
         found == IF cached = {} THEN {index.of} ELSE cached
     IN /\ manifests' = manifests \cup {[version |-> index.version, of |-> m] : m \in found}
        /\ IF found = {service.release} THEN Continue([reader EXCEPT !.at = "stat"]) ELSE Refuse
  /\ UNCHANGED <<approved, identity, Counts>>

\* SQLiteRelationIndex._verified: the version first,
StatIndex ==
  /\ reader.at = "stat"
  /\ Continue([reader EXCEPT !.version = index.version, !.at = "read"])
  /\ UNCHANGED <<Caches, Counts>>

\* then the entry of that version, filled from what the path names now.
ReadIndex ==
  /\ reader.at = "read"
  /\ \E m \in IF ManifestOf(reader.version) = {} THEN {index.of}
              ELSE ManifestOf(reader.version) :
       /\ manifests' = manifests \cup {[version |-> reader.version, of |-> m]}
       /\ Continue([reader EXCEPT !.manifest = m,
                                  !.at = IF reader.kind = "lookup" THEN "open" ELSE "approve"])
  /\ UNCHANGED <<approved, identity, Counts>>

\* connect_read_only of SQLiteRelationIndex.search
OpenIndex ==
  /\ reader.at = "open"
  /\ Continue([reader EXCEPT !.rows = index.of, !.at = "approve"])
  /\ UNCHANGED <<Caches, Counts>>

-----------------------------------------------------------------------------
(***************************************************************************)
(* _identity_maps: ApprovedProductDatabaseVerifier.verify of each dataset. *)
(***************************************************************************)
Here == database[reader.next]
Verifying == reader.next \in Datasets

\* require_approved_database: the cache is looked up by stat
Approve ==
  /\ reader.at = "approve" /\ Verifying
  /\ Continue([reader EXCEPT !.seen = Here.version, !.attempt = 1,
                             !.at = IF Here.version \in approved[reader.next]
                                    THEN "identify" ELSE "approving"])
  /\ UNCHANGED <<Caches, Counts>>

\* and filled from a second open
FillApproval ==
  /\ reader.at = "approving"
  /\ IF Here.of = service.image
     THEN /\ approved' = [approved EXCEPT ![reader.next] = @ \cup {reader.seen}]
          /\ Continue([reader EXCEPT !.at = "identify"])
     ELSE Refuse /\ UNCHANGED approved
  /\ UNCHANGED <<manifests, identity, Counts>>

\* The manifest of the snapshot is that of the approved database.
Identified(content) ==
  IF content = service.image
  THEN Continue([reader EXCEPT !.identities[reader.next] = content,
                               !.at = "approve", !.next = @ + 1])
  ELSE Refuse

\* ProductIdentitySnapshotCache.get with a current entry
HitIdentity ==
  /\ reader.at = "identify"
  /\ identity[reader.next].of # None
  /\ identity[reader.next].version = Here.version
  /\ Identified(identity[reader.next].of)
  /\ UNCHANGED <<Caches, Counts>>

\* without one: version, load, version again, at most twice
MissIdentity ==
  /\ reader.at = "identify"
  /\ identity[reader.next].of = None \/ identity[reader.next].version # Here.version
  /\ identity' = [identity EXCEPT ![reader.next] = NoFile]
  /\ Continue([reader EXCEPT !.seen = Here.version, !.at = "load"])
  /\ UNCHANGED <<approved, manifests, Counts>>

LoadIdentity ==
  /\ reader.at = "load"
  /\ Continue([reader EXCEPT !.loaded = Here.of, !.at = "compare"])
  /\ UNCHANGED <<Caches, Counts>>

\* Mutant: the version is not looked at again after loading.
SameVersionAssumed == TRUE

SameVersion == reader.seen = Here.version

CompareIdentity ==
  /\ reader.at = "compare"
  /\ IF SameVersion
     THEN /\ identity' = [identity EXCEPT ![reader.next] =
                            [of |-> reader.loaded, version |-> reader.seen]]
          /\ Identified(reader.loaded)
     ELSE /\ UNCHANGED identity
          /\ IF reader.attempt = 1
             THEN Continue([reader EXCEPT !.seen = Here.version, !.attempt = 2, !.at = "load"])
             ELSE Refuse
  /\ UNCHANGED <<approved, manifests, Counts>>

\* Mutant: what was verified is taken to be what the path still names.
IndexAssumedCurrent(version) == TRUE

\* The index is bound to the approval of this process and was not replaced
\* since its version was taken.
Bound == reader.manifest = service.image
IndexCurrent(version) == index.version = version

Recheck ==
  /\ reader.at = "approve" /\ ~Verifying
  /\ IF Bound /\ IndexCurrent(reader.version)
     THEN Continue([reader EXCEPT !.at = "final"])
     ELSE Refuse
  /\ UNCHANGED <<Caches, Counts>>

\* The comparison with the release, the version of the first hash and, in a
\* lookup, a last hash
Final ==
  /\ reader.at = "final"
  /\ IF /\ reader.manifest = service.release
        /\ IndexCurrent(reader.held)
        /\ reader.kind = "lookup" => index.of = service.release
     THEN /\ reader' = [reader EXCEPT !.at = "answered"]
          /\ service' = [service EXCEPT !.at = "serving"]
     ELSE Refuse
  /\ UNCHANGED <<Caches, Counts>>

-----------------------------------------------------------------------------
ReaderStep ==
  \/ ReadAnchor \/ LoadArtifact \/ HashIndex \/ CheckManifest \/ StatIndex \/ ReadIndex
  \/ OpenIndex \/ Approve \/ FillApproval \/ HitIdentity \/ MissIdentity \/ LoadIdentity
  \/ CompareIdentity \/ Recheck \/ Final

ServiceNext == ReaderStep \/ Lookup \/ \E image \in Images : Start(image)

NextLookup ==
  \/ Next /\ UNCHANGED serviceVars
  \/ ServiceNext /\ UNCHANGED vars

SpecLookup == InitLookup /\ [][NextLookup]_allVars

FairLookup == SpecLookup /\ WF_allVars(ReaderStep /\ UNCHANGED vars)
                         /\ WF_allVars(PrepareStep /\ UNCHANGED serviceVars)

-----------------------------------------------------------------------------
Reader ==
  [at : {"idle", "anchor", "artifact", "hash", "manifest", "stat", "read", "open", "approve",
         "approving", "identify", "load", "compare", "final", "answered", "refused"},
   kind : {"start", "lookup"}, held : Nat, version : Nat, manifest : Known, rows : Known,
   next : Nat \ {0}, seen : Nat, loaded : Known, attempt : {1, 2},
   identities : [Datasets -> Known]]

TypeOKLookup ==
  /\ TypeOK
  /\ service \in [at : {"down", "starting", "serving"}, image : Known, release : Known]
  /\ reader \in Reader
  /\ approved \in [Datasets -> SUBSET Nat]
  /\ manifests \subseteq [version : Nat, of : Known]
  /\ identity \in [Datasets -> File]
  /\ starts \in Nat /\ lookups \in Nat

\* What a lookup answers with comes from one release: the relation rows are
\* read from the index the service was started with, that index is bound to
\* the approved data of its own image, and so is every identity it checked
\* them against, while files are replaced between any two of its steps and
\* cache entries may have been filled from another file than their key names.
EvidenceOfOneRelease ==
  (reader.at = "answered" /\ reader.kind = "lookup") =>
    /\ reader.rows = service.release
    /\ service.release = service.image
    /\ \A d \in Datasets : reader.identities[d] = service.image

\* The identities a reader goes on with are those of the file the path names
\* at that moment, whether they were cached by an earlier reader, loaded now
\* or loaded again because the file was replaced while it was read.
IdentitiesOfThePath ==
  [][\A d \in Datasets :
       (reader'.identities[d] # reader.identities[d] /\ reader'.identities[d] # None)
         => reader'.identities[d] = database[d].of]_allVars

=============================================================================
