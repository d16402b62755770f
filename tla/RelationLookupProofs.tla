------------------------- MODULE RelationLookupProofs -------------------------
(***************************************************************************)
(* Proofs about RelationLookup, for any number of releases, datasets,      *)
(* preparations, starts and lookups.                                       *)
(*                                                                         *)
(* Every writer moves the version of the path it replaces (FilesGrow), so  *)
(* what was read at a version is still there while the path has that       *)
(* version: of the cached identities (Cached), of the one being loaded     *)
(* (Loading) and of the rows a lookup has open (Opened).  A lookup answers *)
(* only with identities of its image (Checked), an index bound to it       *)
(* (BoundIndex), and rows of the index it hashed (Answered).               *)
(***************************************************************************)
EXTENDS RelationLookup, PreparedDataProofs

\* A path keeps its file, or gets another version.
Grows(f, g) == g = f \/ g.version = f.version + 1

FilesGrow == Grows(index, index') /\ \A d \in Datasets : Grows(database[d], database'[d])

Cached ==
  \A d \in Datasets :
    /\ identity[d].version <= database[d].version
    /\ identity[d].of # None /\ identity[d].version = database[d].version
         => identity[d].of = database[d].of

Loading ==
  /\ reader.at \in {"approving", "identify", "load", "compare"} => reader.next \in Datasets
  /\ reader.at \in {"load", "compare"} => reader.seen <= database[reader.next].version
  /\ reader.at = "compare" /\ reader.seen = database[reader.next].version
       => reader.loaded = database[reader.next].of

Verification == {"approve", "approving", "identify", "load", "compare", "final"}

Opened ==
  /\ reader.at \in {"manifest", "stat", "read", "open"} \cup Verification
       => reader.held <= index.version
  /\ reader.at \in Verification /\ reader.kind = "lookup" /\ reader.held = index.version
       => reader.rows = index.of

Checked ==
  /\ reader.at \in {"anchor", "artifact", "hash", "manifest", "stat", "read", "open"} =>
       reader.next = 1
  /\ reader.at \in Verification =>
       \A d \in Datasets : d < reader.next => reader.identities[d] = service.image
  /\ reader.at = "final" => reader.next \notin Datasets

BoundIndex == reader.at = "final" => reader.manifest = service.image

Answered == EvidenceOfOneRelease

LookupIInv ==
  /\ TypeOKLookup
  /\ Cached /\ Loading
  /\ Opened /\ Checked /\ BoundIndex /\ Answered

-----------------------------------------------------------------------------
\* The initial state: no file, no cache entry, no reader.
LEMMA InitLookupIInv == InitLookup => LookupIInv
<1> SUFFICES ASSUME InitLookup PROVE LookupIInv
  OBVIOUS
<1> USE PreparedDataAssumption, LookupAssumption DEF InitLookup, NoReader
<1>1. TypeOKLookup
  BY InitIInv DEF IInv, TypeOKLookup, Reader, File, NoFile, Known
<1>2. Cached
  BY DEF Cached, NoFile, Init
<1>3. Loading /\ Opened /\ Checked /\ BoundIndex /\ Answered
  BY DEF Loading, Opened, Checked, BoundIndex, Answered, Verification, EvidenceOfOneRelease
<1> QED
  BY <1>1, <1>2, <1>3 DEF LookupIInv

\* A step of a preparation replaces a file by a newer version or keeps it.
LEMMA WritersGrow == ASSUME TypeOK, [Next]_vars PROVE FilesGrow
<1> USE PreparedDataAssumption DEF FilesGrow, Grows, TypeOK, File
<1>1. CASE ReplaceDatabase
  BY <1>1 DEF ReplaceDatabase, Replaced, InLoop
<1>2. CASE InstallIndex
  BY <1>2 DEF InstallIndex, Replaced
<1>3. CASE UNCHANGED <<database, index>>
  BY <1>3
<1> QED
  BY <1>1, <1>2, <1>3
  DEF Next, PrepareStep, Begin, RefuseSources, ReuseDatabase, ReplaceSidecar, ReuseRelease,
      StageRelease, InstallArtifact, InstallAnchor, Record, Cut, diskVars, vars

\* A preparation under a reader: what was read at a version that is still
\* there is still there.
LEMMA WriterStep ==
  ASSUME LookupIInv, [Next]_vars, UNCHANGED serviceVars
  PROVE  LookupIInv'
<1>1. FilesGrow
  BY WritersGrow DEF LookupIInv, TypeOKLookup
<1>2. TypeOK'
  BY TypeStep DEF LookupIInv, TypeOKLookup
<1>3. TypeOKLookup'
  BY <1>2 DEF LookupIInv, TypeOKLookup, serviceVars
<1> USE PreparedDataAssumption DEF LookupIInv, TypeOKLookup, TypeOK, File, serviceVars
<1>4. Cached'
  BY <1>1, <1>2 DEF Cached, FilesGrow, Grows
<1>5. Loading'
  BY <1>1, <1>2 DEF Loading, FilesGrow, Grows, Reader
<1>6. Opened'
  BY <1>1, <1>2 DEF Opened, FilesGrow, Grows, Reader
<1>7. Checked' /\ BoundIndex' /\ Answered'
  BY DEF Checked, BoundIndex, Answered, EvidenceOfOneRelease
<1> QED
  BY <1>3, <1>4, <1>5, <1>6, <1>7

Service == [at : {"down", "starting", "serving"}, image : Known, release : Known]

\* A refusal keeps the types of the reader and of the service.
LEMMA RefusalTypes ==
  ASSUME reader \in Reader, service \in Service, Refuse
  PROVE  reader' \in Reader /\ service' \in Service
<1>1. None \in Known /\ [d \in Datasets |-> None] \in [Datasets -> Known]
  BY DEF Known
<1>2. NoReader \in Reader
  BY <1>1 DEF NoReader, Reader
<1> QED
  BY <1>2 DEF Refuse, Reader, Service

\* A step of the service keeps the types.
LEMMA ServiceTypeStep ==
  ASSUME TypeOKLookup, Loading, ServiceNext, UNCHANGED vars
  PROVE  TypeOKLookup'
<1> USE PreparedDataAssumption, LookupAssumption DEF Continue, Caches, Counts
<1>0. /\ TypeOK' /\ database \in [Datasets -> File] /\ index \in File
      /\ artifact \in Known /\ anchor \in Known
  BY DEF TypeOKLookup, TypeOK, vars, diskVars
<1>a. /\ reader \in Reader /\ service \in Service
      /\ Refuse => reader' \in Reader /\ service' \in Service
      /\ approved \in [Datasets -> SUBSET Nat]
      /\ manifests \subseteq [version : Nat, of : Known]
      /\ identity \in [Datasets -> File]
      /\ starts \in Nat /\ lookups \in Nat
  BY RefusalTypes DEF TypeOKLookup, Service
<1>b. NoReader \in Reader /\ NoFile \in File /\ None \in Known
  <2>1. None \in Known /\ [d \in Datasets |-> None] \in [Datasets -> Known]
    BY DEF Known
  <2> QED
    BY <2>1 DEF NoReader, Reader, NoFile, File
<1>e. \A v : ManifestOf(v) \subseteq Known
  BY <1>a DEF ManifestOf
<1>d. ASSUME NEW content \in Known, Identified(content), reader.next \in Datasets
      PROVE  reader' \in Reader /\ service' \in Service
  <2>1. CASE Refuse
    BY <1>a, <2>1
  <2>2. CASE ~Refuse
    <3>1. /\ reader' = [reader EXCEPT !.identities[reader.next] = content,
                                      !.at = "approve", !.next = @ + 1]
          /\ UNCHANGED service
      BY <1>d, <2>2 DEF Identified
    <3>2. reader.next + 1 \in Nat \ {0}
      BY <1>a DEF Reader
    <3>3. [reader.identities EXCEPT ![reader.next] = content] \in [Datasets -> Known]
      BY <1>a DEF Reader
    <3> QED
      BY <1>a, <3>1, <3>2, <3>3 DEF Reader
  <2> QED
    BY <2>1, <2>2
<1> DEFINE Kept ==
      /\ reader' \in Reader /\ service' \in Service
      /\ approved' \in [Datasets -> SUBSET Nat]
      /\ manifests' \subseteq [version : Nat, of : Known]
      /\ identity' \in [Datasets -> File]
      /\ starts' \in Nat /\ lookups' \in Nat
<1>c. Kept => TypeOKLookup'
  BY <1>0 DEF TypeOKLookup, Service
<1>1. ASSUME ReadAnchor PROVE Kept
  BY <1>0, <1>a, <1>b, <1>1 DEF ReadAnchor, File, Reader, Service
<1>2. ASSUME LoadArtifact PROVE Kept
  BY <1>0, <1>a, <1>b, <1>2 DEF LoadArtifact, File, Reader, Service
<1>3. ASSUME HashIndex PROVE Kept
  <2>1. CASE Refuse
    BY <1>a, <1>3, <2>1 DEF HashIndex
  <2>2. CASE ~Refuse
    <3>1. index.version \in Nat
      BY <1>0 DEF File
    <3>2. \E there \in {"manifest", "stat"} :
            reader' = [reader EXCEPT !.held = index.version, !.at = there] /\ UNCHANGED service
      BY <1>3, <2>2 DEF HashIndex
    <3> QED
      BY <1>a, <1>3, <3>1, <3>2 DEF HashIndex, Reader
  <2> QED
    BY <2>1, <2>2
<1>4. ASSUME CheckManifest PROVE Kept
  <2>1. manifests' \subseteq [version : Nat, of : Known]
    <3>1. PICK found \in SUBSET Known :
            manifests' = manifests \cup {[version |-> index.version, of |-> m] : m \in found}
      BY <1>0, <1>e, <1>4 DEF CheckManifest, File
    <3>2. index.version \in Nat
      BY <1>0 DEF File
    <3> QED
      BY <1>a, <3>1, <3>2
  <2>2. CASE Refuse
    BY <1>a, <1>4, <2>1, <2>2 DEF CheckManifest
  <2>3. CASE ~Refuse
    <3>1. reader' = [reader EXCEPT !.at = "stat"] /\ UNCHANGED service
      BY <1>4, <2>3 DEF CheckManifest
    <3> QED
      BY <1>a, <1>4, <2>1, <3>1 DEF CheckManifest, Reader
  <2> QED
    BY <2>2, <2>3
<1>5. ASSUME StatIndex PROVE Kept
  BY <1>0, <1>a, <1>b, <1>5 DEF StatIndex, File, Reader, Service
<1>6. ASSUME ReadIndex PROVE Kept
  <2>1. PICK m \in IF ManifestOf(reader.version) = {} THEN {index.of}
                   ELSE ManifestOf(reader.version) :
               /\ manifests' = manifests \cup {[version |-> reader.version, of |-> m]}
               /\ reader' = [reader EXCEPT !.manifest = m,
                                           !.at = IF reader.kind = "lookup" THEN "open"
                                                  ELSE "approve"]
               /\ UNCHANGED service
    BY <1>6 DEF ReadIndex
  <2>2. m \in Known /\ reader.version \in Nat
    BY <1>0, <1>a, <1>e DEF File, Reader
  <2>3. manifests' \subseteq [version : Nat, of : Known]
    BY <1>a, <2>1, <2>2
  <2>4. reader' \in Reader
    BY <1>a, <2>1, <2>2 DEF Reader
  <2> QED
    BY <1>a, <1>6, <2>1, <2>3, <2>4 DEF ReadIndex
<1>7. ASSUME OpenIndex PROVE Kept
  BY <1>0, <1>a, <1>b, <1>7 DEF OpenIndex, File, Reader, Service
<1>8. ASSUME Approve PROVE Kept
  BY <1>0, <1>a, <1>b, <1>8 DEF Approve, Here, Verifying, File, Reader, Service
<1>9. ASSUME FillApproval PROVE Kept
  <2>1. CASE Here.of # service.image
    BY <1>a, <1>9, <2>1 DEF FillApproval
  <2>2. CASE Here.of = service.image
    <3>1. reader' = [reader EXCEPT !.at = "identify"] /\ UNCHANGED service
      BY <1>9, <2>2 DEF FillApproval
    <3>2. approved' \in [Datasets -> SUBSET Nat]
      BY <1>a, <1>9, <2>2 DEF FillApproval, Reader
    <3> QED
      BY <1>a, <1>9, <3>1, <3>2 DEF FillApproval, Reader
  <2> QED
    BY <2>1, <2>2
<1>10. ASSUME HitIdentity PROVE Kept
  <2>1. reader.next \in Datasets /\ identity[reader.next].of \in Known
    BY <1>a, <1>10 DEF HitIdentity, Loading, File
  <2> QED
    BY <1>a, <1>d, <1>10, <2>1 DEF HitIdentity
<1>11. ASSUME MissIdentity PROVE Kept
  <2>1. reader.next \in Datasets /\ Here.version \in Nat
    BY <1>0, <1>a, <1>11 DEF MissIdentity, Loading, File, Here
  <2> QED
    BY <1>a, <1>b, <1>11, <2>1 DEF MissIdentity, Reader
<1>12. ASSUME LoadIdentity PROVE Kept
  <2>1. reader.next \in Datasets /\ Here.of \in Known
    BY <1>0, <1>a, <1>12 DEF LoadIdentity, Loading, File, Here
  <2> QED
    BY <1>a, <1>12, <2>1 DEF LoadIdentity, Reader
<1>13. ASSUME CompareIdentity PROVE Kept
  <2>1. /\ reader.next \in Datasets /\ Here.version \in Nat
        /\ reader.loaded \in Known /\ reader.seen \in Nat
    BY <1>0, <1>a, <1>13 DEF CompareIdentity, Loading, File, Here, Reader
  <2>2. CASE SameVersion
    <3>1. identity' \in [Datasets -> File]
      BY <1>a, <1>13, <2>1, <2>2 DEF CompareIdentity, File
    <3> QED
      BY <1>a, <1>d, <1>13, <2>1, <2>2, <3>1 DEF CompareIdentity
  <2>3. CASE ~SameVersion /\ reader.attempt = 1
    <3>1. /\ reader' = [reader EXCEPT !.seen = Here.version, !.attempt = 2, !.at = "load"]
          /\ UNCHANGED <<service, identity>>
      BY <1>13, <2>3 DEF CompareIdentity
    <3> QED
      BY <1>a, <1>13, <2>1, <3>1 DEF CompareIdentity, Reader
  <2>4. CASE ~SameVersion /\ reader.attempt # 1
    BY <1>a, <1>13, <2>4 DEF CompareIdentity
  <2> QED
    BY <2>2, <2>3, <2>4
<1>14. ASSUME Recheck PROVE Kept
  BY <1>0, <1>a, <1>b, <1>14 DEF Recheck, File, Reader, Service
<1>15. ASSUME Final PROVE Kept
  BY <1>0, <1>a, <1>b, <1>15 DEF Final, File, Reader, Service
<1>16. ASSUME Lookup PROVE Kept
  <2>1. reader' \in Reader
    BY <1>b, <1>16 DEF Lookup, Reader
  <2> QED
    BY <1>a, <1>16, <2>1 DEF Lookup
<1>17. ASSUME \E image \in Images : Start(image) PROVE Kept
  <2>1. reader' \in Reader
    BY <1>b, <1>17 DEF Start, Reader
  <2>2. service' \in Service
    BY <1>b, <1>17 DEF Start, Service, Known
  <2> QED
    BY <1>a, <1>b, <1>17, <2>1, <2>2 DEF Start
<1> QED
  BY <1>c, <1>1, <1>2, <1>3, <1>4, <1>5, <1>6, <1>7, <1>8, <1>9, <1>10, <1>11, <1>12, <1>13, <1>14, <1>15, <1>16, <1>17
  DEF ServiceNext, ReaderStep

Parts == Cached /\ Loading /\ Opened /\ Checked /\ BoundIndex /\ Answered

\* A reader that is over or has not begun claims nothing.
LEMMA AwayParts ==
  ASSUME Cached', reader'.at \in {"refused", "anchor", "hash"}, reader'.next = 1
  PROVE  Parts'
  BY DEF Parts, Loading, Opened, Checked, BoundIndex, Answered, EvidenceOfOneRelease, Verification

\* A step of the service: what its reader has, it read of files that are still
\* there or have another version by now.
LEMMA ServiceStep ==
  ASSUME LookupIInv, ServiceNext, UNCHANGED vars
  PROVE  LookupIInv'
<1> USE PreparedDataAssumption, LookupAssumption DEF Continue, Caches, Counts
<1>0. /\ TypeOKLookup' /\ Loading
      /\ UNCHANGED <<database, index>>
  BY ServiceTypeStep DEF LookupIInv, vars, diskVars
<1>a. /\ reader \in Reader /\ reader' \in Reader
      /\ database \in [Datasets -> File] /\ index \in File
      /\ identity \in [Datasets -> File]
  BY <1>0 DEF LookupIInv, TypeOKLookup, TypeOK
<1>b. UNCHANGED identity => Cached'
  BY <1>0 DEF Cached, LookupIInv
<1>c. Refuse /\ UNCHANGED identity => Parts'
  BY <1>b, AwayParts DEF Refuse, NoReader
<1>d. ASSUME NEW content, Identified(content), Cached', reader.next \in Datasets,
             reader.at \in {"identify", "compare"}
      PROVE  Parts'
  <2>1. CASE Refuse
    BY <1>d, <2>1, AwayParts DEF Refuse, NoReader
  <2>2. CASE ~Refuse
    <3>1. /\ content = service.image /\ UNCHANGED service
          /\ reader' = [reader EXCEPT !.identities[reader.next] = content,
                                      !.at = "approve", !.next = @ + 1]
      BY <1>d, <2>2 DEF Identified
    <3>2. /\ reader'.at = "approve" /\ reader'.next = reader.next + 1
          /\ reader'.held = reader.held /\ reader'.kind = reader.kind
          /\ reader'.rows = reader.rows
          /\ reader'.identities = [reader.identities EXCEPT ![reader.next] = content]
      BY <1>a, <3>1 DEF Reader
    <3>3. \A d \in Datasets : d < reader.next + 1 => d < reader.next \/ d = reader.next
      BY <1>a DEF Reader, Datasets
    <3> QED
      BY <1>0, <1>a, <1>d, <3>1, <3>2, <3>3
      DEF Reader, LookupIInv, Parts, Cached, Loading, Opened, Checked, BoundIndex, Answered,
        EvidenceOfOneRelease, Verification
  <2> QED
    BY <2>1, <2>2
<1>1. ASSUME ReadAnchor PROVE Parts'
  BY <1>0, <1>a, <1>b, <1>c, <1>1
  DEF ReadAnchor, Reader, File, LookupIInv, Parts, Loading, Opened, Checked,
      BoundIndex, Answered, EvidenceOfOneRelease, Verification
<1>2. ASSUME LoadArtifact PROVE Parts'
  BY <1>0, <1>a, <1>b, <1>c, <1>2
  DEF LoadArtifact, Reader, File, LookupIInv, Parts, Loading, Opened, Checked,
      BoundIndex, Answered, EvidenceOfOneRelease, Verification
<1>3. ASSUME HashIndex PROVE Parts'
  <2>1. CASE Refuse
    BY <1>c, <1>3, <2>1 DEF HashIndex
  <2>2. CASE ~Refuse
    <3>1. \E there \in {"manifest", "stat"} :
            /\ reader' = [reader EXCEPT !.held = index.version, !.at = there]
            /\ UNCHANGED service
      BY <1>3, <2>2 DEF HashIndex
    <3>2. index.version \in Nat /\ reader.at = "hash"
      BY <1>a, <1>3 DEF HashIndex, File
    <3> QED
      BY <1>0, <1>a, <1>b, <1>3, <3>1, <3>2
      DEF HashIndex, LookupIInv, Reader, Parts, Cached, Loading, Opened, Checked, BoundIndex, Answered,
        EvidenceOfOneRelease, Verification
  <2> QED
    BY <2>1, <2>2
<1>4. ASSUME CheckManifest PROVE Parts'
  BY <1>0, <1>a, <1>b, <1>c, <1>4
  DEF CheckManifest, Reader, File, LookupIInv, Parts, Loading, Opened, Checked,
      BoundIndex, Answered, EvidenceOfOneRelease, Verification
<1>5. ASSUME StatIndex PROVE Parts'
  BY <1>0, <1>a, <1>b, <1>c, <1>5
  DEF StatIndex, Reader, File, LookupIInv, Parts, Loading, Opened, Checked,
      BoundIndex, Answered, EvidenceOfOneRelease, Verification
<1>6. ASSUME ReadIndex PROVE Parts'
  <2>1. PICK m :
          /\ reader' = [reader EXCEPT !.manifest = m,
                                      !.at = IF reader.kind = "lookup" THEN "open" ELSE "approve"]
          /\ UNCHANGED service
    BY <1>6 DEF ReadIndex
  <2>2. /\ reader.at = "read" /\ UNCHANGED identity
        /\ reader'.at \in {"open", "approve"}
        /\ reader'.at = "approve" => reader'.kind # "lookup"
        /\ reader'.held = reader.held /\ reader'.next = reader.next
    BY <1>a, <1>6, <2>1 DEF ReadIndex, Reader
  <2> QED
    BY <1>0, <1>a, <1>b, <2>2 DEF LookupIInv, Datasets, Parts, Cached, Loading, Opened, Checked, BoundIndex, Answered,
        EvidenceOfOneRelease, Verification
<1>7. ASSUME OpenIndex PROVE Parts'
  <2>1. /\ reader.at = "open" /\ UNCHANGED identity
        /\ reader'.at = "approve" /\ reader'.rows = index.of
        /\ reader'.held = reader.held /\ reader'.next = reader.next
    BY <1>a, <1>7 DEF OpenIndex, Reader
  <2> QED
    BY <1>0, <1>a, <1>b, <2>1 DEF LookupIInv, Datasets, Parts, Cached, Loading, Opened, Checked, BoundIndex, Answered,
        EvidenceOfOneRelease, Verification
<1>8. ASSUME Approve PROVE Parts'
  BY <1>0, <1>a, <1>b, <1>c, <1>8
  DEF Approve, Here, Verifying, Reader, File, LookupIInv, Parts, Loading, Opened,
      Checked, BoundIndex, Answered, EvidenceOfOneRelease, Verification
<1>9. ASSUME FillApproval PROVE Parts'
  BY <1>0, <1>a, <1>b, <1>c, <1>9
  DEF FillApproval, Here, Reader, File, LookupIInv, Parts, Loading, Opened, Checked,
      BoundIndex, Answered, EvidenceOfOneRelease, Verification
<1>10. ASSUME HitIdentity PROVE Parts'
  BY <1>0, <1>b, <1>d, <1>10 DEF HitIdentity, Loading
<1>11. ASSUME MissIdentity PROVE Parts'
  <2>1. /\ reader.at = "identify" /\ reader.next \in Datasets
        /\ identity' = [identity EXCEPT ![reader.next] = NoFile]
        /\ reader' = [reader EXCEPT !.seen = Here.version, !.at = "load"]
        /\ UNCHANGED service
    BY <1>0, <1>11 DEF MissIdentity, Loading
  <2>2. Cached'
    BY <1>0, <1>a, <2>1 DEF Cached, LookupIInv, NoFile, File
  <2>3. Here.version \in Nat
    BY <1>a, <2>1 DEF Here, File
  <2>4. /\ reader'.at = "load" /\ reader'.seen = Here.version
        /\ reader'.held = reader.held /\ reader'.next = reader.next
        /\ reader'.kind = reader.kind /\ reader'.rows = reader.rows
        /\ reader'.identities = reader.identities
    BY <1>a, <2>1 DEF Reader
  <2> QED
    BY <1>0, <1>a, <2>1, <2>2, <2>3, <2>4 DEF Here, LookupIInv, Parts, Cached, Loading, Opened, Checked, BoundIndex, Answered,
        EvidenceOfOneRelease, Verification
<1>12. ASSUME LoadIdentity PROVE Parts'
  BY <1>0, <1>a, <1>b, <1>c, <1>12
  DEF LoadIdentity, Here, Reader, File, LookupIInv, Parts, Loading, Opened, Checked,
      BoundIndex, Answered, EvidenceOfOneRelease, Verification
<1>13. ASSUME CompareIdentity PROVE Parts'
  <2>1. reader.at = "compare" /\ reader.next \in Datasets
    BY <1>0, <1>13 DEF CompareIdentity, Loading
  <2>2. CASE SameVersion
    <3>1. /\ Identified(reader.loaded)
          /\ identity' = [identity EXCEPT ![reader.next] =
                             [of |-> reader.loaded, version |-> reader.seen]]
      BY <1>13, <2>2 DEF CompareIdentity
    <3>2. Cached'
      BY <1>0, <1>a, <2>1, <2>2, <3>1
      DEF Cached, LookupIInv, Loading, SameVersion, Here, File, Reader
    <3> QED
      BY <1>d, <2>1, <3>1, <3>2
  <2>3. CASE ~SameVersion /\ reader.attempt # 1
    BY <1>c, <1>13, <2>3 DEF CompareIdentity
  <2>4. CASE ~SameVersion /\ reader.attempt = 1
    <3>1. /\ reader' = [reader EXCEPT !.seen = Here.version, !.attempt = 2, !.at = "load"]
          /\ UNCHANGED <<service, identity>>
      BY <1>13, <2>4 DEF CompareIdentity
    <3>2. Here.version \in Nat
      BY <1>a, <2>1 DEF Here, File
    <3>3. /\ reader'.at = "load" /\ reader'.seen = Here.version
          /\ reader'.held = reader.held /\ reader'.next = reader.next
          /\ reader'.kind = reader.kind /\ reader'.rows = reader.rows
          /\ reader'.identities = reader.identities
      BY <1>a, <3>1 DEF Reader
    <3> QED
      BY <1>0, <1>a, <1>b, <2>1, <3>1, <3>2, <3>3 DEF Here, LookupIInv, Parts, Cached, Loading, Opened, Checked, BoundIndex, Answered,
        EvidenceOfOneRelease, Verification
  <2> QED
    BY <2>2, <2>3, <2>4
<1>14. ASSUME Recheck PROVE Parts'
  BY <1>0, <1>a, <1>b, <1>c, <1>14
  DEF Recheck, Verifying, Bound, IndexCurrent, Reader, File, LookupIInv, Parts,
      Loading, Opened, Checked, BoundIndex, Answered, EvidenceOfOneRelease,
      Verification
<1>15. ASSUME Final PROVE Parts'
  <2>1. CASE Refuse
    BY <1>c, <1>15, <2>1 DEF Final
  <2>2. CASE ~Refuse
    <3>1. /\ reader.at = "final" /\ UNCHANGED identity
          /\ reader.manifest = service.release /\ index.version = reader.held
          /\ reader.kind = "lookup" => index.of = service.release
          /\ reader' = [reader EXCEPT !.at = "answered"]
          /\ service' = [service EXCEPT !.at = "serving"]
      BY <1>15, <2>2 DEF Final, IndexCurrent
    <3>2. /\ reader'.at = "answered" /\ reader'.kind = reader.kind
          /\ reader'.rows = reader.rows /\ reader'.identities = reader.identities
          /\ service'.release = service.release /\ service'.image = service.image
      BY <1>a, <3>1 DEF Reader, LookupIInv, TypeOKLookup
    <3>3. \A d \in Datasets : d < reader.next
      BY <1>a, <3>1 DEF LookupIInv, Checked, Reader, Datasets
    <3> QED
      BY <1>0, <1>a, <1>b, <3>1, <3>2, <3>3 DEF LookupIInv, Parts, Cached, Loading, Opened, Checked, BoundIndex, Answered,
        EvidenceOfOneRelease, Verification
  <2> QED
    BY <2>1, <2>2
<1>16. ASSUME Lookup PROVE Parts'
  BY <1>0, <1>b, <1>16, AwayParts DEF Lookup, NoReader
<1>17. ASSUME \E image \in Images : Start(image) PROVE Parts'
  BY <1>0, <1>a, <1>17, AwayParts DEF Start, NoReader, Cached, NoFile, File
<1> QED
  BY <1>0, <1>1, <1>2, <1>3, <1>4, <1>5, <1>6, <1>7, <1>8, <1>9, <1>10, <1>11, <1>12, <1>13, <1>14, <1>15, <1>16, <1>17
  DEF ServiceNext, ReaderStep, LookupIInv, Parts

-----------------------------------------------------------------------------
LEMMA LookupNextStep == LookupIInv /\ [NextLookup]_allVars => LookupIInv'
<1>1. ASSUME LookupIInv, UNCHANGED allVars PROVE LookupIInv'
  BY <1>1, WriterStep DEF allVars
<1> QED
  BY <1>1, WriterStep, ServiceStep DEF NextLookup

\* The inductive invariant, of any writers under any reader.
THEOREM LookupInvariant == SpecLookup => []LookupIInv
  BY InitLookupIInv, LookupNextStep, PTL DEF SpecLookup

\* What a lookup answers with comes from the release of its process
\* (_execute_relation, SQLiteRelationIndex.search).
THEOREM OneRelease == SpecLookup => []EvidenceOfOneRelease
<1>1. LookupIInv => EvidenceOfOneRelease
  BY DEF LookupIInv, Answered
<1> QED
  BY LookupInvariant, <1>1, PTL

\* The identities a reader goes on with are those of the file the path names
\* (ProductIdentitySnapshotCache.get).
THEOREM IdentitiesCurrent == SpecLookup => IdentitiesOfThePath
<1> DEFINE Current ==
      \A d \in Datasets :
        (reader'.identities[d] # reader.identities[d] /\ reader'.identities[d] # None)
          => reader'.identities[d] = database[d].of
<1>1. ASSUME LookupIInv, [NextLookup]_allVars PROVE [Current]_allVars
  <2> SUFFICES Current \/ UNCHANGED allVars
    OBVIOUS
  <2>0. reader \in Reader /\ Cached /\ Loading
    BY <1>1 DEF LookupIInv, TypeOKLookup
  <2>1. CASE reader'.identities = reader.identities
    BY <2>1
  <2>2. reader'.identities = [d \in Datasets |-> None] => Current
    OBVIOUS
  <2>a. Refuse => Current
    BY <2>2 DEF Refuse, NoReader
  <2>3. ASSUME NEW content, Identified(content), reader.next \in Datasets,
               content = database[reader.next].of
        PROVE  Current
    <3>1. CASE Refuse
      BY <2>a, <3>1
    <3>2. CASE ~Refuse
      <4>1. reader' = [reader EXCEPT !.identities[reader.next] = content,
                                     !.at = "approve", !.next = @ + 1]
        BY <2>3, <3>2 DEF Identified, Continue
      <4>2. reader'.identities = [reader.identities EXCEPT ![reader.next] = content]
        BY <2>0, <4>1 DEF Reader
      <4> QED
        BY <2>0, <2>3, <4>2 DEF Reader
    <3> QED
      BY <3>1, <3>2
  <2>4. CASE HitIdentity
    BY <2>0, <2>3, <2>4 DEF HitIdentity, Here, Cached, Loading
  <2>5. CASE CompareIdentity
    <3>1. CASE SameVersion
      BY <2>0, <2>3, <2>5, <3>1 DEF CompareIdentity, SameVersion, Here, Loading
    <3>2. CASE ~SameVersion
      <4>1. CASE Refuse
        BY <2>a, <4>1
      <4>2. CASE ~Refuse
        <5>1. reader' = [reader EXCEPT !.seen = Here.version, !.attempt = 2, !.at = "load"]
          BY <2>5, <3>2, <4>2 DEF CompareIdentity, Continue
        <5> QED
          BY <2>0, <2>1, <5>1 DEF Reader
      <4> QED
        BY <4>1, <4>2
    <3> QED
      BY <3>1, <3>2
  <2>6. CASE Lookup \/ \E image \in Images : Start(image)
    BY <2>2, <2>6 DEF Lookup, Start, NoReader
  <2>7. CASE \/ ReadAnchor \/ LoadArtifact \/ HashIndex \/ CheckManifest \/ StatIndex
             \/ ReadIndex \/ OpenIndex \/ Approve \/ FillApproval \/ MissIdentity
             \/ LoadIdentity \/ Recheck \/ Final
    <3>1. CASE reader'.identities # reader.identities
      BY <2>0, <2>7, <2>a, <3>1
      DEF ReadAnchor, LoadArtifact, HashIndex, CheckManifest, StatIndex, ReadIndex, OpenIndex,
          Approve, FillApproval, MissIdentity, LoadIdentity, Recheck, Final, Continue, Reader
    <3> QED
      BY <2>1, <3>1
  <2>8. CASE UNCHANGED serviceVars
    BY <2>1, <2>8 DEF serviceVars
  <2> QED
    BY <1>1, <2>4, <2>5, <2>6, <2>7, <2>8 DEF NextLookup, ServiceNext, ReaderStep, allVars
<1> QED
  BY LookupInvariant, <1>1, PTL DEF SpecLookup, IdentitiesOfThePath

=============================================================================
