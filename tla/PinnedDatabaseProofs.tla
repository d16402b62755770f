----------------------- MODULE PinnedDatabaseProofs -----------------------
(***************************************************************************)
(* Proofs about PinnedDatabase, for any number of requests, files,         *)
(* descriptors and changes.                                                *)
(*                                                                         *)
(* IInv adds to the types what the answer rests on: a file that is read    *)
(* has a fingerprint (Keyed); the guard is set once, under its lock        *)
(* (Locked), and every later step of a request has one (Guarded); as long  *)
(* as the guard's file is unchanged it holds what was hashed (Digested); a *)
(* request with a receipt has an approved guard (Issued); and what it read *)
(* was approved, or the guard's file shows a change that its last check    *)
(* cannot miss, or one of its connections was doubtful (Gathered).  The    *)
(* latter needs that any other connection reads the guard's file (Trusted).*)
(*                                                                         *)
(* Table, in the second half, says who owns which descriptor and what a    *)
(* request may conclude from two listings of them: Trusted, whatever file  *)
(* SQLite was led to.                                                      *)
(***************************************************************************)
EXTENDS PinnedDatabase, FiniteSetTheorems, TLAPS

Keyed == \A r \in Requests : at[r] \in {"hashing", "verifying"} => key[r] \in Fingerprints

Locked == \A r \in Requests : at[r] = "hashing" => guardLock = r /\ guard = Nobody

Guarded ==
  \A r \in Requests :
    at[r] \notin {"idle", "guarding", "hashing", "refused", "undiscovered"} => guard # Nobody

Digested ==
  guard # Nobody =>
    /\ guard.fingerprint[1] = guard.inode
    /\ guard.fingerprint[2] <= changes[guard.inode]
    /\ Unchanged => content[guard.inode] = guard.digest

Issued == \A r \in Requests : round[r] # 1 => guard # Nobody /\ guard.digest = Approved

Gathered ==
  \A r \in Requests :
    /\ round[r] = 1 => rows[r] = {}
    /\ round[r] # 1 => rows[r] \subseteq {Approved} \/ doubtful[r] \/ ~Unchanged
    /\ at[r] = "issuing" => round[r] = 1
    /\ at[r] \in {"presenting", "rechecking"} => round[r] # 1
    /\ at[r] = "rechecking" \/ (at[r] = "closing" /\ round[r] # 1) => rows[r] # {}

\* A connection reads some file, and if its statements count the guard's file,
\* unless it was doubtful.
Trusted ==
  \A r \in Requests :
    /\ at[r] \in {"matching", "reading"} => opened[mine[r]] \in Inodes
    /\ at[r] = "reading" /\ round[r] # 1 /\ ~doubtful[r] => opened[mine[r]] = guard.inode

IInv ==
  /\ TypeOK /\ Keyed /\ Locked /\ Guarded
  /\ Digested /\ Issued /\ Gathered /\ AnsweredFromApproved

\* The parts of the type invariant.
FileTypes ==
  /\ current \in Inodes
  /\ content \in [Inodes -> Contents]
  /\ changes \in [Inodes -> 0..MaxChanges]

TableTypes ==
  /\ opened \in [Numbers -> Inodes \cup {Socket, Nobody}]
  /\ owner \in [Numbers -> Requests \cup {"gate", "foreign", Nobody}]

GateTypes ==
  /\ guard \in {Nobody} \cup [inode : Inodes, fingerprint : Fingerprints, digest : Contents]
  /\ verified \subseteq Fingerprints
  /\ guardLock \in Requests \cup {Nobody}
  /\ openLock \in Requests \cup {Nobody}

ReceiptTypes ==
  /\ at \in [Requests -> Places]
  /\ round \in [Requests -> 1..Rounds]
  /\ first \in [Requests -> Fingerprints \cup {Nobody}]
  /\ key \in [Requests -> Fingerprints \cup {Nobody}]
  /\ rows \in [Requests -> SUBSET Contents]
  /\ doubtful \in [Requests -> BOOLEAN]

DiscoveryTypes ==
  /\ before \in [Requests -> SUBSET Numbers]
  /\ mine \in [Requests -> Numbers \cup {Nobody}]
  /\ found \in [Requests -> Numbers \cup {Nobody}]
  /\ disturbed \in [Requests -> BOOLEAN]

-----------------------------------------------------------------------------
\* The parts are the whole.
LEMMA TypeParts ==
  TypeOK <=> FileTypes /\ TableTypes /\ GateTypes /\ ReceiptTypes /\ DiscoveryTypes
BY DEF TypeOK, FileTypes, TableTypes, GateTypes, ReceiptTypes, DiscoveryTypes

\* A fingerprint is an inode and a number of changes.
LEMMA FingerprintType ==
  ASSUME FileTypes, NEW i \in Inodes
  PROVE  Fingerprint(i) \in Fingerprints
<1>1. changes[i] \in Nat
  BY DatabaseAssumption DEF FileTypes
<1> QED
  BY <1>1 DEF Fingerprint, Fingerprints

\* A request goes on, or leaves.
LEMMA GoTypes ==
  ASSUME ReceiptTypes, NEW r \in Requests, NEW p \in Places, Goto(r, p),
         UNCHANGED <<round, first, key, rows, doubtful>>
  PROVE  ReceiptTypes'
BY DEF ReceiptTypes, Goto

LEMMA LeaveTypes ==
  ASSUME ReceiptTypes, NEW r \in Requests, NEW p \in Places, Leave(r, p)
  PROVE  ReceiptTypes'
BY DatabaseAssumption DEF ReceiptTypes, Leave, Goto

\* A request that works with its connection has a guard, and so an inode.
LEMMA GuardInode ==
  ASSUME TypeOK, Guarded, NEW r \in Requests,
         at[r] \in Places \ {"idle", "guarding", "hashing", "refused", "undiscovered"}
  PROVE  /\ guard \in [inode : Inodes, fingerprint : Fingerprints, digest : Contents]
         /\ guard.inode \in Inodes
BY DEF TypeOK, Guarded

\* What a request may claim is not disturbed when one leaves, or goes on to a
\* place that claims nothing.
LEMMA LeaveKeeps ==
  ASSUME TypeOK, Issued, Gathered, AnsweredFromApproved, NEW r \in Requests,
         Leave(r, "refused") \/ Leave(r, "undiscovered"), UNCHANGED <<guard, changes>>
  PROVE  (Issued /\ Gathered /\ AnsweredFromApproved)'
<1>1. /\ round' = [round EXCEPT ![r] = 1] /\ rows' = [rows EXCEPT ![r] = {}]
      /\ doubtful' = [doubtful EXCEPT ![r] = FALSE]
      /\ at' = [at EXCEPT ![r] = "refused"] \/ at' = [at EXCEPT ![r] = "undiscovered"]
  BY DEF Leave, Goto
<1>2. Unchanged' = Unchanged
  BY DEF Unchanged, Fingerprint
<1>3. ASSUME NEW q \in Requests
      PROVE  /\ q = r => round'[q] = 1 /\ rows'[q] = {} /\ at'[q] \in {"refused", "undiscovered"}
             /\ q # r => /\ round'[q] = round[q] /\ rows'[q] = rows[q]
                         /\ doubtful'[q] = doubtful[q] /\ at'[q] = at[q]
  BY <1>1 DEF TypeOK
<1> QED
  BY <1>2, <1>3 DEF Issued, Gathered, AnsweredFromApproved

LEMMA GoKeeps ==
  ASSUME TypeOK, Issued, Gathered, AnsweredFromApproved, NEW r \in Requests, NEW p,
         p \notin {"issuing", "presenting", "rechecking", "closing", "answered"},
         Goto(r, p), UNCHANGED <<round, rows, guard, changes>>,
         \A q \in Requests : doubtful[q] => doubtful'[q]
  PROVE  (Issued /\ Gathered /\ AnsweredFromApproved)'
<1>1. Unchanged' = Unchanged
  BY DEF Unchanged, Fingerprint
<1>2. \A q \in Requests : (q = r /\ at'[q] = p) \/ at'[q] = at[q]
  BY DEF Goto, TypeOK
<1> QED
  BY <1>1, <1>2 DEF Issued, Gathered, AnsweredFromApproved

\* The invariant holds initially.
LEMMA InitIInv == Init => IInv
BY DatabaseAssumption
DEF Init, IInv, TypeOK, Fingerprints, Places, Keyed, Locked, Guarded, Digested, Issued,
    Gathered, AnsweredFromApproved

\* Files keep their types.
LEMMA FileStep ==
  ASSUME IInv, [Next]_vars
  PROVE  FileTypes'
<1> USE DatabaseAssumption
        DEF IInv, TypeOK, FileTypes, fileVars, tableVars, gateVars,
            receiptVars, discoveryVars, requestVars
<1>1. CASE UNCHANGED <<current, content, changes>>
  BY <1>1
<1>2. ASSUME NEW i \in Inodes, Switch(i) PROVE FileTypes'
  BY <1>2 DEF Switch
<1>3. ASSUME NEW i \in Inodes, NEW c \in Contents, Rewrite(i, c) PROVE FileTypes'
  BY <1>3 DEF Rewrite
<1>4. CASE UNCHANGED vars
  BY <1>4, <1>1 DEF vars
<1>5. ASSUME NEW i \in {current, Socket}, ForeignOpen(i) PROVE FileTypes'
  BY <1>5, <1>1 DEF ForeignOpen, Take, Disturb
<1>6. ASSUME NEW n \in Numbers, ForeignClose(n) PROVE FileTypes'
  BY <1>6, <1>1 DEF ForeignClose, Drop, Disturb
<1>7. ASSUME NEW r \in Requests, Begin(r) PROVE FileTypes'
  BY <1>7, <1>1 DEF Begin, Goto
<1>8. ASSUME NEW r \in Requests,
             OpenGuard(r) \/ PinGuard(r) \/ UseGuard(r) \/ LookUp(r) \/
             VerifyFile(r) \/ Issue(r) \/ Present(r) \/
             Recheck(r) \/ AssertPinned(r) \/ List(r) \/ ReadLink(r) \/
             Connect(r) \/ ConnectFails(r) \/ Match(r) \/ Read(r) \/ Close(r)
     PROVE  FileTypes'
  BY <1>8, <1>1
  DEF OpenGuard, Take, Goto, PinGuard, Leave, Drop, UseGuard, Pass, LookUp,
      VerifyFile, Issue, Receipt, Present, Recheck, AssertPinned, List,
      ReadLink, Connect, ConnectFails, Match, Discovered, Undiscovered, Read, Close, Shut
<1> QED
  BY <1>1, <1>2, <1>3, <1>4, <1>5, <1>6, <1>7, <1>8
  DEF Next, Step

\* The table of descriptors keeps its type.
LEMMA TableStep ==
  ASSUME IInv, [Next]_vars
  PROVE  TableTypes'
<1> USE DatabaseAssumption
        DEF IInv, TypeOK, TableTypes, Places, fileVars, tableVars, gateVars,
            receiptVars, discoveryVars, requestVars
<1>1. CASE UNCHANGED <<opened, owner>>
  BY <1>1
<1>2. ASSUME NEW i \in {current, Socket}, ForeignOpen(i) PROVE TableTypes'
  BY <1>2 DEF ForeignOpen, Take, Disturb
<1>3. ASSUME NEW n \in Numbers, ForeignClose(n) PROVE TableTypes'
  BY <1>3 DEF ForeignClose, Drop, Disturb
<1>4. ASSUME NEW r \in Requests, OpenGuard(r) PROVE TableTypes'
  BY <1>4 DEF OpenGuard, Take, Goto
<1>5. ASSUME NEW r \in Requests, PinGuard(r) PROVE TableTypes'
  BY <1>5 DEF PinGuard, Leave, Goto, Drop
<1>6. ASSUME NEW r \in Requests, Connect(r) PROVE TableTypes'
  <2>1. Opens(r) \subseteq Inodes
    BY DEF Opens
  <2> QED
    BY <1>6, <2>1 DEF Connect, Take
<1>7. ASSUME NEW r \in Requests, Match(r) PROVE TableTypes'
  BY <1>7 DEF Match, Discovered, Undiscovered, Drop, Leave, Goto
<1>8. ASSUME NEW r \in Requests, Close(r) PROVE TableTypes'
  BY <1>8 DEF Close, Shut, Pass, Leave, Drop, Goto
<1>9. CASE UNCHANGED vars
  BY <1>9, <1>1 DEF vars
<1>10. ASSUME NEW i \in Inodes, Switch(i) PROVE TableTypes'
  BY <1>10, <1>1 DEF Switch
<1>11. ASSUME NEW i \in Inodes, NEW c \in Contents, Rewrite(i, c) PROVE TableTypes'
  BY <1>11, <1>1 DEF Rewrite
<1>12. ASSUME NEW r \in Requests, Begin(r) PROVE TableTypes'
  BY <1>12, <1>1 DEF Begin, Goto
<1>13. ASSUME NEW r \in Requests,
             UseGuard(r) \/ LookUp(r) \/ VerifyFile(r) \/ Issue(r) \/
             Present(r) \/ Recheck(r) \/ AssertPinned(r) \/
             List(r) \/ ReadLink(r) \/ ConnectFails(r) \/ Read(r)
     PROVE  TableTypes'
  BY <1>13, <1>1
  DEF UseGuard, Pass, Leave, Goto, LookUp, VerifyFile, Issue, Receipt,
      Present, Recheck, AssertPinned, List, ReadLink, ConnectFails, Read
<1> QED
  BY <1>1, <1>2, <1>3, <1>4, <1>5, <1>6, <1>7, <1>8, <1>9, <1>10, <1>11,
     <1>12, <1>13
  DEF Next, Step

\* The gate's tables and both locks keep their types.
LEMMA GateStep ==
  ASSUME IInv, [Next]_vars
  PROVE  GateTypes'
<1> USE DatabaseAssumption
        DEF IInv, TypeOK, GateTypes, Keyed, fileVars, tableVars, gateVars,
            receiptVars, discoveryVars, requestVars
<1>1. CASE UNCHANGED <<guard, verified, guardLock, openLock>>
  BY <1>1
<1>2. ASSUME NEW r \in Requests, OpenGuard(r) PROVE GateTypes'
  BY <1>2 DEF OpenGuard, Take, Goto
<1>3. ASSUME NEW r \in Requests, PinGuard(r) PROVE GateTypes'
  BY <1>3 DEF PinGuard, Leave, Goto, Drop
<1>4. ASSUME NEW r \in Requests, VerifyFile(r) PROVE GateTypes'
  BY <1>4 DEF VerifyFile, Leave, Goto
<1>5. ASSUME NEW r \in Requests, List(r) PROVE GateTypes'
  BY <1>5 DEF List, Goto
<1>6. ASSUME NEW r \in Requests, Connect(r) \/ ConnectFails(r) PROVE GateTypes'
  BY <1>6 DEF Connect, ConnectFails, Take, Leave, Goto
<1>7. ASSUME NEW r \in Requests, Match(r) PROVE GateTypes'
  BY <1>7 DEF Match, Discovered, Undiscovered, Drop, Leave, Goto
<1>8. CASE UNCHANGED vars
  BY <1>8, <1>1 DEF vars
<1>9. ASSUME NEW i \in Inodes, Switch(i) PROVE GateTypes'
  BY <1>9, <1>1 DEF Switch
<1>10. ASSUME NEW i \in Inodes, NEW c \in Contents, Rewrite(i, c) PROVE GateTypes'
  BY <1>10, <1>1 DEF Rewrite
<1>11. ASSUME NEW i \in {current, Socket}, ForeignOpen(i) PROVE GateTypes'
  BY <1>11, <1>1 DEF ForeignOpen, Take, Disturb
<1>12. ASSUME NEW n \in Numbers, ForeignClose(n) PROVE GateTypes'
  BY <1>12, <1>1 DEF ForeignClose, Drop, Disturb
<1>13. ASSUME NEW r \in Requests, Begin(r) PROVE GateTypes'
  BY <1>13, <1>1 DEF Begin, Goto
<1>14. ASSUME NEW r \in Requests,
             UseGuard(r) \/ LookUp(r) \/ Issue(r) \/ Present(r) \/
             Recheck(r) \/ AssertPinned(r) \/ ReadLink(r) \/ Read(r) \/
             Close(r)
     PROVE  GateTypes'
  BY <1>14, <1>1
  DEF UseGuard, Pass, Leave, Goto, LookUp, Issue, Receipt, Present, Recheck,
      AssertPinned, ReadLink, Read, Close, Shut, Drop
<1> QED
  BY <1>1, <1>2, <1>3, <1>4, <1>5, <1>6, <1>7, <1>8, <1>9, <1>10, <1>11,
     <1>12, <1>13, <1>14
  DEF Next, Step

\* Every step leads to a place, and the receipt's fields keep their types.
LEMMA ReceiptTypeStep ==
  ASSUME IInv, Trusted, [Next]_vars
  PROVE  ReceiptTypes'
<1> USE DatabaseAssumption
        DEF IInv, Places, fileVars, tableVars, gateVars, receiptVars,
            discoveryVars, requestVars
<1>1. CASE UNCHANGED <<at, round, first, key, rows, doubtful>>
  BY <1>1, TypeParts DEF ReceiptTypes
<1>2. ASSUME NEW r \in Requests, Begin(r) PROVE ReceiptTypes'
  <2>1. at' \in [Requests -> Places]
    BY <1>2, TypeParts DEF Begin, Goto, ReceiptTypes
  <2>2. first' \in [Requests -> Fingerprints \cup {Nobody}]
    BY <1>2, FingerprintType, TypeParts DEF Begin, FileTypes, ReceiptTypes
  <2> QED
    BY <1>2, <2>1, <2>2, TypeParts DEF Begin, ReceiptTypes
<1>3. ASSUME NEW r \in Requests, OpenGuard(r) PROVE ReceiptTypes'
  <2>1. at' \in [Requests -> Places]
    BY <1>3, TypeParts DEF OpenGuard, Goto, ReceiptTypes
  <2>2. key' \in [Requests -> Fingerprints \cup {Nobody}]
    BY <1>3, FingerprintType, TypeParts DEF OpenGuard, FileTypes, ReceiptTypes
  <2> QED
    BY <1>3, <2>1, <2>2, TypeParts DEF OpenGuard, ReceiptTypes
<1>4. ASSUME NEW r \in Requests, PinGuard(r) PROVE ReceiptTypes'
  <2>1. CASE Leave(r, "refused")
    BY <2>1, LeaveTypes, TypeParts
  <2>2. CASE ~Leave(r, "refused")
    BY <1>4, <2>2, TypeParts DEF PinGuard, Goto, ReceiptTypes
  <2> QED
    BY <2>1, <2>2
<1>5. ASSUME NEW r \in Requests, UseGuard(r) PROVE ReceiptTypes'
  <2>1. \/ Goto(r, "approving") /\ UNCHANGED receiptVars
        \/ Leave(r, "refused")
    BY <1>5 DEF UseGuard, Pass
  <2> QED
    BY <2>1, GoTypes, LeaveTypes, TypeParts
<1>6. ASSUME NEW r \in Requests, LookUp(r) PROVE ReceiptTypes'
  <2>1. at' \in [Requests -> Places]
    BY <1>6, TypeParts DEF LookUp, Goto, ReceiptTypes
  <2>2. key' \in [Requests -> Fingerprints \cup {Nobody}]
    BY <1>6, FingerprintType, TypeParts DEF LookUp, FileTypes, ReceiptTypes
  <2> QED
    BY <1>6, <2>1, <2>2, TypeParts DEF LookUp, ReceiptTypes
<1>7. ASSUME NEW r \in Requests, VerifyFile(r) PROVE ReceiptTypes'
  <2>1. CASE Leave(r, "refused")
    BY <2>1, LeaveTypes, TypeParts
  <2>2. CASE ~Leave(r, "refused")
    BY <1>7, <2>2, TypeParts DEF VerifyFile, Goto, ReceiptTypes
  <2> QED
    BY <2>1, <2>2
<1>8. ASSUME NEW r \in Requests, Issue(r) PROVE ReceiptTypes'
  <2>1. CASE Leave(r, "refused")
    BY <2>1, LeaveTypes, TypeParts
  <2>2. CASE ~Leave(r, "refused")
    <3>1. Goto(r, "presenting") /\ round' = [round EXCEPT ![r] = 2]
          /\ first' = [first EXCEPT ![r] = Nobody] /\ UNCHANGED <<key, rows, doubtful>>
      BY <1>8, <2>2 DEF Issue, Receipt
    <3>2. 2 \in 1..Rounds
      BY DatabaseAssumption
    <3> QED
      BY <3>1, <3>2, TypeParts DEF Goto, ReceiptTypes
  <2> QED
    BY <2>1, <2>2
<1>9. ASSUME NEW r \in Requests, Present(r) PROVE ReceiptTypes'
  <2>1. \/ Goto(r, "opening") /\ UNCHANGED receiptVars
        \/ Leave(r, "refused")
    BY <1>9 DEF Present, Pass
  <2> QED
    BY <2>1, GoTypes, LeaveTypes, TypeParts
<1>10. ASSUME NEW r \in Requests, Recheck(r) PROVE ReceiptTypes'
  <2>1. CASE Goto(r, "answered") /\ UNCHANGED receiptVars
    BY <2>1, GoTypes, TypeParts
  <2>2. CASE Leave(r, "refused")
    BY <2>2, LeaveTypes, TypeParts
  <2>3. CASE /\ Goto(r, "presenting") /\ round[r] < Rounds
             /\ round' = [round EXCEPT ![r] = round[r] + 1] /\ UNCHANGED <<first, key, rows, doubtful>>
    <3>1. round[r] + 1 \in 1..Rounds
      BY <2>3, DatabaseAssumption, TypeParts DEF ReceiptTypes
    <3> QED
      BY <2>3, <3>1, TypeParts DEF Goto, ReceiptTypes
  <2> QED
    BY <1>10, <2>1, <2>2, <2>3 DEF Recheck, Pass
<1>11. ASSUME NEW r \in Requests, AssertPinned(r) PROVE ReceiptTypes'
  <2>1. \/ Goto(r, "listing") /\ UNCHANGED receiptVars
        \/ Leave(r, "refused")
    BY <1>11 DEF AssertPinned, Pass
  <2> QED
    BY <2>1, GoTypes, LeaveTypes, TypeParts
<1>12. ASSUME NEW r \in Requests, List(r) PROVE ReceiptTypes'
  <2>1. Goto(r, "connecting") /\ UNCHANGED receiptVars
    BY <1>12 DEF List
  <2> QED
    BY <2>1, GoTypes, LeaveTypes, TypeParts
<1>13. ASSUME NEW r \in Requests, ReadLink(r) \/ Connect(r) \/ ConnectFails(r)
       PROVE  ReceiptTypes'
  <2>1. \/ \E p \in {"linked", "aside", "matching"} : Goto(r, p) /\ UNCHANGED receiptVars
        \/ Leave(r, "refused")
    BY <1>13 DEF ReadLink, Connect, ConnectFails
  <2> QED
    BY <2>1, GoTypes, LeaveTypes, TypeParts
<1>14. ASSUME NEW r \in Requests, Match(r) PROVE ReceiptTypes'
  <2>1. CASE Discovered(r)
    BY <2>1, TypeParts DEF Discovered, Goto, ReceiptTypes
  <2>2. CASE Undiscovered(r)
    BY <2>2, LeaveTypes, TypeParts DEF Undiscovered
  <2> QED
    BY <1>14, <2>1, <2>2 DEF Match
<1>15. ASSUME NEW r \in Requests, Read(r) PROVE ReceiptTypes'
  <2>1. rows' = rows \/ rows' = [rows EXCEPT ![r] = rows[r] \cup {content[opened[mine[r]]]}]
    BY <1>15, TypeParts DEF Read, ReceiptTypes
  <2>2. rows' \in [Requests -> SUBSET Contents]
    <3>1. opened[mine[r]] \in Inodes
      BY <1>15 DEF Read, Trusted
    <3>2. content[opened[mine[r]]] \in Contents
      BY <3>1, TypeParts DEF FileTypes
    <3> QED
      BY <2>1, <3>2, TypeParts DEF ReceiptTypes
  <2> QED
    BY <1>15, <2>2, TypeParts DEF Read, Goto, ReceiptTypes
<1>16. ASSUME NEW r \in Requests, Close(r) PROVE ReceiptTypes'
  <2>1. \/ Goto(r, "issuing") /\ UNCHANGED receiptVars
        \/ Goto(r, "rechecking") /\ UNCHANGED receiptVars
        \/ Leave(r, "refused")
    BY <1>16 DEF Close, Shut, Pass
  <2> QED
    BY <2>1, GoTypes, LeaveTypes, TypeParts
<1>17. CASE UNCHANGED vars
  BY <1>17, <1>1 DEF vars
<1>18. ASSUME NEW i \in Inodes, Switch(i) PROVE ReceiptTypes'
  BY <1>18, <1>1 DEF Switch
<1>19. ASSUME NEW i \in Inodes, NEW c \in Contents, Rewrite(i, c) PROVE ReceiptTypes'
  BY <1>19, <1>1 DEF Rewrite
<1>20. ASSUME NEW i \in {current, Socket}, ForeignOpen(i) PROVE ReceiptTypes'
  BY <1>20, <1>1 DEF ForeignOpen, Take, Disturb
<1>21. ASSUME NEW n \in Numbers, ForeignClose(n) PROVE ReceiptTypes'
  BY <1>21, <1>1 DEF ForeignClose, Drop, Disturb
<1> QED
  BY <1>1, <1>2, <1>3, <1>4, <1>5, <1>6, <1>7, <1>8, <1>9, <1>10, <1>11,
     <1>12, <1>13, <1>14, <1>15, <1>16, <1>17, <1>18, <1>19, <1>20, <1>21
  DEF Next, Step

\* What a connection listed and found keeps its type.
LEMMA DiscoveryStep ==
  ASSUME IInv, [Next]_vars
  PROVE  DiscoveryTypes'
<1> USE DatabaseAssumption
        DEF IInv, TypeOK, DiscoveryTypes, fileVars, tableVars, gateVars,
            receiptVars, discoveryVars, requestVars
<1>1. CASE UNCHANGED <<before, mine, found, disturbed>>
  BY <1>1
<1>2. ASSUME NEW i \in {current, Socket}, ForeignOpen(i) PROVE DiscoveryTypes'
  BY <1>2 DEF ForeignOpen, Take, Disturb
<1>3. ASSUME NEW n \in Numbers, ForeignClose(n) PROVE DiscoveryTypes'
  BY <1>3 DEF ForeignClose, Drop, Disturb
<1>4. ASSUME NEW r \in Requests, List(r) PROVE DiscoveryTypes'
  BY <1>4 DEF List, Goto
<1>5. ASSUME NEW r \in Requests, Connect(r) \/ ConnectFails(r) PROVE DiscoveryTypes'
  <2>1. CASE Connect(r)
    <3>1. PICK n \in Numbers : mine' = [mine EXCEPT ![r] = n]
      BY <2>1 DEF Connect
    <3> QED
      BY <2>1, <3>1 DEF Connect
  <2>2. CASE ConnectFails(r)
    BY <2>2 DEF ConnectFails
  <2> QED
    BY <1>5, <2>1, <2>2
<1>6. ASSUME NEW r \in Requests, Match(r) PROVE DiscoveryTypes'
  <2>1. CASE Discovered(r)
    <3>1. Matches(r) # {}
      <4>1. Cardinality(Matches(r)) = 1 /\ Cardinality({}) = 0
        BY <2>1, FS_EmptySet DEF Discovered
      <4>2. ASSUME Matches(r) = {} PROVE FALSE
        <5>1. Cardinality({}) = 1
          BY <4>1, <4>2, Zenon
        <5> QED
          BY <4>1, <5>1
      <4> QED
        BY <4>2
    <3>2. (CHOOSE n \in Matches(r) : TRUE) \in Numbers
      BY <3>1 DEF Matches
    <3> QED
      BY <1>6, <2>1, <3>2 DEF Match, Discovered
  <2>2. CASE Undiscovered(r)
    BY <1>6, <2>2 DEF Match, Discovered, Undiscovered
  <2> QED
    BY <1>6, <2>1, <2>2 DEF Match
<1>7. ASSUME NEW r \in Requests, Close(r) PROVE DiscoveryTypes'
  BY <1>7 DEF Close, Shut, Pass, Leave, Drop, Goto
<1>8. CASE UNCHANGED vars
  BY <1>8, <1>1 DEF vars
<1>9. ASSUME NEW i \in Inodes, Switch(i) PROVE DiscoveryTypes'
  BY <1>9, <1>1 DEF Switch
<1>10. ASSUME NEW i \in Inodes, NEW c \in Contents, Rewrite(i, c) PROVE DiscoveryTypes'
  BY <1>10, <1>1 DEF Rewrite
<1>11. ASSUME NEW r \in Requests, Begin(r) PROVE DiscoveryTypes'
  BY <1>11, <1>1 DEF Begin, Goto
<1>12. ASSUME NEW r \in Requests,
             OpenGuard(r) \/ PinGuard(r) \/ UseGuard(r) \/ LookUp(r) \/
             VerifyFile(r) \/ Issue(r) \/ Present(r) \/
             Recheck(r) \/ AssertPinned(r) \/ ReadLink(r) \/ Read(r)
     PROVE  DiscoveryTypes'
  BY <1>12, <1>1
  DEF OpenGuard, Take, Goto, PinGuard, Leave, Drop, UseGuard, Pass, LookUp,
      VerifyFile, Issue, Receipt, Present, Recheck, AssertPinned, ReadLink, Read
<1> QED
  BY <1>1, <1>2, <1>3, <1>4, <1>5, <1>6, <1>7, <1>8, <1>9, <1>10, <1>11, <1>12
  DEF Next, Step

\* The guard is set once, by whoever holds its lock, before any request uses it.
LEMMA GuardStep ==
  ASSUME IInv, [Next]_vars
  PROVE  (Keyed /\ Locked /\ Guarded)'
<1> USE DatabaseAssumption
        DEF IInv, TypeOK, Places, Keyed, Locked, Guarded, fileVars, tableVars,
            gateVars, receiptVars, discoveryVars, requestVars
<1>1. CASE UNCHANGED <<at, key, guard, guardLock>>
  BY <1>1
<1>2. ASSUME NEW r \in Requests, Begin(r)
      PROVE  (Keyed /\ Locked /\ Guarded)'
  BY <1>2 DEF Begin, Goto
<1>3. ASSUME NEW r \in Requests, OpenGuard(r)
      PROVE  (Keyed /\ Locked /\ Guarded)'
  <2>1. Fingerprint(current) \in Fingerprints
    BY FingerprintType, TypeParts DEF FileTypes
  <2> QED
    BY <1>3, <2>1 DEF OpenGuard, Take, Goto
<1>4. ASSUME NEW r \in Requests, PinGuard(r)
      PROVE  (Keyed /\ Locked /\ Guarded)'
  <2>1. CASE Leave(r, "refused")
    BY <1>4, <2>1 DEF PinGuard, Leave, Goto
  <2>2. CASE ~Leave(r, "refused")
    <3>1. guard' # Nobody
      BY <1>4, <2>2 DEF PinGuard, Fingerprints, TypeOK
    <3> QED
      BY <1>4, <2>2, <3>1 DEF PinGuard, Goto
  <2> QED
    BY <2>1, <2>2
<1>5. ASSUME NEW r \in Requests, UseGuard(r)
      PROVE  (Keyed /\ Locked /\ Guarded)'
  BY <1>5 DEF UseGuard, Pass, Leave, Goto
<1>6. ASSUME NEW r \in Requests, LookUp(r)
      PROVE  (Keyed /\ Locked /\ Guarded)'
  <2>1. Fingerprint(current) \in Fingerprints
    BY FingerprintType, TypeParts DEF FileTypes
  <2> QED
    BY <1>6, <2>1 DEF LookUp, Goto
<1>7. ASSUME NEW r \in Requests, VerifyFile(r)
      PROVE  (Keyed /\ Locked /\ Guarded)'
  BY <1>7 DEF VerifyFile, Leave, Goto
<1>8. ASSUME NEW r \in Requests, Issue(r)
      PROVE  (Keyed /\ Locked /\ Guarded)'
  BY <1>8 DEF Issue, Receipt, Leave, Goto
<1>9. ASSUME NEW r \in Requests, Present(r)
      PROVE  (Keyed /\ Locked /\ Guarded)'
  BY <1>9 DEF Present, Pass, Leave, Goto
<1>10. ASSUME NEW r \in Requests, Recheck(r)
      PROVE  (Keyed /\ Locked /\ Guarded)'
  BY <1>10 DEF Recheck, Pass, Leave, Goto
<1>11. ASSUME NEW r \in Requests, AssertPinned(r)
      PROVE  (Keyed /\ Locked /\ Guarded)'
  BY <1>11 DEF AssertPinned, Pass, Leave, Goto
<1>12. ASSUME NEW r \in Requests, List(r)
      PROVE  (Keyed /\ Locked /\ Guarded)'
  BY <1>12 DEF List, Goto
<1>13. ASSUME NEW r \in Requests, ReadLink(r) \/ Connect(r) \/ ConnectFails(r)
      PROVE  (Keyed /\ Locked /\ Guarded)'
  BY <1>13 DEF ReadLink, Connect, ConnectFails, Take, Leave, Goto
<1>14. ASSUME NEW r \in Requests, Match(r)
      PROVE  (Keyed /\ Locked /\ Guarded)'
  BY <1>14 DEF Match, Discovered, Undiscovered, Drop, Leave, Goto
<1>15. ASSUME NEW r \in Requests, Read(r)
      PROVE  (Keyed /\ Locked /\ Guarded)'
  BY <1>15 DEF Read, Goto
<1>16. ASSUME NEW r \in Requests, Close(r)
      PROVE  (Keyed /\ Locked /\ Guarded)'
  BY <1>16 DEF Close, Shut, Pass, Leave, Drop, Goto
<1>17. CASE UNCHANGED vars
  BY <1>17, <1>1 DEF vars
<1>18. ASSUME NEW i \in Inodes, Switch(i)
      PROVE  (Keyed /\ Locked /\ Guarded)'
  BY <1>18, <1>1 DEF Switch
<1>19. ASSUME NEW i \in Inodes, NEW c \in Contents, Rewrite(i, c)
      PROVE  (Keyed /\ Locked /\ Guarded)'
  BY <1>19, <1>1 DEF Rewrite
<1>20. ASSUME NEW i \in {current, Socket}, ForeignOpen(i)
      PROVE  (Keyed /\ Locked /\ Guarded)'
  BY <1>20, <1>1 DEF ForeignOpen, Take, Disturb
<1>21. ASSUME NEW n \in Numbers, ForeignClose(n)
      PROVE  (Keyed /\ Locked /\ Guarded)'
  BY <1>21, <1>1 DEF ForeignClose, Drop, Disturb
<1> QED
  BY <1>1, <1>2, <1>3, <1>4, <1>5, <1>6, <1>7, <1>8, <1>9, <1>10, <1>11,
     <1>12, <1>13, <1>14, <1>15, <1>16, <1>17, <1>18, <1>19, <1>20, <1>21
  DEF Next, Step

\* A guard whose file is unchanged names the content that was hashed.
LEMMA DigestStep ==
  ASSUME IInv, [Next]_vars
  PROVE  Digested'
<1> USE DatabaseAssumption
        DEF IInv, TypeOK, Fingerprints, Locked, Digested, Unchanged,
            Fingerprint, fileVars, tableVars, gateVars, receiptVars,
            discoveryVars, requestVars
<1>1. CASE UNCHANGED <<guard, content, changes>>
  BY <1>1
<1>2. ASSUME NEW i \in Inodes, NEW c \in Contents, Rewrite(i, c) PROVE Digested'
  BY <1>2 DEF Rewrite
<1>3. ASSUME NEW r \in Requests, PinGuard(r) PROVE Digested'
  BY <1>3 DEF PinGuard, Leave, Goto, Drop
<1>4. CASE UNCHANGED vars
  BY <1>4, <1>1 DEF vars
<1>5. ASSUME NEW i \in Inodes, Switch(i) PROVE Digested'
  BY <1>5, <1>1 DEF Switch
<1>6. ASSUME NEW i \in {current, Socket}, ForeignOpen(i) PROVE Digested'
  BY <1>6, <1>1 DEF ForeignOpen, Take, Disturb
<1>7. ASSUME NEW n \in Numbers, ForeignClose(n) PROVE Digested'
  BY <1>7, <1>1 DEF ForeignClose, Drop, Disturb
<1>8. ASSUME NEW r \in Requests, Begin(r) PROVE Digested'
  BY <1>8, <1>1 DEF Begin, Goto
<1>9. ASSUME NEW r \in Requests,
             OpenGuard(r) \/ UseGuard(r) \/ LookUp(r) \/ VerifyFile(r) \/
             Issue(r) \/ Present(r) \/ Recheck(r) \/
             AssertPinned(r) \/ List(r) \/ ReadLink(r) \/ Connect(r) \/
             ConnectFails(r) \/
             Match(r) \/ Read(r) \/ Close(r)
     PROVE  Digested'
  BY <1>9, <1>1
  DEF OpenGuard, Take, Goto, UseGuard, Pass, Leave, LookUp, VerifyFile, Issue,
      Receipt, Present, Recheck, AssertPinned, List, ReadLink, Connect,
      ConnectFails, Match,
      Discovered, Undiscovered, Drop, Read, Close, Shut
<1> QED
  BY <1>1, <1>2, <1>3, <1>4, <1>5, <1>6, <1>7, <1>8, <1>9
  DEF Next, Step

\* A receipt is issued for approved content, and what is read under it is
\* approved or the file shows that it was changed.
LEMMA ReceiptStep ==
  ASSUME IInv, Trusted, [Next]_vars
  PROVE  (Issued /\ Gathered /\ AnsweredFromApproved)'
<1> USE DatabaseAssumption
        DEF IInv, TypeOK, Places, Fingerprints, Locked, Guarded, Digested,
            Issued, Gathered, AnsweredFromApproved, Unchanged, CurrentPath,
            Fingerprint, fileVars, tableVars, gateVars, receiptVars,
            discoveryVars, requestVars
<1>1. CASE UNCHANGED <<at, round, rows, doubtful, guard, changes>>
  BY <1>1
<1>2. ASSUME NEW i \in Inodes, NEW c \in Contents, Rewrite(i, c)
      PROVE  (Issued /\ Gathered /\ AnsweredFromApproved)'
  BY <1>2 DEF Rewrite
<1>3. ASSUME NEW r \in Requests, Begin(r)
      PROVE  (Issued /\ Gathered /\ AnsweredFromApproved)'
  BY <1>3 DEF Begin, Goto
<1>4. ASSUME NEW r \in Requests, OpenGuard(r)
      PROVE  (Issued /\ Gathered /\ AnsweredFromApproved)'
  BY <1>4 DEF OpenGuard, Take, Goto
<1>5. ASSUME NEW r \in Requests, PinGuard(r)
      PROVE  (Issued /\ Gathered /\ AnsweredFromApproved)'
  BY <1>5 DEF PinGuard, Leave, Goto, Drop
<1>6. ASSUME NEW r \in Requests, UseGuard(r)
      PROVE  (Issued /\ Gathered /\ AnsweredFromApproved)'
  <2>1. \/ Goto(r, "approving") /\ UNCHANGED receiptVars
        \/ Leave(r, "refused")
    BY <1>6 DEF UseGuard, Pass
  <2> QED
    BY <1>6, <2>1, GoKeeps, LeaveKeeps DEF UseGuard
<1>7. ASSUME NEW r \in Requests, LookUp(r)
      PROVE  (Issued /\ Gathered /\ AnsweredFromApproved)'
  BY <1>7 DEF LookUp, Goto
<1>8. ASSUME NEW r \in Requests, VerifyFile(r)
      PROVE  (Issued /\ Gathered /\ AnsweredFromApproved)'
  <2>1. \/ Goto(r, "opening") /\ UNCHANGED <<round, rows, doubtful>>
        \/ Leave(r, "refused")
    BY <1>8 DEF VerifyFile
  <2> QED
    BY <1>8, <2>1, GoKeeps, LeaveKeeps DEF VerifyFile
<1>9. ASSUME NEW r \in Requests, Issue(r)
      PROVE  (Issued /\ Gathered /\ AnsweredFromApproved)'
  <2>1. CASE Leave(r, "refused")
    BY <1>9, <2>1, LeaveKeeps DEF Issue, Receipt
  <2>2. CASE ~Leave(r, "refused")
    <3>1. guard # Nobody /\ guard.digest = Approved /\ rows[r] = {}
      BY <1>9, <2>2 DEF Issue, Receipt
    <3> QED
      BY <1>9, <2>2, <3>1 DEF Issue, Receipt, Goto
  <2> QED
    BY <2>1, <2>2
<1>10. ASSUME NEW r \in Requests, Present(r)
      PROVE  (Issued /\ Gathered /\ AnsweredFromApproved)'
  BY <1>10 DEF Present, Pass, Leave, Goto
<1>11. ASSUME NEW r \in Requests, Recheck(r)
      PROVE  (Issued /\ Gathered /\ AnsweredFromApproved)'
  <2>1. CASE Leave(r, "refused")
    BY <1>11, <2>1, LeaveKeeps DEF Recheck
  <2>2. CASE ~Leave(r, "refused") /\ CurrentPath /\ Goto(r, "answered")
    <3>1. /\ at' = [at EXCEPT ![r] = "answered"]
          /\ UNCHANGED <<round, rows, doubtful, guard, changes>> /\ at[r] = "rechecking"
      BY <1>11, <2>2 DEF Recheck, Pass, Goto
    <3> QED
      BY <2>2, <3>1
  <2>3. CASE ~Leave(r, "refused") /\ ~Goto(r, "answered")
    <3>1. /\ at' = [at EXCEPT ![r] = "presenting"] /\ round[r] + 1 # 1 /\ round[r] # 1
          /\ round' = [round EXCEPT ![r] = round[r] + 1]
          /\ UNCHANGED <<rows, doubtful, guard, changes>> /\ at[r] = "rechecking"
      BY <1>11, <2>3 DEF Recheck, Pass, Goto
    <3> QED
      BY <3>1
  <2> QED
    BY <1>11, <2>1, <2>2, <2>3 DEF Recheck, Pass
<1>12. ASSUME NEW r \in Requests, AssertPinned(r)
      PROVE  (Issued /\ Gathered /\ AnsweredFromApproved)'
  <2>1. \/ Goto(r, "listing") /\ UNCHANGED receiptVars
        \/ Leave(r, "refused")
    BY <1>12 DEF AssertPinned, Pass
  <2> QED
    BY <1>12, <2>1, GoKeeps, LeaveKeeps DEF AssertPinned
<1>13. ASSUME NEW r \in Requests, List(r)
      PROVE  (Issued /\ Gathered /\ AnsweredFromApproved)'
  BY <1>13 DEF List, Goto
<1>14. ASSUME NEW r \in Requests, ReadLink(r) \/ Connect(r) \/ ConnectFails(r)
      PROVE  (Issued /\ Gathered /\ AnsweredFromApproved)'
  <2>1. \/ \E p \in {"linked", "aside", "matching"} : Goto(r, p) /\ UNCHANGED receiptVars
        \/ Leave(r, "refused")
    BY <1>14 DEF ReadLink, Connect, ConnectFails
  <2>2. UNCHANGED <<guard, changes>>
    BY <1>14 DEF ReadLink, Connect, ConnectFails
  <2> QED
    BY <2>1, <2>2, GoKeeps, LeaveKeeps
<1>15. ASSUME NEW r \in Requests, Match(r)
      PROVE  (Issued /\ Gathered /\ AnsweredFromApproved)'
  <2>1. UNCHANGED <<guard, changes>>
    BY <1>15 DEF Match
  <2>2. CASE Discovered(r)
    <3>1. \A q \in Requests : doubtful[q] => doubtful'[q]
      BY <2>2 DEF Discovered
    <3> QED
      BY <2>1, <2>2, <3>1, GoKeeps DEF Discovered
  <2>3. CASE Undiscovered(r)
    BY <2>1, <2>3, LeaveKeeps DEF Undiscovered
  <2> QED
    BY <1>15, <2>2, <2>3 DEF Match
<1>16. ASSUME NEW r \in Requests, Read(r)
      PROVE  (Issued /\ Gathered /\ AnsweredFromApproved)'
  <2>1. CASE Goto(r, "failing") /\ UNCHANGED rows
    BY <1>16, <2>1, GoKeeps DEF Read
  <2>2. CASE Goto(r, "closing")
    <3>1. guard # Nobody
      BY <1>16 DEF Read
    <3>2. round[r] # 1 =>
            content[opened[mine[r]]] = Approved \/ doubtful[r] \/ ~Unchanged
      BY <1>16, <3>1 DEF Read, Trusted
    <3>3. Unchanged' = Unchanged /\ UNCHANGED doubtful
      BY <1>16 DEF Read
    <3>4. CASE round[r] = 1
      BY <1>16, <2>2, <3>3, <3>4 DEF Read, Goto
    <3>5. CASE round[r] # 1
      <4>1. rows' = [rows EXCEPT ![r] = rows[r] \cup {content[opened[mine[r]]]}]
        BY <1>16, <2>2, <3>5 DEF Read, Goto
      <4>2. /\ rows'[r] = rows[r] \cup {content[opened[mine[r]]]} /\ at'[r] = "closing"
            /\ \A q \in Requests \ {r} : rows'[q] = rows[q] /\ at'[q] = at[q]
        BY <2>2, <4>1 DEF Goto
      <4>3. rows'[r] \subseteq {Approved} \/ doubtful[r] \/ ~Unchanged
        BY <3>2, <3>5, <4>2
      <4>4. UNCHANGED <<guard, round>>
        BY <1>16 DEF Read
      <4>5. Issued'
        BY <4>4
      <4>6. Gathered'
        BY <3>3, <3>5, <4>2, <4>3, <4>4
      <4>7. AnsweredFromApproved'
        BY <3>3, <4>2
      <4> QED
        BY <4>5, <4>6, <4>7
    <3> QED
      BY <3>4, <3>5
  <2> QED
    BY <1>16, <2>1, <2>2 DEF Read
<1>17. ASSUME NEW r \in Requests, Close(r)
      PROVE  (Issued /\ Gathered /\ AnsweredFromApproved)'
  <2>1. CASE Leave(r, "refused")
    BY <1>17, <2>1, LeaveKeeps DEF Close, Shut
  <2>2. CASE ~Leave(r, "refused")
    <3>1. /\ at[r] = "closing" /\ UNCHANGED <<round, rows, doubtful, guard, changes>>
          /\ at' = [at EXCEPT ![r] = IF round[r] = 1 THEN "issuing" ELSE "rechecking"]
      BY <1>17, <2>2 DEF Close, Shut, Pass, Goto
    <3> QED
      BY <3>1
  <2> QED
    BY <2>1, <2>2
<1>18. CASE UNCHANGED vars
  BY <1>18, <1>1 DEF vars
<1>19. ASSUME NEW i \in Inodes, Switch(i)
      PROVE  (Issued /\ Gathered /\ AnsweredFromApproved)'
  BY <1>19, <1>1 DEF Switch
<1>20. ASSUME NEW i \in {current, Socket}, ForeignOpen(i)
      PROVE  (Issued /\ Gathered /\ AnsweredFromApproved)'
  BY <1>20, <1>1 DEF ForeignOpen, Take, Disturb
<1>21. ASSUME NEW n \in Numbers, ForeignClose(n)
      PROVE  (Issued /\ Gathered /\ AnsweredFromApproved)'
  BY <1>21, <1>1 DEF ForeignClose, Drop, Disturb
<1> QED
  BY <1>1, <1>2, <1>3, <1>4, <1>5, <1>6, <1>7, <1>8, <1>9, <1>10, <1>11,
     <1>12, <1>13, <1>14, <1>15, <1>16, <1>17, <1>18, <1>19, <1>20, <1>21
  DEF Next, Step

LEMMA IInvKept ==
  ASSUME IInv, Trusted, [Next]_vars
  PROVE  IInv'
<1>1. TypeOK'
  BY FileStep, TableStep, GateStep, ReceiptTypeStep, DiscoveryStep
  DEF TypeOK, FileTypes, TableTypes, GateTypes, ReceiptTypes, DiscoveryTypes
<1> QED
  BY <1>1, GuardStep, DigestStep, ReceiptStep DEF IInv

-----------------------------------------------------------------------------
(***************************************************************************)
(* The table of descriptors.  A number is open exactly if it has an owner  *)
(* (Tabled).  A request owns one descriptor while it works with its        *)
(* connection (Owned, Holding), the gate one for its guard (GateHolds).    *)
(* Between listing and matching a request holds the lock (Excluded), so    *)
(* that only descriptors outside the lock come or go meanwhile: else the   *)
(* listing is still true, and after the connection there is one more       *)
(* number than was listed (Listed).                                        *)
(***************************************************************************)
Working == {"matching", "reading", "closing", "failing"}
Tabled == \A n \in Numbers : opened[n] = Nobody <=> owner[n] = Nobody
Owned ==
  \A n \in Numbers : owner[n] \in Requests => at[owner[n]] \in Working /\ mine[owner[n]] = n
Holding == \A r \in Requests : at[r] \in Working => mine[r] \in Numbers /\ owner[mine[r]] = r
GatesNumbers == {n \in Numbers : owner[n] = "gate"}
GateHolds ==
  IF guard # Nobody \/ guardLock # Nobody
  THEN \E n \in Numbers : GatesNumbers = {n}
  ELSE GatesNumbers = {}
Excluded == \A r \in Requests : at[r] \in Comparing => openLock = r
Listed ==
  \A r \in Requests : ~disturbed[r] =>
    /\ at[r] \in Comparing \ {"matching"} => before[r] = Numbers \ Free
    /\ at[r] = "matching" => (Numbers \ Free) \ before[r] = {mine[r]}

Table == Tabled /\ Owned /\ Holding /\ GateHolds /\ Excluded /\ Listed /\ PinnedOpensDoNotCollide

LEMMA Owners ==
  /\ "gate" \notin Requests /\ "foreign" \notin Requests /\ Nobody \notin Requests
  /\ "gate" # Nobody /\ "foreign" # Nobody
BY DatabaseAssumption

LEMMA InitTable == Init => Table
<1> SUFFICES ASSUME Init PROVE Table
  OBVIOUS
<1>1. Tabled /\ Owned /\ GateHolds
  BY Owners DEF Init, Tabled, Owned, GateHolds, GatesNumbers
<1>2. Holding /\ Excluded /\ Listed /\ PinnedOpensDoNotCollide
  BY DEF Init, Holding, Working, Excluded, Listed, PinnedOpensDoNotCollide, Comparing
<1> QED
  BY <1>1, <1>2 DEF Table

\* A step of a request that touches no descriptor and no lock.
Walks(r) ==
  /\ UNCHANGED <<tableVars, guard, guardLock, openLock, discoveryVars>>
  /\ \E p \in Places :
       /\ Goto(r, p)
       /\ \/ /\ at[r] \notin Working \cup Comparing
             /\ p \notin Working \cup Comparing \cup {"undiscovered"}
          \/ at[r] = "reading" /\ p \in {"closing", "failing"}

LEMMA WalkKeeps == ASSUME TypeOK, Table, NEW r \in Requests, Walks(r) PROVE Table'
<1>1. PICK p \in Places :
        /\ at' = [at EXCEPT ![r] = p]
        /\ \/ /\ at[r] \notin Working \cup Comparing
              /\ p \notin Working \cup Comparing \cup {"undiscovered"}
           \/ at[r] = "reading" /\ p \in {"closing", "failing"}
  BY DEF Walks, Goto
<1>2. UNCHANGED <<opened, owner, guard, guardLock, openLock, before, mine, found, disturbed>>
  BY DEF Walks, tableVars, discoveryVars
<1>3. \A q \in Requests : at'[q] = IF q = r THEN p ELSE at[q]
  BY <1>1 DEF TypeOK
<1>4. Tabled' /\ GateHolds'
  BY <1>2 DEF Table, Tabled, GateHolds, GatesNumbers
<1>5. Owned' /\ Holding'
  BY <1>1, <1>2, <1>3 DEF Table, Owned, Holding, Working
<1>6. Excluded' /\ PinnedOpensDoNotCollide'
  BY <1>1, <1>2, <1>3 DEF Table, Excluded, PinnedOpensDoNotCollide, Working, Comparing
<1>7. Listed'
  BY <1>1, <1>2, <1>3 DEF Table, Listed, Free, Working, Comparing
<1> QED
  BY <1>4, <1>5, <1>6, <1>7 DEF Table

\* Steps that leave the table, the locks and the places alone.
LEMMA IdleKeeps ==
  ASSUME Table,
         UNCHANGED <<at, opened, owner, guard, guardLock, openLock, before, mine, found, disturbed>>
  PROVE  Table'
<1>1. Tabled' /\ GateHolds' /\ Owned' /\ Holding'
  BY DEF Table, Tabled, GateHolds, GatesNumbers, Owned, Holding
<1>2. Excluded' /\ PinnedOpensDoNotCollide' /\ Listed'
  BY DEF Table, Excluded, PinnedOpensDoNotCollide, Listed, Free, Comparing
<1> QED
  BY <1>1, <1>2 DEF Table

\* What the table is after a descriptor was taken or dropped.
LEMMA Taken ==
  ASSUME TypeOK, NEW n, NEW i, NEW who, Take(n, i, who)
  PROVE  /\ n \in Numbers /\ opened[n] = Nobody
         /\ \A m \in Numbers : /\ opened'[m] = IF m = n THEN i ELSE opened[m]
                               /\ owner'[m] = IF m = n THEN who ELSE owner[m]
BY DEF TypeOK, Take, Free

LEMMA Dropped ==
  ASSUME TypeOK, NEW n \in Numbers, Drop(n)
  PROVE  \A m \in Numbers : /\ opened'[m] = IF m = n THEN Nobody ELSE opened[m]
                            /\ owner'[m] = IF m = n THEN Nobody ELSE owner[m]
BY DEF TypeOK, Drop

\* Which descriptors are the gate's changes only by the gate.
LEMMA GateKeeps ==
  ASSUME Table, UNCHANGED <<guard, guardLock>>,
         \A n \in Numbers : owner'[n] = "gate" <=> owner[n] = "gate"
  PROVE  GateHolds'
<1>1. GatesNumbers' = GatesNumbers
  BY DEF GatesNumbers
<1> QED
  BY <1>1 DEF Table, GateHolds

-----------------------------------------------------------------------------
\* A descriptor outside the lock comes or goes, and whoever compares listings
\* is disturbed.
LEMMA ForeignKeeps ==
  ASSUME TypeOK, Table,
         \/ \E i \in {current, Socket} : ForeignOpen(i)
         \/ \E n \in Numbers : ForeignClose(n)
  PROVE  Table'
<1> USE Owners
<1>1. UNCHANGED <<at, guard, guardLock, openLock, before, mine, found>> /\ Disturb
  BY DEF ForeignOpen, ForeignClose, gateVars
<1>2. PICK n \in Numbers :
        /\ opened[n] = Nobody \/ owner[n] = "foreign"
        /\ \A m \in Numbers :
             IF m = n
             THEN \/ opened'[n] # Nobody /\ owner'[n] = "foreign"
                  \/ opened'[n] = Nobody /\ owner'[n] = Nobody
             ELSE opened'[m] = opened[m] /\ owner'[m] = owner[m]
  <2>1. ASSUME NEW i \in {current, Socket}, NEW n \in Numbers, Take(n, i, "foreign")
        PROVE  /\ opened[n] = Nobody /\ opened'[n] # Nobody /\ owner'[n] = "foreign"
               /\ \A m \in Numbers : m # n => opened'[m] = opened[m] /\ owner'[m] = owner[m]
    <3>1. i # Nobody
      BY DatabaseAssumption DEF TypeOK
    <3> QED
      BY <2>1, <3>1, Taken
  <2>2. ASSUME NEW n \in Numbers, Drop(n)
        PROVE  /\ opened'[n] = Nobody /\ owner'[n] = Nobody
               /\ \A m \in Numbers : m # n => opened'[m] = opened[m] /\ owner'[m] = owner[m]
    BY <2>2, Dropped
  <2>3. CASE \E i \in {current, Socket} : ForeignOpen(i)
    BY <2>1, <2>3 DEF ForeignOpen
  <2>4. CASE \E n \in Numbers : ForeignClose(n)
    BY <2>2, <2>4 DEF ForeignClose
  <2> QED
    BY <2>3, <2>4
<1>3. owner[n] \in {Nobody, "foreign"}
  BY <1>2 DEF Table, Tabled
<1>4. Tabled'
  BY <1>2 DEF Table, Tabled
<1>5. Owned' /\ Holding'
  BY <1>1, <1>2, <1>3 DEF Table, Owned, Holding
<1>6. GateHolds'
  BY <1>1, <1>2, <1>3, GateKeeps
<1>7. Excluded'
  BY <1>1 DEF Table, Excluded, Comparing
<1>8. Listed' /\ PinnedOpensDoNotCollide'
  BY <1>1 DEF Table, Listed, PinnedOpensDoNotCollide, Disturb, Comparing
<1> QED
  BY <1>4, <1>5, <1>6, <1>7, <1>8 DEF Table

\* Who compares listings has a guard, and holds the lock alone.
LEMMA Alone ==
  ASSUME Table, NEW r \in Requests, NEW q \in Requests,
         at[r] \in Comparing, at[q] \in Comparing
  PROVE  q = r /\ openLock = r
BY DEF Table, Excluded, Comparing

LEMMA NoneLists ==
  ASSUME Guarded, Excluded, guard = Nobody \/ openLock = Nobody
  PROVE  \A q \in Requests : at[q] \notin Comparing
BY Owners DEF Guarded, Excluded, Comparing

\* The guard's descriptor is opened under the guard's lock, and nobody lists
\* before there is a guard.
LEMMA OpenGuardKeeps ==
  ASSUME IInv, Table, NEW r \in Requests, OpenGuard(r)
  PROVE  Table'
<1> USE Owners
<1>1. /\ TypeOK /\ \A q \in Requests : at[q] \notin Comparing
      /\ at[r] = "guarding" /\ guardLock = Nobody /\ guard = Nobody /\ current # Nobody
  BY NoneLists, DatabaseAssumption DEF IInv, TypeOK, OpenGuard, Table
<1>2. /\ UNCHANGED <<guard, openLock, before, mine, found, disturbed>> /\ guardLock' = r
      /\ at' = [at EXCEPT ![r] = "hashing"]
  BY DEF OpenGuard, Goto, discoveryVars
<1>3. \A q \in Requests : at'[q] = IF q = r THEN "hashing" ELSE at[q]
  BY <1>1, <1>2 DEF TypeOK
<1>4. PICK n \in Numbers :
        /\ opened[n] = Nobody
        /\ \A m \in Numbers : /\ opened'[m] = IF m = n THEN current ELSE opened[m]
                              /\ owner'[m] = IF m = n THEN "gate" ELSE owner[m]
  BY <1>1, Taken DEF OpenGuard
<1>5. owner[n] = Nobody
  BY <1>4 DEF Table, Tabled
<1>6. Tabled'
  BY <1>1, <1>4 DEF Table, Tabled
<1>7. Owned' /\ Holding'
  BY <1>1, <1>2, <1>3, <1>4, <1>5 DEF Table, Owned, Holding, Working
<1>8. GateHolds'
  <2>1. GatesNumbers = {}
    BY <1>1 DEF Table, GateHolds
  <2>2. GatesNumbers' = {n}
    BY <1>4, <2>1 DEF GatesNumbers
  <2> QED
    BY <1>2, <2>2 DEF GateHolds
<1>9. Excluded' /\ Listed' /\ PinnedOpensDoNotCollide'
  BY <1>1, <1>2, <1>3 DEF Table, Excluded, Listed, PinnedOpensDoNotCollide, Comparing
<1> QED
  BY <1>6, <1>7, <1>8, <1>9 DEF Table

\* The descriptor stays with the guard that is set, or goes with the refusal.
LEMMA PinGuardKeeps ==
  ASSUME IInv, Table, NEW r \in Requests, PinGuard(r)
  PROVE  Table'
<1> USE Owners
<1>1. /\ TypeOK /\ \A q \in Requests : at[q] \notin Comparing
      /\ at[r] = "hashing" /\ guardLock = r /\ guard = Nobody
  BY NoneLists DEF IInv, Locked, PinGuard, Table
<1>2. /\ UNCHANGED <<openLock, before, mine, found, disturbed>> /\ guardLock' = Nobody
      /\ at' = [at EXCEPT ![r] = "pinned"] \/ at' = [at EXCEPT ![r] = "refused"]
  BY DEF PinGuard, Leave, Goto, discoveryVars
<1>3. /\ at'[r] \in {"pinned", "refused"}
      /\ \A q \in Requests : q # r => at'[q] = at[q]
  BY <1>1, <1>2 DEF TypeOK
<1>4. PICK g \in Numbers : GatesNumbers = {g}
  BY <1>1 DEF Table, GateHolds
<1>5. Excluded' /\ Listed' /\ PinnedOpensDoNotCollide'
  BY <1>1, <1>2, <1>3 DEF Table, Excluded, Listed, PinnedOpensDoNotCollide, Comparing
<1>6. CASE guard' # Nobody /\ UNCHANGED tableVars
  <2>1. Tabled' /\ Owned' /\ Holding'
    BY <1>1, <1>2, <1>3, <1>6 DEF Table, Tabled, Owned, Holding, Working, tableVars
  <2>2. GateHolds'
    BY <1>4, <1>6 DEF GateHolds, GatesNumbers, tableVars
  <2> QED
    BY <1>5, <2>1, <2>2 DEF Table
<1>7. CASE guard' = guard /\ Drop(g)
  <2>1. \A m \in Numbers : /\ opened'[m] = IF m = g THEN Nobody ELSE opened[m]
                           /\ owner'[m] = IF m = g THEN Nobody ELSE owner[m]
    BY <1>1, <1>7, Dropped
  <2>2. owner[g] = "gate"
    BY <1>4 DEF GatesNumbers
  <2>3. Tabled'
    BY <2>1 DEF Table, Tabled
  <2>4. Owned' /\ Holding'
    BY <1>1, <1>2, <1>3, <2>1, <2>2 DEF Table, Owned, Holding, Working
  <2>5. GatesNumbers' = {}
    BY <1>4, <2>1 DEF GatesNumbers
  <2>6. GateHolds'
    BY <1>1, <1>2, <1>7, <2>5 DEF GateHolds
  <2> QED
    BY <1>5, <2>3, <2>4, <2>6 DEF Table
<1>8. (guard' # Nobody /\ UNCHANGED tableVars) \/ (guard' = guard /\ Drop(g))
  <2>1. CASE \E n \in Numbers : owner[n] = "gate" /\ Drop(n) /\ UNCHANGED guard
    BY <1>4, <2>1 DEF GatesNumbers
  <2>2. CASE /\ Fingerprint(key[r][1]) = key[r]
             /\ guard' = [inode |-> key[r][1], fingerprint |-> key[r],
                          digest |-> content[key[r][1]]]
             /\ UNCHANGED tableVars
    <3>1. key[r] \in Fingerprints /\ key[r][1] \in Inodes
      BY <1>1 DEF IInv, Keyed, Fingerprints
    <3>2. content[key[r][1]] \in Contents
      BY <1>1, <3>1 DEF TypeOK
    <3>3. guard' \in [inode : Inodes, fingerprint : Fingerprints, digest : Contents]
      BY <2>2, <3>1, <3>2
    <3> QED
      BY <2>2, <3>3, DatabaseAssumption DEF Fingerprints
  <2> QED
    BY <2>1, <2>2 DEF PinGuard
<1> QED
  BY <1>6, <1>7, <1>8

-----------------------------------------------------------------------------
\* The listing is what is open, as long as nobody else opens.
LEMMA ListKeeps ==
  ASSUME IInv, Table, NEW r \in Requests, List(r)
  PROVE  Table'
<1> USE Owners
<1>1. /\ TypeOK /\ \A q \in Requests : at[q] \notin Comparing
      /\ at[r] = "listing" /\ openLock = Nobody
  BY NoneLists DEF IInv, List, Table
<1>2. /\ UNCHANGED <<opened, owner, guard, guardLock, mine, found, disturbed>> /\ openLock' = r
      /\ at' = [at EXCEPT ![r] = "connecting"]
      /\ before' = [before EXCEPT ![r] = Numbers \ Free]
  BY DEF List, Goto, tableVars, gateVars
<1>3. /\ \A q \in Requests : at'[q] = IF q = r THEN "connecting" ELSE at[q]
      /\ before'[r] = Numbers \ Free
  BY <1>1, <1>2 DEF TypeOK
<1>4. Tabled' /\ GateHolds'
  BY <1>2 DEF Table, Tabled, GateHolds, GatesNumbers
<1>5. Owned' /\ Holding'
  BY <1>1, <1>2, <1>3 DEF Table, Owned, Holding, Working
<1>6. Free' = Free
  BY <1>2 DEF Free
<1>7. Excluded' /\ Listed' /\ PinnedOpensDoNotCollide'
  BY <1>1, <1>2, <1>3, <1>6 DEF Table, Excluded, Listed, PinnedOpensDoNotCollide, Comparing
<1> QED
  BY <1>4, <1>5, <1>7 DEF Table

LEMMA ReadLinkKeeps ==
  ASSUME IInv, Table, NEW r \in Requests, ReadLink(r)
  PROVE  Table'
<1> USE Owners
<1>1. /\ TypeOK /\ at[r] = "connecting"
      /\ UNCHANGED <<opened, owner, guard, guardLock, openLock, before, mine, found, disturbed>>
  BY DEF IInv, ReadLink, tableVars, gateVars, discoveryVars
<1>2. PICK p \in {"linked", "aside"} : Goto(r, p)
  BY DEF ReadLink
<1>3. \A q \in Requests : at'[q] = IF q = r THEN p ELSE at[q]
  BY <1>1, <1>2 DEF TypeOK, Goto
<1>4. Tabled' /\ GateHolds' /\ Free' = Free
  BY <1>1 DEF Table, Tabled, GateHolds, GatesNumbers, Free
<1>5. Owned' /\ Holding'
  BY <1>1, <1>3 DEF Table, Owned, Holding, Working
<1>6. Excluded' /\ Listed' /\ PinnedOpensDoNotCollide'
  BY <1>1, <1>3, <1>4 DEF Table, Excluded, Listed, PinnedOpensDoNotCollide, Comparing
<1> QED
  BY <1>4, <1>5, <1>6 DEF Table

\* The connection's descriptor is one more than was listed.
LEMMA ConnectKeeps ==
  ASSUME IInv, Table, NEW r \in Requests, Connect(r)
  PROVE  Table'
<1> USE Owners
<1>1. /\ TypeOK /\ at[r] \in {"linked", "aside"} /\ openLock = r
      /\ UNCHANGED <<guard, guardLock, openLock, before, found, disturbed>>
  BY DEF IInv, Connect, Table, Excluded, Comparing, gateVars
<1>2. PICK n \in Numbers, i \in Inodes :
        Take(n, i, r) /\ mine' = [mine EXCEPT ![r] = n] /\ Goto(r, "matching")
  BY <1>1 DEF Connect, Opens, TypeOK
<1>3. i # Nobody
  BY DatabaseAssumption
<1>4. \A q \in Requests \ {r} : at[q] \notin Comparing
  BY <1>1, Alone DEF Comparing
<1>5. /\ opened[n] = Nobody
      /\ \A m \in Numbers : /\ opened'[m] = IF m = n THEN i ELSE opened[m]
                            /\ owner'[m] = IF m = n THEN r ELSE owner[m]
  BY <1>1, <1>2, Taken
<1>6. owner[n] = Nobody
  BY <1>5 DEF Table, Tabled
<1>7. \A q \in Requests : /\ at'[q] = IF q = r THEN "matching" ELSE at[q]
                          /\ mine'[q] = IF q = r THEN n ELSE mine[q]
  BY <1>1, <1>2 DEF TypeOK, Goto
<1>8. Tabled'
  BY <1>3, <1>5 DEF Table, Tabled
<1>9. GateHolds'
  BY <1>1, <1>5, <1>6, GateKeeps
<1>10. Owned'
  BY <1>1, <1>5, <1>7 DEF Table, Owned, Working
<1>11. Holding'
  BY <1>1, <1>5, <1>6, <1>7 DEF Table, Holding, Working
<1>12. Excluded' /\ PinnedOpensDoNotCollide'
  BY <1>1, <1>4, <1>7 DEF Table, Excluded, PinnedOpensDoNotCollide, Comparing
<1>13. Listed'
  <2>1. (Numbers \ Free)' = (Numbers \ Free) \cup {n} /\ n \in Free
    BY <1>3, <1>5 DEF Free
  <2>2. ~disturbed[r] => ((Numbers \ Free) \ before[r])' = {n}
    BY <1>1, <2>1 DEF Table, Listed, Comparing
  <2> QED
    BY <1>1, <1>4, <1>7, <2>2 DEF Listed, Comparing
<1> QED
  BY <1>8, <1>9, <1>10, <1>11, <1>12, <1>13 DEF Table

\* Without a connection the lock is given back and nothing was opened.
LEMMA ConnectFailsKeeps ==
  ASSUME IInv, Table, NEW r \in Requests, ConnectFails(r)
  PROVE  Table'
<1> USE Owners
<1>1. /\ TypeOK /\ at[r] \in {"linked", "aside"} /\ openLock = r
      /\ UNCHANGED <<opened, owner, guard, guardLock, mine, found>> /\ openLock' = Nobody
      /\ Leave(r, "refused")
      /\ before' = [before EXCEPT ![r] = {}] /\ disturbed' = [disturbed EXCEPT ![r] = FALSE]
  BY DEF IInv, ConnectFails, Table, Excluded, Comparing, tableVars, gateVars
<1>2. \A q \in Requests \ {r} : at[q] \notin Comparing
  BY <1>1, Alone DEF Comparing
<1>3. /\ at'[r] = "refused"
      /\ \A q \in Requests : q # r =>
           at'[q] = at[q] /\ before'[q] = before[q] /\ disturbed'[q] = disturbed[q]
  BY <1>1 DEF TypeOK, Leave, Goto
<1>4. Tabled' /\ GateHolds'
  BY <1>1 DEF Table, Tabled, GateHolds, GatesNumbers
<1>5. Owned' /\ Holding'
  BY <1>1, <1>3 DEF Table, Owned, Holding, Working
<1>6. Excluded' /\ Listed' /\ PinnedOpensDoNotCollide'
  BY <1>2, <1>3 DEF Table, Excluded, Listed, PinnedOpensDoNotCollide, Comparing
<1> QED
  BY <1>4, <1>5, <1>6 DEF Table

\* A request gives its connection and its descriptor up, while nobody else
\* compares listings.
LEMMA DropKeeps ==
  ASSUME TypeOK, Table, NEW r \in Requests, at[r] \in Working, Drop(mine[r]),
         \A q \in Requests \ {r} : at[q] \notin Comparing,
         NEW p \in {"issuing", "rechecking", "refused", "undiscovered"}, Goto(r, p),
         p = "undiscovered" => disturbed[r],
         UNCHANGED <<guard, guardLock, disturbed>>,
         \A q \in Requests : q # r => mine'[q] = mine[q]
  PROVE  Table'
<1> USE Owners
<1>1. mine[r] \in Numbers /\ owner[mine[r]] = r
  BY DEF Table, Holding
<1>2. \A m \in Numbers : /\ opened'[m] = IF m = mine[r] THEN Nobody ELSE opened[m]
                         /\ owner'[m] = IF m = mine[r] THEN Nobody ELSE owner[m]
  BY <1>1, Dropped
<1>3. \A q \in Requests : at'[q] = IF q = r THEN p ELSE at[q]
  BY DEF TypeOK, Goto
<1>4. Tabled'
  BY <1>2 DEF Table, Tabled
<1>5. GateHolds'
  BY <1>1, <1>2, GateKeeps
<1>6. Owned'
  BY <1>1, <1>2, <1>3 DEF Table, Owned, Working
<1>7. Holding'
  BY <1>1, <1>2, <1>3 DEF Table, Holding, Working
<1>8. Excluded' /\ Listed' /\ PinnedOpensDoNotCollide'
  BY <1>3 DEF Table, Excluded, Listed, PinnedOpensDoNotCollide, Comparing
<1> QED
  BY <1>4, <1>5, <1>6, <1>7, <1>8 DEF Table

\* Undisturbed, the connection's is the one new descriptor: it matches if it is
\* of the guard's file, and otherwise none does.
LEMMA MatchesMine ==
  ASSUME IInv, Table, NEW r \in Requests, at[r] = "matching", ~disturbed[r]
  PROVE  Cardinality(Matches(r)) = 1 <=> Pinned(r)
<1>1. guard.inode # Nobody
  BY GuardInode, DatabaseAssumption DEF IInv, Places
<1>2. (Numbers \ Free) \ before[r] = {mine[r]}
  BY DEF Table, Listed, Comparing
<1>3. CASE Pinned(r)
  <2>1. Matches(r) = {mine[r]}
    BY <1>1, <1>2, <1>3 DEF Matches, Free, Pinned
  <2> QED
    BY <1>3, <2>1, FS_Singleton
<1>4. CASE ~Pinned(r)
  <2>1. Matches(r) = {}
    BY <1>1, <1>2, <1>4 DEF Matches, Free, Pinned
  <2>2. Cardinality(Matches(r)) = 0
    BY <2>1, FS_EmptySet, Zenon
  <2> QED
    BY <1>4, <2>2
<1> QED
  BY <1>3, <1>4

LEMMA MatchKeeps ==
  ASSUME IInv, Table, NEW r \in Requests, Match(r)
  PROVE  Table'
<1> USE Owners
<1>1. /\ TypeOK /\ at[r] = "matching" /\ openLock = r /\ openLock' = Nobody
      /\ UNCHANGED <<guard, guardLock>>
  BY DEF IInv, Match, Discovered, Undiscovered, Table, Excluded, gateVars, Comparing
<1>2. \A q \in Requests \ {r} : at[q] \notin Comparing
  BY <1>1, Alone
<1>3. CASE Discovered(r)
  <2>1. /\ at'[r] = "reading" /\ \A q \in Requests : q # r => at'[q] = at[q]
        /\ \A q \in Requests : q # r => disturbed'[q] = disturbed[q]
        /\ UNCHANGED <<opened, owner, mine>>
    BY <1>1, <1>3 DEF TypeOK, Discovered, Goto, tableVars
  <2>2. Tabled' /\ GateHolds'
    BY <1>1, <2>1 DEF Table, Tabled, GateHolds, GatesNumbers
  <2>3. Owned' /\ Holding'
    BY <1>1, <2>1 DEF Table, Owned, Holding, Working
  <2>4. Excluded' /\ Listed' /\ PinnedOpensDoNotCollide'
    BY <1>2, <2>1 DEF Table, Excluded, Listed, PinnedOpensDoNotCollide, Comparing
  <2> QED
    BY <2>2, <2>3, <2>4 DEF Table
<1>4. CASE Undiscovered(r) /\ Drop(mine[r]) /\ mine' = [mine EXCEPT ![r] = Nobody]
  <2>1. PICK p \in {"undiscovered", "refused"} :
          Goto(r, p) /\ (p = "undiscovered" => Pinned(r))
    BY <1>4 DEF Undiscovered, Leave
  <2>2. UNCHANGED disturbed /\ (p = "undiscovered" => disturbed[r])
    BY <1>1, <1>4, <2>1, MatchesMine DEF Undiscovered
  <2>3. \A q \in Requests : q # r => mine'[q] = mine[q]
    BY <1>1, <1>4 DEF TypeOK
  <2> QED
    BY <1>1, <1>2, <1>4, <2>1, <2>2, <2>3, DropKeeps DEF Working
<1> QED
  BY <1>3, <1>4 DEF Match

\* Closing waits for the lock, and so for every comparison of listings.
LEMMA CloseKeeps ==
  ASSUME IInv, Table, NEW r \in Requests, Close(r)
  PROVE  Table'
<1>1. /\ TypeOK /\ at[r] \in Working /\ openLock = Nobody /\ Drop(mine[r])
      /\ UNCHANGED <<guard, guardLock, openLock, disturbed>>
      /\ mine' = [mine EXCEPT ![r] = Nobody]
  BY DEF IInv, Close, Shut, Working, gateVars
<1>2. \A q \in Requests \ {r} : at[q] \notin Comparing
  BY <1>1, NoneLists DEF IInv, Table
<1>3. PICK p \in {"issuing", "rechecking", "refused"} : Goto(r, p)
  BY DEF Close, Shut, Pass, Leave
<1>4. \A q \in Requests : q # r => mine'[q] = mine[q]
  BY <1>1 DEF TypeOK
<1> QED
  BY <1>1, <1>2, <1>3, <1>4, DropKeeps

-----------------------------------------------------------------------------
\* The other steps of a request.
LEMMA StepWalks ==
  ASSUME NEW r \in Requests,
         \/ Begin(r) \/ UseGuard(r) \/ LookUp(r) \/ VerifyFile(r) \/ Issue(r)
         \/ Present(r) \/ Recheck(r) \/ AssertPinned(r) \/ Read(r)
  PROVE  Walks(r)
<1> USE DEF Walks, Working, Places, gateVars, Comparing
<1>1. CASE Begin(r)
  BY <1>1 DEF Begin
<1>2. CASE UseGuard(r) \/ Present(r) \/ AssertPinned(r)
  BY <1>2 DEF UseGuard, Present, AssertPinned, Pass, Leave
<1>3. CASE LookUp(r)
  BY <1>3 DEF LookUp
<1>4. CASE VerifyFile(r)
  BY <1>4 DEF VerifyFile, Leave
<1>5. CASE Issue(r)
  BY <1>5 DEF Issue, Receipt, Leave
<1>6. CASE Recheck(r)
  BY <1>6 DEF Recheck, Pass, Leave
<1>7. CASE Read(r)
  BY <1>7 DEF Read
<1> QED
  BY <1>1, <1>2, <1>3, <1>4, <1>5, <1>6, <1>7

LEMMA TableKept ==
  ASSUME IInv, Table, [Next]_vars
  PROVE  Table'
<1>1. ASSUME NEW r \in Requests, Begin(r) \/ Step(r) PROVE Table'
  <2>1. CASE OpenGuard(r) \/ PinGuard(r)
    BY <2>1, OpenGuardKeeps, PinGuardKeeps
  <2>2. CASE List(r) \/ ReadLink(r) \/ Connect(r) \/ ConnectFails(r) \/ Match(r) \/ Close(r)
    BY <2>2, ListKeeps, ReadLinkKeeps, ConnectKeeps, ConnectFailsKeeps, MatchKeeps, CloseKeeps
  <2>3. CASE \/ Begin(r) \/ UseGuard(r) \/ LookUp(r) \/ VerifyFile(r) \/ Issue(r)
             \/ Present(r) \/ Recheck(r) \/ AssertPinned(r) \/ Read(r)
    BY <2>3, StepWalks, WalkKeeps DEF IInv
  <2> QED
    BY <1>1, <2>1, <2>2, <2>3 DEF Step
<1>2. ASSUME \/ \E i \in Inodes : Switch(i) \/ \E c \in Contents : Rewrite(i, c)
             \/ UNCHANGED vars
      PROVE  Table'
  <2>1. UNCHANGED <<at, opened, owner, guard, guardLock, openLock, before, mine, found, disturbed>>
    BY <1>2 DEF Switch, Rewrite, vars, tableVars, gateVars, requestVars, discoveryVars
  <2> QED
    BY <2>1, IdleKeeps
<1>3. ASSUME \/ \E i \in {current, Socket} : ForeignOpen(i)
             \/ \E n \in Numbers : ForeignClose(n)
      PROVE  Table'
  BY <1>3, ForeignKeeps DEF IInv
<1> QED
  BY <1>1, <1>2, <1>3 DEF Next

-----------------------------------------------------------------------------
\* What a request does leaves the others where they are.
LEMMA OthersKeep ==
  ASSUME TypeOK, NEW r \in Requests, NEW q \in Requests, q # r, Begin(r) \/ Step(r)
  PROVE  at'[q] = at[q] /\ round'[q] = round[q] /\ doubtful'[q] = doubtful[q] /\ mine'[q] = mine[q]
<1> USE DEF TypeOK, Goto, Leave, Pass, receiptVars, discoveryVars
<1>1. CASE Begin(r) \/ OpenGuard(r) \/ PinGuard(r) \/ UseGuard(r) \/ LookUp(r)
  BY <1>1 DEF Begin, OpenGuard, PinGuard, UseGuard, LookUp
<1>2. CASE VerifyFile(r) \/ Issue(r) \/ Present(r) \/ Recheck(r) \/ AssertPinned(r)
  BY <1>2 DEF VerifyFile, Issue, Receipt, Present, Recheck, AssertPinned
<1>3. CASE List(r) \/ ReadLink(r) \/ Connect(r) \/ ConnectFails(r)
  BY <1>3 DEF List, ReadLink, Connect, ConnectFails
<1>4. CASE Match(r) \/ Read(r) \/ Close(r)
  BY <1>4 DEF Match, Discovered, Undiscovered, Read, Close, Shut
<1> QED
  BY <1>1, <1>2, <1>3, <1>4 DEF Step

\* A descriptor that another request works with is neither closed nor reused,
\* and the guard stays what it is.
LEMMA DescriptorKept ==
  ASSUME IInv, Table, NEW r \in Requests, NEW q \in Requests, q # r, at[q] \in Working,
         Begin(r) \/ Step(r)
  PROVE  opened'[mine[q]] = opened[mine[q]] /\ UNCHANGED guard
<1> USE Owners
<1>1. TypeOK /\ mine[q] \in Numbers /\ owner[mine[q]] = q /\ opened[mine[q]] # Nobody
  BY DEF IInv, Table, Holding, Tabled
<1>2. guard # Nobody
  BY DEF IInv, Guarded, Working
<1>3. ASSUME NEW n \in Numbers, NEW i, NEW who, Take(n, i, who)
      PROVE  opened'[mine[q]] = opened[mine[q]]
  BY <1>1, <1>3, Taken
<1>4. ASSUME NEW n \in Numbers, owner[n] # q, Drop(n)
      PROVE  opened'[mine[q]] = opened[mine[q]]
  BY <1>1, <1>4, Dropped
<1>5. at[r] \in Working => mine[r] \in Numbers /\ owner[mine[r]] # q
  BY DEF Table, Holding
<1>6. CASE OpenGuard(r) \/ PinGuard(r)
  BY <1>2, <1>6 DEF IInv, Locked, OpenGuard, PinGuard
<1>7. CASE Connect(r)
  BY <1>3, <1>7 DEF Connect, gateVars
<1>8. CASE Match(r)
  BY <1>4, <1>5, <1>8 DEF Match, Discovered, Undiscovered, Working, gateVars, tableVars
<1>9. CASE Close(r)
  BY <1>4, <1>5, <1>9 DEF Close, Shut, Working, gateVars
<1>10. CASE \/ Begin(r) \/ UseGuard(r) \/ LookUp(r) \/ VerifyFile(r) \/ Issue(r)
            \/ Present(r) \/ Recheck(r) \/ AssertPinned(r) \/ List(r) \/ ReadLink(r)
            \/ ConnectFails(r) \/ Read(r)
  BY <1>10 DEF Begin, UseGuard, LookUp, VerifyFile, Issue, Receipt, Present, Recheck,
               AssertPinned, List, ReadLink, ConnectFails, Read, tableVars, gateVars
<1> QED
  BY <1>6, <1>7, <1>8, <1>9, <1>10 DEF Step

\* Who comes to work with a connection connected just now, or has just found
\* its descriptor.
LEMMA WorksSince ==
  ASSUME TypeOK, NEW r \in Requests, Begin(r) \/ Step(r), at'[r] \in {"matching", "reading"}
  PROVE  Connect(r) \/ (Match(r) /\ Discovered(r))
<1> USE DEF TypeOK, Goto, Leave, Pass, receiptVars
<1>1. CASE Begin(r) \/ OpenGuard(r) \/ PinGuard(r) \/ UseGuard(r) \/ LookUp(r)
  BY <1>1 DEF Begin, OpenGuard, PinGuard, UseGuard, LookUp
<1>2. CASE VerifyFile(r) \/ Issue(r) \/ Present(r) \/ Recheck(r) \/ AssertPinned(r)
  BY <1>2 DEF VerifyFile, Issue, Receipt, Present, Recheck, AssertPinned
<1>3. CASE List(r) \/ ReadLink(r) \/ ConnectFails(r)
  BY <1>3 DEF List, ReadLink, ConnectFails
<1>4. CASE Match(r) \/ Read(r) \/ Close(r)
  BY <1>4 DEF Match, Undiscovered, Read, Close, Shut
<1> QED
  BY <1>1, <1>2, <1>3, <1>4 DEF Step

\* Trusted is kept: an undisturbed match is the connection itself.
LEMMA TrustedKept ==
  ASSUME IInv, Table, Trusted, [Next]_vars
  PROVE  Trusted'
<1> USE Owners
<1>1. ASSUME NEW r \in Requests, Begin(r) \/ Step(r) PROVE Trusted'
  <2>1. ASSUME NEW q \in Requests, q # r, at'[q] \in {"matching", "reading"}
        PROVE  /\ opened'[mine'[q]] \in Inodes
               /\ at'[q] = "reading" /\ round'[q] # 1 /\ ~doubtful'[q] =>
                    opened'[mine'[q]] = guard'.inode
    <3>1. at'[q] = at[q] /\ round'[q] = round[q] /\ doubtful'[q] = doubtful[q] /\ mine'[q] = mine[q]
      BY <1>1, <2>1, OthersKeep DEF IInv
    <3>2. opened'[mine[q]] = opened[mine[q]] /\ UNCHANGED guard
      BY <1>1, <2>1, <3>1, DescriptorKept DEF Working
    <3> QED
      BY <2>1, <3>1, <3>2 DEF Trusted
  <2>2. ASSUME at'[r] \in {"matching", "reading"}
        PROVE  /\ opened'[mine'[r]] \in Inodes
               /\ at'[r] = "reading" /\ round'[r] # 1 /\ ~doubtful'[r] =>
                    opened'[mine'[r]] = guard'.inode
    <3>1. CASE Connect(r)
      <4>1. PICK n \in Numbers, i \in Inodes :
              Take(n, i, r) /\ mine' = [mine EXCEPT ![r] = n] /\ Goto(r, "matching")
        BY <3>1 DEF Connect, Opens, IInv, TypeOK
      <4>2. opened'[n] = i /\ mine'[r] = n /\ at'[r] = "matching"
        BY <4>1, Taken DEF IInv, TypeOK, Goto
      <4> QED
        BY <4>2
    <3>2. CASE Match(r) /\ Discovered(r)
      <4>1. /\ at[r] = "matching" /\ at'[r] = "reading" /\ Cardinality(Matches(r)) = 1
            /\ UNCHANGED <<opened, mine, guard, round>>
            /\ doubtful'[r] = (doubtful[r] \/ (round[r] # 1 /\ disturbed[r] /\ ~Pinned(r)))
        BY <3>2 DEF Match, Discovered, Goto, IInv, TypeOK, tableVars, gateVars
      <4>2. ~disturbed[r] => Pinned(r)
        BY <4>1, MatchesMine
      <4> QED
        BY <4>1, <4>2 DEF Trusted, Pinned
    <3> QED
      BY <1>1, <2>2, <3>1, <3>2, WorksSince DEF IInv
  <2> QED
    BY <2>1, <2>2 DEF Trusted
<1>2. ASSUME \/ \E i \in Inodes : Switch(i) \/ \E c \in Contents : Rewrite(i, c)
             \/ UNCHANGED vars
      PROVE  Trusted'
  <2>1. UNCHANGED <<at, round, doubtful, mine, opened, guard>>
    BY <1>2 DEF Switch, Rewrite, vars, tableVars, gateVars, requestVars, receiptVars, discoveryVars
  <2> QED
    BY <2>1 DEF Trusted
<1>3. ASSUME \/ \E i \in {current, Socket} : ForeignOpen(i)
             \/ \E n \in Numbers : ForeignClose(n)
      PROVE  Trusted'
  <2>1. UNCHANGED <<at, round, doubtful, mine, guard>>
    BY <1>3 DEF ForeignOpen, ForeignClose, gateVars, receiptVars
  <2>2. ASSUME NEW q \in Requests, at[q] \in Working
        PROVE  opened'[mine[q]] = opened[mine[q]]
    <3>1. TypeOK /\ mine[q] \in Numbers /\ owner[mine[q]] = q /\ opened[mine[q]] # Nobody
      BY <2>2 DEF IInv, Table, Holding, Tabled
    <3>2. ASSUME NEW i, NEW n \in Numbers, Take(n, i, "foreign")
          PROVE  opened'[mine[q]] = opened[mine[q]]
      BY <3>1, <3>2, Taken
    <3>3. ASSUME NEW n \in Numbers, ForeignClose(n)
          PROVE  opened'[mine[q]] = opened[mine[q]]
      BY <3>1, <3>3, Dropped DEF ForeignClose
    <3> QED
      BY <1>3, <3>2, <3>3 DEF ForeignOpen
  <2> QED
    BY <2>1, <2>2 DEF Trusted, Working
<1> QED
  BY <1>1, <1>2, <1>3 DEF Next

-----------------------------------------------------------------------------
\* The inductive invariant: a guard set once under its lock, digests that hold
\* while the file is unchanged, descriptors in the table of whom they serve,
\* and receipts and rows that rest on both.
THEOREM Invariance == Spec => [](IInv /\ Table /\ Trusted)
<1>1. Init => IInv /\ Table /\ Trusted
  BY InitIInv, InitTable DEF Init, Trusted
<1>2. IInv /\ Table /\ Trusted /\ [Next]_vars => (IInv /\ Table /\ Trusted)'
  BY IInvKept, TableKept, TrustedKept
<1> QED
  BY <1>1, <1>2, PTL DEF Spec

\* Every variable keeps its type.
THEOREM TypeCorrect == Spec => []TypeOK
<1>1. IInv => TypeOK
  BY DEF IInv
<1> QED
  BY Invariance, <1>1, PTL

\* Whatever is switched, restored or rewritten, whichever file SQLite opened
\* and whichever descriptor a connection took for its own, an answer that passed
\* the last require_validated_plan was computed from approved content only,
\* unless a connection to another file passed for a foreign descriptor.
THEOREM AnswersAreApproved == Spec => []AnsweredFromApproved
<1>1. IInv => AnsweredFromApproved
  BY DEF IInv
<1> QED
  BY Invariance, <1>1, PTL

\* A pinned open of the guard's file is refused for want of its descriptor only
\* if one outside the lock came or went since the listing.
THEOREM OpensDoNotCollide == Spec => []PinnedOpensDoNotCollide
<1>1. Table => PinnedOpensDoNotCollide
  BY DEF Table
<1> QED
  BY Invariance, <1>1, PTL

\* A descriptor of a connection is open exactly while its request works with
\* it, the gate holds one only for its guard: no refusal leaks one.
THEOREM DescriptorsDoNotLeak == Spec => []NoDescriptorLeaks
<1>1. ASSUME Table PROVE NoDescriptorLeaks
  <2>1. \A n \in Numbers : owner[n] \in Requests =>
          at[owner[n]] \in {"matching", "reading", "closing", "failing"} /\ mine[owner[n]] = n
    BY <1>1 DEF Table, Owned, Working
  <2>2. Cardinality(GatesNumbers) = IF guard # Nobody \/ guardLock # Nobody THEN 1 ELSE 0
    BY <1>1, FS_EmptySet, FS_Singleton DEF Table, GateHolds
  <2> QED
    BY <2>1, <2>2 DEF NoDescriptorLeaks, GatesNumbers
<1> QED
  BY Invariance, <1>1, PTL

=============================================================================
