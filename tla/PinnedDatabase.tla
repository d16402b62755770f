--------------------------- MODULE PinnedDatabase ---------------------------
(***************************************************************************)
(* How a request reads the approved database of one product family and     *)
(* nothing else: the gate's guard table and approval check                 *)
(* (execution/authority.py, storage/approval.py) and the pinned            *)
(* connections that are opened under it (storage/pinned_sqlite.py).        *)
(*                                                                         *)
(* Requests run on several threads.  Meanwhile the file may be written in  *)
(* place, the path may be switched to another file and back, and           *)
(* descriptors of the process come and go outside any lock: sockets, the   *)
(* health probe and the plain SQLite connections of approval and caches.   *)
(*                                                                         *)
(* A request makes Rounds pinned connections: the gate's own (round 1),    *)
(* then those of the Oracle and the verifier.  SQLite opens a path and not *)
(* a descriptor: it reads the link /proc/self/fd/<guard> and then opens    *)
(* the path the link showed, which may name another file by then.  So each *)
(* connection looks for its descriptor by comparing two listings of        *)
(* /proc/self/fd.                                                          *)
(*                                                                         *)
(* Abstractions: a file is its inode; a fingerprint is the inode and the   *)
(* number of changes made to it, which ctime shows (a switch changes       *)
(* neither: a parent directory is renamed, not the file); a content is     *)
(* approved or not; a listing of the descriptors is one step; no error     *)
(* falls between a connection's discovery and its first statement; the     *)
(* rest of the receipt (plan, registry, release, deadline) does not        *)
(* change.  What a request has no more use for is forgotten at once.       *)
(***************************************************************************)
EXTENDS Naturals, FiniteSets

CONSTANTS
  Requests,   \* request threads
  Inodes,     \* files the path has named or will name
  Contents,   \* what a file may hold
  Approved,   \* the content whose SHA-256 is approved
  Socket,     \* a descriptor of no database file
  Nobody,     \* no descriptor, no guard, no lock holder
  Rounds,     \* pinned connections of a request, the gate's among them
  Limit,      \* bound: descriptor numbers are 1..Limit
  MaxForeign, \* bound: descriptors opened outside the lock at a time
  MaxChanges  \* bound: in-place changes

ASSUME DatabaseAssumption ==
  /\ Approved \in Contents
  /\ Socket \notin Inodes
  /\ Nobody \notin Requests \cup Inodes \cup {Socket}
  /\ {"gate", "foreign"} \cap (Requests \cup {Nobody}) = {}
  /\ Nobody \notin [inode : Inodes, fingerprint : Inodes \X Nat, digest : Contents]
  /\ Rounds \in Nat \ {0, 1} /\ Limit \in Nat \ {0} /\ MaxForeign \in Nat /\ MaxChanges \in Nat

VARIABLES
  current,   \* the inode the configured path names
  content,   \* content of each inode
  changes,   \* how often it was changed
  opened,    \* /proc/self/fd: inode of each open descriptor, or Nobody
  owner,     \* who opened it: a request, "gate" or "foreign"
  guard,     \* _database_guards[family]
  verified,  \* keys of _require_packaged_database_cached
  guardLock, \* _database_guard_lock
  openLock,  \* _SQLITE_OPEN_LOCK
  at,        \* where each request is
  round,     \* which of its connections it works on
  first,     \* initial_stat_fingerprint
  key,       \* fingerprint of a file it is about to read
  before,    \* descriptors it listed before connecting
  mine,      \* descriptor SQLite opened for it
  found,     \* descriptor it took for that: sqlite_descriptor
  rows,      \* contents its statements read
  doubtful,  \* one of them through a connection taken for that of a foreign descriptor
  disturbed  \* a foreign descriptor came or went since it listed them

fileVars == <<current, content, changes>>
tableVars == <<opened, owner>>
gateVars == <<guard, verified, guardLock>>
receiptVars == <<round, first, key, rows, doubtful>>
discoveryVars == <<before, mine, found, disturbed>>
requestVars == <<at, receiptVars, discoveryVars>>
vars == <<fileVars, tableVars, gateVars, openLock, requestVars>>

Numbers == 1..Limit
Fingerprint(i) == <<i, changes[i]>>
Free == {n \in Numbers : opened[n] = Nobody}

\* PinnedSQLiteArtifact.assert_unchanged and assert_current_path
Unchanged == Fingerprint(guard.inode) = guard.fingerprint
CurrentPath == Unchanged /\ current = guard.inode

Init ==
  /\ current \in Inodes
  /\ content \in [Inodes -> Contents]
  /\ changes = [i \in Inodes |-> 0]
  /\ opened = [n \in Numbers |-> Nobody]
  /\ owner = [n \in Numbers |-> Nobody]
  /\ guard = Nobody
  /\ verified = {}
  /\ guardLock = Nobody
  /\ openLock = Nobody
  /\ at = [r \in Requests |-> "idle"]
  /\ round = [r \in Requests |-> 1]
  /\ first = [r \in Requests |-> Nobody]
  /\ key = [r \in Requests |-> Nobody]
  /\ before = [r \in Requests |-> {}]
  /\ mine = [r \in Requests |-> Nobody]
  /\ found = [r \in Requests |-> Nobody]
  /\ rows = [r \in Requests |-> {}]
  /\ doubtful = [r \in Requests |-> FALSE]
  /\ disturbed = [r \in Requests |-> FALSE]

Goto(r, where) == at' = [at EXCEPT ![r] = where]

\* The request ends without an answer.
Leave(r, end) ==
  /\ Goto(r, end)
  /\ round' = [round EXCEPT ![r] = 1]
  /\ first' = [first EXCEPT ![r] = Nobody]
  /\ key' = [key EXCEPT ![r] = Nobody]
  /\ rows' = [rows EXCEPT ![r] = {}]
  /\ doubtful' = [doubtful EXCEPT ![r] = FALSE]

\* A check that lets the request go on or refuses it.
Pass(r, ok, where) ==
  IF ok THEN Goto(r, where) /\ UNCHANGED receiptVars ELSE Leave(r, "refused")

\* The kernel gives out the lowest free descriptor.
Take(n, i, who) ==
  /\ n \in Free /\ \A m \in Free : n <= m
  /\ opened' = [opened EXCEPT ![n] = i]
  /\ owner' = [owner EXCEPT ![n] = who]

Drop(n) ==
  /\ opened' = [opened EXCEPT ![n] = Nobody]
  /\ owner' = [owner EXCEPT ![n] = Nobody]

\* Between its two listings
Comparing == {"connecting", "linked", "aside", "matching"}

-----------------------------------------------------------------------------
(***************************************************************************)
(* The world around.                                                       *)
(***************************************************************************)

\* The path is made to name another file, or the same one again.
Switch(i) ==
  /\ i # current
  /\ current' = i
  /\ UNCHANGED <<content, changes, tableVars, gateVars, openLock, requestVars>>

\* A file is written in place, or only touched.
Rewrite(i, c) ==
  /\ \A j \in Inodes : changes[j] < MaxChanges
  /\ content' = [content EXCEPT ![i] = c]
  /\ changes' = [changes EXCEPT ![i] = @ + 1]
  /\ UNCHANGED <<current, tableVars, gateVars, openLock, requestVars>>

Disturb == disturbed' = [r \in Requests |-> at[r] \in Comparing \/ disturbed[r]]

\* _database_is_ready, _require_approved_database_uncached: a plain connection
\* to the path; or a socket or a file of something else.
ForeignOpen(i) ==
  /\ Cardinality({n \in Numbers : owner[n] = "foreign"}) < MaxForeign
  /\ \E n \in Numbers : Take(n, i, "foreign")
  /\ Disturb
  /\ UNCHANGED <<fileVars, gateVars, openLock, at, receiptVars, before, mine, found>>

ForeignClose(n) ==
  /\ owner[n] = "foreign"
  /\ Drop(n)
  /\ Disturb
  /\ UNCHANGED <<fileVars, gateVars, openLock, at, receiptVars, before, mine, found>>

-----------------------------------------------------------------------------
(***************************************************************************)
(* PlanAuthorityGate._database_context                                     *)
(***************************************************************************)
Begin(r) ==
  /\ at[r] = "idle"
  /\ Goto(r, "guarding")
  /\ first' = [first EXCEPT ![r] = Fingerprint(current)]
  /\ UNCHANGED <<fileVars, tableVars, gateVars, openLock, round, key, rows, doubtful, discoveryVars>>

\* The first request of the family opens the guard's descriptor.
OpenGuard(r) ==
  /\ at[r] = "guarding" /\ guardLock = Nobody /\ guard = Nobody
  /\ \E n \in Numbers : Take(n, current, "gate")
  /\ guardLock' = r
  /\ Goto(r, "hashing")
  /\ key' = [key EXCEPT ![r] = Fingerprint(current)]
  /\ UNCHANGED <<fileVars, guard, verified, openLock, round, first, rows, doubtful, discoveryVars>>

\* The file is hashed; it must not have changed, nor lost its path, meanwhile.
PinGuard(r) ==
  LET i == key[r][1] IN
  /\ at[r] = "hashing"
  /\ guardLock' = Nobody
  /\ \/ /\ Fingerprint(i) = key[r] /\ current = i
        /\ guard' = [inode |-> i, fingerprint |-> key[r], digest |-> content[i]]
        /\ Goto(r, "pinned")
        /\ key' = [key EXCEPT ![r] = Nobody]
        /\ UNCHANGED <<tableVars, round, first, rows, doubtful>>
     \/ /\ ~(Fingerprint(i) = key[r] /\ current = i)
        /\ \E n \in Numbers : owner[n] = "gate" /\ Drop(n)
        /\ Leave(r, "refused")
        /\ UNCHANGED guard
  /\ UNCHANGED <<fileVars, verified, openLock, discoveryVars>>

\* The guard must still be the file the path names, and named at the beginning.
UseGuard(r) ==
  /\ at[r] = "pinned" \/ (at[r] = "guarding" /\ guardLock = Nobody)
  /\ guard # Nobody
  /\ Pass(r, CurrentPath /\ guard.fingerprint = first[r], "approving")
  /\ UNCHANGED <<fileVars, tableVars, gateVars, openLock, discoveryVars>>

\* require_approved_database: a result is cached under the fingerprint seen
\* before the file is read, by its path.
LookUp(r) ==
  /\ at[r] = "approving"
  /\ IF Fingerprint(current) \in verified
     THEN Goto(r, "opening") /\ UNCHANGED key
     ELSE Goto(r, "verifying") /\ key' = [key EXCEPT ![r] = Fingerprint(current)]
  /\ UNCHANGED <<fileVars, tableVars, gateVars, openLock, round, first, rows, doubtful, discoveryVars>>

VerifyFile(r) ==
  /\ at[r] = "verifying"
  /\ \/ /\ content[current] = Approved
        /\ verified' = verified \cup {key[r]}
        /\ Goto(r, "opening")
        /\ key' = [key EXCEPT ![r] = Nobody]
        /\ UNCHANGED <<round, first, rows, doubtful>>
     \/ /\ content[current] # Approved
        /\ Leave(r, "refused")
        /\ UNCHANGED verified
  /\ UNCHANGED <<fileVars, tableVars, guard, guardLock, openLock, discoveryVars>>

Receipt(r, ok) ==
  /\ at[r] = "issuing"
  /\ \/ /\ ok
        /\ Goto(r, "presenting")
        /\ round' = [round EXCEPT ![r] = 2]
        /\ first' = [first EXCEPT ![r] = Nobody]
        /\ UNCHANGED <<key, rows, doubtful>>
     \/ ~ok /\ Leave(r, "refused")
  /\ UNCHANGED <<fileVars, tableVars, gateVars, openLock, discoveryVars>>
IssueUnhashed(r) == Receipt(r, Fingerprint(current) = first[r] /\ guard.fingerprint = first[r])
\* What is compared after the gate's own connection, and the receipt it issues.
Issue(r) ==
  Receipt(r, /\ guard.digest = Approved
             /\ Fingerprint(current) = first[r]
             /\ guard.fingerprint = first[r])

-----------------------------------------------------------------------------
(***************************************************************************)
(* open_validated_database: require_validated_plan before and after.       *)
(***************************************************************************)
Present(r) ==
  /\ at[r] = "presenting"
  /\ Pass(r, CurrentPath, "opening")
  /\ UNCHANGED <<fileVars, tableVars, gateVars, openLock, discoveryVars>>

Recheck(r) ==
  /\ at[r] = "rechecking"
  /\ \/ /\ CurrentPath /\ round[r] < Rounds
        /\ Goto(r, "presenting")
        /\ round' = [round EXCEPT ![r] = @ + 1]
        /\ UNCHANGED <<first, key, rows, doubtful>>
     \/ /\ round[r] = Rounds \/ ~CurrentPath
        /\ Pass(r, CurrentPath, "answered")
  /\ UNCHANGED <<fileVars, tableVars, gateVars, openLock, discoveryVars>>

-----------------------------------------------------------------------------
(***************************************************************************)
(* _connect_read_only_unobserved                                           *)
(***************************************************************************)
\* assert_unchanged, outside the lock.
AssertPinned(r) ==
  /\ at[r] = "opening"
  /\ Pass(r, Unchanged, "listing")
  /\ UNCHANGED <<fileVars, tableVars, gateVars, openLock, discoveryVars>>

List(r) ==
  /\ at[r] = "listing" /\ openLock = Nobody
  /\ openLock' = r
  /\ before' = [before EXCEPT ![r] = Numbers \ Free]
  /\ Goto(r, "connecting")
  /\ UNCHANGED <<fileVars, tableVars, gateVars, receiptVars, mine, found, disturbed>>

\* sqlite3.connect reads the link of the guard's descriptor.  It shows the
\* configured path if that names the guard's file, and otherwise another name.
ReadLink(r) ==
  /\ at[r] = "connecting"
  /\ Goto(r, IF current = guard.inode THEN "linked" ELSE "aside")
  /\ UNCHANGED <<fileVars, tableVars, gateVars, openLock, receiptVars, discoveryVars>>

\* It opens what that path names by now; another name may be one of any file.
Opens(r) == IF at[r] = "linked" THEN {current} ELSE Inodes

Connect(r) ==
  /\ at[r] \in {"linked", "aside"}
  /\ \E n \in Numbers, i \in Opens(r) :
       /\ Take(n, i, r)
       /\ mine' = [mine EXCEPT ![r] = n]
  /\ Goto(r, "matching")
  /\ UNCHANGED <<fileVars, gateVars, openLock, receiptVars, before, found, disturbed>>

\* sqlite3.Error: nothing is opened.
ConnectFails(r) ==
  /\ at[r] \in {"linked", "aside"}
  /\ openLock' = Nobody
  /\ before' = [before EXCEPT ![r] = {}]
  /\ disturbed' = [disturbed EXCEPT ![r] = FALSE]
  /\ Leave(r, "refused")
  /\ UNCHANGED <<fileVars, tableVars, gateVars, mine, found>>

\* New descriptors of the guard's inode.
Matches(r) == {n \in Numbers : opened[n] = guard.inode} \ before[r]

\* The connection of the request reads the guard's file.
Pinned(r) == opened[mine[r]] = guard.inode

Discovered(r) ==
  /\ at[r] = "matching" /\ Cardinality(Matches(r)) = 1
  /\ found' = [found EXCEPT ![r] = CHOOSE n \in Matches(r) : TRUE]
  /\ doubtful' = [doubtful EXCEPT ![r] = @ \/ (round[r] # 1 /\ disturbed[r] /\ ~Pinned(r))]
  /\ disturbed' = [disturbed EXCEPT ![r] = FALSE]
  /\ Goto(r, "reading")
  /\ UNCHANGED <<tableVars, round, first, key, rows, mine>>

Undiscovered(r) ==
  /\ at[r] = "matching" /\ Cardinality(Matches(r)) # 1
  /\ Leave(r, IF Pinned(r) THEN "undiscovered" ELSE "refused")
  /\ UNCHANGED <<found, disturbed>>

MatchLeaks(r) ==
  /\ Discovered(r) \/ (Undiscovered(r) /\ UNCHANGED <<tableVars, mine>>)
  /\ openLock' = Nobody
  /\ before' = [before EXCEPT ![r] = {}]
  /\ UNCHANGED <<fileVars, gateVars>>
\* Exactly one, or the connection is closed and the open refused.
Match(r) ==
  /\ \/ Discovered(r)
     \/ Undiscovered(r) /\ Drop(mine[r]) /\ mine' = [mine EXCEPT ![r] = Nobody]
  /\ openLock' = Nobody
  /\ before' = [before EXCEPT ![r] = {}]
  /\ UNCHANGED <<fileVars, gateVars>>

\* The statements, of whatever the connection's file holds by now; or they
\* fail.  The gate's own connection gives no rows.
Read(r) ==
  /\ at[r] = "reading"
  /\ \/ /\ Goto(r, "closing")
        /\ rows' = [rows EXCEPT ![r] = @ \cup IF round[r] = 1 THEN {} ELSE {content[opened[mine[r]]]}]
     \/ Goto(r, "failing") /\ UNCHANGED rows
  /\ UNCHANGED <<fileVars, tableVars, gateVars, openLock, round, first, key, doubtful, discoveryVars>>

Shut(r) ==
  /\ at[r] \in {"closing", "failing"}
  /\ Drop(mine[r])
  /\ mine' = [mine EXCEPT ![r] = Nobody]
  /\ found' = [found EXCEPT ![r] = Nobody]
  /\ Pass(r, at[r] = "closing" /\ Unchanged /\ opened[found[r]] = guard.inode,
          IF round[r] = 1 THEN "issuing" ELSE "rechecking")
  /\ UNCHANGED <<fileVars, gateVars, openLock, before, disturbed>>
CloseUnlocked(r) == Shut(r)
\* Under the lock: the guard is unchanged, so is the descriptor that was
\* found, and the connection is closed in any case.
Close(r) == openLock = Nobody /\ Shut(r)

-----------------------------------------------------------------------------
Step(r) ==
  \/ OpenGuard(r) \/ PinGuard(r) \/ UseGuard(r) \/ LookUp(r) \/ VerifyFile(r) \/ Issue(r)
  \/ Present(r) \/ Recheck(r)
  \/ AssertPinned(r) \/ List(r) \/ ReadLink(r) \/ Connect(r) \/ ConnectFails(r) \/ Match(r)
  \/ Read(r) \/ Close(r)

Next ==
  \/ \E r \in Requests : Begin(r) \/ Step(r)
  \/ \E i \in Inodes : Switch(i) \/ \E c \in Contents : Rewrite(i, c)
  \/ \E i \in {current, Socket} : ForeignOpen(i)
  \/ \E n \in Numbers : ForeignClose(n)

Spec == Init /\ [][Next]_vars

-----------------------------------------------------------------------------
(***************************************************************************)
(* Properties.                                                             *)
(***************************************************************************)
Fingerprints == Inodes \X Nat
Places == {"idle", "guarding", "hashing", "pinned", "approving", "verifying", "opening",
           "listing", "connecting", "linked", "aside", "matching", "reading", "closing", "failing", "issuing",
           "presenting", "rechecking", "answered", "refused", "undiscovered"}

\* Every variable has the shape of what it stands for: the table of open files,
\* the gate's tables and locks, and the locals of every request.
TypeOK ==
  /\ current \in Inodes
  /\ content \in [Inodes -> Contents]
  /\ changes \in [Inodes -> 0..MaxChanges]
  /\ opened \in [Numbers -> Inodes \cup {Socket, Nobody}]
  /\ owner \in [Numbers -> Requests \cup {"gate", "foreign", Nobody}]
  /\ guard \in {Nobody} \cup [inode : Inodes, fingerprint : Fingerprints, digest : Contents]
  /\ verified \subseteq Fingerprints
  /\ guardLock \in Requests \cup {Nobody}
  /\ openLock \in Requests \cup {Nobody}
  /\ at \in [Requests -> Places]
  /\ round \in [Requests -> 1..Rounds]
  /\ first \in [Requests -> Fingerprints \cup {Nobody}]
  /\ key \in [Requests -> Fingerprints \cup {Nobody}]
  /\ before \in [Requests -> SUBSET Numbers]
  /\ mine \in [Requests -> Numbers \cup {Nobody}]
  /\ found \in [Requests -> Numbers \cup {Nobody}]
  /\ rows \in [Requests -> SUBSET Contents]
  /\ doubtful \in [Requests -> BOOLEAN]
  /\ disturbed \in [Requests -> BOOLEAN]

\* "cannot make an unapproved inode look authoritative": whatever is switched,
\* restored or rewritten, even between SQLite's look at the link and its open,
\* an answer was computed and verified from approved content only.  The one
\* exception is what two listings cannot tell apart: a connection to another
\* file, while a descriptor of the guard's file came from outside the lock
\* (doubtful).
AnsweredFromApproved == \A r \in Requests : at[r] = "answered" /\ ~doubtful[r] => rows[r] = {Approved}

\* A pinned open that did open the guard's file is refused for want of its
\* descriptor only if a descriptor outside the lock came or went since the
\* listing: pinned connections do not disturb each other.
PinnedOpensDoNotCollide == \A r \in Requests : at[r] = "undiscovered" => disturbed[r]

\* A descriptor of a connection is open exactly while its request works with
\* it, and the gate holds one only for its guard: nothing leaks by a refusal.
NoDescriptorLeaks ==
  /\ \A n \in Numbers : owner[n] \in Requests =>
       at[owner[n]] \in {"matching", "reading", "closing", "failing"} /\ mine[owner[n]] = n
  /\ Cardinality({n \in Numbers : owner[n] = "gate"}) =
       IF guard # Nobody \/ guardLock # Nobody THEN 1 ELSE 0

=============================================================================
