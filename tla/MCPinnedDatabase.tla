-------------------------- MODULE MCPinnedDatabase --------------------------
(***************************************************************************)
(* Instances of PinnedDatabase for TLC: two requests, two files, one       *)
(* in-place change, one descriptor outside the lock.                       *)
(***************************************************************************)
EXTENDS PinnedDatabase, TLC

CONSTANTS approved, tampered

MCSymmetry == Permutations(Requests) \cup Permutations(Inodes)

=============================================================================
