-------------------------- MODULE MCRelationLookup --------------------------
(***************************************************************************)
(* Instances of RelationLookup for TLC: two releases of the code over one  *)
(* data volume.                                                            *)
(***************************************************************************)
EXTENDS RelationLookup, TLC

CONSTANTS r1, r2

=============================================================================
