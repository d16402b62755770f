---------------------------- MODULE MCAuditTrail ----------------------------
(***************************************************************************)
(* Instances of AuditTrail for TLC: two GETs that may share a worker, and  *)
(* a GET next to a POST.                                                   *)
(***************************************************************************)
EXTENDS AuditTrail, TLC

CONSTANTS a1, a2

MCSymmetry == Permutations({a1, a2})

=============================================================================
