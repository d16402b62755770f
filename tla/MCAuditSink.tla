---------------------------- MODULE MCAuditSink ----------------------------
(***************************************************************************)
(* Instances of AuditSink for TLC: two threads of one invocation, and the  *)
(* event numbers the bounds allow.                                         *)
(***************************************************************************)
EXTENDS AuditSink, TLC

CONSTANTS i1, t1, t2, c1, c2, p1, p2

MCInvocationOf == [t \in Threads |-> i1]

MCSymmetry == Permutations(Threads) \cup Permutations(Closers) \cup Permutations(Pollers)

=============================================================================
