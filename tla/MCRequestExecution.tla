------------------------- MODULE MCRequestExecution -------------------------
(***************************************************************************)
(* Instances of RequestExecution for TLC.  Three GET calls: duplicates of  *)
(* one key, the same key with another input, a second key.  Two calls of   *)
(* any kind, POST included, for the liveness properties.                   *)
(***************************************************************************)
EXTENDS RequestExecution, TLC

CONSTANTS k1, k2, i1, i2

Get(k, i) == [route |-> "get", key |-> k, input |-> i]

\* Up to the names of keys and inputs, every traffic of three GET calls over
\* two keys: AAA, AA with a conflicting input, AA with another key, and all
\* different.
MCGets ==
  LET A == Get(k1, i1)
      Kinds == {A, Get(k1, i2), Get(k2, i1)}
  IN {t \in [Calls -> Kinds] :
        Cardinality({c \in Calls : t[c] = A}) >= 2 \/ {t[c] : c \in Calls} = Kinds}

MCAll ==
  [Calls -> {Get(k1, i1), Get(k1, i2), Get(k2, i1), [route |-> "post"]}]

CallSymmetry == Permutations(Calls)

=============================================================================
