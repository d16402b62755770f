------------------------ MODULE MCReleaseActivation ------------------------
(***************************************************************************)
(* Instances of ReleaseActivation for TLC: a bootstrap Binding, two rivals *)
(* of the second generation that pin it, and a third generation that pins  *)
(* one of them.                                                            *)
(***************************************************************************)
EXTENDS ReleaseActivation, TLC

CONSTANTS b1, b2, rival, b3

MCGeneration == (b1 :> 1) @@ (b2 :> 2) @@ (rival :> 2) @@ (b3 :> 3)
MCPinned == (b1 :> None) @@ (b2 :> b1) @@ (rival :> b1) @@ (b3 :> b2)

=============================================================================
