---------------------------- MODULE MCAgentRequest ----------------------------
(***************************************************************************)
(* A public request over two product families.                             *)
(***************************************************************************)
EXTENDS KnowledgeRequest

MCFamilies == <<"etp", "fund">>

=============================================================================
