-------------------------- MODULE MCKnowledgeJobs --------------------------
(* The limits of the instance are in the .cfg file. *)
EXTENDS KnowledgeJobs
=============================================================================
