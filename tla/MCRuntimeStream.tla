--------------------------- MODULE MCRuntimeStream ---------------------------
(* The limits of the instances are in the .cfg files. *)
EXTENDS RuntimeStream
=============================================================================
