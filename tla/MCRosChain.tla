------------------------------ MODULE MCRosChain ------------------------------
(* A small stack for TLC; the values are in the .cfg files. *)
EXTENDS RosChain
==============================================================================
