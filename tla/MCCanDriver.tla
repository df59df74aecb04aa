------------------------------ MODULE MCCanDriver ------------------------------
(* The two threads and the bus; the bounds are in the .cfg files. *)
EXTENDS CanDriver
===============================================================================
