------------------------------- MODULE MCTcpLink -------------------------------
(* Server and client; the bounds are in the .cfg files. *)
EXTENDS TcpLink
===============================================================================
