-------------------------------- MODULE MCNode ---------------------------------
(* One node and its device; the bounds are in the .cfg file. *)
EXTENDS Node

\* No heartbeat; one that is configured while the device's default is none; one
\* the device always sends.
Heartbeats == {[heartbeat |-> FALSE, default |-> FALSE],
               [heartbeat |-> TRUE,  default |-> FALSE],
               [heartbeat |-> TRUE,  default |-> TRUE]}
===============================================================================
