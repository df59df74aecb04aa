------------------------------ MODULE MCSyncNode ------------------------------
(* Two nodes on the bus: one is ignored, or one is monitored. *)
EXTENDS SyncNode

SmallSetups == {[ignored |-> {2}, monitored |-> {}], [ignored |-> {}, monitored |-> {1}]}
===============================================================================
