------------------------------ MODULE MCSafeZone -------------------------------
(* Every polygon on a small grid; the values are in the .cfg files. *)
EXTENDS SafeZone
===============================================================================
