----------------------------- MODULE LayerStates -----------------------------
(***************************************************************************)
(* canopen::Layer::LayerState.  The code compares these states with < and  *)
(* >, so they keep the numbers of the C++ enumeration.  Two of its names   *)
(* (Init and Error) get a suffix, because Init is the initial predicate.   *)
(***************************************************************************)
EXTENDS Naturals

Off        == 0
InitState  == 1
Shutdown   == 2
ErrorState == 3
HaltState  == 4
Recover    == 5
Ready      == 6

LayerState == Off .. Ready

==============================================================================
