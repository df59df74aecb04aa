------------------------------- MODULE SyncNode -------------------------------
(***************************************************************************)
(* canopen_sync_node: a LayerStack of a CANLayer and a BCMsync on one      *)
(* SocketCAN driver.  Its main thread is a timer's: a tick reads the stack *)
(* and initialises or recovers it, and waits for the driver's threads      *)
(* meanwhile.  Frames reach the BCMsync in the driver's threads.           *)
(*                                                                         *)
(* One call of a layer's handler is a step, or several where the driver's  *)
(* threads make a difference in between.                                   *)
(***************************************************************************)
EXTENDS LayerStates, SocketCan, BcmSync

VARIABLES
  layers,  \* Layer::state of the stack and its two layers
  main,    \* the main thread: its pc, what it is doing (cmd), LayerStatus is an error
  lost,    \* history: stop() was called before the run thread's reset()
  early    \* history: a BCMsync that was halted and not yet recovered started SYNC,
           \* and has it running since

vars == <<driverVars, bcmVars, layers, main, lost, early>>

Resting == [pc |-> "idle", cmd |-> "none", error |-> FALSE]

Init ==
  /\ InitDriver /\ InitBcm
  /\ layers = [stack |-> Off, can |-> Off, bcm |-> Off]
  /\ main = Resting
  /\ lost = FALSE /\ early = FALSE

TypeOK ==
  /\ DriverTypeOK /\ BcmTypeOK
  /\ layers \in [{"stack", "can", "bcm"} -> {Off, ErrorState, Ready}]
  /\ main.pc \in {"idle", "halt", "diag", "recover", "unlisten", "close", "stop",
                  "join", "open", "waitReady", "drop", "bcm", "haltBcm"}
  /\ main.cmd \in {"none", "init", "abort", "recover"} /\ main.error \in BOOLEAN
  /\ lost \in BOOLEAN /\ early \in BOOLEAN

isReady == driver_state = "ready"

At(pc) == main.pc = pc

GoOn(pc) == main' = [main EXCEPT !.pc = pc]

AllLayers(s) == layers' = [l \in DOMAIN layers |-> s]

-------------------------------------------------------------------------------
(* report_diagnostics                                                      *)

\* The stack is Off: init.  Else the layers are read.
Tick ==
  /\ At("idle")
  /\ IF layers.stack = Off
     THEN main' = [pc |-> "open", cmd |-> "init", error |-> FALSE]
     ELSE main' = [pc |-> IF isReady THEN "diag" ELSE "halt", cmd |-> "none",
                   error |-> ~isReady]
  /\ UNCHANGED <<driverVars, bcmVars, layers, lost, early>>

\* call_or_fail: the layers and the stack itself are halted.
HaltLayers ==
  /\ At("halt") /\ GoOn("diag")
  /\ IF layers.bcm > HaltState
     THEN handleHalt /\ early' = FALSE
     ELSE UNCHANGED <<bcmVars, early>>
  /\ AllLayers(ErrorState)
  /\ UNCHANGED <<driverVars, lost>>

\* handleDiag of the CAN layer looks again; an error has the stack recover, which
\* it only does when it has been halted.
Diag ==
  /\ At("diag")
  /\ main' = IF (main.error \/ ~isReady) /\ layers.stack = ErrorState
             THEN [pc |-> "recover", cmd |-> "recover", error |-> FALSE]
             ELSE Resting
  /\ UNCHANGED <<driverVars, bcmVars, layers, lost, early>>

-------------------------------------------------------------------------------
(* CANLayer                                                                *)

\* handleRecover: nothing is done when the driver is ready.
RecoverCan ==
  /\ At("recover")
  /\ IF isReady
     THEN GoOn("drop") /\ layers' = [layers EXCEPT !.can = Ready]
     ELSE GoOn("unlisten") /\ UNCHANGED layers
  /\ UNCHANGED <<driverVars, bcmVars, lost, early>>

\* handleShutdown: the error listener is removed from the dispatcher, ...
DropErrorListener ==
  /\ At("unlisten") /\ ~Dispatching /\ GoOn("close")
  /\ UNCHANGED <<driverVars, bcmVars, layers, lost, early>>

\* ... the driver is shut down, ...
ShutdownDriver ==
  /\ \/ At("close") /\ CloseSocket /\ GoOn("stop")
     \/ At("stop") /\ StopIo /\ GoOn("join")
  /\ UNCHANGED <<bcmVars, layers, lost, early>>

\* ... and its thread is joined.  (The wait for State::closed only warns.)
Join ==
  /\ At("join") /\ io["run"].pc = "none"
  /\ IF main.cmd = "recover"
     THEN GoOn("open") /\ UNCHANGED layers
     ELSE main' = Resting /\ AllLayers(Off)
  /\ UNCHANGED <<driverVars, bcmVars, lost, early>>

\* Layer::init shuts down what it could not initialise, Layer::recover halts it.
CanFails ==
  IF main.cmd = "init"
  THEN main' = [main EXCEPT !.pc = "unlisten", !.cmd = "abort"] /\ UNCHANGED layers
  ELSE main' = Resting /\ AllLayers(ErrorState)

\* handleInit.
OpenDriver ==
  /\ At("open")
  /\ \/ Opens /\ GoOn("waitReady") /\ UNCHANGED layers
     \/ UNCHANGED driverVars /\ CanFails
  /\ UNCHANGED <<bcmVars, lost, early>>

\* The driver is ready, or one second has passed or the second look finds that it
\* is so no more.  The BCMsync is next.
WaitReady ==
  /\ At("waitReady")
  /\ IF isReady
     THEN /\ layers' = [layers EXCEPT !.can = Ready]
          /\ GoOn(IF main.cmd = "init" THEN "bcm" ELSE "drop")
     ELSE CanFails
  /\ UNCHANGED <<driverVars, bcmVars, lost, early>>

CanLayer ==
  RecoverCan \/ DropErrorListener \/ ShutdownDriver \/ Join \/ OpenDriver \/ WaitReady

-------------------------------------------------------------------------------
(* BCMsync                                                                 *)

\* handleShutdown holds mutex_ ("drop") and needs the dispatcher's mutex to remove
\* its listener, if it has one.
DropListener ==
  /\ At("drop") /\ (listening => ~Dispatching) /\ GoOn("bcm")
  /\ handleShutdown
  /\ UNCHANGED <<driverVars, layers, lost, early>>

\* MUTANT of InitBcmLayer: a BCM socket that cannot be opened is a warning.
InitBcmLayerWarns ==
  /\ At("bcm")
  /\ \E status \in {"ok", "warn", "error"} :
       /\ handleInit(status)
       /\ main' = Resting /\ AllLayers(Ready)
  /\ UNCHANGED <<driverVars, lost, early>>

InitBcmLayer ==
  /\ At("bcm")
  /\ \E status \in {"ok", "warn", "error"} :
       \/ /\ status # "error" /\ handleInit(status)
          /\ main' = Resting /\ AllLayers(Ready)
       \/ /\ status = "error" /\ main.cmd = "init" /\ handleInit(status)
          /\ main' = [main EXCEPT !.pc = "unlisten", !.cmd = "abort"]
          /\ UNCHANGED layers
       \/ /\ status = "error" /\ main.cmd = "recover" /\ handleInit(status)
          /\ main' = [main EXCEPT !.pc = "haltBcm"]
          /\ UNCHANGED layers
  /\ UNCHANGED <<driverVars, lost, early>>

\* A BCMsync that could not recover is halted, and all layers with it.
HaltBcm ==
  /\ At("haltBcm") /\ handleHalt
  /\ main' = Resting /\ AllLayers(ErrorState)
  /\ early' = FALSE
  /\ UNCHANGED <<driverVars, lost>>

Main == Tick \/ HaltLayers \/ Diag \/ CanLayer \/ DropListener \/ InitBcmLayer \/ HaltBcm

-------------------------------------------------------------------------------
(* The driver's threads                                                    *)

\* A frame is handled under mutex_, which the main thread keeps in "drop".
HandleFrame(t) ==
  /\ io[t].pc = "call" /\ ~At("drop")
  /\ \E f \in Frames : handleFrame(f)
  /\ early' = (sync_running' /\ (early \/ (layers.bcm # Ready /\ ~sync_running)))
  /\ Goto(t, "work")
  /\ UNCHANGED <<driver_state, socket, reading, completed, posted, stopped, layers, main, lost>>

RunThread ==
  \/ /\ RunReset
     /\ lost' = (lost \/ At("join"))
     /\ UNCHANGED <<bcmVars, layers, main, early>>
  \/ /\ RunStart \/ RunReady \/ RunPost \/ RunTrigger \/ RunLeft
     /\ UNCHANGED <<bcmVars, layers, main, lost, early>>

IoThread(t) ==
  \/ /\ Leave(t) \/ ReadFrame(t) \/ ReadError(t) \/ SetNotReady(t) \/ TakePosted(t, listening)
     /\ UNCHANGED <<bcmVars, layers, main, lost, early>>
  \/ HandleFrame(t)
  \/ t = "run" /\ RunThread

Bus == BusFrame /\ UNCHANGED <<bcmVars, layers, main, lost, early>>

Next == Main \/ (\E t \in IoThreads : IoThread(t)) \/ Bus

Spec == Init /\ [][Next]_vars

FairSpec ==
  /\ Spec /\ SF_vars(Main)
  /\ \A t \in IoThreads : WF_vars(IoThread(t))

-------------------------------------------------------------------------------
(* What holds                                                              *)

\* A driver that says ready listens to the bus: a read waits, has completed or is
\* being handled, or the driver's thread is about to start the first one.
ReadyIsListening ==
  isReady => \/ reading > 0 \/ completed # << >>
             \/ \E t \in IoThreads : io[t].pc \in {"set", "post", "trigger"}

\* A stack that is Ready is served: the driver's thread runs, both layers are
\* Ready and the kernel can be told to send SYNC.
ReadyIsServed ==
  At("idle") /\ layers.stack = Ready =>
    layers.can = Ready /\ layers.bcm = Ready /\ bcm_socket /\ io["run"].pc # "none"

\* The kernel sends SYNC while a node is started, and the layer knows whether it
\* does.  A write to the kernel that fails leaves them apart, and only so: the kernel
\* goes on unknown to the layer after a halt whose write failed, and the layer is
\* not where the nodes are after a frame whose write failed; the next frame that is
\* not ignored sees to it.  A layer that started SYNC between its halt and its recovery
\* loses it with the socket and goes on believing in it, until it is halted again.
SyncFollowsNodes ==
  /\ tx /\ ~sync_running => failed = "halt"
  /\ ~sync_running /\ failed = "no" => started_nodes = {}
  /\ ~early => /\ sync_running => tx
               /\ sync_running /\ failed = "no" => started_nodes # {}

\* The main thread and the strand each wait for the mutex the other has.
Inverted == At("drop") /\ listening /\ Dispatching

\* Every tick ends, except when the two threads wait for each other or the stop of
\* the driver came before its start.
TicksReturn == []<>(At("idle")) \/ <>[](Inverted \/ lost)
===============================================================================
