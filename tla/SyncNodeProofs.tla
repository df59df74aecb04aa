---------------------------- MODULE SyncNodeProofs ----------------------------
(***************************************************************************)
(* For any nodes, setups and number of threads the kernel sends SYNC while *)
(* a node is started, and the BCMsync knows whether it does; a ready       *)
(* driver listens, a Ready stack is served, and the counts of reads and    *)
(* frames stay within their bounds.                                        *)
(*                                                                         *)
(* SyncFollowsNodes is not inductive: what the layer knows survives a new  *)
(* socket only because it was halted before, and has started SYNC since    *)
(* only early; because the kernel sends only for an open socket; and       *)
(* because no handler runs between the closing of the old socket and the   *)
(* clearing of the started nodes: there is no listener then.               *)
(***************************************************************************)
EXTENDS SyncNode, FiniteSetTheorems, SequenceTheorems, TLAPS

\* The shapes of the variables that the argument looks into.
ThreadShape == DOMAIN io = IoThreads /\ \A t \in IoThreads : "pc" \in DOMAIN io[t]

MainShape == {"pc", "cmd"} \subseteq DOMAIN main

LayerShape == {"stack", "bcm"} \subseteq DOMAIN layers

Shape ==
  /\ ThreadShape /\ MainShape /\ LayerShape
  /\ sync_running \in BOOLEAN /\ bcm_socket \in BOOLEAN /\ listening \in BOOLEAN
  /\ tx \in BOOLEAN /\ early \in BOOLEAN /\ failed \in {"no", "frame", "halt"}

\* A handler runs only while there is a listener, which has a socket; the kernel
\* sends only for a socket.
Served ==
  /\ Dispatching => listening
  /\ listening => bcm_socket
  /\ tx => bcm_socket

\* What each stage of the main thread is part of.
Stages ==
  /\ main.pc \in {"recover", "drop", "haltBcm"} => main.cmd = "recover"
  /\ main.pc \in {"unlisten", "close", "stop", "join"} => main.cmd \in {"abort", "recover"}
  /\ main.pc \in {"open", "waitReady", "bcm"} => main.cmd \in {"init", "recover"}
  /\ main.cmd = "recover" => layers.stack = ErrorState
  /\ main.cmd \in {"init", "abort"} => layers.stack = Off
  /\ main.pc \in {"idle", "halt", "diag"} => main.cmd = "none"
  /\ layers.bcm = layers.stack

\* There is neither socket nor listener before the BCMsync is initialised.
Closed ==
  main.cmd \in {"init", "abort"} \/ layers.stack = Off \/ At("bcm") =>
    ~bcm_socket /\ ~listening

\* A halted layer has SYNC running only if it started it after the halt.
HaltedRests == layers.bcm # Ready /\ sync_running => early

IInv == Shape /\ Served /\ Stages /\ Closed /\ HaltedRests /\ SyncFollowsNodes

-------------------------------------------------------------------------------

\* The invariant looks at the driver only for threads that are in a handler.
LEMMA DriverStep ==
  ASSUME IInv, UNCHANGED <<bcmVars, layers, main, early>>, ThreadShape', Dispatching' => listening
  PROVE  IInv'
<1>1. Shape' /\ Served'
  BY DEF IInv, Shape, MainShape, LayerShape, Served, bcmVars
<1>2. Stages' /\ Closed' /\ HaltedRests' /\ SyncFollowsNodes'
  BY DEF IInv, Stages, Closed, At, HaltedRests, SyncFollowsNodes, bcmVars, nodeVars
<1> QED
  BY <1>1, <1>2 DEF IInv

\* A thread that goes on elsewhere than into a handler leaves no handler behind.
LEMMA GotoShape ==
  ASSUME Shape, NEW t \in IoThreads, NEW pc, Goto(t, pc)
  PROVE  ThreadShape' /\ (pc # "call" => (Dispatching' => Dispatching))
BY DEF Shape, ThreadShape, Goto, Idle, Dispatching

LEMMA RunIsThread == "run" \in IoThreads
BY DEF IoThreads

LEMMA InitIInv == Init => IInv
<1> SUFFICES ASSUME Init PROVE IInv
  OBVIOUS
<1>1. Shape
  BY DEF Init, InitDriver, InitBcm, Shape, ThreadShape, MainShape, LayerShape, Resting, Idle
<1>2. ~Dispatching
  BY DEF Init, InitDriver, Dispatching, Idle
<1>3. Served /\ Closed /\ HaltedRests
  BY <1>2 DEF Init, InitBcm, Served, Closed, HaltedRests
<1>4. Stages
  BY DEF Init, Resting, Stages
<1>5. SyncFollowsNodes
  BY DEF Init, InitBcm, SyncFollowsNodes
<1> QED
  BY <1>1, <1>3, <1>4, <1>5 DEF IInv

-------------------------------------------------------------------------------
(* The main thread                                                         *)

\* A step that leaves the BCMsync and the threads alone.
LEMMA MainStep ==
  ASSUME IInv, UNCHANGED <<bcmVars, io, early>>, MainShape', LayerShape', Stages', Closed',
         layers'.bcm = layers.bcm \/ layers.bcm # Ready
  PROVE  IInv'
<1>1. Shape' /\ Served' /\ HaltedRests'
  BY DEF IInv, Shape, ThreadShape, Served, HaltedRests, bcmVars, Dispatching
<1>2. SyncFollowsNodes'
  BY DEF IInv, SyncFollowsNodes, bcmVars, nodeVars
<1> QED
  BY <1>1, <1>2 DEF IInv

LEMMA GoOnShape ==
  ASSUME Shape, NEW pc, GoOn(pc)
  PROVE  MainShape' /\ main'.pc = pc /\ main'.cmd = main.cmd
BY DEF Shape, MainShape, GoOn

LEMMA AllLayersShape ==
  ASSUME Shape, NEW s, AllLayers(s)
  PROVE  LayerShape' /\ layers'.stack = s /\ layers'.bcm = s
BY DEF Shape, LayerShape, AllLayers

LEMMA TickStep == ASSUME IInv, Tick PROVE IInv'
<1> USE DEF Tick, At
<1>1. MainShape' /\ LayerShape'
  BY DEF IInv, Shape, MainShape, LayerShape
<1>2. Stages'
  BY DEF IInv, Stages, Off, ErrorState
<1>3. Closed'
  BY DEF IInv, Closed, bcmVars
<1> QED
  BY <1>1, <1>2, <1>3, MainStep DEF driverVars

LEMMA DiagStep == ASSUME IInv, Diag PROVE IInv'
<1> USE DEF Diag, At, Resting
<1>1. MainShape' /\ LayerShape'
  BY DEF IInv, Shape, MainShape, LayerShape
<1>2. Stages'
  BY DEF IInv, Stages
<1>3. Closed'
  BY DEF IInv, Closed, bcmVars, Off, ErrorState
<1> QED
  BY <1>1, <1>2, <1>3, MainStep DEF driverVars

LEMMA CanFailsStep ==
  ASSUME IInv, UNCHANGED <<bcmVars, io, early>>, CanFails, main.cmd \in {"init", "recover"}
  PROVE  IInv'
<1> USE DEF CanFails
<1>1. CASE main.cmd = "init"
  <2>1. MainShape' /\ LayerShape' /\ Stages' /\ Closed'
    BY <1>1 DEF IInv, Shape, MainShape, LayerShape, Stages, Closed, At, bcmVars, ErrorState
  <2> QED
    BY <1>1, <2>1, MainStep
<1>2. CASE main.cmd = "recover"
  <2>1. MainShape' /\ main'.pc = "idle" /\ main'.cmd = "none" /\ AllLayers(ErrorState)
    BY <1>2 DEF MainShape, Resting
  <2>2. LayerShape' /\ layers'.stack = ErrorState /\ layers'.bcm = ErrorState
    BY <2>1, AllLayersShape DEF IInv
  <2>3. Stages' /\ Closed'
    BY <2>1, <2>2 DEF Stages, Closed, At, Off, ErrorState
  <2>4. layers.bcm # Ready
    BY <1>2 DEF IInv, Stages, ErrorState, Ready
  <2> QED
    BY <2>1, <2>2, <2>3, <2>4, MainStep
<1> QED
  BY <1>1, <1>2

LEMMA CanLayerStep == ASSUME IInv, CanLayer PROVE IInv'
<1> USE DEF At
<1>1. CASE RecoverCan
  <2>1. MainShape' /\ main'.pc \in {"drop", "unlisten"} /\ main'.cmd = main.cmd
    BY <1>1, GoOnShape DEF RecoverCan, IInv
  <2>2. LayerShape' /\ layers'.stack = layers.stack /\ layers'.bcm = layers.bcm
    BY <1>1 DEF RecoverCan, IInv, Shape, LayerShape
  <2>3. Stages' /\ Closed'
    BY <1>1, <2>1, <2>2 DEF RecoverCan, IInv, Stages, Closed, bcmVars
  <2> QED
    BY <1>1, <2>1, <2>2, <2>3, MainStep DEF RecoverCan, driverVars
<1>2. CASE DropErrorListener
  <2>1. MainShape' /\ main'.pc = "close" /\ main'.cmd = main.cmd
    BY <1>2, GoOnShape DEF DropErrorListener, IInv
  <2>2. LayerShape' /\ Stages' /\ Closed'
    BY <1>2, <2>1 DEF DropErrorListener, IInv, Shape, LayerShape, Stages, Closed, bcmVars
  <2> QED
    BY <1>2, <2>1, <2>2, MainStep DEF DropErrorListener, driverVars
<1>3. CASE ShutdownDriver
  <2>1. MainShape' /\ main'.pc \in {"stop", "join"} /\ main'.cmd = main.cmd
    BY <1>3, GoOnShape DEF ShutdownDriver, IInv
  <2>2. UNCHANGED <<bcmVars, io, layers, early>> /\ main.pc \in {"close", "stop"}
    BY <1>3 DEF ShutdownDriver, CloseSocket, StopIo
  <2>3. LayerShape' /\ Stages' /\ Closed'
    BY <2>1, <2>2 DEF IInv, Shape, LayerShape, Stages, Closed, bcmVars
  <2> QED
    BY <2>1, <2>2, <2>3, MainStep
<1>4. CASE Join
  <2>0. UNCHANGED <<bcmVars, io, early>> /\ main.pc = "join" /\ main.cmd \in {"abort", "recover"}
    BY <1>4 DEF Join, driverVars, IInv, Stages
  <2>1. CASE main.cmd = "recover"
    <3>1. MainShape' /\ main'.pc = "open" /\ main'.cmd = main.cmd /\ UNCHANGED layers
      BY <1>4, <2>1, GoOnShape DEF Join, IInv
    <3>2. LayerShape' /\ Stages' /\ Closed'
      BY <2>0, <2>1, <3>1 DEF IInv, Shape, LayerShape, Stages, Closed, bcmVars
    <3> QED
      BY <2>0, <3>1, <3>2, MainStep
  <2>2. CASE main.cmd = "abort"
    <3>1. MainShape' /\ main'.pc = "idle" /\ main'.cmd = "none" /\ AllLayers(Off)
      BY <1>4, <2>2 DEF Join, MainShape, Resting
    <3>2. LayerShape' /\ Stages' /\ Closed'
      BY <2>0, <2>2, <3>1, AllLayersShape DEF IInv, Stages, Closed, bcmVars
    <3>3. layers.bcm # Ready
      BY <2>2 DEF IInv, Stages, Off, Ready
    <3> QED
      BY <2>0, <3>1, <3>2, <3>3, MainStep
  <2> QED
    BY <2>0, <2>1, <2>2
<1>5. CASE OpenDriver
  <2>0. UNCHANGED <<bcmVars, early>> /\ main.pc = "open" /\ main.cmd \in {"init", "recover"}
    BY <1>5 DEF OpenDriver, IInv, Stages
  <2>1. CASE Opens /\ GoOn("waitReady") /\ UNCHANGED layers
    <3>1. MainShape' /\ main'.pc = "waitReady" /\ main'.cmd = main.cmd
      BY <2>1, GoOnShape DEF IInv
    <3>2. ThreadShape' /\ (Dispatching' => Dispatching)
      BY <2>1, GotoShape, RunIsThread DEF Opens, IInv
    <3>3. Shape' /\ Served'
      BY <2>0, <2>1, <3>1, <3>2 DEF IInv, Shape, LayerShape, Served, bcmVars
    <3>4. Stages' /\ Closed' /\ HaltedRests' /\ SyncFollowsNodes'
      BY <2>0, <2>1, <3>1 DEF IInv, Stages, Closed, HaltedRests, SyncFollowsNodes, bcmVars, nodeVars
    <3> QED
      BY <3>3, <3>4 DEF IInv
  <2>2. CASE UNCHANGED driverVars /\ CanFails
    BY <2>0, <2>2, CanFailsStep DEF driverVars
  <2> QED
    BY <1>5, <2>1, <2>2 DEF OpenDriver
<1>6. CASE WaitReady
  <2>0. UNCHANGED <<bcmVars, io, early>> /\ main.pc = "waitReady" /\ main.cmd \in {"init", "recover"}
    BY <1>6 DEF WaitReady, driverVars, IInv, Stages
  <2>1. CASE isReady
    <3>1. /\ MainShape' /\ main'.cmd = main.cmd
          /\ main'.pc = IF main.cmd = "init" THEN "bcm" ELSE "drop"
      BY <1>6, <2>1, GoOnShape DEF WaitReady, IInv
    <3>2. LayerShape' /\ layers'.stack = layers.stack /\ layers'.bcm = layers.bcm
      BY <1>6, <2>1 DEF WaitReady, IInv, Shape, LayerShape
    <3>3. Stages' /\ Closed'
      BY <2>0, <3>1, <3>2 DEF IInv, Stages, Closed, bcmVars
    <3> QED
      BY <2>0, <3>1, <3>2, <3>3, MainStep
  <2>2. CASE ~isReady
    BY <1>6, <2>0, <2>2, CanFailsStep DEF WaitReady
  <2> QED
    BY <2>1, <2>2
<1> QED
  BY <1>1, <1>2, <1>3, <1>4, <1>5, <1>6 DEF CanLayer

-------------------------------------------------------------------------------
(* The BCMsync                                                             *)

\* handleHalt clears what SYNC was for, and knows of a failed write what the kernel
\* does.
LEMMA HaltKeeps ==
  ASSUME IInv, handleHalt, UNCHANGED io, early' \in BOOLEAN
  PROVE  /\ Served' /\ SyncFollowsNodes' /\ sync_running' = FALSE
         /\ UNCHANGED <<bcm_socket, listening>>
         /\ tx' \in BOOLEAN /\ failed' \in {"no", "frame", "halt"}
<1>1. CASE ~sync_running /\ UNCHANGED bcmVars
  BY <1>1 DEF IInv, Shape, Served, SyncFollowsNodes, Dispatching, bcmVars, nodeVars
<1>2. CASE sync_running /\ ~(~sync_running /\ UNCHANGED bcmVars)
  <2>1. /\ sync_running' = FALSE /\ started_nodes' = {} /\ UNCHANGED <<bcm_socket, listening>>
        /\ failed' = IF tx' THEN "halt" ELSE "no"
        /\ \E ok \in BOOLEAN : (ok => bcm_socket /\ tx) /\ tx' = (tx /\ ~ok)
    BY <1>2 DEF handleHalt, StopTX
  <2>2. tx' \in BOOLEAN /\ (tx' => tx)
    BY <2>1 DEF IInv, Shape
  <2>3. Served'
    BY <2>1, <2>2 DEF IInv, Served, Dispatching
  <2>4. SyncFollowsNodes'
    BY <2>1, <2>2 DEF SyncFollowsNodes
  <2> QED
    BY <2>1, <2>2, <2>3, <2>4
<1> QED
  BY <1>1, <1>2 DEF handleHalt

LEMMA HaltLayersStep == ASSUME IInv, HaltLayers PROVE IInv'
<1> USE DEF At
<1>1. MainShape' /\ main'.pc = "diag" /\ main'.cmd = main.cmd
  BY GoOnShape DEF HaltLayers, IInv
<1>2. LayerShape' /\ layers'.stack = ErrorState /\ layers'.bcm = ErrorState
  BY AllLayersShape DEF HaltLayers, IInv
<1>3. /\ Served' /\ HaltedRests' /\ SyncFollowsNodes'
      /\ UNCHANGED <<bcm_socket, listening, io>>
      /\ {sync_running', tx', early'} \subseteq BOOLEAN /\ failed' \in {"no", "frame", "halt"}
  <2>0. UNCHANGED io
    BY DEF HaltLayers, driverVars
  <2>1. CASE handleHalt /\ early' = FALSE
    BY <2>0, <2>1, HaltKeeps DEF HaltedRests
  <2>2. CASE ~(layers.bcm > HaltState) /\ UNCHANGED <<bcmVars, early>>
    <3>1. layers.bcm # Ready
      BY <2>2 DEF Ready, HaltState
    <3> QED
      BY <2>0, <2>2, <3>1 DEF IInv, Shape, Served, HaltedRests, SyncFollowsNodes,
         Dispatching, bcmVars, nodeVars
  <2> QED
    BY <2>1, <2>2 DEF HaltLayers
<1>4. main.cmd = main'.cmd /\ main.pc = "halt"
  BY <1>1 DEF HaltLayers
<1>5. main.cmd = "none"
  BY <1>4 DEF IInv, Stages
<1>6. Shape' /\ Stages' /\ Closed'
  BY <1>1, <1>2, <1>3, <1>5 DEF IInv, Shape, ThreadShape, Stages, Closed, ErrorState, Off
<1> QED
  BY <1>3, <1>6 DEF IInv

LEMMA HaltBcmStep == ASSUME IInv, HaltBcm PROVE IInv'
<1> USE DEF At
<1>1. MainShape' /\ main'.pc = "idle" /\ main'.cmd = "none"
  BY DEF HaltBcm, MainShape, Resting
<1>2. LayerShape' /\ layers'.stack = ErrorState /\ layers'.bcm = ErrorState
  BY AllLayersShape DEF HaltBcm, IInv
<1>3. /\ Served' /\ HaltedRests' /\ SyncFollowsNodes'
      /\ UNCHANGED <<bcm_socket, listening, io>>
      /\ {sync_running', tx', early'} \subseteq BOOLEAN /\ failed' \in {"no", "frame", "halt"}
  BY HaltKeeps DEF HaltBcm, driverVars, HaltedRests
<1>4. Shape' /\ Stages' /\ Closed'
  BY <1>1, <1>2, <1>3 DEF IInv, Shape, ThreadShape, Stages, Closed, ErrorState, Off
<1> QED
  BY <1>3, <1>4 DEF IInv

LEMMA DropListenerStep == ASSUME IInv, DropListener PROVE IInv'
<1> USE DEF At
<1>1. MainShape' /\ main'.pc = "bcm" /\ main'.cmd = main.cmd /\ main.cmd = "recover"
  BY GoOnShape DEF DropListener, IInv, Stages
<1>2. /\ listening' = FALSE /\ bcm_socket' = FALSE /\ tx' = FALSE
      /\ UNCHANGED <<started_nodes, sync_running, failed, early, io, layers>>
  BY DEF DropListener, handleShutdown, driverVars, nodeVars
<1>3. ~Dispatching'
  BY <1>2 DEF DropListener, IInv, Served, Dispatching
<1>4. Shape' /\ Served'
  BY <1>1, <1>2, <1>3 DEF IInv, Shape, ThreadShape, LayerShape, Served
<1>5. Stages' /\ Closed' /\ HaltedRests'
  BY <1>1, <1>2 DEF IInv, Stages, Closed, HaltedRests
<1>6. sync_running => early
  BY <1>1 DEF IInv, Stages, HaltedRests, ErrorState, Ready
<1>7. SyncFollowsNodes'
  BY <1>2, <1>6 DEF IInv, SyncFollowsNodes
<1> QED
  BY <1>4, <1>5, <1>7 DEF IInv

LEMMA InitBcmLayerStep == ASSUME IInv, InitBcmLayer PROVE IInv'
<1> USE DEF At
<1>1. PICK status \in {"ok", "warn", "error"} :
        /\ handleInit(status)
        /\ \/ status # "error" /\ main' = Resting /\ AllLayers(Ready)
           \/ /\ status = "error" /\ main.cmd = "init" /\ UNCHANGED layers
              /\ main' = [main EXCEPT !.pc = "unlisten", !.cmd = "abort"]
           \/ /\ status = "error" /\ main.cmd = "recover" /\ UNCHANGED layers
              /\ main' = [main EXCEPT !.pc = "haltBcm"]
  BY DEF InitBcmLayer
<1>2. /\ started_nodes' = {} /\ bcm_socket' = (status # "error") /\ listening' = (status = "ok")
      /\ failed' = "no" /\ UNCHANGED <<sync_running, tx, early, io>>
  BY <1>1 DEF handleInit, InitBcmLayer, driverVars
<1>3. ~listening /\ ~tx /\ ~Dispatching'
  BY <1>2 DEF InitBcmLayer, IInv, Closed, Served, Dispatching
<1>4. MainShape' /\ LayerShape'
  BY <1>1, AllLayersShape DEF IInv, Shape, MainShape, LayerShape, Resting
<1>5. Shape' /\ Served'
  BY <1>2, <1>3, <1>4 DEF IInv, Shape, ThreadShape, Served
<1>6. Stages' /\ Closed' /\ HaltedRests'
  <2>1. CASE status # "error"
    <3>1. /\ main'.pc = "idle" /\ main'.cmd = "none"
          /\ layers'.stack = Ready /\ layers'.bcm = Ready
      BY <1>1, <2>1, AllLayersShape DEF Resting, IInv
    <3> QED
      BY <3>1 DEF Stages, Closed, HaltedRests, Ready, Off
  <2>2. CASE status = "error"
    BY <1>1, <1>2, <2>2 DEF IInv, Shape, MainShape, Stages, Closed, HaltedRests
  <2> QED
    BY <2>1, <2>2
<1>7. SyncFollowsNodes'
  <2>1. sync_running => early
    BY DEF InitBcmLayer, IInv, Stages, HaltedRests, ErrorState, Off, Ready
  <2> QED
    BY <1>2, <1>3, <2>1 DEF SyncFollowsNodes
<1> QED
  BY <1>5, <1>6, <1>7 DEF IInv

-------------------------------------------------------------------------------
(* The driver's threads                                                    *)

\* SYNC that is running after a frame was running before, or was started by it; only
\* what a halted layer starts is early.
FrameIsEarly ==
  early' = (sync_running' /\ (early \/ (layers.bcm # Ready /\ ~sync_running)))

\* Toggle leaves layer and kernel where the nodes are, or remembers the failed write.
LEMMA ToggleFollows ==
  ASSUME IInv, FrameIsEarly, UNCHANGED bcm_socket, Toggle(started_nodes')
  PROVE  /\ SyncFollowsNodes' /\ (tx' => bcm_socket)
         /\ {sync_running', tx'} \subseteq BOOLEAN /\ failed' \in {"no", "frame", "halt"}
<1>0. /\ {sync_running, tx, early} \subseteq BOOLEAN /\ failed \in {"no", "frame", "halt"}
      /\ tx => bcm_socket
  BY DEF IInv, Shape, Served
<1>1. CASE /\ (started_nodes' # {}) = sync_running /\ UNCHANGED <<tx, sync_running>>
           /\ failed' = IF failed = "halt" THEN failed ELSE "no"
  BY <1>0, <1>1 DEF IInv, SyncFollowsNodes, FrameIsEarly
<1>2. ASSUME NEW ok \in BOOLEAN,
             started_nodes' = {}, sync_running, StopTX(ok), sync_running' = ~ok,
             failed' = IF ok THEN "no" ELSE IF failed = "halt" THEN failed ELSE "frame"
      PROVE  /\ SyncFollowsNodes' /\ (tx' => bcm_socket)
             /\ {sync_running', tx'} \subseteq BOOLEAN /\ failed' \in {"no", "frame", "halt"}
  <2>1. CASE ok
    <3>1. tx' = FALSE /\ sync_running' = FALSE /\ failed' = "no"
      BY <1>0, <1>2, <2>1 DEF StopTX
    <3> QED
      BY <1>2, <3>1 DEF SyncFollowsNodes
  <2>2. CASE ~ok
    <3>1. tx' = tx /\ sync_running' = TRUE /\ failed' # "no" /\ failed' \in {"frame", "halt"}
      BY <1>0, <1>2, <2>2 DEF StopTX
    <3>2. early' = early
      BY <1>0, <1>2, <3>1 DEF FrameIsEarly
    <3>3. ~early => tx
      BY <1>2 DEF IInv, SyncFollowsNodes
    <3> QED
      BY <1>0, <3>1, <3>2, <3>3 DEF SyncFollowsNodes
  <2> QED
    BY <2>1, <2>2
<1>3. ASSUME NEW ok \in BOOLEAN,
             started_nodes' # {}, ~sync_running, StartTX(ok), sync_running' = ok,
             failed' = IF ok THEN "no" ELSE IF failed = "halt" THEN failed ELSE "frame"
      PROVE  /\ SyncFollowsNodes' /\ (tx' => bcm_socket)
             /\ {sync_running', tx'} \subseteq BOOLEAN /\ failed' \in {"no", "frame", "halt"}
  <2>1. CASE ok
    <3>1. tx' = TRUE /\ sync_running' = TRUE /\ failed' = "no" /\ bcm_socket
      BY <1>0, <1>3, <2>1 DEF StartTX
    <3> QED
      BY <1>3, <3>1 DEF SyncFollowsNodes
  <2>2. CASE ~ok
    <3>1. tx' = tx /\ sync_running' = FALSE /\ failed' = IF failed = "halt" THEN failed ELSE "frame"
      BY <1>0, <1>3, <2>2 DEF StartTX
    <3>2. tx => failed = "halt"
      BY <1>3 DEF IInv, SyncFollowsNodes
    <3> QED
      BY <1>0, <3>1, <3>2 DEF SyncFollowsNodes
  <2> QED
    BY <2>1, <2>2
<1> QED
  BY <1>1, <1>2, <1>3 DEF Toggle

LEMMA HandleFrameStep ==
  ASSUME IInv, NEW t \in IoThreads, HandleFrame(t)
  PROVE  IInv'
<1>1. listening
  BY DEF HandleFrame, IInv, Served, Dispatching
<1>2. UNCHANGED <<bcm_socket, listening, layers, main>> /\ FrameIsEarly
  BY DEF HandleFrame, handleFrame, FrameIsEarly
<1>3. ThreadShape'
  BY GotoShape DEF HandleFrame, IInv
<1>4. /\ SyncFollowsNodes' /\ (tx' => bcm_socket)
      /\ {sync_running', tx'} \subseteq BOOLEAN /\ failed' \in {"no", "frame", "halt"}
  <2>1. CASE UNCHANGED <<nodeVars, tx, sync_running, failed>>
    BY <1>2, <2>1 DEF IInv, Shape, Served, SyncFollowsNodes, FrameIsEarly, nodeVars
  <2>2. CASE Toggle(started_nodes')
    BY <1>2, <2>2, ToggleFollows
  <2> QED
    BY <2>1, <2>2 DEF HandleFrame, handleFrame
<1>5. early' \in BOOLEAN /\ HaltedRests'
  BY <1>2, <1>4 DEF IInv, Shape, FrameIsEarly, HaltedRests
<1>6. Shape' /\ Served'
  BY <1>1, <1>2, <1>3, <1>4, <1>5 DEF IInv, Shape, MainShape, LayerShape, Served
<1>7. Stages' /\ Closed'
  BY <1>2 DEF IInv, Stages, Closed, At
<1> QED
  BY <1>4, <1>5, <1>6, <1>7 DEF IInv

LEMMA IoThreadStep ==
  ASSUME IInv, NEW t \in IoThreads, IoThread(t)
  PROVE  IInv'
<1> USE RunIsThread
<1>1. CASE UNCHANGED <<bcmVars, layers, main, early>>
  <2>1. CASE Leave(t)
    <3>1. \E pc \in {"left", "none"} : Goto(t, pc)
      BY <2>1 DEF Leave
    <3> QED
      BY <1>1, <3>1, GotoShape, DriverStep DEF IInv, Served
  <2>2. CASE ReadFrame(t)
    <3>1. UNCHANGED io
      BY <2>2 DEF ReadFrame
    <3> QED
      BY <1>1, <3>1, DriverStep DEF IInv, Shape, ThreadShape, Served, Dispatching
  <2>3. CASE ReadError(t)
    <3>1. ThreadShape' /\ (Dispatching' => Dispatching)
      BY <2>3 DEF ReadError, IInv, Shape, ThreadShape, Dispatching
    <3> QED
      BY <1>1, <3>1, DriverStep DEF IInv, Served
  <2>4. CASE SetNotReady(t)
    BY <1>1, <2>4, GotoShape, DriverStep DEF SetNotReady, IInv, Served
  <2>5. CASE TakePosted(t, listening)
    <3>1. CASE listening
      <4>1. ThreadShape'
        BY <2>5, GotoShape DEF TakePosted, IInv
      <4> QED
        BY <1>1, <3>1, <4>1, DriverStep
    <3>2. CASE ~listening
      BY <1>1, <2>5, <3>2, GotoShape, DriverStep DEF TakePosted, IInv, Served
    <3> QED
      BY <3>1, <3>2
  <2>6. CASE RunReset \/ RunStart \/ RunReady \/ RunTrigger \/ RunLeft
    <3>1. \E pc \in {"reset", "ready", "none", "post", "work"} : Goto("run", pc)
      BY <2>6 DEF RunReset, RunStart, RunReady, RunTrigger, RunLeft
    <3> QED
      BY <1>1, <3>1, GotoShape, DriverStep DEF IInv, Served
  <2>7. CASE RunPost
    <3>1. ThreadShape' /\ (Dispatching' => Dispatching)
      <4>1. PICK p \in PostThreads :
              io' = [io EXCEPT !["run"].pc = "trigger", ![p] = [Idle EXCEPT !.pc = "work"]]
        BY <2>7 DEF RunPost
      <4>2. p \in IoThreads /\ p # "run"
        BY SocketCanAssumption DEF IoThreads
      <4>3. /\ DOMAIN io' = IoThreads
            /\ \A u \in IoThreads : io'[u] = CASE u = p -> [Idle EXCEPT !.pc = "work"]
                                              [] u = "run" -> [io["run"] EXCEPT !.pc = "trigger"]
                                              [] OTHER -> io[u]
        BY <4>1, <4>2 DEF IInv, Shape, ThreadShape
      <4>4. \A u \in IoThreads : "pc" \in DOMAIN io'[u] /\ (io'[u].pc = "call" => io[u].pc = "call")
        BY <4>2, <4>3 DEF IInv, Shape, ThreadShape, Idle
      <4> QED
        BY <4>3, <4>4 DEF ThreadShape, Dispatching
    <3> QED
      BY <1>1, <3>1, DriverStep DEF IInv, Served
  <2> QED
    BY <1>1, <2>1, <2>2, <2>3, <2>4, <2>5, <2>6, <2>7, HandleFrameStep DEF IoThread, RunThread
<1>2. CASE HandleFrame(t)
  BY <1>2, HandleFrameStep
<1> QED
  BY <1>1, <1>2 DEF IoThread, RunThread

LEMMA BusStep == ASSUME IInv, Bus PROVE IInv'
BY DriverStep DEF Bus, BusFrame, IInv, Shape, ThreadShape, Served, Dispatching

LEMMA StutterStep == ASSUME IInv, UNCHANGED vars PROVE IInv'
BY DriverStep DEF vars, driverVars, IInv, Shape, ThreadShape, Served, Dispatching

LEMMA IInvHolds == Spec => []IInv
<1>1. Init => IInv
  BY InitIInv
<1>2. IInv /\ [Next]_vars => IInv'
  BY TickStep, HaltLayersStep, DiagStep, CanLayerStep, DropListenerStep, InitBcmLayerStep,
     HaltBcmStep, IoThreadStep, BusStep, StutterStep DEF Next, Main
<1> QED
  BY <1>1, <1>2, PTL DEF Spec

\* For any nodes, setups and threads, and any write to the kernel that fails: the kernel
\* sends SYNC while a node is started, and the layer knows whether it does, but for
\* what the last failed write has left undone and for SYNC a halted layer has started
\* before its recovery.
THEOREM SyncFollows == Spec => []SyncFollowsNodes
<1>1. IInv => SyncFollowsNodes
  BY DEF IInv
<1> QED
  BY <1>1, IInvHolds, PTL

-------------------------------------------------------------------------------
(***************************************************************************)
(* For any nodes, setups, bounds and number of threads: a driver that says *)
(* ready listens to the bus, and a stack that is Ready is served.          *)
(*                                                                         *)
(* The second needs to know where the driver's thread is: "ready" is only  *)
(* ever said from within run(), the io_service is stopped under a running  *)
(* thread only while the main thread is about to join it, and the layers   *)
(* become Ready only after the main thread has seen a ready driver.        *)
(***************************************************************************)

Counted == reading \in Nat /\ completed \in Seq(Completions)

\* The driver's thread has reported ready and has not left the io_service.
Started == {"post", "trigger", "work", "set", "call"}

Alive == io["run"].pc \in Started /\ ~stopped

ReadyIsSaidInRun == isReady => io["run"].pc \in Started \cup {"left"}

LeftWhenStopped == io["run"].pc = "left" => stopped

StoppedIsJoined == stopped /\ io["run"].pc \in Started \cup {"ready", "left"} => At("join")

DriverInv ==
  Counted /\ ReadyIsListening /\ ReadyIsSaidInRun /\ LeftWhenStopped /\ StoppedIsJoined

\* The stages of the main thread that come after it has seen a ready driver.
SeenReady == layers.stack = Ready \/ main.pc \in {"drop", "bcm", "haltBcm"}

StackInv ==
  /\ DOMAIN layers = {"stack", "can", "bcm"}
  /\ layers.stack = Ready =>
       layers.can = Ready /\ layers.bcm = Ready /\ bcm_socket /\ main.cmd = "none"
  /\ SeenReady => Alive

SInv == IInv /\ DriverInv /\ StackInv

-------------------------------------------------------------------------------

LEMMA InitSInv == Init => SInv
<1> SUFFICES ASSUME Init PROVE SInv
  OBVIOUS
<1>1. IInv
  BY InitIInv
<1>2. io["run"].pc = "none"
  BY RunIsThread DEF Init, InitDriver, Idle
<1>3. DriverInv
  BY <1>2 DEF Init, InitDriver, DriverInv, Counted, ReadyIsListening, ReadyIsSaidInRun,
     isReady, LeftWhenStopped, StoppedIsJoined, Started
<1>4. StackInv
  BY DEF Init, Resting, StackInv, SeenReady, Off, Ready
<1> QED
  BY <1>1, <1>3, <1>4 DEF SInv

\* Where the threads are after one has gone on.
LEMMA GotoMoves ==
  ASSUME Shape, NEW t \in IoThreads, NEW pc, Goto(t, pc)
  PROVE  \A u \in IoThreads : io'[u].pc = IF u = t THEN pc ELSE io[u].pc
BY DEF Shape, ThreadShape, Goto, Idle

\* A read that is started waits or has failed.
LEMMA TriggerReads ==
  ASSUME Counted, NEW cs \in Seq(Completions), Trigger(cs)
  PROVE  Counted' /\ (reading' > 0 \/ completed' # << >>)
<1>1. CASE socket
  BY <1>1 DEF Trigger, Counted
<1>2. CASE ~socket
  <2>1. "failed" \in Completions
    BY DEF Completions
  <2>2. completed' \in Seq(Completions) /\ completed' # << >>
    BY <1>2, <2>1 DEF Trigger
  <2> QED
    BY <1>2, <2>2 DEF Trigger, Counted
<1> QED
  BY <1>1, <1>2

\* A step that leaves the state and the reads alone, and no thread that is about to
\* read, keeps the driver listening.
LEMMA ListensOn ==
  ASSUME ReadyIsListening, UNCHANGED <<driver_state, reading, completed>>,
         \A u \in IoThreads : io[u].pc \in {"set", "post", "trigger"}
                                => \E v \in IoThreads : io'[v].pc \in {"set", "post", "trigger"}
  PROVE  ReadyIsListening'
BY DEF ReadyIsListening, isReady

-------------------------------------------------------------------------------
(* The driver's threads                                                    *)

LEMMA RunThreadKeeps ==
  ASSUME SInv, RunThread, UNCHANGED main
  PROVE  DriverInv' /\ (Alive => Alive')
<1> USE RunIsThread
<1> USE DEF DriverInv, SInv, IInv
<1>1. CASE RunStart
  <2>1. \E pc \in {"reset", "none"} : io'["run"].pc = pc
    BY <1>1, GotoMoves DEF RunStart
  <2>2. ~isReady'
    BY <1>1 DEF RunStart, StateOf, isReady
  <2> QED
    BY <1>1, <2>1, <2>2 DEF RunStart, Counted, ReadyIsListening, ReadyIsSaidInRun,
       LeftWhenStopped, StoppedIsJoined, Started, Alive
<1>2. CASE RunReset
  <2>1. /\ io["run"].pc = "reset" /\ ~isReady
        /\ \A u \in IoThreads : io'[u].pc = IF u = "run" THEN "ready" ELSE io[u].pc
    BY <1>2, GotoMoves DEF RunReset, ReadyIsSaidInRun, Started
  <2> QED
    BY <1>2, <2>1 DEF RunReset, Counted, ReadyIsListening, isReady, ReadyIsSaidInRun,
       LeftWhenStopped, StoppedIsJoined, Started, Alive
<1>3. CASE RunReady
  <2>1. io["run"].pc = "ready" /\ io'["run"].pc = "post"
    BY <1>3, GotoMoves DEF RunReady
  <2> QED
    BY <1>3, <2>1 DEF RunReady, Counted, ReadyIsListening, ReadyIsSaidInRun,
       LeftWhenStopped, StoppedIsJoined, At, Started, Alive
<1>4. CASE RunPost
  <2>1. PICK p \in PostThreads :
          io' = [io EXCEPT !["run"].pc = "trigger", ![p] = [Idle EXCEPT !.pc = "work"]]
    BY <1>4 DEF RunPost
  <2>2. io["run"].pc = "post" /\ io'["run"].pc = "trigger"
    <3>1. p # "run"
      BY SocketCanAssumption
    <3> QED
      BY <1>4, <2>1, <3>1 DEF RunPost, Shape, ThreadShape
  <2> QED
    BY <1>4, <2>2 DEF RunPost, Counted, ReadyIsListening, isReady, ReadyIsSaidInRun,
       LeftWhenStopped, StoppedIsJoined, At, Started, Alive
<1>5. CASE RunTrigger
  <2>1. io["run"].pc = "trigger" /\ io'["run"].pc = "work"
    BY <1>5, GotoMoves DEF RunTrigger
  <2>2. Counted' /\ (reading' > 0 \/ completed' # << >>)
    BY <1>5, TriggerReads DEF RunTrigger, Counted
  <2> QED
    BY <1>5, <2>1, <2>2 DEF RunTrigger, ReadyIsListening, isReady, ReadyIsSaidInRun,
       LeftWhenStopped, StoppedIsJoined, At, Started, Alive
<1>6. CASE RunLeft
  <2>1. io["run"].pc = "left" /\ io'["run"].pc = "none"
    BY <1>6, GotoMoves DEF RunLeft
  <2>2. ~isReady'
    BY <1>6 DEF RunLeft, StateOf, isReady
  <2> QED
    BY <1>6, <2>1, <2>2 DEF RunLeft, Counted, ReadyIsListening, ReadyIsSaidInRun,
       LeftWhenStopped, StoppedIsJoined, Started, Alive
<1> QED
  BY <1>1, <1>2, <1>3, <1>4, <1>5, <1>6 DEF RunThread

LEMMA IoThreadKeeps ==
  ASSUME SInv, NEW t \in IoThreads, IoThread(t), UNCHANGED main
  PROVE  DriverInv' /\ (Alive => Alive')
<1> USE RunIsThread
<1> USE DEF DriverInv, SInv, IInv
<1>1. CASE Leave(t)
  <2>1. /\ io[t].pc = "work" /\ stopped
        /\ \A u \in IoThreads : io'[u].pc = IF u = t THEN IF t = "run" THEN "left" ELSE "none"
                                            ELSE io[u].pc
    BY <1>1, GotoMoves DEF Leave
  <2>2. ReadyIsListening'
    BY <1>1, <2>1, ListensOn DEF Leave
  <2> QED
    BY <1>1, <2>1, <2>2 DEF Leave, Counted, isReady, ReadyIsSaidInRun,
       LeftWhenStopped, StoppedIsJoined, At, Started, Alive
<1>2. CASE ReadFrame(t)
  <2>1. Counted' /\ (reading' > 0 \/ completed' # << >>)
    <3>1. Tail(completed) \in Seq(Completions)
      BY <1>2 DEF ReadFrame, Completes, Counted
    <3> QED
      BY <1>2, <3>1, TriggerReads DEF ReadFrame
  <2> QED
    BY <1>2, <2>1 DEF ReadFrame, ReadyIsListening, isReady, ReadyIsSaidInRun,
       LeftWhenStopped, StoppedIsJoined, At, Started, Alive
<1>3. CASE ReadError(t)
  <2>1. Counted'
    BY <1>3 DEF ReadError, Completes, Counted
  <2>2. io'[t].pc = "set" /\ io[t].pc = "work" /\ (t # "run" => io'["run"] = io["run"])
    BY <1>3 DEF ReadError, Completes, Works, Shape, ThreadShape
  <2>3. UNCHANGED <<driver_state, stopped>>
    BY <1>3 DEF ReadError
  <2> QED
    BY <2>1, <2>2, <2>3 DEF ReadyIsListening, isReady, ReadyIsSaidInRun,
       LeftWhenStopped, StoppedIsJoined, At, Started, Alive
<1>4. CASE SetNotReady(t)
  <2>1. /\ io[t].pc = "set"
        /\ \A u \in IoThreads : io'[u].pc = IF u = t THEN "work" ELSE io[u].pc
    BY <1>4, GotoMoves DEF SetNotReady
  <2>2. Counted'
    BY <1>4, TriggerReads DEF SetNotReady, Counted
  <2>3. ~isReady'
    BY <1>4 DEF SetNotReady, StateOf, isReady
  <2> QED
    BY <1>4, <2>1, <2>2, <2>3 DEF SetNotReady, ReadyIsListening, ReadyIsSaidInRun,
       LeftWhenStopped, StoppedIsJoined, At, Started, Alive
<1>5. CASE TakePosted(t, listening)
  <2>1. \E pc \in {"call", "work"} :
          /\ io[t].pc = "work"
          /\ \A u \in IoThreads : io'[u].pc = IF u = t THEN pc ELSE io[u].pc
    BY <1>5, GotoMoves DEF TakePosted, Works
  <2>2. ReadyIsListening'
    BY <1>5, <2>1, ListensOn DEF TakePosted
  <2> QED
    BY <1>5, <2>1, <2>2 DEF TakePosted, Counted, isReady, ReadyIsSaidInRun,
       LeftWhenStopped, StoppedIsJoined, At, Started, Alive
<1>6. CASE HandleFrame(t)
  <2>1. /\ io[t].pc = "call"
        /\ \A u \in IoThreads : io'[u].pc = IF u = t THEN "work" ELSE io[u].pc
    BY <1>6, GotoMoves DEF HandleFrame
  <2>2. ReadyIsListening'
    BY <1>6, <2>1, ListensOn DEF HandleFrame
  <2> QED
    BY <1>6, <2>1, <2>2 DEF HandleFrame, Counted, isReady, ReadyIsSaidInRun,
       LeftWhenStopped, StoppedIsJoined, At, Started, Alive
<1> QED
  BY <1>1, <1>2, <1>3, <1>4, <1>5, <1>6, RunThreadKeeps DEF IoThread

LEMMA BusKeeps ==
  ASSUME SInv, Bus
  PROVE  DriverInv' /\ (Alive => Alive')
<1>1. PICK c \in Completions : completed' = Append(completed, c)
  BY DEF Bus, BusFrame
<1>2. Counted' /\ completed' # << >>
  BY <1>1 DEF Bus, BusFrame, SInv, DriverInv, Counted
<1> QED
  BY <1>2 DEF Bus, BusFrame, SInv, DriverInv, ReadyIsListening, isReady, ReadyIsSaidInRun,
     LeftWhenStopped, StoppedIsJoined, At, Started, Alive

-------------------------------------------------------------------------------
(* The main thread                                                         *)

\* A step of the main thread that leaves the driver alone.
LEMMA MainKeeps ==
  ASSUME SInv, UNCHANGED driverVars, At("join") => main'.pc = "join" \/ io["run"].pc = "none"
  PROVE  DriverInv' /\ (Alive => Alive')
BY DEF driverVars, SInv, DriverInv, Counted, ReadyIsListening, isReady, ReadyIsSaidInRun,
   LeftWhenStopped, StoppedIsJoined, At, Started, Alive

\* A ready driver that nobody stops has a thread.
LEMMA ReadyIsAlive ==
  ASSUME SInv, isReady, ~At("join")
  PROVE  Alive
BY DEF SInv, DriverInv, ReadyIsSaidInRun, LeftWhenStopped, StoppedIsJoined, Alive, Started

\* While the stack is Ready the main thread does nothing but read the layers.
LEMMA ReadyStage ==
  ASSUME SInv, layers.stack = Ready
  PROVE  main.pc \notin {"recover", "drop", "haltBcm", "unlisten", "close", "stop", "join",
                         "open", "waitReady", "bcm"}
BY DEF SInv, StackInv, IInv, Stages

LEMMA AllLayersReady ==
  ASSUME StackInv, NEW s, AllLayers(s)
  PROVE  /\ DOMAIN layers' = {"stack", "can", "bcm"}
         /\ layers'.stack = s /\ layers'.can = s /\ layers'.bcm = s
BY DEF StackInv, AllLayers

LEMMA GoOnPc ==
  ASSUME SInv, NEW pc, GoOn(pc)
  PROVE  main'.pc = pc /\ main'.cmd = main.cmd
BY GoOnShape DEF SInv, IInv

LEMMA CanFailsKeeps ==
  ASSUME SInv, CanFails, UNCHANGED <<driverVars, bcmVars>>, main.pc \in {"open", "waitReady"}
  PROVE  DriverInv' /\ StackInv'
<1>1. DriverInv'
  BY MainKeeps DEF At
<1>2. main'.pc \in {"unlisten", "idle"} /\ layers.stack # Ready
  <2>1. CASE main.cmd = "init"
    BY <2>1, ReadyStage DEF CanFails, SInv, IInv, Shape, MainShape
  <2>2. CASE main.cmd # "init"
    BY <2>2, ReadyStage DEF CanFails, Resting
  <2> QED
    BY <2>1, <2>2
<1>3. /\ DOMAIN layers' = {"stack", "can", "bcm"} /\ layers'.stack # Ready
  BY <1>2, AllLayersReady DEF CanFails, SInv, StackInv, ErrorState, Ready
<1> QED
  BY <1>1, <1>2, <1>3 DEF StackInv, SeenReady

LEMMA TickKeeps == ASSUME SInv, Tick PROVE DriverInv' /\ StackInv'
<1>1. DriverInv' /\ (Alive => Alive')
  BY MainKeeps DEF Tick, At
<1>2. StackInv'
  <2>1. main.pc = "idle" /\ UNCHANGED <<layers, bcmVars>> /\ main'.pc \in {"open", "diag", "halt"}
    BY DEF Tick, At
  <2>2. layers.stack = Ready => main'.cmd = "none"
    BY DEF Tick, Off, Ready
  <2> QED
    BY <1>1, <2>1, <2>2 DEF SInv, StackInv, SeenReady, bcmVars
<1> QED
  BY <1>1, <1>2

LEMMA HaltLayersKeeps == ASSUME SInv, HaltLayers PROVE DriverInv' /\ StackInv'
<1>1. DriverInv'
  BY MainKeeps DEF HaltLayers, At
<1>2. main'.pc = "diag"
  BY GoOnPc DEF HaltLayers
<1>3. StackInv'
  BY <1>2, AllLayersReady DEF HaltLayers, SInv, StackInv, SeenReady, ErrorState, Ready
<1> QED
  BY <1>1, <1>3

LEMMA DiagKeeps == ASSUME SInv, Diag PROVE DriverInv' /\ StackInv'
<1>1. DriverInv' /\ (Alive => Alive')
  BY MainKeeps DEF Diag, At
<1>2. StackInv'
  <2>1. /\ main.pc = "diag" /\ UNCHANGED <<layers, bcmVars>> /\ main'.pc \in {"recover", "idle"}
        /\ layers.stack = Ready => main'.cmd = "none"
    BY DEF Diag, At, Resting, ErrorState, Ready
  <2> QED
    BY <1>1, <2>1 DEF SInv, StackInv, SeenReady, bcmVars
<1> QED
  BY <1>1, <1>2

LEMMA OpenDriverKeeps == ASSUME SInv, OpenDriver PROVE DriverInv' /\ StackInv'
<1>0. main.pc = "open" /\ layers.stack # Ready /\ UNCHANGED bcmVars
  BY ReadyStage DEF OpenDriver, At
<1>1. CASE Opens /\ GoOn("waitReady") /\ UNCHANGED layers
  <2>1. main'.pc = "waitReady"
    BY <1>1, GoOnPc
  <2>2. io'["run"].pc = "start"
    BY <1>1, RunIsThread, GotoMoves DEF Opens, SInv, IInv
  <2>3. DriverInv'
    BY <1>1, <2>2 DEF Opens, SInv, DriverInv, Counted, ReadyIsListening, isReady,
       ReadyIsSaidInRun, LeftWhenStopped, StoppedIsJoined, Started
  <2>4. StackInv'
    BY <1>0, <1>1, <2>1 DEF SInv, StackInv, SeenReady
  <2> QED
    BY <2>3, <2>4
<1>2. CASE UNCHANGED driverVars /\ CanFails
  BY <1>0, <1>2, CanFailsKeeps
<1> QED
  BY <1>1, <1>2 DEF OpenDriver

LEMMA ShutdownDriverKeeps == ASSUME SInv, ShutdownDriver PROVE DriverInv' /\ StackInv'
<1>0. main.pc \in {"close", "stop"} /\ layers.stack # Ready /\ UNCHANGED layers
  BY ReadyStage DEF ShutdownDriver, At
<1>1. CASE At("close") /\ CloseSocket /\ GoOn("stop")
  <2>1. main'.pc = "stop"
    BY <1>1, GoOnPc
  <2>2. Counted' /\ (reading > 0 \/ completed # << >> => completed' # << >>)
    <3>1. completed \in Seq(Completions) /\ reading \in Nat
      BY DEF SInv, DriverInv, Counted
    <3>2. /\ Repeat("failed", reading) \in Seq(Completions)
          /\ Len(Repeat("failed", reading)) = reading
      BY <3>1 DEF Repeat, Completions
    <3>3. /\ completed' = completed \o Repeat("failed", reading) /\ reading' = 0
          /\ completed' \in Seq(Completions)
          /\ Len(completed') = Len(completed) + reading
      BY <1>1, <3>1, <3>2 DEF CloseSocket
    <3>4. reading > 0 \/ completed # << >> => Len(completed') > 0
      BY <3>1, <3>3
    <3> QED
      BY <3>3, <3>4 DEF Counted
  <2>3. DriverInv'
    BY <1>1, <2>1, <2>2 DEF CloseSocket, SInv, DriverInv, ReadyIsListening, isReady,
       ReadyIsSaidInRun, LeftWhenStopped, StoppedIsJoined, At, Started
  <2>4. StackInv'
    BY <1>0, <2>1 DEF SInv, StackInv, SeenReady
  <2> QED
    BY <2>3, <2>4
<1>2. CASE At("stop") /\ StopIo /\ GoOn("join")
  <2>1. main'.pc = "join"
    BY <1>2, GoOnPc
  <2>2. DriverInv'
    BY <1>2, <2>1 DEF StopIo, SInv, DriverInv, Counted, ReadyIsListening, isReady,
       ReadyIsSaidInRun, LeftWhenStopped, StoppedIsJoined, At, Started
  <2>3. StackInv'
    BY <1>0, <2>1 DEF SInv, StackInv, SeenReady
  <2> QED
    BY <2>2, <2>3
<1> QED
  BY <1>1, <1>2 DEF ShutdownDriver

LEMMA CanLayerKeeps == ASSUME SInv, CanLayer PROVE DriverInv' /\ StackInv'
<1>1. CASE RecoverCan
  <2>0. main.pc = "recover" /\ layers.stack # Ready
    BY <1>1, ReadyStage DEF RecoverCan, At
  <2>1. DriverInv' /\ (Alive => Alive')
    BY <1>1, MainKeeps DEF RecoverCan, At
  <2>2. main'.pc = "unlisten" \/ (main'.pc = "drop" /\ isReady)
    BY <1>1, GoOnPc DEF RecoverCan
  <2>3. DOMAIN layers' = {"stack", "can", "bcm"} /\ layers'.stack = layers.stack
    BY <1>1 DEF RecoverCan, SInv, StackInv
  <2>4. isReady => Alive
    BY <2>0, ReadyIsAlive DEF At
  <2> QED
    BY <2>0, <2>1, <2>2, <2>3, <2>4 DEF StackInv, SeenReady
<1>2. CASE DropErrorListener
  <2>1. DriverInv' /\ main'.pc = "close" /\ UNCHANGED layers /\ layers.stack # Ready
    BY <1>2, MainKeeps, GoOnPc, ReadyStage DEF DropErrorListener, At
  <2> QED
    BY <2>1 DEF SInv, StackInv, SeenReady
<1>3. CASE Join
  <2>0. layers.stack # Ready
    BY <1>3, ReadyStage DEF Join, At
  <2>1. DriverInv'
    BY <1>3, MainKeeps DEF Join
  <2>2. main'.pc \in {"open", "idle"}
    BY <1>3, GoOnPc DEF Join, Resting
  <2>3. DOMAIN layers' = {"stack", "can", "bcm"} /\ layers'.stack # Ready
    BY <1>3, <2>0, AllLayersReady DEF Join, SInv, StackInv, Off, Ready
  <2> QED
    BY <2>1, <2>2, <2>3 DEF StackInv, SeenReady
<1>4. CASE WaitReady
  <2>0. main.pc = "waitReady" /\ layers.stack # Ready /\ UNCHANGED <<driverVars, bcmVars>>
    BY <1>4, ReadyStage DEF WaitReady, At
  <2>1. CASE isReady
    <3>1. DriverInv' /\ (Alive => Alive')
      BY <2>0, MainKeeps DEF At
    <3>2. Alive
      BY <2>0, <2>1, ReadyIsAlive DEF At
    <3>3. DOMAIN layers' = {"stack", "can", "bcm"} /\ layers'.stack = layers.stack
      BY <1>4, <2>1 DEF WaitReady, SInv, StackInv
    <3> QED
      BY <2>0, <3>1, <3>2, <3>3 DEF StackInv, SeenReady
  <2>2. CASE ~isReady
    BY <1>4, <2>0, <2>2, CanFailsKeeps DEF WaitReady
  <2> QED
    BY <2>1, <2>2
<1> QED
  BY <1>1, <1>2, <1>3, <1>4, OpenDriverKeeps, ShutdownDriverKeeps DEF CanLayer

LEMMA BcmLayerKeeps ==
  ASSUME SInv, DropListener \/ InitBcmLayer \/ HaltBcm
  PROVE  DriverInv' /\ StackInv'
<1>0. main.pc \in {"drop", "bcm", "haltBcm"} /\ layers.stack # Ready /\ Alive
  BY ReadyStage DEF DropListener, InitBcmLayer, HaltBcm, At, SInv, StackInv, SeenReady
<1>1. DriverInv' /\ Alive'
  BY <1>0, MainKeeps DEF DropListener, InitBcmLayer, HaltBcm, At
<1>2. CASE DropListener
  <2>1. UNCHANGED layers
    BY <1>2 DEF DropListener
  <2> QED
    BY <1>0, <1>1, <2>1 DEF SInv, StackInv, SeenReady
<1>3. CASE HaltBcm
  <2>1. DOMAIN layers' = {"stack", "can", "bcm"} /\ layers'.stack # Ready
    BY <1>3, AllLayersReady DEF HaltBcm, SInv, ErrorState, Ready
  <2> QED
    BY <1>1, <2>1 DEF StackInv, SeenReady
<1>4. CASE InitBcmLayer
  <2>1. PICK status \in {"ok", "warn", "error"} :
          /\ handleInit(status)
          /\ \/ status # "error" /\ main' = Resting /\ AllLayers(Ready)
             \/ UNCHANGED layers
    BY <1>4 DEF InitBcmLayer
  <2>2. CASE status # "error" /\ main' = Resting /\ AllLayers(Ready)
    <3>1. bcm_socket' = TRUE /\ main'.cmd = "none"
      BY <2>1, <2>2 DEF handleInit, Resting
    <3>2. /\ DOMAIN layers' = {"stack", "can", "bcm"}
          /\ layers'.stack = Ready /\ layers'.can = Ready /\ layers'.bcm = Ready
      BY <2>2, AllLayersReady DEF SInv
    <3> QED
      BY <1>1, <3>1, <3>2 DEF StackInv
  <2>3. CASE UNCHANGED layers
    BY <1>0, <1>1, <2>3 DEF SInv, StackInv, SeenReady
  <2> QED
    BY <2>1, <2>2, <2>3
<1> QED
  BY <1>2, <1>3, <1>4

-------------------------------------------------------------------------------

LEMMA NextSInv == ASSUME SInv, [Next]_vars PROVE SInv'
<1>1. IInv'
  BY TickStep, HaltLayersStep, DiagStep, CanLayerStep, DropListenerStep, InitBcmLayerStep,
     HaltBcmStep, IoThreadStep, BusStep, StutterStep DEF Next, Main, SInv
<1>2. CASE Main
  BY <1>1, <1>2, TickKeeps, HaltLayersKeeps, DiagKeeps, CanLayerKeeps, BcmLayerKeeps
     DEF Main, SInv
<1>3. CASE \E t \in IoThreads : IoThread(t)
  <2>1. PICK t \in IoThreads : IoThread(t)
    BY <1>3
  <2>2. UNCHANGED <<main, layers, bcm_socket>>
    BY <2>1 DEF IoThread, RunThread, HandleFrame, handleFrame, bcmVars
  <2>3. DriverInv' /\ (Alive => Alive')
    BY <2>1, <2>2, IoThreadKeeps
  <2> QED
    BY <1>1, <2>2, <2>3 DEF SInv, StackInv, SeenReady
<1>4. CASE Bus
  <2>1. UNCHANGED <<main, layers, bcm_socket>>
    BY <1>4 DEF Bus, bcmVars
  <2>2. DriverInv' /\ (Alive => Alive')
    BY <1>4, BusKeeps
  <2> QED
    BY <1>1, <2>1, <2>2 DEF SInv, StackInv, SeenReady
<1>5. CASE UNCHANGED vars
  <2>1. DriverInv' /\ (Alive => Alive')
    BY <1>5, MainKeeps DEF vars, At
  <2> QED
    BY <1>1, <1>5, <2>1 DEF vars, bcmVars, SInv, StackInv, SeenReady
<1> QED
  BY <1>2, <1>3, <1>4, <1>5 DEF Next

\* For any nodes, bounds and number of threads: a driver that says ready reads, or is
\* about to, whatever is left over from its last session.
THEOREM ReadyListens == Spec => []ReadyIsListening
<1>1. SInv => ReadyIsListening
  BY DEF SInv, DriverInv
<1> QED
  BY <1>1, InitSInv, NextSInv, PTL DEF Spec

\* For any nodes, bounds and number of threads: a stack that is Ready has both its
\* layers, the kernel's socket and the driver's thread.
THEOREM ReadyServes == Spec => []ReadyIsServed
<1>1. SInv => ReadyIsServed
  BY DEF SInv, StackInv, SeenReady, Alive, Started, ReadyIsServed, At
<1> QED
  BY <1>1, InitSInv, NextSInv, PTL DEF Spec

-------------------------------------------------------------------------------
(***************************************************************************)
(* The types.  Two of them are bounds, and hold for a reason: the reads of *)
(* all sessions that wait, have ended or are in a thread's hands are never *)
(* more than MaxReads, the one that run() is about to start included; and  *)
(* a frame that has been read has a place in the strand's queue, which a   *)
(* read that failed takes none of.                                         *)
(***************************************************************************)

\* The last entries of cs, from position k + 1 on, are reads that failed.
FailedAfter(cs, k) == \A i \in (k + 1) .. Len(cs) : cs[i] = "failed"

\* The frames in cs fit into the strand's queue with n others.
Fits(cs, n) == \E k \in 0 .. Len(cs) : FailedAfter(cs, k) /\ n + k <= MaxQueued + MaxReads

\* A failed read at the end takes no place.
LEMMA FailureFits ==
  ASSUME NEW cs \in Seq(Completions), NEW ds \in Seq(Completions), Len(cs) <= Len(ds),
         \A i \in 1 .. Len(cs) : ds[i] = cs[i], FailedAfter(ds, Len(cs)),
         NEW m \in Nat, NEW n \in Nat, n <= m, Fits(cs, m)
  PROVE  Fits(ds, n)
<1>1. PICK k \in 0 .. Len(cs) : FailedAfter(cs, k) /\ m + k <= MaxQueued + MaxReads
  BY DEF Fits
<1>2. Len(cs) \in Nat /\ Len(ds) \in Nat
  OBVIOUS
<1>3. FailedAfter(ds, k)
  BY <1>1, <1>2 DEF FailedAfter
<1>4. k \in 0 .. Len(ds) /\ n + k <= MaxQueued + MaxReads
  BY <1>1, <1>2, SocketCanAssumption
<1> QED
  BY <1>3, <1>4 DEF Fits

\* The first entry's place is free when it has been taken, unless it was a failure.
LEMMA TailFits ==
  ASSUME NEW cs \in Seq(Completions), cs # << >>, NEW m \in Nat, Fits(cs, m)
  PROVE  Fits(Tail(cs), IF Head(cs) = "failed" THEN m ELSE m + 1)
<1>1. PICK k \in 0 .. Len(cs) : FailedAfter(cs, k) /\ m + k <= MaxQueued + MaxReads
  BY DEF Fits
<1>2. /\ Len(cs) \in Nat \ {0} /\ Len(Tail(cs)) = Len(cs) - 1
      /\ \A i \in 1 .. Len(Tail(cs)) : Tail(cs)[i] = cs[i + 1]
      /\ Head(cs) = cs[1]
  BY HeadTailProperties, EmptySeq
<1>3. CASE k = 0
  <2>1. Head(cs) = "failed" /\ FailedAfter(Tail(cs), 0)
    BY <1>1, <1>2, <1>3 DEF FailedAfter
  <2>2. 0 \in 0 .. Len(Tail(cs))
    BY <1>2
  <2> QED
    BY <1>1, <1>3, <2>1, <2>2 DEF Fits
<1>4. CASE k > 0
  <2>1. FailedAfter(Tail(cs), k - 1)
    BY <1>1, <1>2, <1>4 DEF FailedAfter
  <2>2. k - 1 \in 0 .. Len(Tail(cs))
    BY <1>1, <1>2, <1>4
  <2>3. (IF Head(cs) = "failed" THEN m ELSE m + 1) + (k - 1) <= MaxQueued + MaxReads
    BY <1>1, <1>4, SocketCanAssumption
  <2> QED
    BY <2>1, <2>2, <2>3 DEF Fits
<1> QED
  BY <1>1, <1>3, <1>4

\* What Trigger adds to the completions cs.
LEMMA TriggerAdds ==
  ASSUME NEW cs \in Seq(Completions), reading \in Nat, Trigger(cs)
  PROVE  /\ reading' \in Nat /\ completed' \in Seq(Completions)
         /\ reading' + Len(completed') = reading + Len(cs) + 1
         /\ Len(cs) <= Len(completed') /\ \A i \in 1 .. Len(cs) : completed'[i] = cs[i]
         /\ FailedAfter(completed', Len(cs))
<1>1. CASE socket
  BY <1>1 DEF Trigger, FailedAfter
<1>2. CASE ~socket
  <2>1. "failed" \in Completions
    BY DEF Completions
  <2>2. completed' = Append(cs, "failed") /\ reading' = reading
    BY <1>2 DEF Trigger
  <2>3. /\ completed' \in Seq(Completions) /\ Len(completed') = Len(cs) + 1
        /\ \A i \in 1 .. Len(cs) : completed'[i] = cs[i]
        /\ completed'[Len(cs) + 1] = "failed"
    BY <2>1, <2>2, AppendProperties
  <2> QED
    BY <2>2, <2>3 DEF FailedAfter
<1> QED
  BY <1>1, <1>2

\* What closing the socket adds: each read that waited ends as a failure.
LEMMA AbortsAdd ==
  ASSUME NEW cs \in Seq(Completions), NEW n \in Nat
  PROVE  LET ds == cs \o Repeat("failed", n)
         IN  /\ ds \in Seq(Completions) /\ Len(ds) = Len(cs) + n
             /\ \A i \in 1 .. Len(cs) : ds[i] = cs[i]
             /\ FailedAfter(ds, Len(cs))
<1> DEFINE r == Repeat("failed", n)
           ds == cs \o r
<1>1. r \in Seq(Completions) /\ Len(r) = n /\ \A i \in 1 .. n : r[i] = "failed"
  BY DEF Repeat, Completions
<1> HIDE DEF r
<1>2. /\ ds \in Seq(Completions) /\ Len(ds) = Len(cs) + n
      /\ \A i \in 1 .. Len(cs) + n : ds[i] = IF i <= Len(cs) THEN cs[i] ELSE r[i - Len(cs)]
  BY <1>1, ConcatProperties
<1>3. Len(cs) \in Nat
  OBVIOUS
<1> HIDE DEF ds
<1>4. \A i \in 1 .. Len(cs) : ds[i] = cs[i]
  BY <1>2, <1>3
<1>5. FailedAfter(ds, Len(cs))
  BY <1>1, <1>2, <1>3 DEF FailedAfter
<1> QED
  BY <1>2, <1>4, <1>5 DEF ds, r

-------------------------------------------------------------------------------

\* Where a thread may be in the io_service, and where the one in run() may be besides.
WorkerPcs == {"none", "work", "set", "call"}

Beginning == {"start", "reset", "ready", "post", "trigger"}

\* What a thread keeps.
IoLocals ==
  [pc : WorkerPcs \cup Beginning \cup {"left"}, ended : Completions, is_open : BOOLEAN]

\* A detached thread is never in run().
IoTyped == io \in [IoThreads -> IoLocals] /\ \A t \in PostThreads : io[t].pc \in WorkerPcs

\* The threads that hold a read that has ended, and those among them that are going
\* to post it.
Setting == {t \in IoThreads : io[t].pc = "set"}
Fatal == {t \in Setting : io[t].ended = "fatal"}

\* The read that the thread in run() is about to start.
Starts == IF io["run"].pc \in Beginning THEN 1 ELSE 0

\* The reads there are, and the one to come.
ReadsBounded == reading + Len(completed) + Cardinality(Setting) + Starts <= MaxReads

\* The driver's part of the invariant: what is typed, and why the counts stay bounded.
DriverTyped ==
  /\ driver_state \in {"closed", "open", "ready"} /\ socket \in BOOLEAN /\ stopped \in BOOLEAN
  /\ reading \in Nat /\ completed \in Seq(Completions) /\ posted \in Nat
  /\ IoTyped /\ ReadsBounded
  /\ Fits(completed, posted + Cardinality(Fatal))

\* Sets of threads are finite, and their sizes can be compared.
LEMMA CountThreads ==
  ASSUME NEW S \in SUBSET IoThreads
  PROVE  /\ IsFiniteSet(S) /\ Cardinality(S) \in Nat
         /\ \A T \in SUBSET S : Cardinality(T) \in Nat /\ Cardinality(T) <= Cardinality(S)
<1>1. IsFiniteSet(IoThreads)
  <2>1. IsFiniteSet(PostThreads)
    BY SocketCanAssumption
  <2>2. IsFiniteSet(PostThreads \cup {"run"})
    BY <2>1, FS_AddElement
  <2> QED
    BY <2>2 DEF IoThreads
<1>2. IsFiniteSet(S)
  BY <1>1, FS_Subset
<1>3. ASSUME NEW T \in SUBSET S
      PROVE  Cardinality(T) \in Nat /\ Cardinality(T) <= Cardinality(S)
  BY <1>2, FS_Subset, FS_CardinalityType
<1> QED
  BY <1>2, <1>3, FS_CardinalityType

\* The types say what TypeOK does.
LEMMA DriverTypes == ASSUME DriverTyped PROVE DriverTypeOK
<1>1. Setting \in SUBSET IoThreads /\ Fatal \in SUBSET IoThreads
  BY DEF Setting, Fatal
<1>2. Cardinality(Setting) \in Nat /\ Cardinality(Fatal) \in Nat /\ Len(completed) \in Nat
  BY <1>1, CountThreads DEF DriverTyped
<1>3. reading \in 0 .. MaxReads
  BY <1>2, SocketCanAssumption DEF DriverTyped, ReadsBounded, Starts
<1>4. posted \in 0 .. (MaxQueued + MaxReads)
  <2>1. PICK k \in 0 .. Len(completed) : posted + Cardinality(Fatal) + k <= MaxQueued + MaxReads
    BY DEF DriverTyped, Fits
  <2> QED
    BY <1>2, <2>1, SocketCanAssumption DEF DriverTyped
<1>5. ASSUME NEW t \in IoThreads
      PROVE  /\ io[t].pc \in {"none", "work", "set", "call"} \cup
                  (IF t = "run" THEN {"start", "reset", "ready", "post", "trigger", "left"} ELSE {})
             /\ io[t].ended \in Completions /\ io[t].is_open \in BOOLEAN
  <2>1. io[t] \in IoLocals /\ (t # "run" => io[t].pc \in WorkerPcs)
    BY <1>5 DEF DriverTyped, IoTyped, IoThreads
  <2> QED
    BY <2>1 DEF IoLocals, WorkerPcs, Beginning
<1> QED
  BY <1>3, <1>4, <1>5 DEF DriverTypeOK, DriverTyped

\* A thread that goes on without a read in its hands.
LEMMA GotoTyped ==
  ASSUME IoTyped, NEW t \in IoThreads, NEW pc \in WorkerPcs \cup Beginning \cup {"left"},
         t # "run" => pc \in WorkerPcs, pc # "set", Goto(t, pc)
  PROVE  /\ IoTyped' /\ \A u \in IoThreads : u # t => io'[u] = io[u]
         /\ io'[t].pc = pc /\ Setting' = Setting \ {t} /\ Fatal' = Fatal \ {t}
<1> DEFINE r == [Idle EXCEPT !.pc = pc]
<1>1. r.pc = pc /\ r.ended = "frame" /\ r.is_open = FALSE
  BY DEF Idle
<1>2. r \in IoLocals
  BY DEF Idle, IoLocals, Completions
<1>3. io' = [io EXCEPT ![t] = r]
  BY DEF Goto
<1> HIDE DEF r
<1>4. /\ io' \in [IoThreads -> IoLocals] /\ io'[t] = r
      /\ \A u \in IoThreads : u # t => io'[u] = io[u]
  BY <1>2, <1>3 DEF IoTyped
<1>5. IoTyped'
  <2>1. "run" \notin PostThreads
    BY SocketCanAssumption
  <2> QED
    BY <1>1, <1>4, <2>1 DEF IoTyped, IoThreads
<1>6. Setting' = Setting \ {t}
  BY <1>1, <1>4 DEF Setting
<1>7. Fatal' = Fatal \ {t}
  <2>1. Fatal' = {u \in Setting \ {t} : io'[u].ended = "fatal"}
    BY <1>6 DEF Fatal
  <2>2. \A u \in Setting \ {t} : io'[u].ended = io[u].ended
    BY <1>4 DEF Setting
  <2> QED
    BY <2>1, <2>2 DEF Fatal
<1> QED
  BY <1>1, <1>4, <1>5, <1>6, <1>7

\* A step that starts no read and posts nothing.
LEMMA NothingStarts ==
  ASSUME DriverTyped, IoTyped', Setting' \subseteq Setting, Fatal' \subseteq Fatal,
         UNCHANGED <<reading, completed>>, posted' \in Nat, posted' <= posted, Starts' <= Starts,
         driver_state' \in {"closed", "open", "ready"}, socket' \in BOOLEAN, stopped' \in BOOLEAN
  PROVE  DriverTyped'
<1>1. Setting \in SUBSET IoThreads /\ Fatal \in SUBSET IoThreads
  BY DEF Setting, Fatal
<1>2. /\ Cardinality(Setting) \in Nat /\ Cardinality(Setting') \in Nat
      /\ Cardinality(Fatal) \in Nat /\ Cardinality(Fatal') \in Nat
      /\ Cardinality(Setting') <= Cardinality(Setting)
      /\ Cardinality(Fatal') <= Cardinality(Fatal)
  BY <1>1, CountThreads
<1>3. Starts \in {0, 1} /\ Starts' \in {0, 1}
  BY DEF Starts
<1>4. ReadsBounded'
  BY <1>2, <1>3, SocketCanAssumption DEF DriverTyped, ReadsBounded
<1>5. Fits(completed, posted' + Cardinality(Fatal'))
  <2>1. FailedAfter(completed, Len(completed))
    BY DEF FailedAfter, DriverTyped
  <2>2. posted' + Cardinality(Fatal') <= posted + Cardinality(Fatal)
    BY <1>2 DEF DriverTyped
  <2>3. posted' + Cardinality(Fatal') \in Nat /\ posted + Cardinality(Fatal) \in Nat
    BY <1>2 DEF DriverTyped
  <2> QED
    BY <2>1, <2>2, <2>3, FailureFits DEF DriverTyped
<1>6. Fits(completed, posted + Cardinality(Fatal))'
  BY <1>5 DEF Fits, FailedAfter
<1> QED
  BY <1>4, <1>6 DEF DriverTyped

\* init starts a driver only while there is room for the read that run() will start.
LEMMA OpensTyped == ASSUME DriverTyped, Opens PROVE DriverTyped'
<1>0. "run" \in IoThreads
  BY RunIsThread
<1>1. /\ IoTyped' /\ io'["run"].pc = "start"
      /\ Setting' = Setting \ {"run"} /\ Fatal' = Fatal \ {"run"}
  BY <1>0, GotoTyped DEF Opens, DriverTyped, Beginning
<1>2. Setting \in SUBSET IoThreads /\ Fatal \in SUBSET IoThreads
  BY DEF Setting, Fatal
<1>3. /\ Cardinality(Setting) \in Nat /\ Cardinality(Setting') \in Nat
      /\ Cardinality(Fatal) \in Nat /\ Cardinality(Fatal') \in Nat
      /\ Cardinality(Setting') <= Cardinality(Setting)
      /\ Cardinality(Fatal') <= Cardinality(Fatal)
  BY <1>1, <1>2, CountThreads
<1>4. reading + Len(completed) + Cardinality(Setting) < MaxReads
  BY DEF Opens, Reads, Setting
<1>5. ReadsBounded'
  <2>1. Starts' = 1
    BY <1>1 DEF Starts, Beginning
  <2> QED
    BY <1>3, <1>4, <2>1, SocketCanAssumption DEF Opens, DriverTyped, ReadsBounded
<1>6. Fits(completed, posted + Cardinality(Fatal'))
  <2>1. FailedAfter(completed, Len(completed))
    BY DEF FailedAfter, DriverTyped
  <2>2. /\ posted + Cardinality(Fatal') <= posted + Cardinality(Fatal)
        /\ posted + Cardinality(Fatal') \in Nat /\ posted + Cardinality(Fatal) \in Nat
    BY <1>3 DEF DriverTyped
  <2> QED
    BY <2>1, <2>2, FailureFits DEF DriverTyped
<1>7. Fits(completed, posted + Cardinality(Fatal))'
  BY <1>6 DEF Fits, FailedAfter, Opens
<1> QED
  BY <1>1, <1>5, <1>7 DEF Opens, DriverTyped

\* Reads that are aborted are as many as before, and take no place in the queue.
LEMMA CloseTyped == ASSUME DriverTyped, CloseSocket PROVE DriverTyped'
<1>1. /\ completed' \in Seq(Completions) /\ Len(completed') = Len(completed) + reading
      /\ \A i \in 1 .. Len(completed) : completed'[i] = completed[i]
      /\ FailedAfter(completed', Len(completed))
  BY AbortsAdd DEF CloseSocket, DriverTyped
<1>2. /\ reading' = 0 /\ socket' = FALSE /\ UNCHANGED <<driver_state, posted, stopped, io>>
  BY DEF CloseSocket
<1>3. Setting' = Setting /\ Fatal' = Fatal /\ Starts' = Starts /\ IoTyped'
  BY <1>2 DEF Setting, Fatal, Starts, DriverTyped, IoTyped
<1>4. Setting \in SUBSET IoThreads /\ Fatal \in SUBSET IoThreads
  BY DEF Setting, Fatal
<1>5. Cardinality(Setting) \in Nat /\ Cardinality(Fatal) \in Nat /\ Starts \in {0, 1}
  BY <1>4, CountThreads DEF Starts
<1>6. Len(completed) \in Nat /\ Len(completed') \in Nat
  BY <1>1 DEF DriverTyped
<1>7. ReadsBounded'
  BY <1>1, <1>2, <1>3, <1>5, <1>6, SocketCanAssumption DEF DriverTyped, ReadsBounded
<1>8. Fits(completed', posted + Cardinality(Fatal))
  <2>1. posted + Cardinality(Fatal) \in Nat
    BY <1>5 DEF DriverTyped
  <2> QED
    BY <1>1, <1>6, <2>1, FailureFits DEF DriverTyped
<1>9. Fits(completed, posted + Cardinality(Fatal))'
  BY <1>2, <1>3, <1>8 DEF Fits, FailedAfter
<1> QED
  BY <1>1, <1>2, <1>3, <1>7, <1>9 DEF DriverTyped

\* run() but for its read.
LEMMA RunTyped ==
  ASSUME DriverTyped, RunStart \/ RunReset \/ RunReady \/ RunLeft
  PROVE  DriverTyped'
<1>0. "run" \in IoThreads
  BY RunIsThread
<1>1. PICK pc \in {"none", "reset", "ready", "post"} : Goto("run", pc)
  BY DEF RunStart, RunReset, RunReady, RunLeft
<1>2. /\ IoTyped' /\ io'["run"].pc = pc
      /\ Setting' = Setting \ {"run"} /\ Fatal' = Fatal \ {"run"}
  BY <1>0, <1>1, GotoTyped DEF DriverTyped, WorkerPcs, Beginning
<1>3. Starts' <= Starts
  <2>1. CASE RunLeft
    BY <1>2, <2>1, <1>0 DEF RunLeft, Starts, Beginning, Goto, Idle, DriverTyped, IoTyped
  <2>2. CASE ~RunLeft
    BY <2>2 DEF RunStart, RunReset, RunReady, Starts, Beginning
  <2> QED
    BY <2>1, <2>2
<1>4. /\ UNCHANGED <<reading, completed, posted, socket>>
      /\ driver_state' \in {"closed", "open", "ready"} /\ stopped' \in BOOLEAN
  BY DEF RunStart, RunReset, RunReady, RunLeft, StateOf, DriverTyped
<1>5. posted' \in Nat /\ posted' <= posted /\ socket' \in BOOLEAN
  BY <1>4 DEF DriverTyped
<1> QED
  BY <1>2, <1>3, <1>4, <1>5, NothingStarts

\* run() posts the task of a detached thread, which begins without a read.
LEMMA RunPostTyped == ASSUME DriverTyped, RunPost PROVE DriverTyped'
<1>0. "run" \in IoThreads /\ "run" \notin PostThreads
  BY RunIsThread, SocketCanAssumption
<1>1. PICK p \in PostThreads :
        /\ io[p].pc = "none"
        /\ io' = [io EXCEPT !["run"].pc = "trigger", ![p] = [Idle EXCEPT !.pc = "work"]]
  BY DEF RunPost
<1> DEFINE triggers == [io["run"] EXCEPT !.pc = "trigger"]
           works == [Idle EXCEPT !.pc = "work"]
<1>2. works \in IoLocals /\ works.pc = "work"
  BY DEF Idle, IoLocals, WorkerPcs, Completions
<1>3. triggers \in IoLocals /\ triggers.pc = "trigger"
  BY <1>0 DEF DriverTyped, IoTyped, IoLocals, Beginning
<1>4. /\ io' \in [IoThreads -> IoLocals] /\ io'["run"].pc = "trigger" /\ io'[p].pc = "work"
      /\ \A u \in IoThreads : u # "run" /\ u # p => io'[u] = io[u]
  <2>1. io' = [io EXCEPT !["run"] = triggers, ![p] = works]
    BY <1>1
  <2> HIDE DEF triggers, works
  <2> QED
    BY <1>0, <1>2, <1>3, <2>1 DEF DriverTyped, IoTyped, IoThreads
<1>5. IoTyped'
  BY <1>0, <1>4 DEF DriverTyped, IoTyped, IoThreads, WorkerPcs
<1>6. Setting' \subseteq Setting
  BY <1>4 DEF Setting
<1>7. Fatal' \subseteq Fatal
  BY <1>4, <1>6 DEF Fatal, Setting
<1>8. Starts' <= Starts
  BY <1>4 DEF RunPost, Starts, Beginning
<1> QED
  BY <1>5, <1>6, <1>7, <1>8, NothingStarts DEF RunPost, DriverTyped

\* The read that run() starts had been counted.
LEMMA RunTriggerTyped == ASSUME DriverTyped, RunTrigger PROVE DriverTyped'
<1>0. "run" \in IoThreads
  BY RunIsThread
<1>1. /\ reading' \in Nat /\ completed' \in Seq(Completions)
      /\ reading' + Len(completed') = reading + Len(completed) + 1
      /\ Len(completed) <= Len(completed')
      /\ \A i \in 1 .. Len(completed) : completed'[i] = completed[i]
      /\ FailedAfter(completed', Len(completed))
  BY TriggerAdds DEF RunTrigger, DriverTyped
<1>2. /\ IoTyped' /\ io'["run"].pc = "work"
      /\ Setting' = Setting \ {"run"} /\ Fatal' = Fatal \ {"run"}
  BY <1>0, GotoTyped DEF RunTrigger, DriverTyped, WorkerPcs
<1>3. Setting \in SUBSET IoThreads /\ Fatal \in SUBSET IoThreads
  BY DEF Setting, Fatal
<1>4. /\ Cardinality(Setting) \in Nat /\ Cardinality(Setting') \in Nat
      /\ Cardinality(Fatal) \in Nat /\ Cardinality(Fatal') \in Nat
      /\ Cardinality(Setting') <= Cardinality(Setting)
      /\ Cardinality(Fatal') <= Cardinality(Fatal)
  BY <1>2, <1>3, CountThreads
<1>5. Starts = 1 /\ Starts' = 0
  BY <1>2 DEF RunTrigger, Starts, Beginning
<1>6. ReadsBounded'
  <2>1. /\ reading \in Nat /\ Len(completed) \in Nat /\ Len(completed') \in Nat
        /\ reading + Len(completed) + Cardinality(Setting) + 1 <= MaxReads
    BY <1>1, <1>5 DEF DriverTyped, ReadsBounded
  <2>2. reading' + Len(completed') + Cardinality(Setting') + 0
          <= reading + Len(completed) + Cardinality(Setting) + 1
    BY <1>1, <1>4, <2>1
  <2>3. reading' + Len(completed') + Cardinality(Setting') + 0 <= MaxReads
    BY <1>1, <1>4, <2>1, <2>2, SocketCanAssumption
  <2> QED
    BY <1>5, <2>3 DEF ReadsBounded
<1>7. Fits(completed', posted + Cardinality(Fatal'))
  <2>1. /\ posted + Cardinality(Fatal') <= posted + Cardinality(Fatal)
        /\ posted + Cardinality(Fatal') \in Nat /\ posted + Cardinality(Fatal) \in Nat
    BY <1>4 DEF DriverTyped
  <2> QED
    BY <1>1, <2>1, FailureFits DEF DriverTyped
<1>8. Fits(completed, posted + Cardinality(Fatal))'
  BY <1>7 DEF Fits, FailedAfter, RunTrigger
<1> QED
  BY <1>1, <1>2, <1>6, <1>8 DEF RunTrigger, DriverTyped

-------------------------------------------------------------------------------

\* A frame moves from the completions to the strand, and the next read takes its turn.
LEMMA ReadFrameTyped ==
  ASSUME DriverTyped, NEW t \in IoThreads, ReadFrame(t)
  PROVE  DriverTyped'
<1> DEFINE cs == Tail(completed)
<1>1. /\ completed # << >> /\ Head(completed) = "frame" /\ Trigger(cs)
      /\ posted' = posted + 1 /\ UNCHANGED <<driver_state, socket, stopped, io>>
  BY DEF ReadFrame, Completes
<1>2. cs \in Seq(Completions) /\ Len(cs) = Len(completed) - 1
  BY <1>1, HeadTailProperties DEF DriverTyped
<1> HIDE DEF cs
<1>3. /\ reading' \in Nat /\ completed' \in Seq(Completions)
      /\ reading' + Len(completed') = reading + Len(cs) + 1
      /\ Len(cs) <= Len(completed') /\ \A i \in 1 .. Len(cs) : completed'[i] = cs[i]
      /\ FailedAfter(completed', Len(cs))
  BY <1>1, <1>2, TriggerAdds DEF DriverTyped
<1>4. Setting' = Setting /\ Fatal' = Fatal /\ Starts' = Starts /\ IoTyped'
  BY <1>1 DEF Setting, Fatal, Starts, DriverTyped, IoTyped
<1>5. Setting \in SUBSET IoThreads /\ Fatal \in SUBSET IoThreads
  BY DEF Setting, Fatal
<1>6. Cardinality(Setting) \in Nat /\ Cardinality(Fatal) \in Nat /\ Starts \in {0, 1}
  BY <1>5, CountThreads DEF Starts
<1>7. ReadsBounded'
  <2>1. Len(completed) \in Nat /\ Len(completed') \in Nat
    BY <1>3 DEF DriverTyped
  <2> QED
    BY <1>2, <1>3, <1>4, <1>6, <2>1, SocketCanAssumption DEF DriverTyped, ReadsBounded
<1>8. Fits(completed', posted' + Cardinality(Fatal))
  <2>1. posted \in Nat /\ posted + Cardinality(Fatal) \in Nat
    BY <1>6 DEF DriverTyped
  <2>2. Fits(cs, posted + Cardinality(Fatal) + 1)
    BY <1>1, <2>1, TailFits DEF cs, DriverTyped
  <2>3. posted' + Cardinality(Fatal) = posted + Cardinality(Fatal) + 1
    BY <1>1, <1>6, <2>1
  <2> QED
    BY <1>2, <1>3, <2>1, <2>2, <2>3, FailureFits
<1>9. Fits(completed, posted + Cardinality(Fatal))'
  BY <1>4, <1>8 DEF Fits, FailedAfter
<1> QED
  BY <1>1, <1>3, <1>4, <1>7, <1>9 DEF DriverTyped

\* A read that ended badly passes into the thread's hands, with the place of its frame.
LEMMA ReadErrorTyped ==
  ASSUME DriverTyped, NEW t \in IoThreads, ReadError(t)
  PROVE  DriverTyped'
<1> DEFINE cs == Tail(completed)
           end == Head(completed)
           r == [pc |-> "set", ended |-> end, is_open |-> socket]
<1>1. /\ completed # << >> /\ end \in {"fatal", "failed"} /\ completed' = cs
      /\ io[t].pc = "work" /\ io' = [io EXCEPT ![t] = r]
      /\ UNCHANGED <<driver_state, socket, reading, posted, stopped>>
  BY DEF ReadError, Completes, Works
<1>2. cs \in Seq(Completions) /\ Len(cs) = Len(completed) - 1
  BY <1>1, HeadTailProperties DEF DriverTyped
<1>3. r \in IoLocals /\ r.pc = "set" /\ r.ended = end
  BY <1>1 DEF DriverTyped, IoLocals, WorkerPcs, Completions
<1> HIDE DEF r
<1>4. /\ io' \in [IoThreads -> IoLocals] /\ io'[t] = r
      /\ \A u \in IoThreads : u # t => io'[u] = io[u]
  BY <1>1, <1>3 DEF DriverTyped, IoTyped
<1>5. IoTyped'
  BY <1>3, <1>4 DEF DriverTyped, IoTyped, IoThreads, WorkerPcs
<1>6. t \notin Setting /\ Setting' = Setting \cup {t}
  BY <1>1, <1>3, <1>4 DEF Setting
<1>7. t \notin Fatal /\ Fatal' = IF end = "fatal" THEN Fatal \cup {t} ELSE Fatal
  <2>1. t \notin Fatal
    BY <1>6 DEF Fatal
  <2>2. Fatal' = {u \in Setting \cup {t} : io'[u].ended = "fatal"}
    BY <1>6 DEF Fatal
  <2>3. io'[t].ended = end /\ \A u \in Setting : io'[u].ended = io[u].ended
    BY <1>3, <1>4, <1>6 DEF Setting
  <2> QED
    BY <2>1, <2>2, <2>3 DEF Fatal
<1>8. Setting \in SUBSET IoThreads /\ Fatal \in SUBSET IoThreads
  BY DEF Setting, Fatal
<1>9. /\ Cardinality(Setting) \in Nat /\ Cardinality(Setting') = Cardinality(Setting) + 1
      /\ Cardinality(Fatal) \in Nat
      /\ Cardinality(Fatal') = IF end = "fatal" THEN Cardinality(Fatal) + 1 ELSE Cardinality(Fatal)
  <2>1. IsFiniteSet(Setting) /\ IsFiniteSet(Fatal)
    BY <1>8, CountThreads
  <2>2. Cardinality(Setting) \in Nat /\ Cardinality(Fatal) \in Nat
    BY <1>8, CountThreads
  <2>3. Cardinality(Setting \cup {t}) = Cardinality(Setting) + 1
    BY <1>6, <2>1, FS_AddElement
  <2>4. Cardinality(Fatal \cup {t}) = Cardinality(Fatal) + 1
    BY <1>7, <2>1, FS_AddElement
  <2> QED
    BY <1>6, <1>7, <2>2, <2>3, <2>4
<1>10. Starts' <= Starts /\ Starts \in {0, 1} /\ Starts' \in {0, 1}
  <2>1. io'["run"].pc \in Beginning => io["run"].pc \in Beginning
    BY <1>3, <1>4, RunIsThread DEF Beginning
  <2> QED
    BY <2>1 DEF Starts
<1>11. ReadsBounded'
  <2>1. Len(completed) \in Nat
    BY DEF DriverTyped
  <2> QED
    BY <1>1, <1>2, <1>9, <1>10, <2>1, SocketCanAssumption DEF DriverTyped, ReadsBounded
<1>12. Fits(completed', posted + Cardinality(Fatal'))
  <2>1. posted \in Nat /\ posted + Cardinality(Fatal) \in Nat
    BY <1>9 DEF DriverTyped
  <2>2. Fits(cs, IF end = "failed" THEN posted + Cardinality(Fatal)
                                   ELSE posted + Cardinality(Fatal) + 1)
    BY <1>1, <2>1, TailFits DEF DriverTyped
  <2>3. posted + Cardinality(Fatal') = IF end = "failed" THEN posted + Cardinality(Fatal)
                                                         ELSE posted + Cardinality(Fatal) + 1
    BY <1>1, <1>9, <2>1
  <2> QED
    BY <1>1, <2>2, <2>3
<1>13. Fits(completed, posted + Cardinality(Fatal))'
  BY <1>1, <1>12 DEF Fits, FailedAfter
<1> QED
  BY <1>1, <1>2, <1>5, <1>11, <1>13 DEF DriverTyped

\* ... where it ends, or is posted and starts the next.
LEMMA SetNotReadyTyped ==
  ASSUME DriverTyped, NEW t \in IoThreads, SetNotReady(t)
  PROVE  DriverTyped'
<1>1. /\ IoTyped' /\ io'[t].pc = "work" /\ \A u \in IoThreads : u # t => io'[u] = io[u]
      /\ Setting' = Setting \ {t} /\ Fatal' = Fatal \ {t}
  BY GotoTyped DEF SetNotReady, DriverTyped, WorkerPcs
<1>2. /\ driver_state' \in {"closed", "open", "ready"} /\ UNCHANGED <<socket, stopped>>
      /\ io[t].pc = "set"
  BY DEF SetNotReady, StateOf
<1>3. Starts' <= Starts /\ Starts \in {0, 1} /\ Starts' \in {0, 1}
  <2>1. io'["run"].pc \in Beginning => io["run"].pc \in Beginning
    BY <1>1, RunIsThread DEF Beginning
  <2> QED
    BY <2>1 DEF Starts
<1>4. CASE io[t].ended = "failed" /\ UNCHANGED <<reading, completed, posted>>
  BY <1>1, <1>2, <1>3, <1>4, NothingStarts DEF DriverTyped
<1>5. CASE io[t].ended = "fatal" /\ posted' = posted + 1 /\ Trigger(completed)
  <2>1. /\ reading' \in Nat /\ completed' \in Seq(Completions)
        /\ reading' + Len(completed') = reading + Len(completed) + 1
        /\ Len(completed) <= Len(completed')
        /\ \A i \in 1 .. Len(completed) : completed'[i] = completed[i]
        /\ FailedAfter(completed', Len(completed))
    BY <1>5, TriggerAdds DEF DriverTyped
  <2>2. t \in Setting /\ t \in Fatal
    BY <1>2, <1>5 DEF Setting, Fatal
  <2>3. Setting \in SUBSET IoThreads /\ Fatal \in SUBSET IoThreads
    BY DEF Setting, Fatal
  <2>4. IsFiniteSet(Setting) /\ IsFiniteSet(Fatal)
    BY <2>3, CountThreads
  <2>5. /\ Cardinality(Setting) \in Nat /\ Cardinality(Fatal) \in Nat
        /\ Cardinality(Setting') \in Nat /\ Cardinality(Fatal') \in Nat
    BY <1>1, <2>3, CountThreads
  <2>6. /\ Cardinality(Setting') = Cardinality(Setting) - 1
        /\ Cardinality(Fatal') = Cardinality(Fatal) - 1
    BY <1>1, <2>2, <2>4, FS_RemoveElement
  <2>7. ReadsBounded'
    <3>1. Len(completed) \in Nat /\ Len(completed') \in Nat
      BY <2>1 DEF DriverTyped
    <3>2. reading \in Nat /\ reading + Len(completed) + Cardinality(Setting) + Starts <= MaxReads
      BY DEF DriverTyped, ReadsBounded
    <3>3. reading' + Len(completed') + Cardinality(Setting')
            = reading + Len(completed) + Cardinality(Setting)
      BY <2>1, <2>5, <2>6, <3>1, <3>2
    <3>4. /\ reading + Len(completed) + Cardinality(Setting) \in Nat
          /\ reading + Len(completed) + Cardinality(Setting) + Starts <= MaxReads
      BY <2>5, <3>1, <3>2
    <3>5. (reading + Len(completed) + Cardinality(Setting)) + Starts' <= MaxReads
      BY <1>3, <3>4, SocketCanAssumption
    <3>6. reading' + Len(completed') + Cardinality(Setting') + Starts' <= MaxReads
      BY <3>3, <3>5
    <3> QED
      BY <3>6 DEF ReadsBounded
  <2>8. Fits(completed', posted' + Cardinality(Fatal'))
    <3>1. /\ posted + Cardinality(Fatal) \in Nat
          /\ posted' + Cardinality(Fatal') = posted + Cardinality(Fatal)
      BY <1>5, <2>5, <2>6 DEF DriverTyped
    <3> QED
      BY <2>1, <3>1, FailureFits DEF DriverTyped
  <2>9. Fits(completed, posted + Cardinality(Fatal))'
    BY <2>8 DEF Fits, FailedAfter
  <2> QED
    BY <1>1, <1>2, <1>5, <2>1, <2>7, <2>9 DEF DriverTyped
<1> QED
  BY <1>4, <1>5 DEF SetNotReady

\* A thread leaves, or takes a frame to the listener and comes back.
LEMMA WorkerTyped ==
  ASSUME DriverTyped, NEW t \in IoThreads, NEW pc \in {"none", "work", "call", "left"},
         t # "run" => pc # "left", Goto(t, pc), posted' \in {posted, posted - 1}, posted' >= 0,
         UNCHANGED <<driver_state, socket, reading, completed, stopped>>
  PROVE  DriverTyped'
<1>1. /\ IoTyped' /\ io'[t].pc = pc /\ \A u \in IoThreads : u # t => io'[u] = io[u]
      /\ Setting' = Setting \ {t} /\ Fatal' = Fatal \ {t}
  BY GotoTyped DEF DriverTyped, WorkerPcs
<1>2. Starts' <= Starts
  <2>1. io'["run"].pc \in Beginning => io["run"].pc \in Beginning
    BY <1>1, RunIsThread DEF Beginning
  <2> QED
    BY <2>1 DEF Starts
<1> QED
  BY <1>1, <1>2, NothingStarts DEF DriverTyped

\* The bus ends a read only while the queue has room.
LEMMA BusFrameTyped == ASSUME DriverTyped, BusFrame PROVE DriverTyped'
<1>1. PICK c \in Completions : completed' = Append(completed, c)
  BY DEF BusFrame
<1>2. /\ reading > 0 /\ posted + Len(completed) < MaxQueued /\ reading' = reading - 1
      /\ UNCHANGED <<driver_state, socket, posted, stopped, io>>
  BY DEF BusFrame
<1>3. /\ completed' \in Seq(Completions) /\ Len(completed') = Len(completed) + 1
      /\ Len(completed) \in Nat
  BY <1>1, AppendProperties DEF DriverTyped
<1>4. Setting' = Setting /\ Fatal' = Fatal /\ Starts' = Starts /\ IoTyped'
  BY <1>2 DEF Setting, Fatal, Starts, DriverTyped, IoTyped
<1>5. Setting \in SUBSET IoThreads /\ Fatal \in SUBSET Setting
  BY DEF Setting, Fatal
<1>6. /\ Cardinality(Setting) \in Nat /\ Cardinality(Fatal) \in Nat /\ Starts \in {0, 1}
      /\ Cardinality(Fatal) <= Cardinality(Setting)
  BY <1>5, CountThreads DEF Starts
<1>7. ReadsBounded'
  BY <1>2, <1>3, <1>4, <1>6, SocketCanAssumption DEF DriverTyped, ReadsBounded
<1>8. Fits(completed', posted + Cardinality(Fatal))
  <2>1. FailedAfter(completed', Len(completed'))
    BY <1>3 DEF FailedAfter
  <2>2. posted + Cardinality(Fatal) + Len(completed') <= MaxQueued + MaxReads
    BY <1>2, <1>3, <1>6, SocketCanAssumption DEF DriverTyped, ReadsBounded
  <2>3. Len(completed') \in 0 .. Len(completed')
    BY <1>3
  <2> QED
    BY <2>1, <2>2, <2>3 DEF Fits
<1>9. Fits(completed, posted + Cardinality(Fatal))'
  BY <1>2, <1>4, <1>8 DEF Fits, FailedAfter
<1> QED
  BY <1>2, <1>3, <1>4, <1>7, <1>9 DEF DriverTyped

\* A step of others.
LEMMA DriverRests == ASSUME DriverTyped, UNCHANGED driverVars PROVE DriverTyped'
<1>1. /\ UNCHANGED <<driver_state, socket, reading, completed, posted, stopped>> /\ io' = io
  BY DEF driverVars
<1>2. Setting' = Setting /\ Fatal' = Fatal /\ Starts' = Starts /\ IoTyped'
  BY <1>1 DEF Setting, Fatal, Starts, DriverTyped, IoTyped
<1>3. Starts' <= Starts
  BY <1>2 DEF Starts
<1> QED
  BY <1>1, <1>2, <1>3, NothingStarts DEF DriverTyped

LEMMA StopTyped == ASSUME DriverTyped, StopIo PROVE DriverTyped'
<1>1. /\ UNCHANGED <<driver_state, socket, reading, completed, posted>> /\ io' = io /\ stopped' = TRUE
  BY DEF StopIo
<1>2. Setting' = Setting /\ Fatal' = Fatal /\ Starts' = Starts /\ IoTyped'
  BY <1>1 DEF Setting, Fatal, Starts, DriverTyped, IoTyped
<1>3. Starts' <= Starts
  BY <1>2 DEF Starts
<1> QED
  BY <1>1, <1>2, <1>3, NothingStarts DEF DriverTyped
-------------------------------------------------------------------------------
(* The BCMsync's and the main thread's types                                *)

\* TypeOK's part for the main thread, with main a record.
MainTyped ==
  /\ layers \in [{"stack", "can", "bcm"} -> {Off, ErrorState, Ready}]
  /\ main \in [pc : {"idle", "halt", "diag", "recover", "unlisten", "close", "stop",
                     "join", "open", "waitReady", "drop", "bcm", "haltBcm"},
               cmd : {"none", "init", "abort", "recover"}, error : BOOLEAN]
  /\ lost \in BOOLEAN

\* The inductive invariant.
TInv == DriverTyped /\ BcmTypeOK /\ MainTyped

\* What a frame does to the nodes: a node that is started is known.
LEMMA HandleTyped == ASSUME BcmTypeOK, NEW f \in Frames, handleFrame(f) PROVE BcmTypeOK'
<1>1. CASE UNCHANGED <<nodeVars, tx, sync_running, failed>>
  BY <1>1 DEF handleFrame, BcmTypeOK, nodeVars
<1>2. CASE /\ known_nodes' = known_nodes \cup (IF f.kind = "other" THEN {} ELSE {f.id})
           /\ started_nodes' = StartedAfter(f, known_nodes')
           /\ Toggle(started_nodes')
  <2>1. f.kind \in {"nmt", "heartbeat", "other"}
    BY DEF Frames
  <2>2. f.kind # "other" => f.id \in Nodes \cup {0}
    BY DEF Frames
  <2>3. f.kind = "nmt" => f.start \in BOOLEAN
    BY DEF Frames
  <2>4. known_nodes \subseteq known_nodes' /\ (f.kind # "other" => f.id \in known_nodes')
    BY <1>2
  <2>5. known_nodes' \subseteq Nodes \cup {0}
    BY <1>2, <2>2 DEF BcmTypeOK
  <2>6. started_nodes' \subseteq known_nodes'
    <3>1. CASE f.kind = "nmt" /\ f.start
      BY <1>2, <2>4, <3>1 DEF BcmTypeOK, StartedAfter
    <3>2. CASE f.kind = "nmt" /\ ~f.start
      BY <1>2, <2>4, <3>2 DEF BcmTypeOK, StartedAfter
    <3>3. CASE f.kind = "heartbeat"
      BY <1>2, <2>4, <3>3 DEF BcmTypeOK, StartedAfter
    <3>4. CASE f.kind = "other"
      BY <1>2, <2>4, <3>4 DEF BcmTypeOK, StartedAfter
    <3> QED
      BY <2>1, <2>3, <3>1, <3>2, <3>3, <3>4
  <2>7. tx' \in BOOLEAN /\ sync_running' \in BOOLEAN /\ failed' \in {"no", "frame", "halt"}
    BY <1>2 DEF Toggle, StartTX, StopTX, BcmTypeOK
  <2>8. UNCHANGED <<setup, bcm_socket, listening>>
    BY DEF handleFrame
  <2> QED
    BY <2>5, <2>6, <2>7, <2>8 DEF BcmTypeOK
<1> QED
  BY <1>1, <1>2 DEF handleFrame

LEMMA InitTInv == ASSUME Init PROVE TInv
<1>1. io \in [IoThreads -> IoLocals] /\ \A t \in IoThreads : io[t].pc = "none"
  <2>1. Idle \in IoLocals /\ Idle.pc = "none"
    BY DEF Idle, IoLocals, WorkerPcs, Completions
  <2> QED
    BY <2>1 DEF Init, InitDriver
<1>2. IoTyped
  BY <1>1 DEF IoTyped, WorkerPcs, IoThreads
<1>3. Setting = {} /\ Fatal = {} /\ Starts = 0
  BY <1>1, RunIsThread DEF Setting, Fatal, Starts, Beginning
<1>4. Cardinality({}) = 0
  BY FS_EmptySet
<1>5. completed = << >> /\ reading = 0 /\ posted = 0 /\ Len(<< >>) = 0 /\ completed \in Seq(Completions)
  BY DEF Init, InitDriver
<1>6. ReadsBounded
  BY <1>3, <1>4, <1>5, SocketCanAssumption DEF ReadsBounded
<1>7. Fits(completed, posted + Cardinality(Fatal))
  <2>1. FailedAfter(completed, 0) /\ 0 \in 0 .. Len(completed)
    BY <1>5 DEF FailedAfter
  <2>2. posted + Cardinality(Fatal) + 0 <= MaxQueued + MaxReads
    BY <1>3, <1>4, <1>5, SocketCanAssumption
  <2> QED
    BY <2>1, <2>2 DEF Fits
<1>8. driver_state \in {"closed", "open", "ready"} /\ socket \in BOOLEAN /\ stopped \in BOOLEAN
  BY DEF Init, InitDriver
<1>9. DriverTyped
  BY <1>2, <1>5, <1>6, <1>7, <1>8 DEF DriverTyped
<1>10. BcmTypeOK
  BY DEF Init, InitBcm, BcmTypeOK
<1>11. MainTyped
  <2>1. layers = [stack |-> Off, can |-> Off, bcm |-> Off] /\ main = Resting /\ lost = FALSE
    BY DEF Init
  <2>2. layers \in [{"stack", "can", "bcm"} -> {Off, ErrorState, Ready}]
    BY <2>1
  <2> QED
    BY <2>1, <2>2 DEF MainTyped, Resting
<1> QED
  BY <1>9, <1>10, <1>11 DEF TInv

\* The stages of the main thread.
LEMMA MainPcs ==
  ASSUME MainTyped,
         NEW pc \in {"idle", "halt", "diag", "recover", "unlisten", "close", "stop",
                     "join", "open", "waitReady", "drop", "bcm", "haltBcm"}
  PROVE  /\ GoOn(pc) /\ UNCHANGED <<layers, lost>> => MainTyped'
         /\ \A s \in {Off, ErrorState, Ready} : GoOn(pc) /\ AllLayers(s) /\ UNCHANGED lost => MainTyped'
BY DEF MainTyped, GoOn, AllLayers

LEMMA MainRests ==
  ASSUME MainTyped, UNCHANGED lost, main' = Resting,
         UNCHANGED layers \/ \E s \in {Off, ErrorState, Ready} : AllLayers(s)
  PROVE  MainTyped'
BY DEF MainTyped, Resting, AllLayers

LEMMA CanFailsTyped == ASSUME MainTyped, CanFails, UNCHANGED lost PROVE MainTyped'
<1>1. CASE main.cmd = "init"
  <2>1. main' = [main EXCEPT !.pc = "unlisten", !.cmd = "abort"] /\ layers' = layers
    BY <1>1 DEF CanFails
  <2> QED
    BY <2>1 DEF MainTyped
<1>2. CASE main.cmd # "init"
  BY <1>2, MainRests DEF CanFails
<1> QED
  BY <1>1, <1>2

\* One case per action of the main thread.
LEMMA MainMoves == ASSUME TInv, Main PROVE TInv'
<1> USE DEF TInv
<1>1. CASE Tick \/ Diag
  <2>1. MainTyped'
    <3>1. CASE Tick
      <4>1. \E pc \in {"open", "diag", "halt"}, cmd \in {"none", "init"}, error \in BOOLEAN :
              main' = [pc |-> pc, cmd |-> cmd, error |-> error]
        <5>1. CASE layers.stack = Off
          BY <3>1, <5>1 DEF Tick
        <5>2. CASE layers.stack # Off
          <6>1. main' = [pc |-> IF isReady THEN "diag" ELSE "halt", cmd |-> "none",
                         error |-> ~isReady]
            BY <3>1, <5>2 DEF Tick
          <6>2. (~isReady) \in BOOLEAN
            OBVIOUS
          <6> QED
            BY <6>1, <6>2
        <5> QED
          BY <5>1, <5>2
      <4>2. UNCHANGED <<layers, lost>>
        BY <3>1 DEF Tick
      <4> QED
        BY <4>1, <4>2 DEF MainTyped
    <3>3. CASE Diag
      BY <3>3 DEF MainTyped, Diag, Resting
    <3> QED
      BY <1>1, <3>1, <3>3
  <2>2. UNCHANGED <<driverVars, bcmVars>>
    BY <1>1 DEF Tick, Diag
  <2> QED
    BY <2>1, <2>2, DriverRests DEF bcmVars, nodeVars, BcmTypeOK
<1>2. CASE HaltLayers
  <2>1. MainTyped'
    BY <1>2, MainPcs DEF HaltLayers
  <2>2. BcmTypeOK'
    BY <1>2 DEF HaltLayers, handleHalt, StopTX, BcmTypeOK, bcmVars, nodeVars
  <2> QED
    BY <1>2, <2>1, <2>2, DriverRests DEF HaltLayers
<1>3. CASE CanLayer
  <2>1. UNCHANGED bcmVars
    BY <1>3 DEF CanLayer, RecoverCan, DropErrorListener, ShutdownDriver, Join, OpenDriver, WaitReady
  <2>2. BcmTypeOK'
    BY <2>1 DEF bcmVars, nodeVars, BcmTypeOK
  <2>3. CASE RecoverCan
    <3>1. MainTyped'
      BY <2>3 DEF RecoverCan, MainTyped, GoOn
    <3> QED
      BY <2>2, <2>3, <3>1, DriverRests DEF RecoverCan
  <2>4. CASE DropErrorListener
    <3>1. MainTyped'
      BY <2>4, MainPcs DEF DropErrorListener
    <3> QED
      BY <2>2, <2>4, <3>1, DriverRests DEF DropErrorListener
  <2>5. CASE ShutdownDriver
    <3>1. MainTyped'
      BY <2>5, MainPcs DEF ShutdownDriver
    <3> QED
      BY <2>2, <2>5, <3>1, CloseTyped, StopTyped DEF ShutdownDriver
  <2>6. CASE Join
    <3>1. MainTyped'
      BY <2>6, MainPcs, MainRests DEF Join
    <3> QED
      BY <2>2, <2>6, <3>1, DriverRests DEF Join
  <2>7. CASE OpenDriver
    <3>1. CASE Opens /\ GoOn("waitReady") /\ UNCHANGED layers
      BY <2>2, <2>7, <3>1, MainPcs, OpensTyped DEF OpenDriver
    <3>2. CASE UNCHANGED driverVars /\ CanFails
      BY <2>2, <2>7, <3>2, CanFailsTyped, DriverRests DEF OpenDriver
    <3> QED
      BY <2>7, <3>1, <3>2 DEF OpenDriver
  <2>8. CASE WaitReady
    <3>1. MainTyped'
      <4>1. CASE isReady
        BY <2>8, <4>1 DEF WaitReady, MainTyped, GoOn
      <4>2. CASE ~isReady
        BY <2>8, <4>2, CanFailsTyped DEF WaitReady
      <4> QED
        BY <4>1, <4>2
    <3> QED
      BY <2>2, <2>8, <3>1, DriverRests DEF WaitReady
  <2> QED
    BY <1>3, <2>3, <2>4, <2>5, <2>6, <2>7, <2>8 DEF CanLayer
<1>4. CASE DropListener
  <2>1. MainTyped'
    BY <1>4, MainPcs DEF DropListener
  <2>2. BcmTypeOK'
    BY <1>4 DEF DropListener, handleShutdown, BcmTypeOK, nodeVars
  <2> QED
    BY <1>4, <2>1, <2>2, DriverRests DEF DropListener
<1>5. CASE InitBcmLayer
  <2>1. PICK status \in {"ok", "warn", "error"} :
          /\ handleInit(status)
          /\ \/ main' = Resting /\ AllLayers(Ready)
             \/ main' = [main EXCEPT !.pc = "unlisten", !.cmd = "abort"] /\ UNCHANGED layers
             \/ main' = [main EXCEPT !.pc = "haltBcm"] /\ UNCHANGED layers
    BY <1>5 DEF InitBcmLayer
  <2>2. UNCHANGED <<driverVars, lost>>
    BY <1>5 DEF InitBcmLayer
  <2>3. MainTyped'
    <3>1. CASE main' = Resting /\ AllLayers(Ready)
      BY <2>2, <3>1, MainRests
    <3>2. CASE main' = [main EXCEPT !.pc = "unlisten", !.cmd = "abort"] /\ UNCHANGED layers
      BY <2>2, <3>2 DEF MainTyped
    <3>3. CASE main' = [main EXCEPT !.pc = "haltBcm"] /\ UNCHANGED layers
      BY <2>2, <3>3 DEF MainTyped
    <3> QED
      BY <2>1, <3>1, <3>2, <3>3
  <2>4. BcmTypeOK'
    BY <2>1 DEF handleInit, BcmTypeOK
  <2> QED
    BY <2>2, <2>3, <2>4, DriverRests
<1>6. CASE HaltBcm
  <2>1. MainTyped'
    BY <1>6, MainRests DEF HaltBcm
  <2>2. BcmTypeOK'
    BY <1>6 DEF HaltBcm, handleHalt, StopTX, BcmTypeOK, bcmVars, nodeVars
  <2> QED
    BY <1>6, <2>1, <2>2, DriverRests DEF HaltBcm
<1> QED
  BY <1>1, <1>2, <1>3, <1>4, <1>5, <1>6 DEF Main

\* ... and of a thread of the driver.
LEMMA ThreadMoves == ASSUME TInv, NEW t \in IoThreads, IoThread(t) PROVE TInv'
<1> USE DEF TInv
<1>1. CASE HandleFrame(t)
  <2>1. PICK f \in Frames : handleFrame(f)
    BY <1>1 DEF HandleFrame
  <2>2. BcmTypeOK'
    BY <2>1, HandleTyped
  <2>3. MainTyped'
    BY <1>1 DEF HandleFrame, MainTyped
  <2>4. /\ Goto(t, "work") /\ posted' \in {posted, posted - 1} /\ posted' >= 0
        /\ UNCHANGED <<driver_state, socket, reading, completed, stopped>>
    BY <1>1 DEF HandleFrame, DriverTyped
  <2> QED
    BY <2>2, <2>3, <2>4, WorkerTyped
<1>2. CASE ~HandleFrame(t)
  <2>1. UNCHANGED <<bcmVars, layers, main>> /\ lost' \in BOOLEAN
    BY <1>2 DEF IoThread, RunThread, MainTyped
  <2>2. BcmTypeOK' /\ MainTyped'
    BY <2>1 DEF bcmVars, nodeVars, BcmTypeOK, MainTyped
  <2>3. CASE Leave(t)
    <3>1. PICK pc \in {"none", "left"} : Goto(t, pc) /\ (t # "run" => pc # "left")
      BY <2>3 DEF Leave
    <3>2. posted' \in {posted, posted - 1} /\ posted' >= 0
      BY <2>3 DEF Leave, DriverTyped
    <3> QED
      BY <2>2, <2>3, <3>1, <3>2, WorkerTyped DEF Leave
  <2>4. CASE TakePosted(t, listening)
    <3>1. PICK pc \in {"work", "call"} : Goto(t, pc)
      BY <2>4 DEF TakePosted
    <3>2. posted' \in {posted, posted - 1} /\ posted' >= 0
      BY <2>4 DEF TakePosted, DriverTyped
    <3> QED
      BY <2>2, <2>4, <3>1, <3>2, WorkerTyped DEF TakePosted
  <2>5. CASE ReadFrame(t) \/ ReadError(t) \/ SetNotReady(t)
    BY <2>2, <2>5, ReadFrameTyped, ReadErrorTyped, SetNotReadyTyped
  <2>6. CASE RunThread
    BY <2>2, <2>6, RunTyped, RunPostTyped, RunTriggerTyped DEF RunThread
  <2> QED
    BY <1>2, <2>3, <2>4, <2>5, <2>6 DEF IoThread
<1> QED
  BY <1>1, <1>2

\* For any nodes, setups, bounds and number of threads, detached ones included: the
\* variables keep their types; reads are never more than MaxReads, whatever sessions
\* they are from, and nothing but the frames they have read is queued.
THEOREM SyncNodeTypes == Spec => []TypeOK
<1>1. Init => TInv
  BY InitTInv
<1>2. ASSUME TInv, [Next]_vars PROVE TInv'
  <2>1. CASE Bus
    BY <1>2, <2>1, BusFrameTyped DEF TInv, Bus, bcmVars, nodeVars, BcmTypeOK, MainTyped
  <2>2. CASE UNCHANGED vars
    BY <1>2, <2>2, DriverRests DEF vars, TInv, bcmVars, nodeVars, BcmTypeOK, MainTyped
  <2> QED
    BY <1>2, <2>1, <2>2, MainMoves, ThreadMoves DEF Next
<1>3. TInv /\ IInv => TypeOK
  BY DriverTypes DEF TInv, MainTyped, TypeOK, IInv, Shape
<1> QED
  BY <1>1, <1>2, <1>3, IInvHolds, PTL DEF Spec
===============================================================================
