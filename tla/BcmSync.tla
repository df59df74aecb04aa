-------------------------------- MODULE BcmSync -------------------------------
(***************************************************************************)
(* BCMsync, the layer that has the kernel send SYNC while a node is        *)
(* started, and its BCMsocket.  It follows the NMT commands and heartbeats *)
(* on the bus: known_nodes_ and started_nodes_ are what it has heard.      *)
(*                                                                         *)
(* Its frames, as its handler tells them apart:                            *)
(*   [kind |-> "nmt", id |-> i, start |-> b]   a command for node i, 0: all*)
(*   [kind |-> "heartbeat", id |-> i, stopped |-> b]                       *)
(*   [kind |-> "other"]                        an error frame              *)
(***************************************************************************)
EXTENDS Naturals

CONSTANTS
  Nodes,   \* ids of the nodes on the bus
  Setups   \* configurations: the ignored and the monitored nodes

ASSUME BcmAssumption ==
  /\ Nodes \subseteq 1..127
  /\ \A s \in Setups : s.ignored \subseteq 0..127 /\ s.monitored \subseteq 0..127

VARIABLES
  setup,          \* ignored_nodes_ and monitored_nodes_
  known_nodes,
  started_nodes,
  sync_running,
  bcm_socket,     \* s_ is open
  listening,      \* handler_ is registered
  tx,             \* the kernel sends SYNC
  failed          \* history: the write to the kernel that failed and was not made good:
                  \* "no", of the last "frame", of the last "halt"

nodeVars == <<known_nodes, started_nodes>>
bcmVars  == <<setup, nodeVars, sync_running, bcm_socket, listening, tx, failed>>

InitBcm ==
  /\ setup \in Setups
  /\ known_nodes = {} /\ started_nodes = {}
  /\ sync_running = FALSE /\ bcm_socket = FALSE /\ listening = FALSE /\ tx = FALSE
  /\ failed = "no"

BcmTypeOK ==
  /\ setup \in Setups
  /\ known_nodes \subseteq Nodes \cup {0} /\ started_nodes \subseteq known_nodes
  /\ sync_running \in BOOLEAN /\ bcm_socket \in BOOLEAN
  /\ listening \in BOOLEAN /\ tx \in BOOLEAN /\ failed \in {"no", "frame", "halt"}

Frames ==
  [kind : {"nmt"}, id : Nodes \cup {0}, start : BOOLEAN]
    \cup [kind : {"heartbeat"}, id : Nodes, stopped : BOOLEAN]
    \cup [kind : {"other"}]

-------------------------------------------------------------------------------
(* BCMsocket                                                               *)

\* TX_SETUP starts the kernel's sending, TX_DELETE ends it.  A write fails when the
\* socket is closed or there is nothing to delete, and may fail else.
StartTX(ok) == (ok => bcm_socket) /\ tx' = (tx \/ ok)
StopTX(ok)  == (ok => bcm_socket /\ tx) /\ tx' = (tx /\ ~ok)

-------------------------------------------------------------------------------
(* handleFrame, in the strand of the driver                                *)

skipNode(id) ==
  \/ id \in setup.ignored
  \/ setup.monitored # {} /\ id \notin setup.monitored

\* MUTANT of StartedAfter: a start of all nodes starts those nobody has heard of.
StartedAfterAll(f, kn) ==
  CASE f.kind = "nmt" /\ f.start  -> IF f.id # 0 THEN started_nodes \cup {f.id} ELSE Nodes
    [] f.kind = "nmt" /\ ~f.start -> IF f.id # 0 THEN started_nodes \ {f.id} ELSE {}
    [] f.kind = "heartbeat"       -> IF f.stopped THEN started_nodes \ {f.id}
                                                  ELSE started_nodes
    [] f.kind = "other"           -> started_nodes

\* started_nodes_ after the frame f, when the known nodes are kn.
StartedAfter(f, kn) ==
  CASE f.kind = "nmt" /\ f.start  -> IF f.id # 0 THEN started_nodes \cup {f.id}
                                                 ELSE started_nodes \cup kn
    [] f.kind = "nmt" /\ ~f.start -> IF f.id # 0 THEN started_nodes \ {f.id} ELSE {}
    [] f.kind = "heartbeat"       -> IF f.stopped THEN started_nodes \ {f.id}
                                                  ELSE started_nodes
    [] f.kind = "other"           -> started_nodes

\* Toggle sync if needed: sync_running_ is what the write has achieved, and what has
\* failed is tried again with the next frame.
Toggle(started) ==
  \/ /\ (started # {}) = sync_running
     /\ failed' = (IF failed = "halt" THEN failed ELSE "no")
     /\ UNCHANGED <<tx, sync_running>>
  \/ \E ok \in BOOLEAN :
       /\ \/ started = {} /\ sync_running /\ StopTX(ok) /\ sync_running' = ~ok
          \/ started # {} /\ ~sync_running /\ StartTX(ok) /\ sync_running' = ok
       /\ failed' = (IF ok THEN "no" ELSE IF failed = "halt" THEN failed ELSE "frame")

handleFrame(f) ==
  /\ \/ /\ f.kind # "other" /\ skipNode(f.id)
        /\ UNCHANGED <<nodeVars, tx, sync_running, failed>>
     \/ /\ f.kind # "other" => ~skipNode(f.id)
        /\ known_nodes' = known_nodes \cup (IF f.kind = "other" THEN {} ELSE {f.id})
        /\ started_nodes' = StartedAfter(f, known_nodes')
        /\ Toggle(started_nodes')
  /\ UNCHANGED <<setup, bcm_socket, listening>>

-------------------------------------------------------------------------------
(* The handlers of the layer                                               *)

\* status: "error" when no BCM socket can be opened, "warn" when the filter of the
\* driver's socket cannot be set; then there is no listener.
handleInit(status) ==
  /\ started_nodes' = {}
  /\ bcm_socket' = (status # "error")
  /\ listening' = (status = "ok")
  /\ failed' = "no"
  /\ UNCHANGED <<setup, known_nodes, sync_running, tx>>

\* handleShutdown once it has the mutex of the dispatcher; the kernel ends what
\* the closed socket has started.
handleShutdown ==
  /\ listening' = FALSE
  /\ bcm_socket' = FALSE /\ tx' = FALSE
  /\ UNCHANGED <<setup, nodeVars, sync_running, failed>>

\* MUTANT of handleHalt: the started nodes are kept.
handleHaltKeepsNodes ==
  \/ ~sync_running /\ UNCHANGED bcmVars
  \/ /\ sync_running
     /\ \E ok \in BOOLEAN : StopTX(ok)
     /\ failed' = IF tx' THEN "halt" ELSE "no"
     /\ sync_running' = FALSE
     /\ UNCHANGED <<setup, nodeVars, bcm_socket, listening>>

\* handleHalt does not look at what stopTX returns: if it fails the kernel goes on.
handleHalt ==
  \/ ~sync_running /\ UNCHANGED bcmVars
  \/ /\ sync_running
     /\ \E ok \in BOOLEAN : StopTX(ok)
     /\ failed' = IF tx' THEN "halt" ELSE "no"
     /\ sync_running' = FALSE
     /\ started_nodes' = {}
     /\ UNCHANGED <<setup, known_nodes, bcm_socket, listening>>
===============================================================================
