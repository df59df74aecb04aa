------------------------------- MODULE PdoMapper -------------------------------
(***************************************************************************)
(* The process data of one CANopen node: the cached objects                *)
(* (ObjectStorage::Data), the buffers of its PDOs (PDOMapper::Buffer) and  *)
(* the delegates that connect them.  The master receives one PDO, whose    *)
(* objects are rx, and sends one, whose objects are tx.                    *)
(*                                                                         *)
(* Four kinds of threads meet here.  The strand of the CAN driver writes   *)
(* a received frame into the buffers; the run thread ages the received PDO *)
(* and sends the other one; controllers and the services get_object and    *)
(* set_object get and set objects at any moment; the thread of the service *)
(* init maps everything anew.  Each object and each buffer has a mutex of  *)
(* its own, so a step is what one of them does to one object or buffer.    *)
(* The dispatcher's mutex keeps a listener while it handles a frame.  The  *)
(* run thread is joined before the next init (see RosChain), so that       *)
(* PDOMapper::mutex_ is never waited for.                                  *)
(*                                                                         *)
(* Between the moment init frees the buffers of a PDO and the moment it    *)
(* maps an object again, the object's delegates point to a freed buffer    *)
(* (alive is FALSE): what is written there is lost, what is read is        *)
(* anything.                                                               *)
(***************************************************************************)
EXTENDS Integers, Sequences, Functions

CONSTANTS
  Setups,            \* the possible mappings and dictionaries; inits bounds how
                     \* often the node is initialised
  Values,            \* of objects
  None,              \* no value
  TransmissionType,  \* of the received PDO
  MaxFrames          \* bound: PDOs on their way to the master

\* Some object is mapped, and none twice: a buffer is named by its object.
ASSUME PdoMapperAssumption ==
  /\ 0 \in Values /\ None \notin Values
  /\ \A s \in Setups :
       LET all == Range(s.rx \o s.tx) IN
       /\ s.rx \in Seq(Range(s.rx)) /\ s.tx \in Seq(Range(s.tx))
       /\ s.rx \o s.tx # << >> /\ IsInjective(s.rx \o s.tx)
       /\ {s.def, s.init} \subseteq [all -> Values \cup {None}] /\ s.readable \subseteq all
       /\ s.inits \in Nat
  /\ {TransmissionType, MaxFrames} \subseteq Nat

Names == UNION {Range(s.rx \o s.tx) : s \in Setups}

VARIABLES
  setup,      \* rx, tx and the dictionary: def_val, init_val, readable
  store,      \* Data: buffer (value), valid, and where the delegates lead
  buf,        \* Buffer: buffer (value), dirty, empty; alive: it is not freed
  frame,      \* TPDO: frame
  listening,  \* RPDO: listener_ is set
  timeout,    \* RPDO: timeout
  warned,     \* the last RPDO::sync warned
  strand,     \* index of the next buffer the frame is written to, 0 outside handleFrame
  run,        \* where the run thread is
  next,       \* TPDO::sync: index of the next buffer
  updated,    \* TPDO::sync: a buffer was dirty
  init,       \* where the thread of init is
  k,          \* index of the object it is at
  up,         \* the layer is past Init and the node Operational
  inits,      \* history: how often init was called
  dev,        \* the device's objects of tx; those of rx are different every time
  sends,      \* the device sends its PDO
  bus,        \* PDOs on their way to the master
  wanted,     \* history: last value written into the buffer since it was mapped
  received,   \* history: last value received, None if somebody wrote since
  late,       \* history: objects written since the current TPDO::sync began
  untouched   \* history: objects nobody wrote and no read of failed for since the reset

pdo   == <<store, buf>>
rpdo  == <<listening, timeout, warned, strand>>
tpdo  == <<frame, run, next, updated>>
svc   == <<init, k, up, inits>>
node  == <<setup, dev, sends, bus>>
hist  == <<wanted, received, late, untouched>>
vars  == <<pdo, rpdo, tpdo, svc, node, hist>>

RX == Range(setup.rx)
TX == Range(setup.tx)
All == setup.rx \o setup.tx
Objects == RX \cup TX

NewBuffer == [value |-> 0, dirty |-> FALSE, empty |-> TRUE, alive |-> TRUE]
NoBuffer == [NewBuffer EXCEPT !.alive = FALSE]

Init ==
  /\ setup \in Setups
  /\ store = [o \in Objects |-> [value |-> IF setup.def[o] = None THEN 0 ELSE setup.def[o],
                                 valid |-> setup.def[o] # None, rd |-> "sdo", wd |-> "sdo"]]
  /\ buf = [o \in Objects |-> NoBuffer]
  /\ frame = [o \in TX |-> 0]
  /\ listening = FALSE /\ timeout = -1 /\ warned = FALSE /\ strand = 0
  /\ run = "read" /\ next = 1 /\ updated = FALSE
  /\ init = "idle" /\ k = 1 /\ up = FALSE /\ inits = 0
  /\ dev \in [TX -> Values] /\ sends = FALSE /\ bus = << >>
  /\ wanted = [o \in TX |-> None] /\ received = [o \in RX |-> None]
  /\ late = {} /\ untouched = TX

-------------------------------------------------------------------------------
(* Objects                                                                 *)

Forget(objects, h) == [o \in DOMAIN h |-> IF o \in objects THEN None ELSE h[o]]

\* What the device may answer.
DevValues(o) == IF o \in TX THEN {dev[o]} ELSE Values

\* A buffer is written: what it held before is overwritten, sent or not.
BufferWrite(b, v) ==
  IF b.alive THEN [b EXCEPT !.value = v, !.dirty = TRUE, !.empty = FALSE] ELSE b

\* The value is stored and goes where the write delegate leads: into the buffer, or
\* to the device, which may not take it.
Write(o, v) ==
  /\ store' = [store EXCEPT ![o].value = v, ![o].valid = TRUE]
  /\ \/ /\ store[o].wd = "pdo"
        /\ buf' = [buf EXCEPT ![o] = BufferWrite(@, v)]
        /\ wanted' = IF o \in TX /\ buf[o].alive THEN [wanted EXCEPT ![o] = v] ELSE wanted
        /\ late' = IF run = "sync" THEN late \cup {o} ELSE late
        /\ UNCHANGED dev
     \/ /\ store[o].wd = "sdo"
        /\ \/ UNCHANGED dev
           \/ o \in TX /\ dev' = [dev EXCEPT ![o] = v]
        /\ UNCHANGED <<buf, wanted, late>>
  /\ received' = Forget({o}, received)
  /\ untouched' = untouched \ {o}

\* set, and set_cached of a value that is not stored already.
Set(o, v) ==
  /\ Write(o, v)
  /\ UNCHANGED <<rpdo, tpdo, svc, setup, sends, bus>>

\* get, and get_cached of an object that is not valid.  valid is set before the
\* delegate is called, and stays when it throws.
GetSdo(o) ==
  /\ o \in setup.readable /\ store[o].rd = "sdo"
  /\ \/ /\ \E v \in DevValues(o) : store' = [store EXCEPT ![o].value = v, ![o].valid = TRUE]
        /\ UNCHANGED untouched
     \/ /\ store' = [store EXCEPT ![o].valid = TRUE]
        /\ untouched' = untouched \ {o}
  /\ UNCHANGED <<buf, rpdo, tpdo, svc, node, wanted, received, late>>

\* MUTANT of GetPdo: a valid object is not refreshed, but the buffer marked as read.
GetPdoStale(o) ==
  /\ o \in setup.readable /\ store[o].rd = "pdo"
  /\ \E v \in IF ~buf[o].alive THEN Values
               ELSE {IF buf[o].dirty /\ ~store[o].valid THEN buf[o].value ELSE store[o].value} :
       store' = [store EXCEPT ![o].value = v, ![o].valid = TRUE]
  /\ buf' = [buf EXCEPT ![o].dirty = FALSE]
  /\ UNCHANGED <<rpdo, tpdo, svc, node, hist>>

\* Buffer::read copies what is new.
GetPdo(o) ==
  /\ o \in setup.readable /\ store[o].rd = "pdo"
  /\ \/ /\ buf[o].alive
        /\ store' = [store EXCEPT ![o].value = IF buf[o].dirty THEN buf[o].value ELSE @,
                                  ![o].valid = TRUE]
        /\ buf' = [buf EXCEPT ![o].dirty = FALSE]
     \/ /\ ~buf[o].alive
        /\ \E v \in Values : store' = [store EXCEPT ![o].value = v, ![o].valid = TRUE]
        /\ UNCHANGED buf
  /\ UNCHANGED <<rpdo, tpdo, svc, node, hist>>

\* Data::reset
ResetValue(o) ==
  IF setup.def[o] # None THEN [store[o] EXCEPT !.value = setup.def[o], !.valid = TRUE]
                         ELSE [store[o] EXCEPT !.valid = FALSE]

-------------------------------------------------------------------------------
(* The received PDO                                                        *)

\* A frame nobody listens for is dropped.
HandleFrame ==
  /\ bus # << >> /\ strand = 0
  /\ strand' = IF listening THEN 1 ELSE 0
  /\ bus' = IF listening THEN bus ELSE Tail(bus)
  /\ UNCHANGED <<pdo, listening, timeout, warned, tpdo, svc, setup, dev, sends, hist>>

HandleBuffer ==
  /\ strand \in DOMAIN setup.rx
  /\ LET o == setup.rx[strand]  v == Head(bus)[o] IN
     /\ buf' = [buf EXCEPT ![o] = BufferWrite(@, v)]
     /\ received' = [received EXCEPT ![o] = v]
  /\ strand' = strand + 1
  /\ UNCHANGED <<store, listening, timeout, warned, tpdo, svc, node, wanted, late, untouched>>

Cyclic == TransmissionType \in 1..240

HandleEnd ==
  /\ strand = Len(setup.rx) + 1 /\ strand' = 0
  /\ bus' = Tail(bus)
  /\ timeout' = IF Cyclic THEN TransmissionType + 2 ELSE timeout
  /\ UNCHANGED <<pdo, listening, warned, tpdo, svc, setup, dev, sends, hist>>

Strand == HandleFrame \/ HandleBuffer \/ HandleEnd

-------------------------------------------------------------------------------
(* The run thread                                                          *)

\* MUTANT of RunRead: the timeout never gets to 0.
RunReadStuck ==
  /\ run = "read" /\ up
  /\ timeout' = IF Cyclic /\ timeout > 1 THEN timeout - 1 ELSE timeout
  /\ warned' = (Cyclic /\ timeout = 0)
  /\ run' = "write"
  /\ UNCHANGED <<pdo, listening, strand, frame, next, updated, svc, node, hist>>

\* RPDO::sync ages the PDO; it does not know how to report one that never came.
RunRead ==
  /\ run = "read" /\ up
  /\ timeout' = IF Cyclic /\ timeout > 0 THEN timeout - 1 ELSE timeout
  /\ warned' = (Cyclic /\ timeout = 0)
  /\ run' = "write"
  /\ UNCHANGED <<pdo, listening, strand, frame, next, updated, svc, node, hist>>

RunWrite ==
  /\ run = "write"
  /\ run' = IF up /\ setup.tx # << >> THEN "sync" ELSE "read"
  /\ UNCHANGED <<pdo, rpdo, frame, next, updated, svc, node, hist>>

\* MUTANT of SyncRead: "updated || b.read(...)", which is not evaluated any more.
SyncReadLazy ==
  /\ run = "sync" /\ next \in DOMAIN setup.tx
  /\ LET o == setup.tx[next] IN
     IF updated THEN UNCHANGED <<frame, updated, buf>>
     ELSE /\ frame' = IF buf[o].empty THEN frame ELSE [frame EXCEPT ![o] = buf[o].value]
          /\ updated' = buf[o].dirty
          /\ buf' = [buf EXCEPT ![o].dirty = FALSE]
  /\ next' = next + 1
  /\ UNCHANGED <<store, rpdo, run, svc, node, hist>>

\* MUTANT of SyncRead: only the last buffer decides.
SyncReadLast ==
  /\ run = "sync" /\ next \in DOMAIN setup.tx
  /\ LET o == setup.tx[next] IN
     /\ frame' = IF buf[o].empty THEN frame ELSE [frame EXCEPT ![o] = buf[o].value]
     /\ updated' = buf[o].dirty
     /\ buf' = [buf EXCEPT ![o].dirty = FALSE]
  /\ next' = next + 1
  /\ UNCHANGED <<store, rpdo, run, svc, node, hist>>

\* Every buffer is read into the frame, also after one was found to be new.
SyncRead ==
  /\ run = "sync" /\ next \in DOMAIN setup.tx
  /\ LET o == setup.tx[next] IN
     /\ frame' = IF buf[o].empty THEN frame ELSE [frame EXCEPT ![o] = buf[o].value]
     /\ updated' = (updated \/ buf[o].dirty)
     /\ buf' = [buf EXCEPT ![o].dirty = FALSE]
  /\ next' = next + 1
  /\ UNCHANGED <<store, rpdo, run, svc, node, hist>>

Assembled == run = "sync" /\ next > Len(setup.tx)

\* The device takes a PDO while it is Operational.
SyncSend ==
  /\ Assembled /\ run' = "read"
  /\ dev' = IF updated /\ up THEN frame ELSE dev
  /\ next' = 1 /\ updated' = FALSE /\ late' = {}
  /\ UNCHANGED <<pdo, rpdo, frame, svc, setup, sends, bus, wanted, received, untouched>>

Run == RunRead \/ RunWrite \/ SyncRead \/ SyncSend

-------------------------------------------------------------------------------
(* Initialisation                                                          *)

\* The PDOs of the last initialisation are still there while the device reboots, whose
\* objects may be anything by then.
InitReset ==
  /\ init = "idle" /\ ~up /\ run = "read" /\ inits < setup.inits
  /\ inits' = inits + 1
  /\ store' = [o \in Objects |-> ResetValue(o)]
  /\ init' = "clear"
  /\ dev' \in [TX -> Values]
  /\ received' = Forget(RX, received) /\ untouched' = TX
  /\ UNCHANGED <<buf, rpdo, tpdo, k, up, setup, sends, bus, wanted, late>>

Freed(objects) == [o \in Objects |-> IF o \in objects THEN NoBuffer ELSE buf[o]]

\* rpdos_.clear() waits for the strand to leave handleFrame.
InitClear ==
  /\ init = "clear" /\ strand = 0
  /\ buf' = Freed(RX)
  /\ listening' = FALSE /\ timeout' = -1
  /\ k' = 1 /\ init' = IF setup.rx = << >> THEN "listen" ELSE "attach"
  /\ received' = Forget(RX, received)
  /\ UNCHANGED <<store, warned, strand, tpdo, up, inits, node, wanted, late, untouched>>

\* The object is read from the device and written into a new buffer for now.
MapAttach ==
  /\ init = "attach"
  /\ buf' = [buf EXCEPT ![All[k]] = NewBuffer]
  /\ store' = [store EXCEPT ![All[k]].rd = "sdo", ![All[k]].wd = "pdo"]
  /\ init' = "force"
  /\ UNCHANGED <<rpdo, tpdo, k, up, inits, node, hist>>

\* MUTANT of Forced: a value that is not valid is not read.
ForcedUnread(o) == {store[o].value}

\* What force_write may write: the stored value, or the device's.
Forced(o) ==
  IF store[o].valid THEN {store[o].value}
  ELSE IF o \in setup.readable THEN DevValues(o) ELSE {}

MapForce ==
  /\ init = "force" /\ init' = IF All[k] \in RX THEN "delegate" ELSE "clean"
  /\ LET o == All[k] IN
     \/ \E v \in Forced(o) :
          /\ store' = [store EXCEPT ![o].value = v, ![o].valid = TRUE]
          /\ buf' = [buf EXCEPT ![o] = BufferWrite(@, v)]
     \/ Forced(o) = {} /\ UNCHANGED pdo
  /\ UNCHANGED <<rpdo, tpdo, k, up, inits, node, hist>>

\* The object cannot be read: the PDO it belongs to is destroyed.
MapFails ==
  /\ init = "force" /\ init' = "idle"
  /\ LET o == All[k] IN
     /\ ~store[o].valid /\ o \in setup.readable
     /\ buf' = Freed(IF o \in RX THEN RX ELSE TX)
     /\ wanted' = IF o \in TX THEN Forget(TX, wanted) ELSE wanted
  /\ UNCHANGED <<store, rpdo, tpdo, k, up, inits, node, received, late, untouched>>

\* From now on a received object is read from its buffer.
MapDelegate ==
  /\ init = "delegate" /\ init' = "clean"
  /\ store' = [store EXCEPT ![All[k]].rd = "pdo", ![All[k]].wd = "sdo"]
  /\ UNCHANGED <<buf, rpdo, tpdo, k, up, inits, node, hist>>

\* Buffer::clean: a value set since MapAttach stays in the buffer, and is not sent.
MapClean ==
  /\ init = "clean"
  /\ buf' = [buf EXCEPT ![All[k]].dirty = FALSE]
  /\ wanted' = Forget({All[k]}, wanted)
  /\ init' = IF k = Len(setup.rx) THEN "listen" ELSE IF k = Len(All) THEN "all" ELSE "attach"
  /\ k' = IF k = Len(All) THEN 1 ELSE k + 1
  /\ UNCHANGED <<store, rpdo, tpdo, up, inits, node, received, late, untouched>>

\* The received PDO is complete; the buffers of the other one are freed.
InitListen ==
  /\ init = "listen"
  /\ listening' = (setup.rx # << >>)
  /\ buf' = Freed(TX) /\ wanted' = Forget(TX, wanted)
  /\ init' = IF setup.tx = << >> THEN "all" ELSE "attach"
  /\ UNCHANGED <<store, timeout, warned, strand, tpdo, k, up, inits, node, received, late, untouched>>

\* Data::init: an object that was changed, and one that has the value, is left alone.
\* (An object with a default is always valid here.)
ToInit(o) ==
  /\ setup.init[o] # None
  /\ store[o].valid => store[o].value # setup.init[o] /\ setup.def[o] \in {None, store[o].value}

InitAll ==
  /\ init = "all"
  /\ LET o == All[k] IN
     \/ ToInit(o) /\ Write(o, setup.init[o])
     \/ ~ToInit(o) /\ UNCHANGED <<pdo, dev, hist>>
  /\ k' = IF k = Len(All) THEN 1 ELSE k + 1
  /\ init' = IF k = Len(All) THEN "start" ELSE "all"
  /\ UNCHANGED <<rpdo, tpdo, up, inits, setup, sends, bus>>

InitStart ==
  /\ init = "start" /\ init' = "idle"
  /\ up' = TRUE /\ sends' = (setup.rx # << >>)
  /\ UNCHANGED <<pdo, rpdo, tpdo, k, inits, setup, dev, bus, hist>>

\* Another transfer fails, or the device does not start.
InitFails ==
  /\ init \in {"all", "start"} /\ init' = "idle"
  /\ UNCHANGED <<pdo, rpdo, tpdo, k, up, inits, node, hist>>

Shutdown ==
  /\ up /\ up' = FALSE /\ sends' = FALSE
  /\ UNCHANGED <<pdo, rpdo, tpdo, init, k, inits, setup, dev, bus, hist>>

Initialisation ==
  \/ InitReset \/ InitClear \/ MapAttach \/ MapForce \/ MapFails \/ MapDelegate
  \/ MapClean \/ InitListen \/ InitAll \/ InitStart \/ InitFails \/ Shutdown

-------------------------------------------------------------------------------
(* The device                                                              *)

DevSends ==
  /\ sends /\ Len(bus) < MaxFrames
  /\ \E f \in [RX -> Values] : bus' = Append(bus, f)
  /\ UNCHANGED <<pdo, rpdo, tpdo, svc, setup, dev, sends, hist>>

DevStops ==
  /\ sends /\ sends' = FALSE
  /\ UNCHANGED <<pdo, rpdo, tpdo, svc, setup, dev, bus, hist>>

Device == DevSends \/ DevStops

Calls == \E o \in Objects : GetSdo(o) \/ GetPdo(o) \/ \E v \in Values : Set(o, v)

Next == Strand \/ Run \/ Initialisation \/ Device \/ Calls

Spec == Init /\ [][Next]_vars

\* The run thread cycles and the strand takes every frame.  Nobody has to call a
\* service or send anything.
FairSpec == Spec /\ WF_vars(Run) /\ WF_vars(Strand)

-------------------------------------------------------------------------------
(* Properties                                                              *)

TypeOK ==
  /\ setup \in Setups
  /\ store \in [Objects -> [value : Values, valid : BOOLEAN, rd : {"sdo", "pdo"}, wd : {"sdo", "pdo"}]]
  /\ buf \in [Objects -> [value : Values, dirty : BOOLEAN, empty : BOOLEAN, alive : BOOLEAN]]
  /\ {frame, dev} \subseteq [TX -> Values] /\ bus \in Seq([RX -> Values])
  /\ {listening, warned, updated, up, sends} \subseteq BOOLEAN
  /\ timeout \in -1..(TransmissionType + 2) /\ strand \in 0..(Len(setup.rx) + 1)
  /\ strand # 0 => bus # << >>
  /\ run \in {"read", "write", "sync"} /\ next \in 1..(Len(setup.tx) + 1)
  /\ init \in {"idle", "clear", "attach", "force", "delegate", "clean", "listen", "all", "start"}
  /\ k \in 1..Len(All) /\ inits \in 0..setup.inits
  /\ wanted \in [TX -> Values \cup {None}] /\ received \in [RX -> Values \cup {None}]
  /\ late \subseteq Objects /\ untouched \subseteq TX
  /\ \A o \in Objects : buf[o].dirty => ~buf[o].empty

\* A PDO that is sent carries the newest value of every object, unless the object is
\* written while the PDO is put together.
SentIsCurrent ==
  (Assembled /\ updated /\ up) =>
    \A o \in TX : buf[o].empty \/ o \in late \/ frame[o] = buf[o].value

\* To set one object of a PDO leaves the others on the device as they were: an object
\* that nobody set, and that no read of failed for, is sent with the device's value
\* (if it can be read and the dictionary claims no default).
OthersAreKept ==
  (Assembled /\ updated /\ up) =>
    \A o \in TX : (o \in untouched \cap setup.readable /\ setup.def[o] = None)
                    => frame[o] = dev[o]

\* Whatever reads, frames and initialisations there were: an object that is read has
\* the value received last, unless somebody wrote it since.
ReceivedIsRead ==
  \A o \in RX : received[o] # None =>
    /\ buf[o].alive /\ store[o].rd = "pdo"
    /\ received[o] = IF buf[o].dirty THEN buf[o].value ELSE store[o].value

Unsent(o) == up /\ o \in TX /\ wanted[o] \notin {None, dev[o]}

\* The device does not stay behind: a value that is written reaches it, if the node
\* stays up and nobody writes another one.
SetsAreSent == \A o \in Names : Unsent(o) ~> ~Unsent(o)

\* A device that sent its PDO and falls silent is reported.
SilenceIsReported ==
  (up /\ ~sends /\ Cyclic /\ \E o \in RX : received[o] # None) ~> (warned \/ ~up)
===============================================================================
