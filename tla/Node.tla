---------------------------------- MODULE Node ---------------------------------
(***************************************************************************)
(* A CANopen node as its master sees it: class Node, its NMT state and the *)
(* heartbeat that watches it.                                              *)
(*                                                                         *)
(* Three threads of the master meet here.  A service thread initialises,   *)
(* recovers and shuts the node down; the strand of the CAN driver hands    *)
(* every frame to its listeners, one after the other, handleNMT among      *)
(* them; the run thread checks heartbeat and state in every cycle.  They   *)
(* share state_, the SYNC membership and the cached object 1017, the       *)
(* heartbeat interval.  Five locks are in play:                            *)
(*   Node::mutex          the service thread, while it waits for the node  *)
(*   the mutex of 1017    whoever reads or writes it; the service thread   *)
(*                        for a whole SDO transfer                         *)
(*   cond_mutex           handleNMT and the waits                          *)
(*   the reader's mutex   the service thread, while sdo_.init() registers  *)
(*                        the reader of SDO responses anew                 *)
(*   the dispatcher's     the strand, while it is in a listener, and       *)
(*                        whoever adds or removes one                      *)
(* A thread holds the first two and the reader's at places its program     *)
(* counter tells (NodeLocked, ObjectLocked, ReaderLocked); blocked says    *)
(* that the strand waits in a listener, with the dispatcher's mutex: in    *)
(* handleNMT for the mutex of 1017, with cond_mutex too, or in the reader  *)
(* for the reader's.                                                       *)
(*                                                                         *)
(* An SDO transfer is a request and a response, which the strand hands     *)
(* over.  Configuring the PDOs and the other objects is one transfer.      *)
(***************************************************************************)
EXTENDS Naturals, Sequences, Functions

CONSTANTS
  Objects,      \* the possible dictionary entries of object 1017
  MaxFaults,    \* bound: how often the device fails
  MaxCommands,  \* bound: frames on their way to the device
  MaxFrames     \* bound: frames on their way from it

ASSUME NodeAssumption ==
  /\ Objects \subseteq [heartbeat : BOOLEAN, default : BOOLEAN]
  /\ MaxFaults \in Nat /\ {MaxCommands, MaxFrames} \subseteq Nat \ {0}

VARIABLES
  object,     \* the dictionary entry of 1017: whether its value is not 0, and its default
  layer,      \* Layer::state: "off", "init", "shutdown", or "up" for the others
  svc,        \* where the service thread is
  op,         \* the call it runs or ran last
  status,     \* what the call reports
  listening,  \* nmt_listener_ is set
  interval,   \* the cached object 1017 is not 0
  answer,     \* what was received for the SDO request
  state,      \* state_
  sync,       \* the node is a member of sync_
  fresh,      \* heartbeat_timeout_ has not passed
  blocked,    \* the strand waits for the mutex of 1017 or the reader's
  run,        \* where the run thread is
  report,     \* what its cycle reported
  dev,        \* the device's NMT state, "off" without power
  beats,      \* the device produces heartbeats
  faults,     \* history: how often the device failed
  started,    \* history: the device was started since a clean init began
  late,       \* history: a wait ended although its answer could still come
  clean,      \* history: the call is an init that found no old boot-up on its way; with
              \* started, forgotten when a shutdown begins
  toDev,      \* frames on their way to the device
  toMaster    \* and from it

master == <<layer, op, status, listening, interval>>
nmt    == <<state, sync, fresh, blocked>>
runner == <<run, report>>
history == <<object, late, clean>>
device == <<dev, beats, faults, started>>
vars   == <<history, master, svc, answer, nmt, runner, device, toDev, toMaster>>

BootUp == "boot"   Stopped == "stopped"   Operational == "op"
PreOperational == "pre"   Unknown == "unknown"

NodeStates == {BootUp, Stopped, Operational, PreOperational, Unknown}
Frames == (NodeStates \ {Unknown}) \cup {"hbResponse", "cfgResponse"}
Commands == {"reset", "hb", "cfg", "start", "hb0", "stop"}

Init ==
  /\ object \in Objects /\ late = FALSE /\ clean = FALSE
  /\ layer = "off" /\ svc = "idle" /\ op = "none" /\ status = "ok"
  /\ listening = FALSE /\ interval = object.default /\ answer = "none"
  /\ state = Unknown /\ sync = FALSE /\ fresh = FALSE /\ blocked = FALSE
  /\ run = "check" /\ report = "ok"
  /\ dev \in {PreOperational, Operational} /\ beats = object.default
  /\ faults = 0 /\ started = FALSE
  /\ toDev = << >> /\ toMaster = << >>

\* reset_com and start hold Node::mutex until their wait is over, stop while it sends.
NodeLocked == svc \in {"booting", "booted", "hbWait", "starting", "sdSend"}

\* heartbeat_.set holds the mutex of 1017 until the response has come.
ObjectLocked == svc \in {"hbWait", "sdHbWait"}

\* BufferedReader::listen holds the reader's mutex while it registers the new
\* listener with the dispatcher and takes the old one away.
ReaderLocked == svc \in {"sdoListen", "sdoReread"}

-------------------------------------------------------------------------------
(* The device                                                              *)

Emit(f) == Len(toMaster) < MaxFrames /\ toMaster' = Append(toMaster, f)

\* A device that boots takes no command, and one that is Stopped no SDO.
DevCommand ==
  /\ toDev # << >>
  /\ toDev' = Tail(toDev)
  /\ LET c == Head(toDev) IN
     \/ /\ dev \in {"off", BootUp} \/ (dev = Stopped /\ c \in {"hb", "hb0", "cfg"})
        /\ UNCHANGED <<device, toMaster>>
     \/ /\ dev \in {PreOperational, Operational, Stopped} /\ c = "reset"
        /\ dev' = BootUp /\ beats' = object.default
        /\ UNCHANGED <<faults, started, toMaster>>
     \/ /\ dev \in {PreOperational, Operational, Stopped} /\ c = "start"
        /\ dev' = Operational /\ started' = clean
        /\ UNCHANGED <<beats, faults, toMaster>>
     \/ /\ dev \in {PreOperational, Operational, Stopped} /\ c = "stop"
        /\ dev' = Stopped
        /\ UNCHANGED <<beats, faults, started, toMaster>>
     \/ /\ dev \in {PreOperational, Operational} /\ c \in {"hb", "hb0"}
        /\ beats' = (c = "hb" /\ object.heartbeat)
        /\ Emit("hbResponse")
        /\ UNCHANGED <<dev, faults, started>>
     \/ /\ dev \in {PreOperational, Operational} /\ c = "cfg"
        /\ Emit("cfgResponse")
        /\ UNCHANGED device
  /\ UNCHANGED <<history, master, svc, answer, nmt, runner>>

DevBootUp ==
  /\ dev = BootUp /\ dev' = PreOperational
  /\ Emit(BootUp)
  /\ UNCHANGED <<history, master, svc, answer, nmt, runner, beats, faults, started, toDev>>

DevBeat ==
  /\ beats /\ dev \in {PreOperational, Operational, Stopped}
  /\ Emit(dev)
  /\ UNCHANGED <<history, master, svc, answer, nmt, runner, device, toDev>>

DevFails ==
  /\ dev # "off" /\ faults < MaxFaults
  /\ dev' = "off" /\ faults' = faults + 1
  /\ UNCHANGED <<history, master, svc, answer, nmt, runner, beats, started, toDev, toMaster>>

DevPowersUp ==
  /\ dev = "off"
  /\ dev' = BootUp /\ beats' = object.default
  /\ UNCHANGED <<history, master, svc, answer, nmt, runner, faults, started, toDev, toMaster>>

Device == DevCommand \/ DevBootUp \/ DevBeat \/ DevFails \/ DevPowersUp

-------------------------------------------------------------------------------
(* The strand: SDO responses and handleNMT                                 *)

\* MUTANT of SwitchState: nodes are never taken out of SYNC again.
SwitchStateAddsOnly(s) ==
  /\ sync' = (sync \/ s = Operational)
  /\ state' = s

\* switchState for the states a frame can carry.
SwitchState(s) ==
  /\ sync' = IF state = s THEN sync ELSE s = Operational
  /\ state' = s

SdoResponse == toMaster # << >> /\ Head(toMaster) \in {"hbResponse", "cfgResponse"}

\* The reader keeps one frame, and only during a transfer; one that belongs to
\* another object makes the transfer fail.
SdoFrame ==
  /\ SdoResponse /\ ~ReaderLocked /\ ~blocked
  /\ LET f == Head(toMaster) IN
        answer' = IF ~(ObjectLocked \/ svc = "cfgWait") THEN answer
                  ELSE IF f = (IF ObjectLocked THEN "hbResponse" ELSE "cfgResponse") THEN "ok"
                  ELSE "bad"
  /\ toMaster' = Tail(toMaster)
  /\ UNCHANGED <<history, master, svc, nmt, runner, device, toDev>>

\* The strand has the dispatcher's mutex and waits for the reader's, whose holder
\* waits for the dispatcher's.
SdoBlocked ==
  /\ SdoResponse /\ ReaderLocked /\ ~blocked
  /\ blocked' = TRUE
  /\ UNCHANGED <<history, master, svc, answer, state, sync, fresh, runner, device, toDev, toMaster>>

NmtFrame == toMaster # << >> /\ Head(toMaster) \in NodeStates

\* handleNMT, once it has cond_mutex and the interval.
HandleNMT ==
  /\ SwitchState(Head(toMaster))
  /\ fresh' = (fresh \/ interval)
  /\ toMaster' = Tail(toMaster)
  /\ blocked' = FALSE
  /\ UNCHANGED <<history, master, svc, answer, runner, device, toDev>>

NmtHandled == NmtFrame /\ listening /\ ~ObjectLocked /\ HandleNMT

\* The strand is stuck, and with it every frame behind this one.
NmtBlocked ==
  /\ NmtFrame /\ listening /\ ObjectLocked /\ ~blocked
  /\ blocked' = TRUE
  /\ UNCHANGED <<history, master, svc, answer, state, sync, fresh, runner, device, toDev, toMaster>>

NmtIgnored ==
  /\ NmtFrame /\ ~listening
  /\ toMaster' = Tail(toMaster)
  /\ UNCHANGED <<history, master, svc, answer, nmt, runner, device, toDev>>

Strand == SdoFrame \/ SdoBlocked \/ NmtHandled \/ NmtBlocked \/ NmtIgnored

\* Three intervals have passed without a frame.
Expire ==
  /\ fresh /\ fresh' = FALSE
  /\ UNCHANGED <<history, master, svc, answer, state, sync, blocked, runner, device, toDev, toMaster>>

-------------------------------------------------------------------------------
(* The run thread                                                          *)

\* MUTANT of RunCheck: the state alone is looked at.
RunCheckStateOnly ==
  /\ run = "check" /\ layer \in {"shutdown", "up"}
  /\ run' = "state" /\ UNCHANGED report
  /\ UNCHANGED <<history, master, svc, answer, nmt, device, toDev, toMaster>>

\* checkHeartbeat reads 1017 and then takes cond_mutex, which the strand has
\* when it is blocked in handleNMT; in the reader it is blocked during an init only.
RunCheck ==
  /\ run = "check" /\ layer \in {"shutdown", "up"}
  /\ ~ObjectLocked /\ ~blocked
  /\ IF interval /\ ~fresh
     THEN report' = "error" /\ UNCHANGED run
     ELSE run' = "state" /\ UNCHANGED report
  /\ UNCHANGED <<history, master, svc, answer, nmt, device, toDev, toMaster>>

\* getState, for read and for write.
RunState ==
  /\ run = "state" /\ ~NodeLocked
  /\ report' = IF state = Operational THEN "ok" ELSE "error"
  /\ run' = "check"
  /\ UNCHANGED <<history, master, svc, answer, nmt, device, toDev, toMaster>>

Run == RunCheck \/ RunState

-------------------------------------------------------------------------------
(* The service thread                                                      *)

Waits == {"booting", "hbWait", "cfgWait", "starting", "sdHbWait"}

OnBus(frames) == \E f \in frames : f \in Range(toDev) \cup Range(toMaster)

\* What the service thread waits for can still come: it, or the command that
\* brings it about, is on its way, and the strand does not wait for this thread.
Coming ==
  \/ svc = "booting" /\ (OnBus({"reset", BootUp}) \/ dev = BootUp)
  \/ ObjectLocked /\ ~blocked /\ OnBus({"hb", "hb0", "hbResponse"})
  \/ svc = "cfgWait" /\ OnBus({"cfg", "cfgResponse"})
  \/ svc = "starting" /\ (OnBus({"start", Operational}) \/ (dev = Operational /\ beats))

Send(c) == Len(toDev) < MaxCommands /\ toDev' = Append(toDev, c)

CallInit ==
  /\ svc = "idle" /\ layer = "off"
  /\ layer' = "init" /\ op' = "init" /\ status' = "ok"
  /\ started' = FALSE
  /\ clean' = (~listening /\ BootUp \notin Range(toMaster))
  /\ svc' = "listen"
  /\ UNCHANGED <<object, late, listening, interval, answer, nmt, runner, dev, beats, faults, toDev, toMaster>>

\* Layer::recover of a layer that has failed.
CallRecover ==
  /\ svc = "idle" /\ layer = "up"
  /\ op' = "recover" /\ status' = "ok"
  /\ started' = FALSE /\ clean' = FALSE
  /\ svc' = "start"
  /\ UNCHANGED <<object, late, layer, listening, interval, answer, nmt, runner, dev, beats, faults,
                 toDev, toMaster>>

CallShutdown ==
  /\ svc = "idle" /\ layer = "up"
  /\ layer' = "shutdown" /\ op' = "shutdown" /\ status' = "ok"
  /\ svc' = "sdHb"
  /\ UNCHANGED <<history, listening, interval, answer, nmt, runner, device, toDev, toMaster>>

\* A layer whose init failed is shut down.
InitFails ==
  /\ status' = "error"
  /\ layer' = "shutdown"
  /\ svc' = "sdHb"
  /\ UNCHANGED <<op, listening, interval>>

\* The strand holds the dispatcher's mutex while it hands a frame to a listener.
InitListen ==
  /\ svc = "listen" /\ svc' = "sdoListen" /\ ~blocked
  /\ listening' = TRUE
  /\ UNCHANGED <<history, layer, op, status, interval, answer, nmt, runner, device, toDev, toMaster>>

\* The end of sdo_.init, before the reset and once more before the start: the reader
\* is registered and its mutex free again, unless the strand has come first.
SdoListen ==
  /\ ReaderLocked /\ ~blocked
  /\ svc' = IF svc = "sdoListen" THEN "reset" ELSE "start"
  /\ UNCHANGED <<history, master, answer, nmt, runner, device, toDev, toMaster>>

\* reset_com.  The storage falls back to the defaults, then the command is sent.
InitReset ==
  /\ svc = "reset" /\ svc' = "booting"
  /\ interval' = object.default
  /\ Send("reset")
  /\ UNCHANGED <<history, layer, op, status, listening, answer, nmt, runner, device, toMaster>>

BootSeen ==
  /\ svc = "booting" /\ ~blocked /\ state = BootUp
  /\ svc' = "booted"
  /\ UNCHANGED <<history, master, answer, nmt, runner, device, toDev, toMaster>>

\* Without a heartbeat the state is assumed, but the node counts as not reset.
BootTimeout ==
  /\ svc = "booting" /\ ~blocked /\ state # BootUp
  /\ IF interval THEN UNCHANGED <<state, sync>> ELSE SwitchState(BootUp)
  /\ InitFails
  /\ late' = (late \/ Coming)
  /\ UNCHANGED <<object, clean, answer, fresh, blocked, runner, device, toDev, toMaster>>

\* state_ is stored without cond_mutex; setHeartbeatInterval begins its transfer.
InitBooted ==
  /\ svc = "booted" /\ svc' = "hbWait"
  /\ state' = PreOperational
  /\ interval' = object.heartbeat
  /\ answer' = "none"
  /\ Send("hb")
  /\ UNCHANGED <<history, layer, op, status, listening, sync, fresh, blocked, runner, device, toMaster>>

HeartbeatSet ==
  /\ svc = "hbWait" /\ answer = "ok"
  /\ svc' = "configure"
  /\ UNCHANGED <<history, master, answer, nmt, runner, device, toDev, toMaster>>

Configure ==
  /\ svc = "configure" /\ svc' = "cfgWait"
  /\ answer' = "none"
  /\ Send("cfg")
  /\ UNCHANGED <<history, master, nmt, runner, device, toMaster>>

Configured ==
  /\ svc = "cfgWait" /\ answer = "ok"
  /\ svc' = "sdoReread"
  /\ UNCHANGED <<history, master, answer, nmt, runner, device, toDev, toMaster>>

\* An expedited write whose response does not come is taken for done: its offset
\* has reached its total when the request was sent.  A read throws.
SdoTimeout ==
  /\ svc \in {"hbWait", "cfgWait"} /\ answer = "none"
  /\ \/ svc' = (IF svc = "hbWait" THEN "configure" ELSE "sdoReread")
        /\ UNCHANGED master
     \/ svc = "cfgWait" /\ InitFails
  /\ late' = (late \/ Coming)
  /\ UNCHANGED <<object, clean, answer, nmt, runner, device, toDev, toMaster>>

SdoFails ==
  /\ svc \in {"hbWait", "cfgWait"} /\ answer = "bad"
  /\ InitFails
  /\ UNCHANGED <<history, answer, nmt, runner, device, toDev, toMaster>>

Start ==
  /\ svc = "start" /\ svc' = "starting"
  /\ Send("start")
  /\ UNCHANGED <<history, master, answer, nmt, runner, device, toMaster>>

\* MUTANT of StartSeen: any wake-up ends the wait.
StartSeenWoken ==
  /\ svc = "starting" /\ ~blocked
  /\ layer' = "up" /\ svc' = "idle"
  /\ UNCHANGED <<history, op, status, listening, interval, answer, nmt, runner, device, toDev, toMaster>>

StartSeen ==
  /\ svc = "starting" /\ ~blocked /\ state = Operational
  /\ layer' = "up" /\ svc' = "idle"
  /\ UNCHANGED <<history, op, status, listening, interval, answer, nmt, runner, device, toDev, toMaster>>

\* Without a heartbeat the state is assumed; recover does not look at the result.
StartTimeout ==
  /\ svc = "starting" /\ ~blocked /\ state # Operational
  /\ IF interval THEN UNCHANGED <<state, sync>> ELSE SwitchState(Operational)
  /\ IF interval /\ op = "init"
     THEN InitFails
     ELSE layer' = "up" /\ svc' = "idle" /\ UNCHANGED <<op, status, listening, interval>>
  /\ late' = (late \/ Coming)
  /\ UNCHANGED <<object, clean, answer, fresh, blocked, runner, device, toDev, toMaster>>

\* handleShutdown: a heartbeat is stopped first.
ShutdownBeat ==
  /\ svc = "sdHb"
  /\ IF interval
     THEN svc' = "sdHbWait" /\ interval' = FALSE /\ answer' = "none" /\ Send("hb0")
     ELSE svc' = "sdStop" /\ UNCHANGED <<interval, answer, toDev>>
  /\ started' = FALSE /\ clean' = FALSE
  /\ UNCHANGED <<object, late, layer, op, status, listening, nmt, runner, dev, beats, faults, toMaster>>

ShutdownBeatSet ==
  /\ svc = "sdHbWait" /\ answer = "ok"
  /\ svc' = "sdStop"
  /\ UNCHANGED <<history, master, answer, nmt, runner, device, toDev, toMaster>>

\* MUTANT of ShutdownTimeout: the transfer waits without a limit.
ShutdownTimeoutNever == FALSE /\ UNCHANGED vars

\* MUTANT of ShutdownTimeout: a write without a response throws.
ShutdownTimeoutThrows ==
  /\ svc = "sdHbWait" /\ answer = "none"
  /\ svc' = "idle" /\ layer' = "off" /\ status' = "error"
  /\ late' = (late \/ Coming)
  /\ UNCHANGED <<object, clean, op, listening, interval, answer, nmt, runner, device, toDev, toMaster>>

\* The write is taken for done.
ShutdownTimeout ==
  /\ svc = "sdHbWait" /\ answer = "none"
  /\ svc' = "sdStop"
  /\ late' = (late \/ Coming)
  /\ UNCHANGED <<object, clean, master, answer, nmt, runner, device, toDev, toMaster>>

\* The exception leaves the handler: nothing is stopped, but the layer is Off.
ShutdownFails ==
  /\ svc = "sdHbWait" /\ answer = "bad"
  /\ svc' = "idle" /\ layer' = "off" /\ status' = "error"
  /\ UNCHANGED <<history, op, listening, interval, answer, nmt, runner, device, toDev, toMaster>>

ShutdownLeaveSync ==
  /\ svc = "sdStop" /\ svc' = "sdSend"
  /\ sync' = FALSE
  /\ UNCHANGED <<history, master, answer, state, fresh, blocked, runner, device, toDev, toMaster>>

ShutdownStop ==
  /\ svc = "sdSend" /\ svc' = "sdUnlisten"
  /\ Send("stop")
  /\ UNCHANGED <<history, master, answer, nmt, runner, device, toMaster>>

\* A listener is taken out of the dispatcher between two frames.
ShutdownUnlisten ==
  /\ svc = "sdUnlisten" /\ svc' = "sdUnknown"
  /\ ~blocked
  /\ listening' = FALSE
  /\ UNCHANGED <<history, layer, op, status, interval, answer, nmt, runner, device, toDev, toMaster>>

\* switchState(Unknown) leaves the SYNC membership alone.
ShutdownDone ==
  /\ svc = "sdUnknown" /\ svc' = "idle"
  /\ state' = Unknown
  /\ layer' = "off"
  /\ UNCHANGED <<history, op, status, listening, interval, answer, sync, fresh, blocked, runner,
                 device, toDev, toMaster>>

Call == CallInit \/ CallRecover \/ CallShutdown

Svc ==
  \/ InitListen \/ SdoListen \/ InitReset \/ BootSeen \/ BootTimeout \/ InitBooted \/ HeartbeatSet
  \/ Configure \/ Configured \/ SdoTimeout \/ SdoFails \/ Start \/ StartSeen \/ StartTimeout
  \/ ShutdownBeat \/ ShutdownBeatSet \/ ShutdownTimeout \/ ShutdownFails
  \/ ShutdownLeaveSync \/ ShutdownStop \/ ShutdownUnlisten \/ ShutdownDone

Next == Device \/ Strand \/ Expire \/ Run \/ Call \/ Svc

Spec == Init /\ [][Next]_vars

\* The master's threads are scheduled, and a free mutex is got at last; the bus
\* carries every command on, to a device that may be off; time passes for such a
\* device.  Nothing else is asked of the device.
FairSpec ==
  /\ Spec
  /\ WF_vars(Svc) /\ WF_vars(Strand)
  /\ SF_vars(Run) /\ SF_vars(DevCommand)
  /\ WF_vars(Expire /\ dev = "off" /\ toMaster = << >>)

-------------------------------------------------------------------------------
(* Properties                                                              *)

Flags == {listening, interval, sync, fresh, blocked, beats, started, late, clean} \subseteq BOOLEAN

Places ==
  /\ layer \in {"off", "init", "shutdown", "up"}
  /\ svc \in Waits \cup {"idle", "listen", "sdoListen", "reset", "booted", "configure",
                         "sdoReread", "start", "sdHb", "sdStop", "sdSend", "sdUnlisten",
                         "sdUnknown"}
  /\ op \in {"none", "init", "recover", "shutdown"}
  /\ status \in {"ok", "error"} /\ report \in {"ok", "error"}
  /\ state \in NodeStates /\ dev \in (NodeStates \ {Unknown}) \cup {"off"}
  /\ answer \in {"none", "ok", "bad"} /\ run \in {"check", "state"}
  /\ object \in Objects /\ faults \in 0 .. MaxFaults

Queues ==
  /\ toDev \in Seq(Commands) /\ Len(toDev) <= MaxCommands
  /\ toMaster \in Seq(Frames) /\ Len(toMaster) <= MaxFrames

\* Two threads wait for each other's mutex, for good: the strand in the reader, and
\* the init that registers it.
Inverted == ReaderLocked /\ blocked /\ SdoResponse

\* Types; and a blocked strand is inside handleNMT, whose listener is still there,
\* or in the reader.
TypeOK == Flags /\ Places /\ Queues /\ (blocked => (listening /\ NmtFrame) \/ Inverted)

\* While the node is up it takes part in SYNC exactly as long as it is seen
\* Operational, whatever the order of commands, frames and failures.
SyncFollowsState == layer = "up" => (sync <=> state = Operational)

\* A node with a heartbeat is initialised only if the device was started after
\* init began, however often it fails meanwhile and whatever frames of its past
\* are on their way: none of them is mistaken for the answer.  The premise is
\* needed: a boot-up from before the call answers for the reset, and then a
\* heartbeat from before the reset for the start.
InitStartsDevice ==
  svc = "idle" /\ op = "init" /\ layer = "up" /\ object.heartbeat /\ clean => started

\* Every call returns, although it waits for a device that may not answer, with
\* locks the strand and the run thread need; unless an SDO response arrives while
\* sdo_.init() registers the reader, which takes the reader's mutex and then the
\* dispatcher's, the strand the other way round.
CallsReturn == svc # "idle" ~> (svc = "idle" \/ Inverted)

\* A device with a heartbeat that stays off is reported while the node is up.
DeadDeviceIsReported ==
  (layer = "up" /\ interval /\ dev = "off")
    ~> (report = "error" \/ layer # "up" \/ dev # "off")

\* A device that never loses power, answers every request in time and sends no
\* heartbeat before it is told to is initialised and shut down without an error,
\* although a heartbeat may block the strand the responses come through.  The locks
\* of sdo_.init() stop such an init only at its first call, by the response to a
\* shutdown's transfer that a heartbeat delayed.
CallsAreClean ==
  faults = 0 /\ ~late /\ ~object.default
    => /\ svc = "idle" => status = "ok"
       /\ Inverted => svc = "sdoListen" /\ object.heartbeat
===============================================================================
