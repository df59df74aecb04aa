------------------------------- MODULE NodeProofs ------------------------------
(***************************************************************************)
(* For any number of failures and frames of the device: while a node is up *)
(* it takes part in SYNC exactly as long as it is seen Operational, and an *)
(* init that found no old boot-up on its way succeeds only for a device    *)
(* that was started.                                                       *)
(*                                                                         *)
(* The second needs the past of the frames.  A boot-up on its way was sent *)
(* since init began, and since then the device has been Operational only   *)
(* if it was started (BootsAreNew); once a boot-up has been taken for the  *)
(* answer to the reset no trace is left of what the device was before      *)
(* (StartIsNew).                                                           *)
(***************************************************************************)
EXTENDS Node, SequenceTheorems, TLAPS

\* Where the service thread may be in which state of the layer.
Stages ==
  /\ svc = "idle" => layer \in {"off", "up"}
  /\ svc \in {"listen", "sdoListen", "reset", "booting", "booted", "hbWait", "configure",
             "cfgWait", "sdoReread"}
     => layer = "init" /\ op = "init"
  /\ svc \in {"start", "starting"}
     => (layer = "init" /\ op = "init") \/ (layer = "up" /\ op = "recover")
  /\ svc \in {"sdHb", "sdHbWait", "sdStop", "sdSend", "sdUnlisten", "sdUnknown"}
     => layer = "shutdown"

\* A node that is seen Operational is a member, except while stop makes it leave.
Member == state = Operational => sync \/ svc \in {"sdSend", "sdUnlisten", "sdUnknown"}

\* Only a node that listens has a state.
Heard ==
  /\ layer = "up" => listening
  /\ ~listening => svc \in {"idle", "listen", "sdUnknown"}
  /\ ~listening /\ svc # "sdUnknown" => state = Unknown

\* What an init that began clean has learned of the device is from its own time.
Booted == {"booted", "hbWait", "configure", "cfgWait", "sdoReread", "start", "starting"}

HasFrame(f) == \E i \in 1 .. Len(toMaster) : toMaster[i] = f

BootsAreNew ==
  clean /\ ~started =>
    /\ HasFrame(BootUp) => dev # Operational
    /\ \A i, j \in 1 .. Len(toMaster) :
         i < j /\ toMaster[i] = BootUp => toMaster[j] # Operational

\* A clean init is sure of the device from the first boot-up it handles on.
Sure == svc \in Booted \/ (svc \in {"listen", "sdoListen", "reset", "booting"} /\ state = BootUp)

StartIsNew ==
  clean /\ ~started /\ Sure => dev # Operational /\ state # Operational /\ ~HasFrame(Operational)

\* From reset_com on the heartbeat interval is the configured one.
IntervalIsSet ==
  op = "init" /\ svc \in Booted \ {"booted"} => interval = object.heartbeat

IInv ==
  /\ TypeOK /\ Stages /\ Member /\ SyncFollowsState
  /\ Heard /\ BootsAreNew /\ StartIsNew /\ IntervalIsSet /\ InitStartsDevice

-------------------------------------------------------------------------------
(* Frames and commands on their way                                        *)

LEMMA Constants ==
  MaxFaults \in Nat /\ MaxCommands \in Nat \ {0} /\ MaxFrames \in Nat \ {0}
  /\ \A o \in Objects : o.heartbeat \in BOOLEAN /\ o.default \in BOOLEAN
<1> USE NodeAssumption DEF NodeAssumption
<1>1. MaxFaults \in Nat /\ MaxCommands \in Nat \ {0} /\ MaxFrames \in Nat \ {0}
  OBVIOUS
<1>2. \A o \in Objects : o.heartbeat \in BOOLEAN /\ o.default \in BOOLEAN
  OBVIOUS
<1> QED
  BY <1>1, <1>2

LEMMA EmptyQueue == << >> \in Seq(Commands) /\ << >> \in Seq(Frames) /\ Len(<< >>) = 0
OBVIOUS

LEMMA SendQueues ==
  ASSUME toDev \in Seq(Commands), NEW c \in Commands, Send(c)
  PROVE  toDev' \in Seq(Commands) /\ Len(toDev') <= MaxCommands
BY Constants DEF Send

LEMMA CommandTaken ==
  ASSUME toDev \in Seq(Commands), toDev # << >>
  PROVE  /\ Head(toDev) \in Commands /\ Tail(toDev) \in Seq(Commands)
         /\ Len(Tail(toDev)) <= Len(toDev)
BY HeadTailProperties

LEMMA EmitQueues ==
  ASSUME toMaster \in Seq(Frames), NEW f \in Frames, Emit(f)
  PROVE  /\ toMaster' \in Seq(Frames) /\ Len(toMaster') <= MaxFrames
         /\ Len(toMaster') = Len(toMaster) + 1 /\ toMaster' # << >>
         /\ toMaster'[Len(toMaster) + 1] = f
         /\ \A i \in 1 .. Len(toMaster) : toMaster'[i] = toMaster[i]
         /\ toMaster # << >> => Head(toMaster') = Head(toMaster)
<1>1. /\ toMaster' \in Seq(Frames) /\ Len(toMaster') = Len(toMaster) + 1
      /\ toMaster'[Len(toMaster) + 1] = f
      /\ \A i \in 1 .. Len(toMaster) : toMaster'[i] = toMaster[i]
  BY AppendProperties DEF Emit
<1>2. Len(toMaster') <= MaxFrames
  BY <1>1, Constants DEF Emit
<1>3. Len(toMaster) \in Nat /\ (toMaster = << >> <=> Len(toMaster) = 0) /\ toMaster' # << >>
  BY <1>1
<1>4. toMaster # << >> => Head(toMaster') = Head(toMaster)
  BY <1>1, <1>3
<1> QED
  BY <1>1, <1>2, <1>3, <1>4

LEMMA FrameTaken ==
  ASSUME toMaster \in Seq(Frames), toMaster # << >>
  PROVE  /\ Head(toMaster) \in Frames /\ Head(toMaster) = toMaster[1]
         /\ Tail(toMaster) \in Seq(Frames) /\ Len(Tail(toMaster)) = Len(toMaster) - 1
         /\ \A i \in 1 .. Len(toMaster) - 1 : Tail(toMaster)[i] = toMaster[i + 1]
         /\ Len(toMaster) \in Nat \ {0}
BY HeadTailProperties

-------------------------------------------------------------------------------
(* Types                                                                   *)

LEMMA InitTypes == Init => TypeOK
<1> SUFFICES ASSUME Init PROVE TypeOK
  OBVIOUS
<1>1. Queues
  BY EmptyQueue, Constants DEF Init, Queues
<1>2. object.default \in BOOLEAN
  BY Constants DEF Init
<1>3. Flags
  BY <1>2 DEF Init, Flags
<1>4. Places
  BY Constants DEF Init, Places, NodeStates, Operational, PreOperational, Unknown
<1> QED
  BY <1>1, <1>3, <1>4 DEF TypeOK, Init

LEMMA FlagsStep == ASSUME TypeOK, Next PROVE Flags'
<1> USE DEF TypeOK, Flags, Places
<1>1. CASE Device
  BY <1>1, Constants
     DEF history, master, nmt, runner, device,
         Device, DevCommand, DevBootUp, DevBeat, DevFails, DevPowersUp
<1>2. CASE Strand
  BY <1>2
     DEF history, master, nmt, runner, device,
         Strand, SdoFrame, SdoBlocked, NmtHandled, HandleNMT, SwitchState, NmtBlocked, NmtIgnored
<1>3. CASE Expire \/ Run \/ Call
  BY <1>3
     DEF history, master, nmt, runner, device,
         Expire, Run, RunCheck, RunState,
         Call, CallInit, CallRecover, CallShutdown
<1>4. CASE Svc
  BY <1>4, Constants
     DEF history, master, nmt, runner, device,
         Svc, InitListen, SdoListen, ReaderLocked, InitReset, BootSeen, BootTimeout, InitBooted,
         HeartbeatSet, Configure, Configured, SdoTimeout, SdoFails, Start, StartSeen,
         StartTimeout, ShutdownBeat, ShutdownBeatSet, ShutdownTimeout, ShutdownFails,
         ShutdownLeaveSync, ShutdownStop, ShutdownUnlisten, ShutdownDone, InitFails, SwitchState
<1> QED
  BY <1>1, <1>2, <1>3, <1>4 DEF Next

LEMMA PlacesStep == ASSUME TypeOK, Next PROVE Places'
<1> USE DEF TypeOK, Places, Waits, NodeStates, Frames, Queues, NmtFrame,
            BootUp, Stopped, Operational, PreOperational, Unknown
<1>1. CASE Device
  BY <1>1, Constants
     DEF history, master, nmt, runner, device,
         Device, DevCommand, DevBootUp, DevBeat, DevFails, DevPowersUp
<1>2. CASE Strand
  BY <1>2, FrameTaken
     DEF history, master, nmt, runner, device,
         Strand, SdoFrame, SdoBlocked, NmtHandled, HandleNMT, SwitchState, NmtBlocked, NmtIgnored
<1>3. CASE Expire \/ Run \/ Call
  BY <1>3
     DEF history, master, nmt, runner, device,
         Expire, Run, RunCheck, RunState,
         Call, CallInit, CallRecover, CallShutdown
<1>4. CASE Svc
  BY <1>4
     DEF history, master, nmt, runner, device,
         Svc, InitListen, SdoListen, ReaderLocked, InitReset, BootSeen, BootTimeout, InitBooted,
         HeartbeatSet, Configure, Configured, SdoTimeout, SdoFails, Start, StartSeen,
         StartTimeout, ShutdownBeat, ShutdownBeatSet, ShutdownTimeout, ShutdownFails,
         ShutdownLeaveSync, ShutdownStop, ShutdownUnlisten, ShutdownDone, InitFails, SwitchState
<1> QED
  BY <1>1, <1>2, <1>3, <1>4 DEF Next

\* The strand takes frames, the device sends some, and nobody else touches them.
LEMMA FramesMove ==
  ASSUME TypeOK, Next
  PROVE  \/ toMaster' = toMaster
         \/ Strand /\ toMaster # << >> /\ toMaster' = Tail(toMaster)
         \/ DevCommand /\ \E f \in {"hbResponse", "cfgResponse"} : Emit(f)
         \/ DevBootUp /\ Emit(BootUp)
         \/ DevBeat /\ Emit(dev)
<1>1. CASE Device
  BY <1>1 DEF Device, DevCommand, DevBootUp, DevBeat, DevFails, DevPowersUp
<1>2. CASE Strand
  BY <1>2 DEF Strand, SdoFrame, SdoBlocked, SdoResponse, NmtHandled, HandleNMT, SwitchState,
              NmtBlocked, NmtIgnored, NmtFrame
<1>3. CASE Expire \/ Run \/ Call \/ Svc
  BY <1>3
     DEF Expire, Run, RunCheck, RunState, Call, CallInit, CallRecover, CallShutdown,
         Svc, InitListen, SdoListen, ReaderLocked, InitReset, BootSeen, BootTimeout, InitBooted,
         HeartbeatSet, Configure, Configured, SdoTimeout, SdoFails, Start, StartSeen,
         StartTimeout, ShutdownBeat, ShutdownBeatSet, ShutdownTimeout, ShutdownFails,
         ShutdownLeaveSync, ShutdownStop, ShutdownUnlisten, ShutdownDone, InitFails, SwitchState
<1> QED
  BY <1>1, <1>2, <1>3 DEF Next

LEMMA QueuesStep == ASSUME TypeOK, Next PROVE Queues'
<1> USE DEF TypeOK, Queues
<1>1. toMaster' \in Seq(Frames) /\ Len(toMaster') <= MaxFrames
  <2>1. CASE toMaster # << >> /\ toMaster' = Tail(toMaster)
    BY <2>1, FrameTaken, Constants
  <2>2. ASSUME NEW f \in Frames, Emit(f) PROVE toMaster' \in Seq(Frames) /\ Len(toMaster') <= MaxFrames
    BY <2>2, EmitQueues
  <2>3. {"hbResponse", "cfgResponse", BootUp} \subseteq Frames /\ (DevBeat => dev \in Frames)
    BY DEF Frames, DevBeat, NodeStates, BootUp, Stopped, Operational, PreOperational, Unknown
  <2> QED
    BY FramesMove, <2>1, <2>2, <2>3
<1>2. toDev' = toDev \/ (toDev # << >> /\ toDev' = Tail(toDev)) \/ \E c \in Commands : Send(c)
  <2>1. CASE Device \/ Strand
    BY <2>1 DEF device, Device, DevCommand, DevBootUp, DevBeat, DevFails, DevPowersUp,
                Strand, SdoFrame, SdoBlocked, NmtHandled, HandleNMT, SwitchState, NmtBlocked,
                NmtIgnored
  <2>2. CASE Expire \/ Run \/ Call
    BY <2>2 DEF Expire, Run, RunCheck, RunState, Call, CallInit, CallRecover, CallShutdown
  <2>3. CASE Svc
    BY <2>3
       DEF Commands, Svc, InitListen, SdoListen, ReaderLocked, InitReset, BootSeen, BootTimeout,
         InitBooted, HeartbeatSet, Configure, Configured, SdoTimeout, SdoFails, Start, StartSeen,
         StartTimeout, ShutdownBeat, ShutdownBeatSet, ShutdownTimeout, ShutdownFails,
         ShutdownLeaveSync, ShutdownStop, ShutdownUnlisten, ShutdownDone, InitFails, SwitchState
  <2> QED
    BY <2>1, <2>2, <2>3 DEF Next
<1>3. toDev' \in Seq(Commands) /\ Len(toDev') <= MaxCommands
  <2>1. CASE toDev' = toDev
    BY <2>1
  <2>2. CASE toDev # << >> /\ toDev' = Tail(toDev)
    BY <2>2, CommandTaken, Constants
  <2>3. ASSUME NEW c \in Commands, Send(c) PROVE toDev' \in Seq(Commands) /\ Len(toDev') <= MaxCommands
    BY <2>3, SendQueues
  <2> QED
    BY <1>2, <2>1, <2>2, <2>3
<1> QED
  BY <1>1, <1>3

\* The frame that blocks the strand stays the first one, its listener stays, and so
\* does an init that the strand waits for in the reader.
BlockedInside == blocked => (listening /\ NmtFrame) \/ Inverted

LEMMA BlockedInListener ==
  ASSUME TypeOK, Next
  PROVE  /\ ~NmtBlocked /\ ~SdoBlocked => (blocked' => blocked)
         /\ blocked /\ listening => listening'
         /\ blocked /\ ReaderLocked => svc' = svc
<1> USE DEF history, master, nmt, runner, device, ReaderLocked
<1>1. CASE Device
  BY <1>1 DEF Device, DevCommand, DevBootUp, DevBeat, DevFails, DevPowersUp
<1>2. CASE Strand
  BY <1>2 DEF Strand, SdoFrame, NmtHandled, HandleNMT, SwitchState, NmtBlocked, NmtIgnored,
              SdoBlocked, TypeOK, Flags
<1>3. CASE Expire \/ Run \/ Call
  BY <1>3 DEF Expire, Run, RunCheck, RunState, Call, CallInit, CallRecover, CallShutdown
<1>4. CASE Svc
  BY <1>4
     DEF Svc, InitListen, SdoListen, ReaderLocked, InitReset, BootSeen, BootTimeout, InitBooted,
         HeartbeatSet, Configure, Configured, SdoTimeout, SdoFails, Start, StartSeen,
         StartTimeout, ShutdownBeat, ShutdownBeatSet, ShutdownTimeout, ShutdownFails,
         ShutdownLeaveSync, ShutdownStop, ShutdownUnlisten, ShutdownDone, InitFails, SwitchState
<1> QED
  BY <1>1, <1>2, <1>3, <1>4 DEF Next

LEMMA BlockedStep == ASSUME TypeOK, Next PROVE BlockedInside'
<1> SUFFICES ASSUME blocked' PROVE ((listening /\ NmtFrame) \/ Inverted)'
  BY DEF BlockedInside
<1>1. CASE NmtBlocked
  BY <1>1 DEF NmtBlocked, NmtFrame, master
<1>2. CASE SdoBlocked
  BY <1>2 DEF SdoBlocked, Inverted, SdoResponse, ReaderLocked
<1>3. CASE ~NmtBlocked /\ ~SdoBlocked
  <2>1. blocked /\ ((listening /\ NmtFrame) \/ Inverted)
    BY <1>3, BlockedInListener DEF TypeOK
  <2>2. toMaster # << >> /\ (listening => listening')
        /\ (Inverted => svc' = svc /\ ReaderLocked /\ SdoResponse)
    BY <2>1, BlockedInListener DEF NmtFrame, Inverted, SdoResponse
  <2>3. SUFFICES toMaster' # << >> /\ Head(toMaster') = Head(toMaster)
    BY <2>1, <2>2 DEF NmtFrame, Inverted, SdoResponse, ReaderLocked
  <2>4. ASSUME NEW f \in Frames, Emit(f) PROVE toMaster' # << >> /\ Head(toMaster') = Head(toMaster)
    BY <2>2, <2>4, EmitQueues DEF TypeOK, Queues
  <2>5. {"hbResponse", "cfgResponse", BootUp} \subseteq Frames /\ (DevBeat => dev \in Frames)
    BY DEF Frames, DevBeat, TypeOK, Places, NodeStates, BootUp, Stopped, Operational,
           PreOperational, Unknown
  <2>6. CASE Strand
    <3>1. ~SdoFrame /\ ~NmtHandled
      BY <2>1 DEF SdoFrame, NmtHandled, HandleNMT
    <3>2. ~NmtIgnored
      BY <2>1 DEF NmtIgnored, Inverted, SdoResponse, NmtFrame, NodeStates, BootUp, Stopped,
                  Operational, PreOperational, Unknown
    <3> QED
      BY <1>3, <2>6, <3>1, <3>2 DEF Strand
  <2> QED
    BY <2>2, <2>4, <2>5, <2>6, FramesMove
<1> QED
  BY <1>1, <1>2, <1>3

LEMMA Stutter == ASSUME TypeOK, UNCHANGED vars PROVE TypeOK'
BY DEF TypeOK, Flags, Places, Queues, NmtFrame, Inverted, SdoResponse, ReaderLocked, vars,
       history, master, nmt, runner, device

\* Types, for every number of failures and frames.
THEOREM NodeTypeOK == Spec => []TypeOK
<1>1. TypeOK /\ [Next]_vars => TypeOK'
  BY FlagsStep, PlacesStep, QueuesStep, BlockedStep, Stutter DEF TypeOK, BlockedInside
<1> QED
  BY <1>1, InitTypes, PTL DEF Spec

-------------------------------------------------------------------------------
(* SYNC membership                                                         *)

LEMMA StagesStep == ASSUME TypeOK, Stages, Next PROVE Stages'
<1> USE DEF Stages
<1>1. CASE Device
  BY <1>1
     DEF history, master, nmt, runner, device,
         Device, DevCommand, DevBootUp, DevBeat, DevFails, DevPowersUp
<1>2. CASE Strand
  BY <1>2
     DEF history, master, nmt, runner, device,
         Strand, SdoFrame, SdoBlocked, NmtHandled, HandleNMT, SwitchState, NmtBlocked, NmtIgnored
<1>3. CASE Expire \/ Run \/ Call
  BY <1>3
     DEF history, master, nmt, runner, device,
         Expire, Run, RunCheck, RunState,
         Call, CallInit, CallRecover, CallShutdown
<1>4. CASE Svc
  BY <1>4
     DEF history, master, nmt, runner, device,
         Svc, InitListen, SdoListen, ReaderLocked, InitReset, BootSeen, BootTimeout, InitBooted,
         HeartbeatSet, Configure, Configured, SdoTimeout, SdoFails, Start, StartSeen,
         StartTimeout, ShutdownBeat, ShutdownBeatSet, ShutdownTimeout, ShutdownFails,
         ShutdownLeaveSync, ShutdownStop, ShutdownUnlisten, ShutdownDone, InitFails, SwitchState
<1> QED
  BY <1>1, <1>2, <1>3, <1>4 DEF Next

LEMMA MemberStep ==
  ASSUME TypeOK, Stages, Member, SyncFollowsState, Next
  PROVE  Member' /\ SyncFollowsState'
<1> USE DEF TypeOK, Flags, Stages, Member, SyncFollowsState, NodeStates, BootUp, Stopped,
            Operational, PreOperational, Unknown
<1>1. CASE Device
  BY <1>1
     DEF history, master, nmt, runner, device,
         Device, DevCommand, DevBootUp, DevBeat, DevFails, DevPowersUp
<1>2. CASE Strand
  <2>1. CASE NmtHandled
    <3>1. state' = Head(toMaster) /\ layer' = layer /\ svc' = svc
      BY <2>1 DEF NmtHandled, HandleNMT, SwitchState, master
    <3>2. CASE state = Head(toMaster)
      BY <3>1, <3>2, <2>1 DEF NmtHandled, HandleNMT, SwitchState
    <3>3. CASE state # Head(toMaster)
      <4>1. sync' = (state' = Operational)
        BY <3>1, <3>3, <2>1 DEF NmtHandled, HandleNMT, SwitchState
      <4> QED
        BY <3>1, <4>1
    <3> QED
      BY <3>2, <3>3
  <2>2. CASE ~NmtHandled
    BY <1>2, <2>2 DEF master, nmt, Strand, SdoFrame, SdoBlocked, NmtBlocked, NmtIgnored
  <2> QED
    BY <2>1, <2>2
<1>3. CASE Expire \/ Run \/ Call
  BY <1>3
     DEF history, master, nmt, runner, device,
         Expire, Run, RunCheck, RunState,
         Call, CallInit, CallRecover, CallShutdown
<1>4. CASE Svc
  <2>1. CASE BootTimeout
    <3>1. layer' # "up" /\ ((state' = state /\ sync' = sync) \/ state' = BootUp)
      BY <2>1 DEF BootTimeout, SwitchState, InitFails
    <3>2. svc \notin {"sdSend", "sdUnlisten", "sdUnknown"}
      BY <2>1 DEF BootTimeout
    <3> QED
      BY <3>1, <3>2
  <2>2. CASE StartTimeout
    <3>1. CASE interval
      BY <2>2, <3>1 DEF StartTimeout, InitFails
    <3>2. CASE ~interval
      BY <2>2, <3>2 DEF StartTimeout, SwitchState
    <3> QED
      BY <3>1, <3>2
  <2>3. CASE Svc /\ ~BootTimeout /\ ~StartTimeout
    BY <2>3
       DEF history, master, nmt, runner, device,
           Svc, InitListen, SdoListen, ReaderLocked, InitReset, BootSeen, InitBooted,
           HeartbeatSet, Configure, Configured, SdoTimeout, SdoFails, Start, StartSeen,
           ShutdownBeat, ShutdownBeatSet, ShutdownTimeout, ShutdownFails, ShutdownLeaveSync,
           ShutdownStop, ShutdownUnlisten, ShutdownDone, InitFails
  <2> QED
    BY <1>4, <2>1, <2>2, <2>3
<1> QED
  BY <1>1, <1>2, <1>3, <1>4 DEF Next

-------------------------------------------------------------------------------
(* The start of a device                                                   *)

LEMMA HeardStep == ASSUME TypeOK, Stages, Heard, Next PROVE Heard'
<1> USE DEF TypeOK, Flags, Stages, Heard
<1>1. CASE Device
  BY <1>1
     DEF history, master, nmt, runner, device,
         Device, DevCommand, DevBootUp, DevBeat, DevFails, DevPowersUp
<1>2. CASE Strand
  BY <1>2
     DEF history, master, nmt, runner, device,
         Strand, SdoFrame, SdoBlocked, NmtHandled, HandleNMT, SwitchState, NmtBlocked, NmtIgnored
<1>3. CASE Expire \/ Run \/ Call
  BY <1>3
     DEF history, master, nmt, runner, device,
         Expire, Run, RunCheck, RunState,
         Call, CallInit, CallRecover, CallShutdown
<1>4. CASE Svc
  BY <1>4
     DEF history, master, nmt, runner, device,
         Svc, InitListen, SdoListen, ReaderLocked, InitReset, BootSeen, BootTimeout, InitBooted,
         HeartbeatSet, Configure, Configured, SdoTimeout, SdoFails, Start, StartSeen,
         StartTimeout, ShutdownBeat, ShutdownBeatSet, ShutdownTimeout, ShutdownFails,
         ShutdownLeaveSync, ShutdownStop, ShutdownUnlisten, ShutdownDone, InitFails, SwitchState
<1> QED
  BY <1>1, <1>2, <1>3, <1>4 DEF Next

LEMMA IntervalStep == ASSUME TypeOK, Stages, IntervalIsSet, Next PROVE IntervalIsSet'
<1> USE DEF Stages, IntervalIsSet, Booted
<1>1. CASE Device
  BY <1>1
     DEF history, master, nmt, runner, device,
         Device, DevCommand, DevBootUp, DevBeat, DevFails, DevPowersUp
<1>2. CASE Strand
  BY <1>2
     DEF history, master, nmt, runner, device,
         Strand, SdoFrame, SdoBlocked, NmtHandled, HandleNMT, SwitchState, NmtBlocked, NmtIgnored
<1>3. CASE Expire \/ Run \/ Call
  BY <1>3
     DEF history, master, nmt, runner, device,
         Expire, Run, RunCheck, RunState,
         Call, CallInit, CallRecover, CallShutdown
<1>4. CASE Svc
  BY <1>4
     DEF history, master, nmt, runner, device,
         Svc, InitListen, SdoListen, ReaderLocked, InitReset, BootSeen, BootTimeout, InitBooted,
         HeartbeatSet, Configure, Configured, SdoTimeout, SdoFails, Start, StartSeen,
         StartTimeout, ShutdownBeat, ShutdownBeatSet, ShutdownTimeout, ShutdownFails,
         ShutdownLeaveSync, ShutdownStop, ShutdownUnlisten, ShutdownDone, InitFails, SwitchState
<1> QED
  BY <1>1, <1>2, <1>3, <1>4 DEF Next

\* Nobody but the device itself changes what it is, and started goes back only
\* when a call begins.
LEMMA DeviceMoves ==
  ASSUME Next, ~CallInit
  PROVE  \/ started' = TRUE \/ clean' = FALSE
         \/ clean' = clean /\ started' = started /\ (dev' = Operational => dev = Operational)
<1> USE DEF Operational, PreOperational, BootUp, Stopped
<1>1. CASE Device
  BY <1>1 DEF history, device, Device, DevCommand, DevBootUp, DevBeat, DevFails, DevPowersUp
<1>2. CASE Strand
  BY <1>2 DEF history, device, Strand, SdoFrame, SdoBlocked, NmtHandled, HandleNMT, SwitchState,
              NmtBlocked, NmtIgnored
<1>3. CASE Expire \/ Run \/ Call
  BY <1>3
     DEF history, master, nmt, runner, device,
         Expire, Run, RunCheck, RunState,
         Call, CallInit, CallRecover, CallShutdown
<1>4. CASE Svc
  BY <1>4
     DEF history, master, nmt, runner, device,
         Svc, InitListen, SdoListen, ReaderLocked, InitReset, BootSeen, BootTimeout, InitBooted,
         HeartbeatSet, Configure, Configured, SdoTimeout, SdoFails, Start, StartSeen,
         StartTimeout, ShutdownBeat, ShutdownBeatSet, ShutdownTimeout, ShutdownFails,
         ShutdownLeaveSync, ShutdownStop, ShutdownUnlisten, ShutdownDone, InitFails, SwitchState
<1> QED
  BY <1>1, <1>2, <1>3, <1>4 DEF Next

\* A clean init finds no boot-up; one that is sent later comes from a device that
\* is not Operational, and stays so unless it is started.
LEMMA BootsAreNewStep == ASSUME TypeOK, BootsAreNew, Next PROVE BootsAreNew'
<1> SUFFICES ASSUME clean', ~started'
             PROVE  /\ HasFrame(BootUp)' => dev' # Operational
                    /\ \A i, j \in 1 .. Len(toMaster') :
                         i < j /\ toMaster'[i] = BootUp => toMaster'[j] # Operational
  BY DEF BootsAreNew
<1>1. CASE CallInit
  <2>1. toMaster' = toMaster /\ BootUp \notin Range(toMaster)
    BY <1>1 DEF CallInit
  <2>2. \A i \in 1 .. Len(toMaster) : toMaster[i] # BootUp
    BY <2>1 DEF Range, TypeOK, Queues
  <2> QED
    BY <2>1, <2>2 DEF HasFrame
<1>2. CASE ~CallInit
  <2>1. /\ HasFrame(BootUp) => dev # Operational
        /\ \A i, j \in 1 .. Len(toMaster) :
             i < j /\ toMaster[i] = BootUp => toMaster[j] # Operational
        /\ dev' = Operational => dev = Operational
    BY <1>2, DeviceMoves DEF BootsAreNew
  <2>2. CASE toMaster' = toMaster
    BY <2>1, <2>2 DEF HasFrame
  <2>3. CASE toMaster # << >> /\ toMaster' = Tail(toMaster)
    BY <2>1, <2>3, FrameTaken DEF HasFrame, TypeOK, Queues
  <2>4. ASSUME NEW f \in Frames, Emit(f), f = BootUp => dev' # Operational,
               f = Operational => dev = Operational
        PROVE  /\ HasFrame(BootUp)' => dev' # Operational
               /\ \A i, j \in 1 .. Len(toMaster') :
                    i < j /\ toMaster'[i] = BootUp => toMaster'[j] # Operational
    <3>1. /\ Len(toMaster') = Len(toMaster) + 1 /\ Len(toMaster) \in Nat
          /\ toMaster'[Len(toMaster) + 1] = f
          /\ \A i \in 1 .. Len(toMaster) : toMaster'[i] = toMaster[i]
      BY <2>4, EmitQueues DEF TypeOK, Queues
    <3>2. ASSUME NEW i \in 1 .. Len(toMaster'), toMaster'[i] = BootUp PROVE dev' # Operational
      BY <2>1, <2>4, <3>1, <3>2 DEF HasFrame
    <3>3. ASSUME NEW i \in 1 .. Len(toMaster'), NEW j \in 1 .. Len(toMaster'),
                 i < j, toMaster'[i] = BootUp
          PROVE  toMaster'[j] # Operational
      BY <2>1, <2>4, <3>1, <3>3 DEF HasFrame
    <3> QED
      BY <3>2, <3>3 DEF HasFrame
  <2>5. /\ {"hbResponse", "cfgResponse", BootUp} \subseteq Frames /\ (DevBeat => dev \in Frames)
        /\ BootUp # Operational /\ "hbResponse" \notin {BootUp, Operational}
        /\ "cfgResponse" \notin {BootUp, Operational}
        /\ DevBeat => dev # BootUp
        /\ DevBootUp => dev' # Operational
    BY DEF Frames, DevBeat, DevBootUp, TypeOK, Places, NodeStates, BootUp, Stopped, Operational,
           PreOperational, Unknown
  <2> QED
    BY <2>2, <2>3, <2>4, <2>5, FramesMove
<1> QED
  BY <1>1, <1>2

\* Whoever else moves, an Operational frame comes only from an Operational device.
LEMMA OperationalFrames ==
  ASSUME TypeOK, Next, dev # Operational, ~HasFrame(Operational)
  PROVE  ~HasFrame(Operational)'
<1>1. CASE toMaster' = toMaster
  BY <1>1 DEF HasFrame
<1>2. CASE toMaster # << >> /\ toMaster' = Tail(toMaster)
  BY <1>2, FrameTaken DEF HasFrame, TypeOK, Queues
<1>3. ASSUME NEW f \in Frames, Emit(f), f # Operational PROVE ~HasFrame(Operational)'
  BY <1>3, EmitQueues DEF HasFrame, TypeOK, Queues
<1>4. /\ {"hbResponse", "cfgResponse", BootUp} \subseteq Frames /\ (DevBeat => dev \in Frames)
      /\ Operational \notin {"hbResponse", "cfgResponse", BootUp}
  BY DEF Frames, DevBeat, TypeOK, Places, NodeStates, BootUp, Stopped, Operational,
         PreOperational, Unknown
<1> QED
  BY <1>1, <1>2, <1>3, <1>4, FramesMove

\* It is a boot-up that makes it sure.
LEMMA SureMoves ==
  ASSUME TypeOK, Stages, Heard, Next, Sure', clean' = TRUE
  PROVE  \/ Sure /\ (state' = Operational => state = Operational \/ HasFrame(Operational))
         \/ NmtHandled /\ Head(toMaster) = BootUp
<1> USE DEF Sure, Booted, Stages, Heard, BootUp, Operational, Unknown, PreOperational
<1>1. CASE Device
  BY <1>1
     DEF history, master, nmt, runner, device,
         Device, DevCommand, DevBootUp, DevBeat, DevFails, DevPowersUp
<1>2. CASE Strand
  <2>1. toMaster # << >> => HasFrame(Head(toMaster))
    BY FrameTaken DEF HasFrame, TypeOK, Queues
  <2> QED
    BY <1>2, <2>1
       DEF history, master, nmt, Strand, SdoFrame, SdoBlocked, NmtFrame, NmtHandled, HandleNMT,
           SwitchState, NmtBlocked, NmtIgnored
<1>3. CASE Expire \/ Run \/ Call
  BY <1>3
     DEF history, master, nmt, runner, device,
         Expire, Run, RunCheck, RunState,
         Call, CallInit, CallRecover, CallShutdown
<1>4. CASE Svc
  BY <1>4
     DEF history, master, nmt, runner, device,
         Svc, InitListen, SdoListen, ReaderLocked, InitReset, BootSeen, BootTimeout, InitBooted,
         HeartbeatSet, Configure, Configured, SdoTimeout, SdoFails, Start, StartSeen,
         StartTimeout, ShutdownBeat, ShutdownBeatSet, ShutdownTimeout, ShutdownFails,
         ShutdownLeaveSync, ShutdownStop, ShutdownUnlisten, ShutdownDone, InitFails, SwitchState
<1> QED
  BY <1>1, <1>2, <1>3, <1>4 DEF Next

LEMMA StartIsNewStep ==
  ASSUME TypeOK, Stages, Heard, BootsAreNew, StartIsNew, Next
  PROVE  StartIsNew'
<1> SUFFICES ASSUME clean' = TRUE, started' = FALSE, Sure'
             PROVE  dev' # Operational /\ state' # Operational /\ ~HasFrame(Operational)'
  BY FlagsStep DEF Flags, StartIsNew
<1>1. ~CallInit
  BY DEF CallInit, Sure, Booted, Stages, Heard, nmt, BootUp, Unknown
<1>2. clean = TRUE /\ started = FALSE /\ (dev' = Operational => dev = Operational)
  BY <1>1, DeviceMoves
<1>3. CASE Sure /\ (state' = Operational => state = Operational \/ HasFrame(Operational))
  <2>1. dev # Operational /\ state # Operational /\ ~HasFrame(Operational)
    BY <1>2, <1>3 DEF StartIsNew
  <2> QED
    BY <1>2, <1>3, <2>1, OperationalFrames
<1>4. CASE NmtHandled /\ Head(toMaster) = BootUp
  <2>1. toMaster # << >> /\ toMaster' = Tail(toMaster) /\ state' = BootUp
    BY <1>4 DEF NmtHandled, NmtFrame, HandleNMT, SwitchState
  <2>2. HasFrame(BootUp) /\ toMaster[1] = BootUp /\ Len(toMaster) \in Nat \ {0}
    BY <1>4, <2>1, FrameTaken DEF HasFrame, TypeOK, Queues
  <2>3. dev # Operational /\ \A j \in 2 .. Len(toMaster) : toMaster[j] # Operational
    BY <1>2, <2>2 DEF BootsAreNew
  <2>4. ~HasFrame(Operational)'
    BY <2>1, <2>2, <2>3, FrameTaken DEF HasFrame, TypeOK, Queues
  <2> QED
    BY <1>2, <2>1, <2>3, <2>4 DEF BootUp, Operational
<1> QED
  BY <1>3, <1>4, SureMoves

\* Init ends well only in StartSeen and StartTimeout.
LEMMA InitEnds ==
  ASSUME Next, svc' = "idle", op' = "init", layer' = "up"
  PROVE  \/ svc = "idle" /\ op = "init" /\ layer = "up" /\ object' = object /\ clean' = clean
         \/ StartSeen \/ StartTimeout
<1>1. CASE Device
  BY <1>1
     DEF history, master, nmt, runner, device,
         Device, DevCommand, DevBootUp, DevBeat, DevFails, DevPowersUp
<1>2. CASE Strand
  BY <1>2
     DEF history, master, nmt, runner, device,
         Strand, SdoFrame, SdoBlocked, NmtHandled, HandleNMT, SwitchState, NmtBlocked, NmtIgnored
<1>3. CASE Expire \/ Run \/ Call
  BY <1>3
     DEF history, master, nmt, runner, device,
         Expire, Run, RunCheck, RunState,
         Call, CallInit, CallRecover, CallShutdown
<1>4. CASE Svc
  BY <1>4
     DEF history, master, nmt, runner, device,
         Svc, InitListen, SdoListen, ReaderLocked, InitReset, BootSeen, BootTimeout, InitBooted,
         HeartbeatSet, Configure, Configured, SdoTimeout, SdoFails, Start, StartSeen,
         StartTimeout, ShutdownBeat, ShutdownBeatSet, ShutdownTimeout, ShutdownFails,
         ShutdownLeaveSync, ShutdownStop, ShutdownUnlisten, ShutdownDone, InitFails, SwitchState
<1> QED
  BY <1>1, <1>2, <1>3, <1>4 DEF Next

\* Success is reported where the device was seen Operational.
LEMMA InitStartsDeviceStep ==
  ASSUME TypeOK, Stages, StartIsNew, IntervalIsSet, InitStartsDevice, Next
  PROVE  InitStartsDevice'
<1> SUFFICES ASSUME (svc = "idle" /\ op = "init" /\ layer = "up" /\ object.heartbeat /\ clean)'
             PROVE  started' = TRUE
  BY DEF InitStartsDevice
<1>1. CASE svc = "idle" /\ op = "init" /\ layer = "up" /\ object' = object /\ clean' = clean
  <2>1. started = TRUE
    BY <1>1 DEF InitStartsDevice, TypeOK, Flags
  <2> QED
    BY <1>1, <2>1, DeviceMoves DEF CallInit
<1>2. CASE StartSeen
  <2>1. clean /\ state = Operational /\ Sure /\ started' = started
    BY <1>2 DEF StartSeen, history, device, Sure, Booted
  <2> QED
    BY <2>1 DEF StartIsNew, TypeOK, Flags
<1>3. ~StartTimeout
  BY DEF StartTimeout, IntervalIsSet, Booted, InitFails, master
<1> QED
  BY <1>1, <1>2, <1>3, InitEnds

LEMMA IInvHolds == Spec => []IInv
<1>1. Init => IInv
  BY InitTypes
     DEF Init, IInv, Stages, Member, SyncFollowsState, Heard, BootsAreNew, StartIsNew,
         IntervalIsSet, Booted, InitStartsDevice, Operational, Unknown
<1>2. IInv /\ [Next]_vars => IInv'
  <2>1. CASE Next
    BY <2>1, FlagsStep, PlacesStep, QueuesStep, BlockedStep, StagesStep, MemberStep, HeardStep,
       IntervalStep, BootsAreNewStep, StartIsNewStep, InitStartsDeviceStep
       DEF IInv, TypeOK, BlockedInside
  <2>2. CASE UNCHANGED vars
    BY <2>2, Stutter
       DEF IInv, Stages, Member, SyncFollowsState, Heard, BootsAreNew, StartIsNew, Sure,
           HasFrame, IntervalIsSet, InitStartsDevice, vars, history, master, nmt, device
  <2> QED
    BY <2>1, <2>2
<1> QED
  BY <1>1, <1>2, PTL DEF Spec

\* While the node is up it takes part in SYNC exactly as long as it is seen
\* Operational.
THEOREM SyncFollowsStateHolds == Spec => []SyncFollowsState
<1>1. IInv => SyncFollowsState
  BY DEF IInv
<1> QED
  BY <1>1, IInvHolds, PTL

\* A node with a heartbeat is initialised only if the device was started after
\* init began, if that found no old boot-up on its way.
THEOREM InitStartsDeviceHolds == Spec => []InitStartsDevice
<1>1. IInv => InitStartsDevice
  BY DEF IInv
<1> QED
  BY <1>1, IInvHolds, PTL

-------------------------------------------------------------------------------
(***************************************************************************)
(* For any number of frames: a healthy device is initialised, recovered    *)
(* and shut down without an error, whatever the order in which the service *)
(* thread, the strand, the run thread and the device take their steps.     *)
(*                                                                         *)
(* Pipeline says what may be on its way in every stage of a call: a wait   *)
(* finds exactly one command, response or boot-up that can end it, and     *)
(* nothing is left from an earlier stage that another wait would take for  *)
(* its answer.                                                             *)
(***************************************************************************)

\* A device that never lost power, whose answers were waited for, and which sends
\* no heartbeat by default.
Healthy == faults = 0 /\ late = FALSE /\ object.default = FALSE
NoCommand(cs) == \A i \in 1 .. Len(toDev) : toDev[i] \notin cs
NoFrame(fs)   == \A i \in 1 .. Len(toMaster) : toMaster[i] \notin fs

Answers  == {"hbResponse", "cfgResponse", BootUp}
NoAnswer == NoFrame(Answers)

OneAnswer(f) ==
  \E k \in 1 .. Len(toMaster) :
    /\ toMaster[k] = f
    /\ \A i \in 1 .. Len(toMaster) : i # k => toMaster[i] \notin Answers

\* Nothing is on its way that a later wait could take for its answer.  What may be:
\* start, stop and the last heartbeat request with its response, which nobody expects.
Between ==
  /\ NoCommand({"reset", "hb", "cfg"}) /\ NoFrame({"cfgResponse", BootUp})
  /\ dev \notin {"off", BootUp}

\* The reset is the last command; it is carried out; the boot-up is the last
\* frame; it is seen.
ResetSent ==
  /\ toDev # << >> /\ toDev[Len(toDev)] = "reset"
  /\ \A i \in 1 .. Len(toDev) - 1 : toDev[i] \notin {"reset", "hb", "cfg"}
  /\ NoFrame({"cfgResponse", BootUp}) /\ dev \notin {"off", BootUp} /\ state # BootUp

Reset == toDev = << >> /\ beats = FALSE

Rebooting ==
  \/ ResetSent
  \/ Reset /\ dev = BootUp /\ NoFrame({"cfgResponse", BootUp}) /\ state # BootUp
  \/ /\ Reset /\ dev = PreOperational /\ state # BootUp
     /\ toMaster # << >> /\ toMaster[Len(toMaster)] = BootUp
     /\ \A i \in 1 .. Len(toMaster) - 1 : toMaster[i] \notin {"cfgResponse", BootUp}
  \/ Reset /\ dev = PreOperational /\ toMaster = << >> /\ state = BootUp

Configurable == toDev = << >> /\ dev = PreOperational /\ beats = object.heartbeat

SettingBeat ==
  \/ /\ answer = "none" /\ toDev = <<"hb">> /\ toMaster = << >>
     /\ dev = PreOperational /\ beats = FALSE /\ blocked = FALSE
  \/ /\ answer = "none" /\ Configurable /\ blocked = FALSE
     /\ toMaster # << >> /\ Head(toMaster) = "hbResponse"
     /\ \A i \in 2 .. Len(toMaster) : toMaster[i] \notin Answers
  \/ answer = "ok" /\ Configurable /\ NoAnswer

Configuring ==
  \/ /\ answer = "none" /\ toDev = <<"cfg">> /\ dev = PreOperational /\ beats = object.heartbeat
     /\ NoAnswer
  \/ answer = "none" /\ Configurable /\ OneAnswer("cfgResponse")
  \/ answer = "ok" /\ Configurable /\ NoAnswer

Starting ==
  /\ beats = object.heartbeat /\ NoAnswer
  /\ \/ toDev = <<"start">> /\ dev = PreOperational
     \/ toDev = << >> /\ dev = Operational

\* What is on its way in every stage of a call.
IsBetween ==
  \/ svc \in {"idle", "listen", "sdoListen", "reset", "sdHb", "sdHbWait", "sdStop", "sdSend", "sdUnlisten",
              "sdUnknown"}
  \/ op = "recover" /\ svc \in {"start", "starting"}

Pipeline ==
  /\ IsBetween => Between
  /\ svc \in {"idle", "listen", "sdUnknown"} /\ layer # "up" => listening = FALSE
  /\ svc \in {"listen", "sdoListen", "reset"} => state # BootUp
  /\ svc = "booting" => Rebooting
  /\ svc = "booted" => Reset /\ dev = PreOperational /\ toMaster = << >>
  /\ svc = "hbWait" => SettingBeat
  /\ svc \in {"configure", "sdoReread"} \/ (svc = "start" /\ op = "init") => Configurable /\ NoAnswer
  /\ svc = "cfgWait" => Configuring
  /\ svc = "starting" /\ op = "init" => Starting
  /\ svc = "sdHbWait" => answer # "bad"

\* A device without a heartbeat is asked by init only whether it has taken the
\* interval, so that no response is left over.
Silent ==
  object.heartbeat = FALSE =>
    /\ interval = FALSE /\ NoCommand({"hb0"})
    /\ svc # "hbWait" => NoFrame({"hbResponse"})

Unblocked == svc \in {"reset", "booting", "booted"} => blocked = FALSE

CleanInv == Unblocked /\ (Healthy => status = "ok" /\ Pipeline /\ Silent)

-------------------------------------------------------------------------------
(* Queues                                                                  *)

LEMMA OneCommand ==
  ASSUME NEW c
  PROVE  /\ Head(<<c>>) = c /\ Tail(<<c>>) = << >> /\ Append(<< >>, c) = <<c>>
         /\ <<c>> # << >> /\ Len(<<c>>) = 1 /\ <<c>>[1] = c
OBVIOUS

LEMMA TakeCommand ==
  ASSUME TypeOK, toDev # << >>, toDev' = Tail(toDev)
  PROVE  /\ Len(toDev) \in Nat \ {0} /\ Len(toDev') = Len(toDev) - 1
         /\ Head(toDev) = toDev[1] /\ Head(toDev) \in Commands
         /\ \A i \in 1 .. Len(toDev) - 1 : toDev'[i] = toDev[i + 1]
         /\ Len(toDev) = 1 => toDev' = << >>
<1>1. /\ Len(toDev) \in Nat \ {0} /\ Len(toDev') = Len(toDev) - 1
      /\ Head(toDev) = toDev[1] /\ Head(toDev) \in Commands /\ toDev' \in Seq(Commands)
      /\ \A i \in 1 .. Len(toDev) - 1 : toDev'[i] = toDev[i + 1]
  BY HeadTailProperties DEF TypeOK, Queues
<1>2. Len(toDev) = 1 => toDev' = << >>
  BY <1>1
<1> QED
  BY <1>1, <1>2

LEMMA SendCommand ==
  ASSUME TypeOK, NEW c \in Commands, Send(c)
  PROVE  /\ Len(toDev) \in Nat /\ Len(toDev') = Len(toDev) + 1 /\ toDev' # << >>
         /\ toDev'[Len(toDev) + 1] = c
         /\ \A i \in 1 .. Len(toDev) : toDev'[i] = toDev[i]
         /\ toDev = << >> => toDev' = <<c>>
<1>1. toDev \in Seq(Commands) /\ toDev' = Append(toDev, c)
  BY DEF TypeOK, Queues, Send
<1>2. /\ Len(toDev) \in Nat /\ Len(toDev') = Len(toDev) + 1 /\ toDev'[Len(toDev) + 1] = c
      /\ \A i \in 1 .. Len(toDev) : toDev'[i] = toDev[i]
  BY <1>1, AppendProperties
<1>3. toDev' # << >>
  BY <1>2
<1> QED
  BY <1>1, <1>2, <1>3, OneCommand

LEMMA EmitKeeps ==
  ASSUME TypeOK, NEW CONSTANT S, NoFrame(S), NEW f \in Frames, f \notin S, Emit(f)
  PROVE  NoFrame(S)'
BY EmitQueues DEF NoFrame, TypeOK, Queues

LEMMA TailKeeps ==
  ASSUME TypeOK, NEW CONSTANT S, NoFrame(S), toMaster # << >>, toMaster' = Tail(toMaster)
  PROVE  NoFrame(S)'
BY FrameTaken DEF NoFrame, TypeOK, Queues

\* What the strand does with the frames.
LEMMA StrandTakes ==
  ASSUME Strand
  PROVE  (toMaster # << >> /\ toMaster' = Tail(toMaster)) \/ toMaster' = toMaster
BY DEF Strand, SdoFrame, SdoBlocked, SdoResponse, NmtHandled, HandleNMT, NmtFrame, NmtBlocked,
       NmtIgnored

LEMMA StrandKeeps == ASSUME Strand PROVE UNCHANGED <<svc, op, layer, status, object, late, faults, listening,
     interval, dev, beats, toDev>>
BY DEF history, master, device, Strand, SdoFrame, SdoBlocked, NmtHandled, HandleNMT, NmtBlocked,
       NmtIgnored

LEMMA DeviceKeeps == ASSUME Device PROVE UNCHANGED <<svc, op, layer, status, object, late, listening,
     interval, answer, state, blocked>>
BY DEF history, master, nmt, Device, DevCommand, DevBootUp, DevBeat, DevFails, DevPowersUp

\* The frames of a device.
LEMMA Emitted ==
  /\ {"hbResponse", "cfgResponse", BootUp} \subseteq Frames
  /\ TypeOK /\ DevBeat => dev \in Frames \ {"hbResponse", "cfgResponse", BootUp}
BY DEF Frames, DevBeat, TypeOK, Places, NodeStates, BootUp, Stopped, Operational,
       PreOperational, Unknown

-------------------------------------------------------------------------------
(* The stages, while the device and the strand move                        *)

LEMMA BetweenDevice ==
  ASSUME TypeOK, Between, Device, faults' = 0
  PROVE  Between'
<1> USE DEF Between
<1>1. CASE DevCommand
  <2>1. /\ Head(toDev) \notin {"reset", "hb", "cfg"} /\ NoCommand({"reset", "hb", "cfg"})'
    BY <1>1, TakeCommand DEF DevCommand, NoCommand
  <2>2. dev' \notin {"off", BootUp} /\ (toMaster' = toMaster \/ Emit("hbResponse"))
    BY <1>1, <2>1 DEF DevCommand, device, BootUp, Stopped, Operational, PreOperational
  <2>3. NoFrame({"cfgResponse", BootUp})'
    <3>1. CASE toMaster' = toMaster
      BY <3>1 DEF NoFrame
    <3>2. CASE Emit("hbResponse")
      BY <3>2, EmitKeeps, Emitted DEF BootUp
    <3> QED
      BY <2>2, <3>1, <3>2
  <2> QED
    BY <2>1, <2>2, <2>3
<1>2. CASE DevBeat
  <2>1. NoFrame({"cfgResponse", BootUp})'
    BY <1>2, Emitted, EmitKeeps DEF DevBeat
  <2> QED
    BY <1>2, <2>1 DEF DevBeat, device, NoCommand
<1>3. ~DevBootUp /\ ~DevFails /\ ~DevPowersUp
  BY DEF DevBootUp, DevFails, DevPowersUp, TypeOK, Places
<1> QED
  BY <1>1, <1>2, <1>3 DEF Device

LEMMA BetweenStrand ==
  ASSUME TypeOK, Between, Strand
  PROVE  Between'
<1>1. NoFrame({"cfgResponse", BootUp})'
  <2>1. CASE toMaster' = toMaster
    BY <2>1 DEF Between, NoFrame
  <2>2. CASE toMaster # << >> /\ toMaster' = Tail(toMaster)
    BY <2>2, TailKeeps DEF Between
  <2> QED
    BY <2>1, <2>2, StrandTakes
<1> QED
  BY <1>1, StrandKeeps DEF Between, NoCommand

\* The reset is carried out, the device sends its boot-up, and the strand hands it over.
LEMMA RebootingDevice ==
  ASSUME TypeOK, Rebooting, Device, faults' = 0, object.default = FALSE
  PROVE  Rebooting'
<1>1. CASE ResetSent
  <2> USE <1>1 DEF ResetSent
  <2>1. CASE DevCommand /\ Len(toDev) = 1
    <3>1. toDev' = << >> /\ Head(toDev) = "reset"
      BY <2>1, TakeCommand DEF DevCommand
    <3>2. dev \in {PreOperational, Operational, Stopped}
      BY DEF TypeOK, Places, NodeStates
    <3>3. dev' = BootUp /\ beats' = FALSE /\ toMaster' = toMaster
      BY <2>1, <3>1, <3>2 DEF DevCommand, BootUp, Stopped, Operational, PreOperational
    <3> QED
      BY <2>1, <3>1, <3>3, DeviceKeeps DEF Rebooting, Reset, NoFrame
  <2>2. CASE DevCommand /\ Len(toDev) # 1
    <3>1. /\ Len(toDev) \in Nat \ {0, 1} /\ Len(toDev') = Len(toDev) - 1
          /\ Head(toDev) = toDev[1]
          /\ \A i \in 1 .. Len(toDev) - 1 : toDev'[i] = toDev[i + 1]
      BY <2>2, TakeCommand DEF DevCommand
    <3>2. Head(toDev) \notin {"reset", "hb", "cfg"}
      BY <3>1
    <3>3. /\ toDev' # << >> /\ toDev'[Len(toDev')] = "reset"
          /\ \A i \in 1 .. Len(toDev') - 1 : toDev'[i] \notin {"reset", "hb", "cfg"}
      BY <3>1
    <3>4. dev' \notin {"off", BootUp} /\ (toMaster' = toMaster \/ Emit("hbResponse"))
      BY <2>2, <3>2 DEF DevCommand, device, BootUp, Stopped, Operational, PreOperational
    <3>5. NoFrame({"cfgResponse", BootUp})'
      <4>1. CASE toMaster' = toMaster
        BY <4>1 DEF NoFrame
      <4>2. CASE Emit("hbResponse")
        BY <4>2, EmitKeeps, Emitted DEF BootUp
      <4> QED
        BY <3>4, <4>1, <4>2
    <3> QED
      BY <3>3, <3>4, <3>5, DeviceKeeps DEF Rebooting
  <2>3. CASE DevBeat
    <3>1. NoFrame({"cfgResponse", BootUp})'
      BY <2>3, Emitted, EmitKeeps DEF DevBeat
    <3>2. toDev' = toDev /\ dev' = dev
      BY <2>3 DEF DevBeat, device
    <3> QED
      BY <3>1, <3>2, DeviceKeeps DEF Rebooting
  <2>4. ~DevBootUp /\ ~DevFails /\ ~DevPowersUp
    BY DEF DevBootUp, DevFails, DevPowersUp, TypeOK, Places
  <2> QED
    BY <2>1, <2>2, <2>3, <2>4 DEF Device
<1>2. CASE Reset /\ dev = BootUp /\ NoFrame({"cfgResponse", BootUp}) /\ state # BootUp
  <2>1. DevBootUp
    BY <1>2 DEF Device, DevCommand, DevBeat, DevFails, DevPowersUp, TypeOK, Places, Reset,
                BootUp, Stopped, Operational, PreOperational
  <2>2. Reset' /\ dev' = PreOperational /\ Emit(BootUp)
    BY <1>2, <2>1 DEF DevBootUp, Reset
  <2>3. /\ toMaster' # << >> /\ toMaster'[Len(toMaster')] = BootUp
        /\ \A i \in 1 .. Len(toMaster') - 1 : toMaster'[i] \notin {"cfgResponse", BootUp}
    BY <1>2, <2>2, EmitQueues, Emitted DEF NoFrame, TypeOK, Queues
  <2> QED
    BY <1>2, <2>2, <2>3, DeviceKeeps DEF Rebooting
<1>3. CASE Reset /\ dev = PreOperational
  <2>1. ~Device
    BY <1>3 DEF Device, DevCommand, DevBeat, DevBootUp, DevFails, DevPowersUp, TypeOK, Places,
                Reset, BootUp, PreOperational
  <2> QED
    BY <2>1
<1> QED
  BY <1>1, <1>2, <1>3 DEF Rebooting

LEMMA RebootingStrand ==
  ASSUME TypeOK, Rebooting, svc = "booting", listening = TRUE, Strand
  PROVE  Rebooting'
<1>1. CASE NmtHandled
  <2>1. toMaster # << >> /\ toMaster' = Tail(toMaster) /\ state' = Head(toMaster)
    BY <1>1 DEF NmtHandled, NmtFrame, HandleNMT, SwitchState
  <2>2. /\ Len(toMaster) \in Nat \ {0} /\ Len(toMaster') = Len(toMaster) - 1
        /\ Head(toMaster) = toMaster[1] /\ toMaster' \in Seq(Frames)
        /\ \A i \in 1 .. Len(toMaster) - 1 : toMaster'[i] = toMaster[i + 1]
    BY <2>1, FrameTaken DEF TypeOK, Queues
  <2>3. CASE NoFrame({"cfgResponse", BootUp})
    <3>1. NoFrame({"cfgResponse", BootUp})' /\ state' # BootUp
      BY <2>1, <2>2, <2>3 DEF NoFrame
    <3>2. state # BootUp /\ (ResetSent \/ (Reset /\ dev = BootUp))
      BY <2>1, <2>2, <2>3 DEF Rebooting, NoFrame, ResetSent
    <3> QED
      BY <3>1, <3>2, StrandKeeps DEF Rebooting, ResetSent, Reset
  <2>4. CASE /\ Reset /\ dev = PreOperational /\ state # BootUp
             /\ toMaster # << >> /\ toMaster[Len(toMaster)] = BootUp
             /\ \A i \in 1 .. Len(toMaster) - 1 : toMaster[i] \notin {"cfgResponse", BootUp}
    <3>1. CASE Len(toMaster) = 1
      <4>1. toMaster' = << >> /\ state' = BootUp
        BY <2>1, <2>2, <2>4, <3>1
      <4> QED
        BY <4>1, <2>4, StrandKeeps DEF Rebooting, Reset
    <3>2. CASE Len(toMaster) # 1
      <4>1. 1 \in 1 .. Len(toMaster) - 1 /\ Len(toMaster') \in 1 .. Len(toMaster) - 1
        BY <2>2, <3>2
      <4>2. state' # BootUp
        BY <2>1, <2>2, <2>4, <4>1
      <4>3. toMaster' # << >> /\ toMaster'[Len(toMaster')] = BootUp
        BY <2>2, <2>4, <4>1
      <4>4. \A i \in 1 .. Len(toMaster') - 1 : toMaster'[i] \notin {"cfgResponse", BootUp}
        BY <2>2, <2>4, <4>1
      <4> QED
        BY <4>2, <4>3, <4>4, <2>4, StrandKeeps DEF Rebooting, Reset
    <3> QED
      BY <3>1, <3>2
  <2> QED
    BY <2>1, <2>3, <2>4 DEF Rebooting, ResetSent
<1>2. CASE SdoFrame
  <2>1. /\ toMaster # << >> /\ toMaster' = Tail(toMaster) /\ state' = state
        /\ Head(toMaster) # BootUp
    BY <1>2 DEF SdoFrame, SdoResponse, nmt, BootUp
  <2>2. /\ Len(toMaster) \in Nat \ {0} /\ Len(toMaster') = Len(toMaster) - 1
        /\ Head(toMaster) = toMaster[1] /\ toMaster' \in Seq(Frames)
        /\ \A i \in 1 .. Len(toMaster) - 1 : toMaster'[i] = toMaster[i + 1]
    BY <2>1, FrameTaken DEF TypeOK, Queues
  <2>3. CASE NoFrame({"cfgResponse", BootUp})
    <3>1. NoFrame({"cfgResponse", BootUp})'
      BY <2>1, <2>2, <2>3 DEF NoFrame
    <3>2. state # BootUp /\ (ResetSent \/ (Reset /\ dev = BootUp))
      BY <2>1, <2>2, <2>3 DEF Rebooting, NoFrame, ResetSent
    <3> QED
      BY <2>1, <3>1, <3>2, StrandKeeps DEF Rebooting, ResetSent, Reset
  <2>4. CASE /\ Reset /\ dev = PreOperational /\ state # BootUp
             /\ toMaster # << >> /\ toMaster[Len(toMaster)] = BootUp
             /\ \A i \in 1 .. Len(toMaster) - 1 : toMaster[i] \notin {"cfgResponse", BootUp}
    <3>1. /\ toMaster' # << >> /\ toMaster'[Len(toMaster')] = BootUp
          /\ \A i \in 1 .. Len(toMaster') - 1 : toMaster'[i] \notin {"cfgResponse", BootUp}
      BY <2>1, <2>2, <2>4
    <3> QED
      BY <2>1, <2>4, <3>1, StrandKeeps DEF Rebooting, Reset
  <2> QED
    BY <2>1, <2>3, <2>4 DEF Rebooting, ResetSent
<1>3. ~NmtBlocked /\ ~NmtIgnored /\ ~SdoBlocked
  BY DEF NmtBlocked, NmtIgnored, SdoBlocked, ObjectLocked, ReaderLocked
<1> QED
  BY <1>1, <1>2, <1>3 DEF Strand

\* While the node is configured, the device only sends heartbeats of its own accord.
LEMMA ConfigurableDevice ==
  ASSUME TypeOK, Configurable, Device, faults' = 0
  PROVE  Configurable' /\ DevBeat
<1>1. DevBeat
  BY DEF Configurable, Device, DevCommand, DevBootUp, DevFails, DevPowersUp, TypeOK, Places,
         BootUp, PreOperational
<1> QED
  BY <1>1, DeviceKeeps DEF Configurable, DevBeat, device

LEMMA NoAnswerBeat == ASSUME TypeOK, NoAnswer, DevBeat PROVE NoAnswer'
BY Emitted, EmitKeeps DEF NoAnswer, DevBeat, Answers

LEMMA NoAnswerStrand == ASSUME TypeOK, NoAnswer, Strand PROVE NoAnswer'
<1>1. CASE toMaster' = toMaster
  BY <1>1 DEF NoAnswer, NoFrame
<1>2. CASE toMaster # << >> /\ toMaster' = Tail(toMaster)
  BY <1>2, TailKeeps DEF NoAnswer
<1> QED
  BY <1>1, <1>2, StrandTakes

LEMMA NoAnswerNoResponse == ASSUME TypeOK, NoAnswer PROVE ~SdoFrame
<1> SUFFICES ASSUME SdoFrame PROVE FALSE
  OBVIOUS
<1>1. toMaster # << >> /\ Head(toMaster) \in Answers
  BY DEF SdoFrame, SdoResponse, Answers
<1> QED
  BY <1>1, FrameTaken DEF TypeOK, Queues, NoAnswer, NoFrame

LEMMA SettingBeatDevice ==
  ASSUME TypeOK, SettingBeat, Device, faults' = 0
  PROVE  SettingBeat'
<1>1. CASE /\ answer = "none" /\ toDev = <<"hb">> /\ toMaster = << >>
           /\ dev = PreOperational /\ beats = FALSE /\ blocked = FALSE
  <2>1. DevCommand
    BY <1>1 DEF Device, DevBeat, DevBootUp, DevFails, DevPowersUp, TypeOK, Places, BootUp,
                PreOperational
  <2>2. toDev' = << >> /\ Head(toDev) = "hb"
    BY <1>1, <2>1, OneCommand, TakeCommand DEF DevCommand
  <2>3. dev' = PreOperational /\ Emit("hbResponse") /\ beats' = (object.heartbeat = TRUE)
    BY <1>1, <2>1, <2>2 DEF DevCommand, BootUp, Stopped, Operational, PreOperational
  <2>4. beats' = object.heartbeat'
    BY <2>3, DeviceKeeps, Constants DEF TypeOK, Places
  <2>5. /\ toMaster' # << >> /\ Head(toMaster') = "hbResponse"
        /\ \A i \in 2 .. Len(toMaster') : toMaster'[i] \notin Answers
    <3>1. toMaster' = <<"hbResponse">>
      BY <1>1, <2>3, OneCommand DEF Emit
    <3> QED
      BY <3>1, OneCommand
  <2> QED
    BY <1>1, <2>2, <2>3, <2>4, <2>5, DeviceKeeps DEF SettingBeat, Configurable
<1>2. CASE /\ answer = "none" /\ Configurable /\ blocked = FALSE
           /\ toMaster # << >> /\ Head(toMaster) = "hbResponse"
           /\ \A i \in 2 .. Len(toMaster) : toMaster[i] \notin Answers
  <2>1. Configurable' /\ DevBeat /\ Emit(dev) /\ dev \in Frames /\ dev \notin Answers
    BY <1>2, ConfigurableDevice, Emitted DEF DevBeat, Answers
  <2>2. /\ toMaster' # << >> /\ Head(toMaster') = "hbResponse"
        /\ \A i \in 2 .. Len(toMaster') : toMaster'[i] \notin Answers
    BY <1>2, <2>1, EmitQueues DEF TypeOK, Queues
  <2> QED
    BY <1>2, <2>1, <2>2, DeviceKeeps DEF SettingBeat
<1>3. CASE answer = "ok" /\ Configurable /\ NoAnswer
  BY <1>3, ConfigurableDevice, NoAnswerBeat, DeviceKeeps DEF SettingBeat
<1> QED
  BY <1>1, <1>2, <1>3 DEF SettingBeat

\* The response is the first frame: no heartbeat before it can block the strand.
LEMMA SettingBeatStrand ==
  ASSUME TypeOK, SettingBeat, svc = "hbWait", listening = TRUE, Strand
  PROVE  SettingBeat'
<1>1. CASE toMaster = << >>
  BY <1>1 DEF Strand, SdoFrame, SdoBlocked, SdoResponse, NmtHandled, HandleNMT, NmtFrame,
              NmtBlocked, NmtIgnored
<1>2. CASE /\ answer = "none" /\ Configurable /\ blocked = FALSE
           /\ toMaster # << >> /\ Head(toMaster) = "hbResponse"
           /\ \A i \in 2 .. Len(toMaster) : toMaster[i] \notin Answers
  <2>1. SdoFrame
    BY <1>2 DEF Strand, SdoBlocked, ReaderLocked, NmtHandled, NmtFrame, NmtBlocked, NmtIgnored,
                NodeStates, BootUp, Stopped, Operational, PreOperational, Unknown
  <2>2. answer' = "ok" /\ toMaster' = Tail(toMaster)
    BY <1>2, <2>1 DEF SdoFrame, SdoResponse, ObjectLocked
  <2>3. NoAnswer'
    BY <1>2, <2>2, FrameTaken DEF TypeOK, Queues, NoAnswer, NoFrame
  <2> QED
    BY <1>2, <2>2, <2>3, StrandKeeps DEF SettingBeat, Configurable
<1>3. CASE answer = "ok" /\ Configurable /\ NoAnswer
  <2>1. answer' = answer
    BY <1>3, NoAnswerNoResponse DEF Strand, SdoBlocked, NmtHandled, HandleNMT, NmtBlocked,
                                    NmtIgnored
  <2> QED
    BY <1>3, <2>1, NoAnswerStrand, StrandKeeps DEF SettingBeat, Configurable
<1> QED
  BY <1>1, <1>2, <1>3 DEF SettingBeat

LEMMA ConfiguringDevice ==
  ASSUME TypeOK, Configuring, Device, faults' = 0
  PROVE  Configuring'
<1>1. CASE /\ answer = "none" /\ toDev = <<"cfg">> /\ dev = PreOperational
           /\ beats = object.heartbeat /\ NoAnswer
  <2>1. CASE DevBeat
    BY <1>1, <2>1, NoAnswerBeat, DeviceKeeps DEF Configuring, DevBeat, device
  <2>2. CASE DevCommand
    <3>1. toDev' = << >> /\ Head(toDev) = "cfg"
      BY <1>1, <2>2, OneCommand, TakeCommand DEF DevCommand
    <3>2. dev' = dev /\ beats' = beats /\ Emit("cfgResponse")
      BY <1>1, <2>2, <3>1 DEF DevCommand, device, BootUp, Stopped, Operational, PreOperational
    <3>3. OneAnswer("cfgResponse")'
      <4>1. /\ Len(toMaster') = Len(toMaster) + 1 /\ Len(toMaster) \in Nat
            /\ toMaster'[Len(toMaster) + 1] = "cfgResponse"
            /\ \A i \in 1 .. Len(toMaster) : toMaster'[i] = toMaster[i]
        BY <3>2, EmitQueues, Emitted DEF TypeOK, Queues
      <4>2. Len(toMaster) + 1 \in 1 .. Len(toMaster')
        BY <4>1
      <4>3. \A i \in 1 .. Len(toMaster') : i # Len(toMaster) + 1 => toMaster'[i] \notin Answers
        BY <1>1, <4>1 DEF NoAnswer, NoFrame
      <4> QED
        BY <4>1, <4>2, <4>3 DEF OneAnswer
    <3> QED
      BY <1>1, <3>1, <3>2, <3>3, DeviceKeeps DEF Configuring, Configurable
  <2>3. ~DevBootUp /\ ~DevFails /\ ~DevPowersUp
    BY <1>1 DEF DevBootUp, DevFails, DevPowersUp, TypeOK, Places, BootUp, PreOperational
  <2> QED
    BY <2>1, <2>2, <2>3 DEF Device
<1>2. CASE answer = "none" /\ Configurable /\ OneAnswer("cfgResponse")
  <2>1. Configurable' /\ DevBeat /\ Emit(dev) /\ dev \in Frames /\ dev \notin Answers
    BY <1>2, ConfigurableDevice, Emitted DEF DevBeat, Answers
  <2>2. OneAnswer("cfgResponse")'
    <3>1. PICK j \in 1 .. Len(toMaster) :
            /\ toMaster[j] = "cfgResponse"
            /\ \A i \in 1 .. Len(toMaster) : i # j => toMaster[i] \notin Answers
      BY <1>2 DEF OneAnswer
    <3>2. /\ Len(toMaster') = Len(toMaster) + 1 /\ Len(toMaster) \in Nat
          /\ toMaster'[Len(toMaster) + 1] = dev
          /\ \A i \in 1 .. Len(toMaster) : toMaster'[i] = toMaster[i]
      BY <2>1, EmitQueues DEF TypeOK, Queues
    <3>3. j \in 1 .. Len(toMaster') /\ toMaster'[j] = "cfgResponse"
      BY <3>1, <3>2
    <3>4. \A i \in 1 .. Len(toMaster') : i # j => toMaster'[i] \notin Answers
      BY <2>1, <3>1, <3>2
    <3> QED
      BY <3>3, <3>4 DEF OneAnswer
  <2> QED
    BY <1>2, <2>1, <2>2, DeviceKeeps DEF Configuring
<1>3. CASE answer = "ok" /\ Configurable /\ NoAnswer
  BY <1>3, ConfigurableDevice, NoAnswerBeat, DeviceKeeps DEF Configuring
<1> QED
  BY <1>1, <1>2, <1>3 DEF Configuring

LEMMA ConfiguringStrand ==
  ASSUME TypeOK, Configuring, svc = "cfgWait", Strand
  PROVE  Configuring'
<1>1. CASE NoAnswer
  <2>1. answer' = answer
    BY <1>1, NoAnswerNoResponse DEF Strand, SdoBlocked, NmtHandled, HandleNMT, NmtBlocked,
                                    NmtIgnored
  <2>2. answer = "none" /\ OneAnswer("cfgResponse") => FALSE
    BY <1>1 DEF NoAnswer, NoFrame, OneAnswer, Answers
  <2> QED
    BY <1>1, <2>1, <2>2, NoAnswerStrand, StrandKeeps DEF Configuring, Configurable
<1>2. CASE answer = "none" /\ Configurable /\ OneAnswer("cfgResponse")
  <2>1. CASE SdoFrame
    <3>1. toMaster # << >> /\ toMaster' = Tail(toMaster) /\ Head(toMaster) \in Answers
      BY <2>1 DEF SdoFrame, SdoResponse, Answers
    <3>2. Head(toMaster) = "cfgResponse" /\ NoAnswer'
      BY <1>2, <3>1, FrameTaken DEF TypeOK, Queues, OneAnswer, NoAnswer, NoFrame
    <3>3. answer' = "ok"
      BY <2>1, <3>2 DEF SdoFrame, SdoResponse, ReaderLocked, ObjectLocked
    <3> QED
      BY <1>2, <3>2, <3>3, StrandKeeps DEF Configuring, Configurable
  <2>2. CASE toMaster' = toMaster /\ answer' = answer
    BY <1>2, <2>2, StrandKeeps DEF Configuring, Configurable, OneAnswer
  <2>3. CASE toMaster # << >> /\ toMaster' = Tail(toMaster) /\ NmtFrame /\ answer' = answer
    <3>1. Head(toMaster) # "cfgResponse"
      BY <2>3 DEF NmtFrame, NodeStates, BootUp, Stopped, Operational, PreOperational, Unknown
    <3>2. OneAnswer("cfgResponse")'
      <4>1. /\ Len(toMaster) \in Nat \ {0} /\ Len(toMaster') = Len(toMaster) - 1
            /\ Head(toMaster) = toMaster[1]
            /\ \A i \in 1 .. Len(toMaster) - 1 : toMaster'[i] = toMaster[i + 1]
        BY <2>3, FrameTaken DEF TypeOK, Queues
      <4>2. PICK k \in 1 .. Len(toMaster) :
              /\ toMaster[k] = "cfgResponse"
              /\ \A i \in 1 .. Len(toMaster) : i # k => toMaster[i] \notin Answers
        BY <1>2 DEF OneAnswer
      <4>3. k - 1 \in 1 .. Len(toMaster') /\ toMaster'[k - 1] = "cfgResponse"
        BY <3>1, <4>1, <4>2
      <4>4. \A i \in 1 .. Len(toMaster') : i # k - 1 => toMaster'[i] \notin Answers
        BY <4>1, <4>2
      <4> QED
        BY <4>3, <4>4 DEF OneAnswer
    <3> QED
      BY <1>2, <2>3, <3>2, StrandKeeps DEF Configuring, Configurable
  <2> QED
    BY <2>1, <2>2, <2>3 DEF Strand, SdoBlocked, NmtHandled, HandleNMT, NmtFrame, NmtBlocked,
                            NmtIgnored
<1> QED
  BY <1>1, <1>2 DEF Configuring

LEMMA StartingDevice ==
  ASSUME TypeOK, Starting, Device, faults' = 0
  PROVE  Starting'
<1>1. CASE DevBeat
  BY <1>1, NoAnswerBeat, DeviceKeeps DEF Starting, DevBeat, device
<1>2. CASE DevCommand
  <2>1. toDev = <<"start">> /\ dev = PreOperational
    BY <1>2 DEF Starting, DevCommand
  <2>2. toDev' = << >> /\ Head(toDev) = "start"
    BY <1>2, <2>1, OneCommand, TakeCommand DEF DevCommand
  <2>3. dev' = Operational /\ beats' = beats /\ toMaster' = toMaster
    BY <1>2, <2>1, <2>2 DEF DevCommand, BootUp, Stopped, Operational, PreOperational
  <2> QED
    BY <2>2, <2>3, DeviceKeeps DEF Starting, NoAnswer, NoFrame
<1>3. ~DevBootUp /\ ~DevFails /\ ~DevPowersUp
  BY DEF Starting, DevBootUp, DevFails, DevPowersUp, TypeOK, Places, BootUp, PreOperational,
         Operational
<1> QED
  BY <1>1, <1>2, <1>3 DEF Device

LEMMA StartingStrand == ASSUME TypeOK, Starting, Strand PROVE Starting'
BY NoAnswerStrand, StrandKeeps DEF Starting

-------------------------------------------------------------------------------
(* The whole pipeline                                                      *)

LEMMA HealthyBefore == ASSUME TypeOK, Next, Healthy' PROVE Healthy /\ object' = object
<1> USE DEF Healthy, TypeOK, Flags, Places
<1>1. CASE Device
  BY <1>1
     DEF history, master, nmt, runner, device,
         Device, DevCommand, DevBootUp, DevBeat, DevFails, DevPowersUp
<1>2. CASE Strand
  BY <1>2
     DEF history, master, nmt, runner, device,
         Strand, SdoFrame, SdoBlocked, NmtHandled, HandleNMT, SwitchState, NmtBlocked, NmtIgnored
<1>3. CASE Expire \/ Run \/ Call
  BY <1>3
     DEF history, master, nmt, runner, device,
         Expire, Run, RunCheck, RunState,
         Call, CallInit, CallRecover, CallShutdown
<1>4. CASE Svc
  BY <1>4
     DEF history, master, nmt, runner, device,
         Svc, InitListen, SdoListen, ReaderLocked, InitReset, BootSeen, BootTimeout, InitBooted,
         HeartbeatSet, Configure, Configured, SdoTimeout, SdoFails, Start, StartSeen,
         StartTimeout, ShutdownBeat, ShutdownBeatSet, ShutdownTimeout, ShutdownFails,
         ShutdownLeaveSync, ShutdownStop, ShutdownUnlisten, ShutdownDone, InitFails, SwitchState
<1> QED
  BY <1>1, <1>2, <1>3, <1>4 DEF Next

\* The strand is blocked by a transfer only.
LEMMA UnblockedStep == ASSUME Unblocked, Next PROVE Unblocked'
<1> USE DEF Unblocked, ObjectLocked, ReaderLocked
<1>1. CASE Device
  BY <1>1
     DEF history, master, nmt, runner, device,
         Device, DevCommand, DevBootUp, DevBeat, DevFails, DevPowersUp
<1>2. CASE Strand
  BY <1>2
     DEF history, master, nmt, runner, device,
         Strand, SdoFrame, SdoBlocked, NmtHandled, HandleNMT, SwitchState, NmtBlocked, NmtIgnored
<1>3. CASE Expire \/ Run \/ Call
  BY <1>3
     DEF history, master, nmt, runner, device,
         Expire, Run, RunCheck, RunState,
         Call, CallInit, CallRecover, CallShutdown
<1>4. CASE Svc
  BY <1>4
     DEF history, master, nmt, runner, device,
         Svc, InitListen, SdoListen, ReaderLocked, InitReset, BootSeen, BootTimeout, InitBooted,
         HeartbeatSet, Configure, Configured, SdoTimeout, SdoFails, Start, StartSeen,
         StartTimeout, ShutdownBeat, ShutdownBeatSet, ShutdownTimeout, ShutdownFails,
         ShutdownLeaveSync, ShutdownStop, ShutdownUnlisten, ShutdownDone, InitFails, SwitchState
<1> QED
  BY <1>1, <1>2, <1>3, <1>4 DEF Next

LEMMA PipelineDevice ==
  ASSUME TypeOK, Stages, Pipeline, Healthy, Healthy', Device
  PROVE  Pipeline'
<1>1. faults' = 0 /\ object.default = FALSE
  BY DEF Healthy
<1>2. UNCHANGED <<svc, op, layer, status, object, listening, answer, state, blocked>>
  BY DeviceKeeps
<1>3. (IsBetween => Between)'
  BY <1>1, <1>2, BetweenDevice DEF Pipeline, IsBetween
<1>4. (svc = "booting" => Rebooting)' /\ (svc = "hbWait" => SettingBeat)'
  BY <1>1, <1>2, RebootingDevice, SettingBeatDevice DEF Pipeline
<1>5. (svc = "cfgWait" => Configuring)' /\ (svc = "starting" /\ op = "init" => Starting)'
  BY <1>1, <1>2, ConfiguringDevice, StartingDevice DEF Pipeline
<1>6. (svc \in {"configure", "sdoReread"} \/ (svc = "start" /\ op = "init") => Configurable /\ NoAnswer)'
  BY <1>1, <1>2, ConfigurableDevice, NoAnswerBeat DEF Pipeline
<1>7. (svc = "booted" => Reset /\ dev = PreOperational /\ toMaster = << >>)'
  <2>1. svc = "booted" => ~Device
    BY <1>1 DEF Pipeline, Reset, Device, DevCommand, DevBeat, DevBootUp, DevFails, DevPowersUp,
                TypeOK, Places, BootUp, PreOperational
  <2> QED
    BY <1>2, <2>1
<1> QED
  BY <1>2, <1>3, <1>4, <1>5, <1>6, <1>7 DEF Pipeline

LEMMA PipelineStrand ==
  ASSUME TypeOK, Stages, Heard, Pipeline, Strand
  PROVE  Pipeline'
<1>1. UNCHANGED <<svc, op, layer, status, object, listening, dev, beats, toDev>>
  BY StrandKeeps
<1>2. svc \notin {"idle", "listen", "sdUnknown"} => listening = TRUE
  BY DEF Heard, TypeOK, Flags
<1>3. (IsBetween => Between)'
  BY <1>1, BetweenStrand DEF Pipeline, IsBetween
<1>4. (svc = "booting" => Rebooting)' /\ (svc = "hbWait" => SettingBeat)'
  BY <1>1, <1>2, RebootingStrand, SettingBeatStrand DEF Pipeline
<1>5. (svc = "cfgWait" => Configuring)' /\ (svc = "starting" /\ op = "init" => Starting)'
  BY <1>1, ConfiguringStrand, StartingStrand DEF Pipeline
<1>6. (svc \in {"configure", "sdoReread"} \/ (svc = "start" /\ op = "init") => Configurable /\ NoAnswer)'
  BY <1>1, NoAnswerStrand DEF Pipeline, Configurable
<1>7. (svc = "booted" => Reset /\ dev = PreOperational /\ toMaster = << >>)'
  <2>1. toMaster = << >> => toMaster' = << >>
    BY StrandTakes
  <2> QED
    BY <1>1, <2>1 DEF Pipeline, Reset
<1>8. IsBetween /\ toMaster # << >> => Head(toMaster) \notin {"cfgResponse", BootUp}
  BY FrameTaken DEF Pipeline, Between, NoFrame, TypeOK, Queues
<1>9. (svc \in {"listen", "sdoListen", "reset"} => state # BootUp)'
  <2>1. svc \in {"listen", "sdoListen", "reset"} => IsBetween /\ state # BootUp /\ layer # "up"
    BY DEF Pipeline, IsBetween, Stages
  <2>2. state' = state \/ (toMaster # << >> /\ state' = Head(toMaster))
    BY DEF nmt, Strand, SdoFrame, SdoBlocked, NmtHandled, HandleNMT, SwitchState, NmtFrame,
           NmtBlocked, NmtIgnored
  <2> QED
    BY <1>1, <1>8, <2>1, <2>2
<1>10. (svc = "sdHbWait" => answer # "bad")'
  <2>1. svc = "sdHbWait" => IsBetween /\ answer # "bad"
    BY DEF Pipeline, IsBetween
  <2>2. answer' = answer \/ svc # "sdHbWait" \/ answer' = "ok" \/ (toMaster # << >> /\ Head(toMaster) = "cfgResponse")
    BY DEF Strand, SdoFrame, SdoBlocked, SdoResponse, ObjectLocked, NmtHandled, HandleNMT,
           NmtBlocked, NmtIgnored
  <2> QED
    BY <1>1, <1>8, <2>1, <2>2
<1> QED
  BY <1>1, <1>3, <1>4, <1>5, <1>6, <1>7, <1>9, <1>10 DEF Pipeline

LEMMA PipelineCall ==
  ASSUME TypeOK, Stages, Heard, Pipeline, Call \/ Run \/ Expire
  PROVE  Pipeline'
<1>1. UNCHANGED <<object, dev, beats, toDev, toMaster, answer, state, blocked, listening>>
  BY DEF history, master, nmt, runner, device, Expire, Run, RunCheck, RunState,
         Call, CallInit, CallRecover, CallShutdown
<1>2. CASE Call
  <2>1. IsBetween
    BY <1>2 DEF Call, CallInit, CallRecover, CallShutdown, IsBetween
  <2>2. Between'
    BY <1>1, <2>1 DEF Pipeline, Between, NoCommand, NoFrame
  <2>3. IsBetween' /\ svc' \in {"listen", "start", "sdHb"} /\ (svc' = "start" => op' = "recover")
    BY <1>2 DEF Call, CallInit, CallRecover, CallShutdown, IsBetween
  <2>4. (svc \in {"idle", "listen", "sdUnknown"} /\ layer # "up" => listening = FALSE)'
    BY <1>1, <1>2 DEF Call, CallInit, CallRecover, CallShutdown, Pipeline
  <2>5. svc' = "listen" => state' # BootUp
    <3>1. svc' = "listen" => listening = FALSE /\ svc = "idle"
      BY <1>2 DEF Call, CallInit, CallRecover, CallShutdown, Pipeline
    <3> QED
      BY <1>1, <3>1 DEF Heard, BootUp, Unknown
  <2> QED
    BY <2>2, <2>3, <2>4, <2>5 DEF Pipeline
<1>3. CASE Run \/ Expire
  BY <1>1, <1>3
     DEF Run, RunCheck, RunState, Expire, master, history, Pipeline, IsBetween, Between,
         NoCommand, NoFrame, Rebooting, ResetSent, Reset, SettingBeat, Configurable, NoAnswer,
         Configuring, OneAnswer, Starting
<1> QED
  BY <1>2, <1>3

\* A frame or command that is there can still come.
LEMMA OnItsWay ==
  ASSUME TypeOK, NEW CONSTANT S,
         \/ \E i \in 1 .. Len(toDev) : toDev[i] \in S
         \/ \E i \in 1 .. Len(toMaster) : toMaster[i] \in S
  PROVE  OnBus(S)
BY DEF OnBus, Range, TypeOK, Queues

\* No wait of a healthy device ends without its answer.
LEMMA NoTimeout ==
  ASSUME TypeOK, Pipeline, Unblocked, late' = FALSE
  PROVE  ~BootTimeout /\ ~SdoTimeout
<1>1. ASSUME BootTimeout PROVE FALSE
  <2>1. Rebooting /\ state # BootUp /\ svc = "booting"
    BY <1>1 DEF BootTimeout, Pipeline
  <2>2. CASE ResetSent
    <3>1. Len(toDev) \in 1 .. Len(toDev) /\ toDev[Len(toDev)] \in {"reset", BootUp}
      BY <2>2 DEF ResetSent, TypeOK, Queues
    <3> QED
      BY <3>1, <2>1, <1>1, OnItsWay DEF BootTimeout, Coming
  <2>3. CASE dev = BootUp
    BY <2>1, <2>3, <1>1 DEF BootTimeout, Coming
  <2>4. CASE toMaster # << >> /\ toMaster[Len(toMaster)] = BootUp
    <3>1. Len(toMaster) \in 1 .. Len(toMaster) /\ toMaster[Len(toMaster)] \in {"reset", BootUp}
      BY <2>4 DEF TypeOK, Queues
    <3> QED
      BY <3>1, <2>1, <1>1, OnItsWay DEF BootTimeout, Coming
  <2> QED
    BY <2>1, <2>2, <2>3, <2>4 DEF Rebooting
<1>2. ASSUME SdoTimeout, svc = "hbWait" PROVE FALSE
  <2>1. SettingBeat /\ answer = "none"
    BY <1>2 DEF SdoTimeout, Pipeline
  <2>2. blocked = FALSE /\ OnBus({"hb", "hb0", "hbResponse"})
    <3>1. CASE toDev = <<"hb">> /\ blocked = FALSE
      BY <3>1, OneCommand, OnItsWay
    <3>2. CASE toMaster # << >> /\ Head(toMaster) = "hbResponse" /\ blocked = FALSE
      BY <3>2, FrameTaken, OnItsWay DEF TypeOK, Queues
    <3> QED
      BY <2>1, <3>1, <3>2 DEF SettingBeat
  <2> QED
    BY <1>2, <2>2 DEF SdoTimeout, Coming, ObjectLocked
<1>3. ASSUME SdoTimeout, svc = "cfgWait" PROVE FALSE
  <2>1. Configuring /\ answer = "none"
    BY <1>3 DEF SdoTimeout, Pipeline
  <2>2. OnBus({"cfg", "cfgResponse"})
    <3>1. CASE toDev = <<"cfg">>
      BY <3>1, OneCommand, OnItsWay
    <3>2. CASE OneAnswer("cfgResponse")
      BY <3>2, OnItsWay DEF OneAnswer
    <3> QED
      BY <2>1, <3>1, <3>2 DEF Configuring
  <2> QED
    BY <1>3, <2>2 DEF SdoTimeout, Coming
<1> QED
  BY <1>1, <1>2, <1>3 DEF SdoTimeout

\* A device that is to be started sends its heartbeat: the wait for it does not fail.
LEMMA NoStartFails ==
  ASSUME TypeOK, Stages, IntervalIsSet, Pipeline, late' = FALSE, StartTimeout
  PROVE  ~(interval /\ op = "init")
<1> SUFFICES ASSUME interval, op = "init" PROVE FALSE
  OBVIOUS
<1>1. Starting /\ beats = interval
  BY DEF StartTimeout, Pipeline, Starting, IntervalIsSet, Booted
<1>2. CASE toDev = <<"start">>
  <2>1. OnBus({"start", Operational})
    BY <1>2, OneCommand, OnItsWay
  <2> QED
    BY <2>1 DEF StartTimeout, Coming
<1>3. CASE dev = Operational
  BY <1>1, <1>3 DEF StartTimeout, Coming
<1> QED
  BY <1>1, <1>2, <1>3 DEF Starting

LEMMA NoSdoFails == ASSUME Pipeline PROVE ~SdoFails /\ ~ShutdownFails
BY DEF Pipeline, SdoFails, ShutdownFails, SettingBeat, Configuring

\* What is sent between the waits is nobody's answer.
LEMMA SendBetween ==
  ASSUME TypeOK, Between, NEW c \in {"start", "stop", "hb0"}, Send(c), UNCHANGED <<dev, toMaster>>
  PROVE  Between'
<1>1. NoCommand({"reset", "hb", "cfg"})'
  BY SendCommand DEF Between, NoCommand, Commands
<1> QED
  BY <1>1 DEF Between, NoFrame

LEMMA PipelineInit ==
  ASSUME TypeOK, Stages, Heard, IntervalIsSet, Unblocked, Pipeline, Healthy, Healthy', Svc,
         svc \in {"listen", "sdoListen", "reset", "booting", "booted", "hbWait", "configure",
                 "cfgWait", "sdoReread"}
  PROVE  Pipeline' /\ status' = status
<1> USE DEF history, master, nmt, device
<1>1. op = "init" /\ layer = "init"
  BY DEF Stages
<1>2. CASE InitListen
  <2>1. Between'
    BY <1>2 DEF InitListen, Pipeline, IsBetween, Between, NoCommand, NoFrame
  <2> QED
    BY <1>1, <1>2, <2>1 DEF InitListen, Pipeline
<1>9. CASE SdoListen
  <2>1. CASE svc = "sdoListen"
    <3>1. Between'
      BY <1>9, <2>1 DEF SdoListen, Pipeline, IsBetween, Between, NoCommand, NoFrame
    <3> QED
      BY <1>1, <1>9, <2>1, <3>1 DEF SdoListen, Pipeline
  <2>2. CASE svc = "sdoReread"
    BY <1>1, <1>9, <2>2 DEF SdoListen, Pipeline, Configurable, NoAnswer, NoFrame, IsBetween
  <2> QED
    BY <1>9, <2>1, <2>2 DEF SdoListen, ReaderLocked
<1>3. CASE InitReset
  <2>1. Between /\ state # BootUp /\ Send("reset") /\ toMaster' = toMaster /\ dev' = dev
        /\ state' = state
    BY <1>3 DEF InitReset, Pipeline, IsBetween
  <2>2. ResetSent'
    BY <2>1, SendCommand DEF Commands, Between, ResetSent, NoCommand, NoFrame
  <2> QED
    BY <1>1, <1>3, <2>2 DEF InitReset, Pipeline, Rebooting, IsBetween
<1>4. CASE BootSeen
  <2>1. Reset /\ dev = PreOperational /\ toMaster = << >>
    BY <1>4 DEF BootSeen, Pipeline, Rebooting, ResetSent
  <2> QED
    BY <1>1, <1>4, <2>1 DEF BootSeen, Pipeline, Reset, IsBetween
<1>5. CASE InitBooted
  <2>1. Reset /\ dev = PreOperational /\ toMaster = << >> /\ blocked = FALSE
    BY <1>5 DEF InitBooted, Pipeline, Unblocked
  <2>2. toDev' = <<"hb">>
    BY <1>5, <2>1, SendCommand DEF InitBooted, Commands, Reset
  <2>3. SettingBeat'
    BY <1>5, <2>1, <2>2 DEF InitBooted, SettingBeat, Reset
  <2> QED
    BY <1>1, <1>5, <2>3 DEF InitBooted, Pipeline, IsBetween
<1>6. CASE HeartbeatSet
  BY <1>1, <1>6 DEF HeartbeatSet, Pipeline, SettingBeat, Configurable, NoAnswer, NoFrame, IsBetween
<1>7. CASE Configure
  <2>1. toDev' = <<"cfg">>
    BY <1>7, SendCommand DEF Configure, Commands, Pipeline, Configurable
  <2>2. Configuring'
    BY <1>7, <2>1 DEF Configure, Configuring, Pipeline, Configurable, NoAnswer, NoFrame
  <2> QED
    BY <1>1, <1>7, <2>2 DEF Configure, Pipeline, IsBetween
<1>8. CASE Configured
  BY <1>1, <1>8 DEF Configured, Pipeline, Configuring, Configurable, NoAnswer, NoFrame, IsBetween
<1> QED
  BY <1>2, <1>3, <1>4, <1>5, <1>6, <1>7, <1>8, <1>9, NoTimeout, NoSdoFails
     DEF Healthy, Svc, Start, StartSeen, StartTimeout, ShutdownBeat, ShutdownBeatSet,
         ShutdownTimeout, ShutdownFails, ShutdownLeaveSync, ShutdownStop, ShutdownUnlisten,
         ShutdownDone

LEMMA PipelineStart ==
  ASSUME TypeOK, Stages, Heard, IntervalIsSet, Pipeline, Healthy', Svc,
         svc \in {"start", "starting"}
  PROVE  Pipeline' /\ status' = status
<1> USE DEF history, master, nmt, device
<1>1. op \in {"init", "recover"}
  BY DEF Stages
<1>2. CASE Start
  <2>1. op = "init" => Starting'
    <3> SUFFICES ASSUME op = "init" PROVE Starting'
      OBVIOUS
    <3>1. toDev' = <<"start">>
      BY <1>2, SendCommand DEF Start, Commands, Pipeline, Configurable
    <3> QED
      BY <1>2, <3>1 DEF Start, Starting, Pipeline, Configurable, NoAnswer, NoFrame
  <2>2. op = "recover" => Between'
    BY <1>2, SendBetween DEF Start, Pipeline, IsBetween
  <2> QED
    BY <1>1, <1>2, <2>1, <2>2 DEF Start, Pipeline, IsBetween
<1>3. CASE StartSeen \/ StartTimeout
  <2>1. svc' = "idle" /\ layer' = "up" /\ status' = status
    BY <1>3, NoStartFails DEF StartSeen, StartTimeout, Healthy
  <2>2. Between
    <3>1. CASE op = "init"
      BY <1>3, <3>1, OneCommand
         DEF StartSeen, StartTimeout, Pipeline, Starting, Between, NoCommand, NoAnswer, NoFrame,
             Answers, BootUp, PreOperational, Operational
    <3>2. CASE op = "recover"
      BY <1>3, <3>2 DEF StartSeen, StartTimeout, Pipeline, IsBetween
    <3> QED
      BY <1>1, <3>1, <3>2
  <2>3. Between'
    BY <1>3, <2>2 DEF StartSeen, StartTimeout, Between, NoCommand, NoFrame
  <2> QED
    BY <2>1, <2>3 DEF Pipeline
<1> QED
  BY <1>2, <1>3
     DEF Svc, InitListen, SdoListen, ReaderLocked, InitReset, BootSeen, BootTimeout, InitBooted,
         HeartbeatSet, Configure, Configured, SdoTimeout, SdoFails, ShutdownBeat, ShutdownBeatSet,
         ShutdownTimeout, ShutdownFails, ShutdownLeaveSync, ShutdownStop, ShutdownUnlisten,
         ShutdownDone

LEMMA PipelineShutdown ==
  ASSUME TypeOK, Stages, Heard, Pipeline, Svc,
         svc \in {"sdHb", "sdHbWait", "sdStop", "sdSend", "sdUnlisten", "sdUnknown"}
  PROVE  Pipeline' /\ status' = status
<1> USE DEF history, master, nmt, device
<1>1. Between /\ IsBetween
  BY DEF Pipeline, IsBetween
<1>2. CASE ShutdownBeat
  <2>1. Between' /\ svc' \in {"sdHbWait", "sdStop"} /\ (svc' = "sdHbWait" => answer' = "none") /\ status' = status
    BY <1>1, <1>2, SendBetween DEF ShutdownBeat, Between, NoCommand, NoFrame
  <2> QED
    BY <2>1 DEF Pipeline
<1>3. CASE ShutdownStop
  <2>1. Between' /\ svc' = "sdUnlisten" /\ status' = status
    BY <1>1, <1>3, SendBetween DEF ShutdownStop
  <2> QED
    BY <2>1 DEF Pipeline
<1>4. CASE ShutdownBeatSet \/ ShutdownTimeout \/ ShutdownLeaveSync \/ ShutdownUnlisten
  <2>1. /\ Between' /\ svc' \in {"sdStop", "sdSend", "sdUnknown"} /\ status' = status
        /\ svc' = "sdUnknown" => listening' = FALSE
    BY <1>1, <1>4 DEF ShutdownBeatSet, ShutdownTimeout, ShutdownLeaveSync, ShutdownUnlisten,
                      Between, NoCommand, NoFrame
  <2> QED
    BY <2>1 DEF Pipeline
<1>5. CASE ShutdownDone
  <2>1. Between' /\ svc' = "idle" /\ status' = status
    BY <1>1, <1>5 DEF ShutdownDone, Between, NoCommand, NoFrame
  <2>2. listening' = FALSE
    BY <1>5 DEF ShutdownDone, Pipeline, Stages
  <2> QED
    BY <2>1, <2>2 DEF Pipeline
<1> QED
  BY <1>2, <1>3, <1>4, <1>5, NoSdoFails
     DEF Svc, InitListen, SdoListen, ReaderLocked, InitReset, BootSeen, BootTimeout, InitBooted,
         HeartbeatSet, Configure, Configured, SdoTimeout, SdoFails, Start, StartSeen, StartTimeout

LEMMA StatusElsewhere == ASSUME ~Svc, Next, status = "ok" PROVE status' = "ok"
BY DEF Next, history, master, nmt, Device, DevCommand, DevBootUp, DevBeat, DevFails, DevPowersUp,
       Strand, SdoFrame, SdoBlocked, NmtHandled, HandleNMT, NmtBlocked, NmtIgnored, Expire, Run,
       RunCheck, RunState, Call, CallInit, CallRecover, CallShutdown

-------------------------------------------------------------------------------
(* A device without a heartbeat                                            *)

LEMMA BeatIsAwaited ==
  ASSUME TypeOK, Stages, Pipeline, toDev # << >>, Head(toDev) = "hb"
  PROVE  svc = "hbWait"
<1>1. 1 \in 1 .. Len(toDev) /\ toDev[1] = "hb" /\ Len(toDev) \in Nat
  BY HeadTailProperties DEF TypeOK, Queues
<1>2. ~Between /\ ~ResetSent
  BY <1>1 DEF Between, NoCommand, ResetSent
<1>3. ~Rebooting /\ ~Reset /\ ~Configurable
  BY <1>2 DEF Rebooting, Reset, Configurable
<1>4. ~Configuring /\ ~Starting
  BY <1>1, <1>3, OneCommand DEF Configuring, Starting
<1> QED
  BY <1>2, <1>3, <1>4 DEF TypeOK, Places, Waits, Pipeline, IsBetween, Stages

LEMMA SilentDevice ==
  ASSUME TypeOK, Stages, Pipeline, Silent, Device, faults' = 0
  PROVE  Silent'
<1> SUFFICES ASSUME object.heartbeat = FALSE
             PROVE  /\ NoCommand({"hb0"})'
                    /\ svc # "hbWait" => NoFrame({"hbResponse"})'
  BY DeviceKeeps DEF Silent
<1>1. CASE DevCommand
  <2>1. NoCommand({"hb0"})' /\ Head(toDev) # "hb0" /\ toDev # << >>
    BY <1>1, TakeCommand DEF DevCommand, Silent, NoCommand
  <2>2. svc = "hbWait" \/ toMaster' = toMaster \/ Emit("cfgResponse")
    BY <1>1, <2>1, BeatIsAwaited DEF DevCommand
  <2>3. svc # "hbWait" => NoFrame({"hbResponse"})'
    BY <2>2, EmitKeeps, Emitted DEF Silent, NoFrame
  <2> QED
    BY <2>1, <2>3
<1>2. CASE ~DevCommand
  <2>1. toDev' = toDev
    BY <1>2 DEF Device, DevBeat, DevBootUp, DevFails, DevPowersUp
  <2>2. toMaster' = toMaster \/ \E f \in Frames \ {"hbResponse"} : Emit(f)
    BY <1>2, Emitted DEF Device, DevBeat, DevBootUp, DevFails, DevPowersUp, BootUp
  <2>3. svc # "hbWait" => NoFrame({"hbResponse"})'
    BY <2>2, EmitKeeps DEF Silent, NoFrame
  <2> QED
    BY <2>1, <2>3 DEF Silent, NoCommand
<1> QED
  BY <1>1, <1>2

LEMMA SilentStrand == ASSUME TypeOK, Silent, Strand PROVE Silent'
<1>1. NoFrame({"hbResponse"}) => NoFrame({"hbResponse"})'
  BY StrandTakes, TailKeeps DEF NoFrame
<1> QED
  BY <1>1, StrandKeeps DEF Silent, NoCommand

LEMMA SilentCall == ASSUME Silent, Call \/ Run \/ Expire PROVE Silent'
<1>1. UNCHANGED <<object, interval, toDev, toMaster>> /\ (svc' # svc => svc = "idle")
  BY DEF history, master, nmt, runner, device, Expire, Run, RunCheck, RunState,
         Call, CallInit, CallRecover, CallShutdown
<1> QED
  BY <1>1 DEF Silent, NoCommand, NoFrame

LEMMA SilentSvc ==
  ASSUME TypeOK, Stages, Pipeline, Unblocked, Silent, Healthy, late' = FALSE, Svc
  PROVE  Silent'
<1>1. toMaster' = toMaster /\ object' = object
  BY DEF history, master, nmt, device,
         Svc, InitListen, SdoListen, InitReset, BootSeen, BootTimeout, InitBooted, HeartbeatSet,
           Configure, Configured, SdoTimeout, SdoFails, Start, StartSeen, StartTimeout,
           ShutdownBeat, ShutdownBeatSet, ShutdownTimeout, ShutdownFails, ShutdownLeaveSync,
           ShutdownStop, ShutdownUnlisten, ShutdownDone, InitFails
<1> SUFFICES ASSUME object.heartbeat = FALSE
             PROVE  /\ interval' = FALSE /\ NoCommand({"hb0"})'
                    /\ svc' # "hbWait" => NoFrame({"hbResponse"})'
  BY <1>1 DEF Silent
<1>2. svc # "hbWait" \/ HeartbeatSet
  BY NoTimeout, NoSdoFails
     DEF ReaderLocked, Svc, InitListen, SdoListen, InitReset, BootSeen, BootTimeout, InitBooted,
           HeartbeatSet, Configure, Configured, SdoTimeout, SdoFails, Start, StartSeen,
           StartTimeout, ShutdownBeat, ShutdownBeatSet, ShutdownTimeout, ShutdownFails,
           ShutdownLeaveSync, ShutdownStop, ShutdownUnlisten, ShutdownDone
<1>3. svc' # "hbWait" => NoFrame({"hbResponse"})'
  <2>1. CASE svc # "hbWait"
    BY <1>1, <2>1 DEF Silent, NoFrame
  <2>2. CASE HeartbeatSet
    BY <1>1, <2>2 DEF HeartbeatSet, Pipeline, SettingBeat, NoAnswer, Answers, NoFrame
  <2> QED
    BY <1>2, <2>1, <2>2
<1>4. interval' = FALSE
  BY DEF Silent, Healthy, history, master, nmt, device,
         Svc, InitListen, SdoListen, InitReset, BootSeen, BootTimeout, InitBooted, HeartbeatSet,
           Configure, Configured, SdoTimeout, SdoFails, Start, StartSeen, StartTimeout,
           ShutdownBeat, ShutdownBeatSet, ShutdownTimeout, ShutdownFails, ShutdownLeaveSync,
           ShutdownStop, ShutdownUnlisten, ShutdownDone, InitFails
<1>5. toDev' = toDev \/ \E c \in Commands \ {"hb0"} : Send(c)
  BY DEF Silent, Commands, history, master, nmt, device,
         Svc, InitListen, SdoListen, InitReset, BootSeen, BootTimeout, InitBooted, HeartbeatSet,
           Configure, Configured, SdoTimeout, SdoFails, Start, StartSeen, StartTimeout,
           ShutdownBeat, ShutdownBeatSet, ShutdownTimeout, ShutdownFails, ShutdownLeaveSync,
           ShutdownStop, ShutdownUnlisten, ShutdownDone, InitFails
<1>6. NoCommand({"hb0"})'
  <2>1. CASE toDev' = toDev
    BY <2>1 DEF Silent, NoCommand
  <2>2. ASSUME NEW c \in Commands \ {"hb0"}, Send(c) PROVE NoCommand({"hb0"})'
    BY <2>2, SendCommand DEF Silent, NoCommand
  <2> QED
    BY <1>5, <2>1, <2>2
<1> QED
  BY <1>3, <1>4, <1>6

LEMMA CleanStep ==
  ASSUME IInv, CleanInv, Next
  PROVE  CleanInv'
<1> USE DEF IInv
<1>1. Unblocked'
  BY UnblockedStep DEF CleanInv
<1>2. ASSUME Healthy' PROVE status' = "ok" /\ Pipeline' /\ Silent'
  <2>1. Healthy /\ status = "ok" /\ Pipeline /\ Unblocked /\ Silent /\ late' = FALSE /\ faults' = 0
    BY <1>2, HealthyBefore DEF CleanInv, Healthy
  <2>2. CASE Svc
    <3>1. svc \in {"listen", "sdoListen", "reset", "booting", "booted", "hbWait", "configure",
                   "cfgWait", "sdoReread", "start", "starting", "sdHb", "sdHbWait", "sdStop", "sdSend", "sdUnlisten",
                   "sdUnknown"}
      BY <2>2 DEF Svc, InitListen, SdoListen, ReaderLocked, InitReset, BootSeen, BootTimeout,
                  InitBooted, HeartbeatSet, Configure, Configured, SdoTimeout, SdoFails, Start,
                  StartSeen, StartTimeout, ShutdownBeat, ShutdownBeatSet, ShutdownTimeout,
                  ShutdownFails, ShutdownLeaveSync, ShutdownStop, ShutdownUnlisten, ShutdownDone
    <3> QED
      BY <1>2, <2>1, <2>2, <3>1, PipelineInit, PipelineStart, PipelineShutdown, SilentSvc
  <2>3. CASE ~Svc
    BY <1>2, <2>1, <2>3, StatusElsewhere, PipelineDevice, PipelineStrand, PipelineCall,
       SilentDevice, SilentStrand, SilentCall DEF Next
  <2> QED
    BY <2>2, <2>3
<1> QED
  BY <1>1, <1>2 DEF CleanInv

\* A device that never loses power, answers every request in time and sends no
\* heartbeat before it is told to is initialised, recovered and shut down without
\* an error.
THEOREM CallsAreCleanHolds == Spec => []CallsAreClean
<1>1. Init => CleanInv
  <2>1. Init => Unblocked /\ status = "ok"
    BY DEF Init, Unblocked
  <2>2. Init => Pipeline /\ (Healthy => Silent)
    BY EmptyQueue
       DEF Init, Healthy, Silent, Pipeline, IsBetween, Between, NoCommand, NoFrame, Unknown, BootUp,
           PreOperational, Operational
  <2> QED
    BY <2>1, <2>2 DEF CleanInv
<1>2. IInv /\ CleanInv /\ [Next]_vars => CleanInv'
  <2>1. CASE UNCHANGED vars
    BY <2>1
       DEF CleanInv, Unblocked, Healthy, Silent, Pipeline, IsBetween, Between, NoCommand, NoFrame,
           Rebooting, ResetSent, Reset, SettingBeat, Configurable, NoAnswer, Configuring,
           OneAnswer, Starting, vars, history, master, nmt, device
  <2> QED
    BY <2>1, CleanStep
<1>3. CleanInv /\ TypeOK => CallsAreClean
  <2> SUFFICES ASSUME TypeOK, CleanInv, faults = 0, ~late, ~object.default
               PROVE  /\ svc = "idle" => status = "ok"
                      /\ Inverted => svc = "sdoListen" /\ object.heartbeat
    BY DEF CallsAreClean
  <2>1. status = "ok" /\ Pipeline /\ Silent /\ object.heartbeat \in BOOLEAN
    BY Constants DEF CleanInv, Healthy, TypeOK, Flags, Places
  <2>2. ASSUME Inverted PROVE svc = "sdoListen" /\ object.heartbeat
    <3>1. /\ 1 \in 1 .. Len(toMaster) /\ toMaster[1] \in {"hbResponse", "cfgResponse"}
          /\ svc \in {"sdoListen", "sdoReread"}
      BY <2>2, FrameTaken DEF Inverted, SdoResponse, ReaderLocked, TypeOK, Queues
    <3>2. svc # "sdoReread"
      BY <2>1, <3>1 DEF Pipeline, NoAnswer, NoFrame, Answers
    <3>3. NoFrame({"cfgResponse", BootUp}) /\ (object.heartbeat = FALSE => NoFrame({"hbResponse"}))
      BY <2>1, <3>1, <3>2 DEF Pipeline, IsBetween, Between, Silent
    <3> QED
      BY <2>1, <3>1, <3>2, <3>3 DEF NoFrame
  <2> QED
    BY <2>1, <2>2
<1> QED
  BY <1>1, <1>2, <1>3, IInvHolds, PTL DEF Spec, IInv
===============================================================================
