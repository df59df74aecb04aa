------------------------------ MODULE Motor402 --------------------------------
(***************************************************************************)
(* A CiA 402 motor: canopen::Motor402 with its State402 and Command402,    *)
(* driven by two or three threads:                                         *)
(*   - "run" reads the status word, writes the control word and halts the  *)
(*     motor when the stack reports an error,                              *)
(*   - "svc" initialises, recovers, halts and shuts it down,               *)
(*   - "app" switches its mode of operation (enterModeAndWait).            *)
(* switchState drives the motor through its states by one thread while the *)
(* others change target_state_ and control_word_ under it; a step is one   *)
(* critical section of cw_mutex_, mode_mutex_ or the state's own mutex.  A *)
(* wait with a deadline may end at any time without what it waited for.    *)
(*                                                                         *)
(* The drive at the other end of the bus is the environment: it follows    *)
(* the control word it received last, faults, and needs a rising edge of   *)
(* the fault reset bit to leave Fault.                                     *)
(***************************************************************************)
EXTENDS LayerStates, HomingMode

CONSTANTS
  Modes,           \* modes of operation with a handler
  NoMode,          \* MotorBase::No_Mode
  SwitchingState,  \* switching_state_, the state modes are switched in
  Setups           \* situations: the homing mode (NoMode when the drive has none), whether
                   \* a homing method is set, the services that are called, a bound on the
                   \* calls of init, whether and how often an application calls
                   \* enterModeAndWait, whether the stack reports errors
                   \* after a read or write, and a bound on the faults of the drive

Situations ==
  [homing : Modes \cup {NoMode}, method : BOOLEAN,
   services : SUBSET {"recover", "halt", "shutdown"},
   inits : Nat, app : BOOLEAN, switches : {"none", "once", "often"},
   errors : BOOLEAN, faults : Nat]

ASSUME MotorAssumption ==
  /\ NoMode \notin Modes
  /\ SwitchingState \in {"Switched_On", "Operation_Enable", "Ready_To_Switch_On"}
  /\ Setups \subseteq Situations

VARIABLES
  setup,         \* the situation, with the calls that are left
  layer,         \* Layer::state of the motor
  control_word,  \* control_word_: the set of its bits
  out,           \* control_word_entry_: the word for the next frame
  target_state,  \* target_state_
  start_fault_reset,
  state,         \* state_handler_.state_
  selected,      \* mode id of selected_mode_
  mode_id,       \* mode_id_: the mode the drive displayed last
  th,            \* what each thread is doing
  drive,         \* the drive: its state, mode, requested mode, received word
  hist           \* history: what the calls in progress have met

cwVars   == <<control_word, out, start_fault_reset>>
modeVars == <<selected, mode_id>>
vars == <<setup, homingVars, layer, cwVars, target_state, state, modeVars, th, drive, hist>>

Threads == IF setup.app THEN {"run", "svc", "app"} ELSE {"run", "svc"}

States402 == {"Unknown", "Not_Ready_To_Switch_On", "Switch_On_Disabled",
              "Ready_To_Switch_On", "Switched_On", "Operation_Enable",
              "Quick_Stop_Active", "Fault_Reaction_Active", "Fault"}

Bits == {"Switch_On", "Enable_Voltage", "Quick_Stop", "Enable_Operation",
         "Fault_Reset", "Halt", "Start"}

-------------------------------------------------------------------------------
(* State402 and Command402                                                 *)

\* MUTANT of Decode: new_state starts uninitialised, and a fault that leaves the
\* quick stop bit set has no case.
DecodeUninitialised(sw) ==
  CASE sw \subseteq {"q"}                            -> "Not_Ready_To_Switch_On"
    [] sw \in {{"d"}, {"d", "q"}}                    -> "Switch_On_Disabled"
    [] sw = {"q", "r"}                               -> "Ready_To_Switch_On"
    [] sw = {"q", "s", "r"}                          -> "Switched_On"
    [] sw = {"q", "o", "s", "r"}                     -> "Operation_Enable"
    [] sw = {"o", "s", "r"}                          -> "Quick_Stop_Active"
    [] sw = {"f"}                                    -> "Fault"
    [] OTHER                                         -> "uninitialised"

\* The bits of a status word that tell the state: d, q, f, o, s, r.
Decode(sw) ==
  CASE sw \subseteq {"q"}                            -> "Not_Ready_To_Switch_On"
    [] sw \in {{"d"}, {"d", "q"}}                    -> "Switch_On_Disabled"
    [] sw = {"q", "r"}                               -> "Ready_To_Switch_On"
    [] sw = {"q", "s", "r"}                          -> "Switched_On"
    [] sw = {"q", "o", "s", "r"}                     -> "Operation_Enable"
    [] sw = {"o", "s", "r"}                          -> "Quick_Stop_Active"
    [] sw \in {{"f", "o", "s", "r"}, {"q", "f", "o", "s", "r"}}
                                                     -> "Fault_Reaction_Active"
    [] sw \in {{"f"}, {"q", "f"}}                    -> "Fault"
    [] OTHER                                         -> "Unknown"

Op(set, reset) == [set |-> set, reset |-> reset]

disable_voltage  == Op({}, {"Fault_Reset", "Enable_Voltage"})
automatic        == Op({}, {})
shutdown         == Op({"Quick_Stop", "Enable_Voltage"}, {"Fault_Reset", "Switch_On"})
switch_on        == Op({"Quick_Stop", "Enable_Voltage", "Switch_On"},
                       {"Fault_Reset", "Enable_Operation"})
enable_operation == Op({"Quick_Stop", "Enable_Voltage", "Switch_On", "Enable_Operation"},
                       {"Fault_Reset"})
quickstop        == Op({"Enable_Voltage"}, {"Fault_Reset", "Quick_Stop"})
fault_reset      == Op({"Fault_Reset"}, {})

\* The transition table: the commands for a hop, none where it has no entry.
Transitions(from, to) ==
  CASE to = "Switch_On_Disabled" /\ from \in
         {"Ready_To_Switch_On", "Operation_Enable", "Switched_On", "Quick_Stop_Active"}
                                                           -> {disable_voltage}
    [] <<from, to>> \in {<<"Unknown", "Not_Ready_To_Switch_On">>,
                         <<"Not_Ready_To_Switch_On", "Switch_On_Disabled">>,
                         <<"Fault_Reaction_Active", "Fault">>} -> {automatic}
    [] to = "Ready_To_Switch_On" /\ from \in
         {"Switch_On_Disabled", "Switched_On", "Operation_Enable"} -> {shutdown}
    [] to = "Switched_On" /\ from \in
         {"Ready_To_Switch_On", "Operation_Enable"}         -> {switch_on}
    [] to = "Operation_Enable" /\ from \in
         {"Switched_On", "Quick_Stop_Active"}               -> {enable_operation}
    [] to = "Quick_Stop_Active" /\ from \in
         {"Ready_To_Switch_On", "Switched_On", "Operation_Enable"} -> {quickstop}
    [] from = "Fault" /\ to = "Switch_On_Disabled"          -> {fault_reset}
    [] OTHER                                                -> {}

nextStateForEnabling(s) ==
  CASE s = "Unknown"                                -> "Not_Ready_To_Switch_On"
    [] s \in {"Fault", "Not_Ready_To_Switch_On"}    -> "Switch_On_Disabled"
    [] s = "Switch_On_Disabled"                     -> "Ready_To_Switch_On"
    [] s = "Ready_To_Switch_On"                     -> "Switched_On"
    [] s = "Fault_Reaction_Active"                  -> "Fault"
    [] OTHER                                        -> "Operation_Enable"

Apply(op, cw) == (cw \ op.reset) \cup op.set

Hop(from, to) == IF to = "Operation_Enable" THEN nextStateForEnabling(from) ELSE to

-------------------------------------------------------------------------------
(* A thread's program counter and locals: st is its copy of the motor's      *)
(* state, cmd the call it serves, phase the switchState it is in, mode the   *)
(* mode it switches to, sw the homing bits it has read, ok the result so     *)
(* far, next where to go after a halt.                                       *)

SwitchPcs == {"get", "target", "test", "set", "wait"}
Pcs == SwitchPcs \cup Waits \cup
  {"idle", "ret", "initRead", "initMode", "initReset", "smCheck", "smSet", "smWait",
   "homing", "smNone", "off", "haltRead", "haltLock", "haltEnd",
   "read", "mode", "write", "send", "sent"}

Locals ==
  [pc : Pcs, st : States402, cmd : {"none", "init", "recover", "halt", "shutdown", "enter"},
   phase : {"none", "enable", "pre", "post", "postFail", "homed", "sd"},
   mode : Modes \cup {NoMode}, sw : SUBSET StatusBits, ok : BOOLEAN, next : {"idle", "write", "read", "off"}]

Fresh(pc) == [pc |-> pc, st |-> "Unknown", cmd |-> "none", phase |-> "none",
              mode |-> NoMode, sw |-> {}, ok |-> TRUE, next |-> "idle"]

\* Since the service was called: the drive saw a rising edge of Fault_Reset; a
\* halt caught a recover in switchState after it had set its target there; the
\* frames that went out since it waits for the drive to leave Fault; homing has
\* gone on without having seen the drive under way.  And the frames since the
\* application's switch of mode dropped the old mode's handler.  All of it is
\* forgotten when what it is about has ended.
NoHist == [edge |-> FALSE, halted |-> FALSE, waits |-> 0, silent |-> 0,
           unseen |-> FALSE]

Init ==
  /\ setup \in Setups
  /\ HomingInit
  /\ layer = Off
  /\ control_word = {} /\ out = {}
  /\ target_state = "Unknown"
  /\ start_fault_reset = FALSE
  /\ state = "Unknown"
  /\ selected = NoMode /\ mode_id = NoMode
  /\ th = [t \in Threads |-> Fresh(IF t = "run" THEN "read" ELSE "idle")]
  /\ drive = [state |-> "Not_Ready_To_Switch_On", mode |-> NoMode, op |-> NoMode,
              word |-> {}, reset |-> FALSE, faults |-> 0]
  /\ hist = NoHist

Goto(t, pc)     == th' = [th EXCEPT ![t].pc = pc]
Done(t)         == th' = [th EXCEPT ![t] = Fresh("idle")]
Ret(t, ok)      == th' = [th EXCEPT ![t].pc = "ret", ![t].ok = ok, ![t].st = "Unknown"]
Enter(t, phase) == th' = [th EXCEPT ![t].pc = "get", ![t].phase = phase]

Call(t, pc, cmd, mode, next) ==
  th' = [th EXCEPT ![t] = [Fresh(pc) EXCEPT !.cmd = cmd, !.mode = mode, !.next = next]]

-------------------------------------------------------------------------------
(* switchState(target), for any thread                                     *)

Goal(t) == CASE th[t].phase = "pre" -> SwitchingState
             [] th[t].phase = "sd"  -> "Switch_On_Disabled"
             [] OTHER               -> "Operation_Enable"

SwitchGet(t) ==
  /\ th[t].pc = "get"
  /\ th' = [th EXCEPT ![t].pc = "target", ![t].st = state]
  /\ UNCHANGED <<setup, homingVars, layer, cwVars, target_state, state, modeVars, drive, hist>>

SwitchTarget(t) ==
  /\ th[t].pc = "target"
  /\ target_state' = Goal(t)
  /\ Goto(t, "test")
  /\ UNCHANGED <<setup, homingVars, layer, cwVars, state, modeVars, drive, hist>>

\* MUTANT of SwitchTest: reaching whatever is the target by now is a success.
SwitchTestTrusts(t) ==
  /\ th[t].pc = "test"
  /\ IF th[t].st = target_state THEN Ret(t, TRUE) ELSE Goto(t, "set")
  /\ UNCHANGED <<setup, homingVars, layer, cwVars, target_state, state, modeVars, drive, hist>>

SwitchTest(t) ==
  /\ th[t].pc = "test"
  /\ IF th[t].st = target_state THEN Ret(t, th[t].st = Goal(t)) ELSE Goto(t, "set")
  /\ UNCHANGED <<setup, homingVars, layer, cwVars, target_state, state, modeVars, drive, hist>>

\* setTransition under cw_mutex_.  It reads target_state_ again: when that has
\* become the thread's own state meanwhile, nothing is commanded.
SwitchSet(t) ==
  LET st  == th[t].st
      ops == Transitions(st, Hop(st, target_state))
  IN
  /\ th[t].pc = "set"
  /\ \/ /\ st = target_state
        /\ Goto(t, IF st = "Unknown" THEN "test" ELSE "wait")
        /\ UNCHANGED control_word
     \/ /\ st # target_state
        /\ \E op \in ops : control_word' = Apply(op, control_word)
        /\ Goto(t, "wait")
     \/ /\ st # target_state
        /\ ops = {}
        /\ Ret(t, FALSE)
        /\ UNCHANGED control_word
  /\ UNCHANGED <<setup, homingVars, layer, out, start_fault_reset, target_state, state, modeVars, drive, hist>>

SwitchWait(t) ==
  /\ th[t].pc = "wait"
  /\ state # th[t].st
  /\ th' = [th EXCEPT ![t].pc = "test", ![t].st = state]
  /\ hist' = IF t = "svc" THEN [hist EXCEPT !.waits = 0] ELSE hist
  /\ UNCHANGED <<setup, homingVars, layer, cwVars, target_state, state, modeVars, drive>>

\* MUTANT of SwitchTimeout: waitForNewState waits without a deadline.
SwitchTimeoutNever(t) ==
  /\ th[t].pc = "wait"
  /\ state # th[t].st
  /\ Ret(t, FALSE)
  /\ UNCHANGED <<setup, homingVars, layer, cwVars, target_state, state, modeVars, drive, hist>>

\* The deadline of the whole switchState passed while the state did not change.
SwitchTimeout(t) ==
  /\ th[t].pc = "wait"
  /\ state = th[t].st
  /\ Ret(t, FALSE)
  /\ hist' = IF t = "svc" THEN [hist EXCEPT !.waits = 0] ELSE hist
  /\ UNCHANGED <<setup, homingVars, layer, cwVars, target_state, state, modeVars, drive>>

\* The service's switchState has returned and its result was looked at.
ForgetCall == hist' = [NoHist EXCEPT !.silent = hist.silent]

SwitchState(t) ==
  \/ SwitchGet(t) \/ SwitchTarget(t) \/ SwitchTest(t) \/ SwitchSet(t)
  \/ SwitchWait(t) \/ SwitchTimeout(t)

-------------------------------------------------------------------------------
(* switchMode(mode), for the service and the application thread            *)

\* Where a thread goes on when its switchMode returned ok.
Switched(t, ok) ==
  IF t = "app" THEN Done(t)
  ELSE IF ok THEN Goto(t, "homing")
  ELSE th' = [th EXCEPT ![t].pc = "off", ![t].cmd = "shutdown"]

\* MUTANT of ModeCheck: the old handler stays selected during the switch.
ModeCheckKeepsHandler(t) ==
  /\ th[t].pc = "smCheck"
  /\ IF mode_id = th[t].mode /\ selected = th[t].mode
     THEN Switched(t, TRUE) /\ UNCHANGED hist
     ELSE /\ Enter(t, "pre")
          /\ hist' = IF t = "app" THEN [hist EXCEPT !.silent = 0] ELSE hist
  /\ UNCHANGED <<setup, homingVars, layer, cwVars, target_state, state, modeVars, drive>>

ModeCheck(t) ==
  /\ th[t].pc = "smCheck"
  /\ IF mode_id = th[t].mode /\ selected = th[t].mode
     THEN Switched(t, TRUE) /\ UNCHANGED <<selected, hist>>
     ELSE /\ Enter(t, "pre")
          /\ selected' = NoMode
          /\ hist' = IF t = "app" THEN [hist EXCEPT !.silent = 0] ELSE hist
  /\ UNCHANGED <<setup, homingVars, layer, cwVars, target_state, state, mode_id, drive>>

ModePre(t) ==
  /\ th[t].pc = "ret" /\ th[t].phase = "pre"
  /\ IF th[t].ok THEN Goto(t, "smSet") ELSE Switched(t, FALSE)
  /\ UNCHANGED <<setup, homingVars, layer, cwVars, target_state, state, modeVars, drive, hist>>

\* op_mode_.set(mode), an SDO download that may fail with an exception.
ModeSet(t) ==
  /\ th[t].pc = "smSet"
  /\ \/ drive' = [drive EXCEPT !.op = th[t].mode] /\ Goto(t, "smWait")
     \/ Switched(t, FALSE) /\ UNCHANGED drive
  /\ UNCHANGED <<setup, homingVars, layer, cwVars, target_state, state, modeVars, hist>>

\* After a timeout the mode that is displayed is asked for again, by a download
\* that may fail as well.
ModeWait(t) ==
  /\ th[t].pc = "smWait"
  /\ \/ /\ mode_id = th[t].mode
        /\ selected' = th[t].mode /\ Enter(t, "post") /\ UNCHANGED drive
     \/ /\ mode_id # th[t].mode
        /\ \/ drive' = [drive EXCEPT !.op = mode_id] /\ Enter(t, "postFail")
           \/ Switched(t, FALSE) /\ UNCHANGED drive
        /\ UNCHANGED selected
  /\ UNCHANGED <<setup, homingVars, layer, cwVars, target_state, state, mode_id, hist>>

ModePost(t) ==
  /\ th[t].pc = "ret" /\ th[t].phase \in {"post", "postFail"}
  /\ Switched(t, th[t].ok /\ th[t].phase = "post")
  /\ UNCHANGED <<setup, homingVars, layer, cwVars, target_state, state, modeVars, drive, hist>>

\* switchMode(No_Mode): the handler is dropped, the drive's mode set if it can be.
ModeNone(t) ==
  /\ th[t].pc = "smNone"
  /\ selected' = NoMode
  /\ \/ drive' = [drive EXCEPT !.op = NoMode]
     \/ UNCHANGED drive
  /\ IF th[t].cmd = "shutdown"
     THEN Enter(t, "sd") /\ UNCHANGED layer
     ELSE Done(t) /\ layer' = (IF t = "svc" THEN Ready ELSE layer)
  /\ UNCHANGED <<setup, homingVars, cwVars, target_state, state, mode_id, hist>>

SwitchMode(t) ==
  \/ ModeCheck(t) \/ ModePre(t) \/ ModeSet(t) \/ ModeWait(t) \/ ModePost(t)
  \/ ModeNone(t)

-------------------------------------------------------------------------------
(* handleHalt, for the run thread and the service thread                   *)

\* The motor's state is read before cw_mutex_ is taken.
HaltRead(t) ==
  /\ th[t].pc = "haltRead"
  /\ th' = [th EXCEPT ![t].pc = "haltLock", ![t].st = state]
  /\ UNCHANGED <<setup, homingVars, layer, cwVars, target_state, state, modeVars, drive, hist>>

Recovering == th["svc"].cmd = "recover" /\ th["svc"].pc \in SwitchPcs

\* What a halt does to the control word and the target.
HaltCommand(st) ==
  IF st \in {"Fault_Reaction_Active", "Fault"}
  THEN UNCHANGED <<target_state, control_word>>
  ELSE IF st = "Operation_Enable"
  THEN /\ target_state' = "Quick_Stop_Active"
       /\ control_word' = Apply(quickstop, control_word)
  ELSE target_state' = st /\ UNCHANGED control_word

HaltLock(t) ==
  LET st == th[t].st IN
  /\ th[t].pc = "haltLock"
  /\ HaltCommand(st)
  /\ Goto(t, "haltEnd")
  /\ hist' = IF Recovering /\ st \notin {"Fault_Reaction_Active", "Fault"}
                /\ th["svc"].pc \notin {"get", "target"}
             THEN [hist EXCEPT !.halted = TRUE] ELSE hist
  /\ UNCHANGED <<setup, homingVars, layer, out, start_fault_reset, state, modeVars, drive>>

HaltEnd(t) ==
  /\ th[t].pc = "haltEnd"
  /\ layer' = ErrorState
  /\ IF th[t].next = "idle" THEN Done(t)
     ELSE th' = [th EXCEPT ![t].pc = th[t].next, ![t].st = "Unknown", ![t].next = "idle"]
  /\ UNCHANGED <<setup, homingVars, cwVars, target_state, state, modeVars, drive, hist>>

Halt(t) == HaltRead(t) \/ HaltLock(t) \/ HaltEnd(t)

-------------------------------------------------------------------------------
(* The run thread                                                          *)

\* The status words by which a drive reports a state (CiA 402).
Words(d) ==
  CASE d = "Not_Ready_To_Switch_On" -> {{}, {"q"}}
    [] d = "Switch_On_Disabled"     -> {{"d"}, {"d", "q"}}
    [] d = "Ready_To_Switch_On"     -> {{"q", "r"}}
    [] d = "Switched_On"            -> {{"q", "s", "r"}}
    [] d = "Operation_Enable"       -> {{"q", "o", "s", "r"}}
    [] d = "Quick_Stop_Active"      -> {{"o", "s", "r"}}
    [] d = "Fault_Reaction_Active"  -> {{"f", "o", "s", "r"}, {"q", "f", "o", "s", "r"}}
    [] d = "Fault"                  -> {{"f"}, {"q", "f"}}

\* readState in two critical sections: the motor's state, then its mode.
InHoming == setup.homing # NoMode /\ drive.mode = setup.homing

ReadState(t, to) ==
  /\ \E sw \in Words(drive.state) : state' = Decode(sw)
  /\ th' = [th EXCEPT ![t].pc = to, ![t].sw = IF InHoming THEN homer.status ELSE {}]
  /\ UNCHANGED <<setup, homingVars, layer, cwVars, target_state, modeVars, drive, hist>>

\* The selected mode's handler reads the word as well, when it is the drive's mode.
ReadMode(t, to) ==
  /\ mode_id' = drive.mode
  /\ IF InHoming /\ selected = drive.mode
     THEN read(th[t].sw) /\ UNCHANGED homer
     ELSE UNCHANGED homingVars
  /\ th' = [th EXCEPT ![t].pc = to, ![t].sw = {}]
  /\ UNCHANGED <<setup, layer, cwVars, target_state, state, selected, drive, hist>>

RunRead == th["run"].pc \in {"read", "sent"} /\ layer > Off /\ ReadState("run", "mode")
RunMode == th["run"].pc = "mode" /\ ReadMode("run", "write")

\* The stack reports an error after a read or a write: Layer::halt.
RunFails ==
  /\ setup.errors
  /\ th["run"].pc \in {"write", "sent"}
  /\ layer > HaltState
  /\ layer' = HaltState
  /\ th' = [th EXCEPT !["run"].pc = "haltRead",
                      !["run"].next = IF th["run"].pc = "write" THEN "write" ELSE "read"]
  /\ UNCHANGED <<setup, homingVars, cwVars, target_state, state, modeVars, drive, hist>>

\* handleWrite: the Halt bit is set unless the mode that is selected and
\* displayed releases it, which homing does while it executes.
Write ==
  \E okay \in BOOLEAN :
    LET handled == state = "Operation_Enable" /\ selected # NoMode /\ selected = mode_id
        homes   == handled /\ selected = setup.homing
        word    == CASE homes                         -> write(control_word)
                     [] state = "Operation_Enable" /\ ~homes -> control_word \ {"Start"}
                     [] OTHER                         -> control_word
        cw      == IF handled /\ okay THEN word \ {"Halt"} ELSE word \cup {"Halt"}
    IN
    /\ homes => okay = execute
    /\ control_word' = cw
    /\ out' = IF start_fault_reset THEN cw \ {"Fault_Reset"} ELSE cw
    /\ start_fault_reset' = FALSE

RunWrite ==
  /\ th["run"].pc = "write"
  /\ IF layer > Off THEN Write /\ Goto("run", "send") ELSE UNCHANGED cwVars /\ Goto("run", "read")
  /\ UNCHANGED <<setup, homingVars, layer, target_state, state, modeVars, drive, hist>>

\* The application waits for the drive to change its state and its mode.
Switching ==
  /\ setup.app
  /\ \/ th["app"].pc \in SwitchPcs /\ th["app"].phase = "pre"
     \/ th["app"].pc \in {"smSet", "smWait"}

\* The frame reaches the drive, which notices a rising edge of Fault_Reset only
\* while it is in Fault.
RunSend ==
  LET rises    == "Fault_Reset" \in out /\ "Fault_Reset" \notin drive.word
      enables  == th["svc"].pc \in SwitchPcs /\ th["svc"].phase = "enable"
      inFault  == enables /\ th["svc"].pc = "wait" /\ th["svc"].st = "Fault"
      Up(n, k) == IF n < k THEN n + 1 ELSE n
  IN
  /\ th["run"].pc = "send"
  /\ drive' = [drive EXCEPT !.word = out, !.reset = drive.state = "Fault" /\ (rises \/ @)]
  /\ IF InHoming THEN SeesStart(drive.word, out) ELSE UNCHANGED homer
  /\ UNCHANGED <<execute, status>>
  /\ hist' = [hist EXCEPT !.edge = @ \/ (rises /\ enables),
                          !.waits = IF inFault THEN Up(@, 3) ELSE @,
                          !.silent = IF Switching THEN Up(@, 2) ELSE 0]
  /\ Goto("run", "sent")
  /\ UNCHANGED <<setup, layer, cwVars, target_state, state, modeVars>>

Run == RunRead \/ RunMode \/ RunFails \/ RunWrite \/ RunSend \/ Halt("run")

-------------------------------------------------------------------------------
(* The services and the application                                        *)

Idle(t) == th[t].pc = "idle"

\* The chain joined its old run thread when it was shut down and starts another.
CallInit ==
  /\ setup.inits > 0 /\ Idle("svc") /\ layer = Off
  /\ th["run"].pc \in {"read", "sent"}
  /\ setup' = [setup EXCEPT !.inits = @ - 1]
  /\ layer' = InitState
  /\ th' = [th EXCEPT !["run"] = Fresh("read"),
                      !["svc"] = [Fresh("initRead") EXCEPT !.cmd = "init"]]
  /\ UNCHANGED <<homingVars, cwVars, target_state, state, modeVars, drive, hist>>

InitRead == th["svc"].pc = "initRead" /\ ReadState("svc", "initMode")
InitMode == th["svc"].pc = "initMode" /\ ReadMode("svc", "initReset")

InitReset ==
  /\ th["svc"].pc = "initReset"
  /\ control_word' = {}
  /\ start_fault_reset' = TRUE
  /\ Enter("svc", "enable")
  /\ UNCHANGED <<setup, homingVars, layer, out, target_state, state, modeVars, drive, hist>>

\* The motor is enabled: on to homing, when the drive has it, or shut down.
InitEnabled ==
  /\ th["svc"].pc = "ret" /\ th["svc"].phase = "enable" /\ th["svc"].cmd = "init"
  /\ \/ /\ ~th["svc"].ok
        /\ th' = [th EXCEPT !["svc"].pc = "off", !["svc"].cmd = "shutdown"]
        /\ UNCHANGED <<layer, homingVars>>
     \/ /\ th["svc"].ok /\ setup.homing # NoMode
        /\ th' = [th EXCEPT !["svc"].pc = "smCheck", !["svc"].mode = setup.homing]
        /\ start /\ UNCHANGED <<layer, homer>>
     \/ /\ th["svc"].ok /\ setup.homing = NoMode
        /\ Done("svc") /\ layer' = Ready
        /\ UNCHANGED homingVars
  /\ ForgetCall
  /\ UNCHANGED <<setup, cwVars, target_state, state, modeVars, drive>>

HomingFails ==
  /\ HomingError
  /\ th' = [th EXCEPT !["svc"].pc = "off", !["svc"].cmd = "shutdown"]

\* executeHoming: the method is known, none is configured, or it cannot be read.
HomingBegin ==
  /\ th["svc"].pc = "homing"
  /\ \/ Goto("svc", IF setup.method THEN "prepare" ELSE "smNone") /\ UNCHANGED homingVars
     \/ HomingFails

HomingWait ==
  \E wait \in Waits :
    /\ th["svc"].pc = wait
    /\ \/ wait # "stop" /\ Waited(wait) /\ Goto("svc", Following[wait])
       \/ (~Awaited(wait) \/ "Error" \in status) /\ HomingFails
       \/ /\ wait = "stop" /\ Homed
          /\ execute' = FALSE /\ UNCHANGED <<status, homer>>
          /\ th' = [th EXCEPT !["svc"].pc = "smNone", !["svc"].phase = "homed"]
       \/ wait = "stop" /\ ~Homed /\ HomingFails

InitHomed ==
  /\ HomingBegin \/ HomingWait
  /\ hist' = [hist EXCEPT !.unseen = CASE th'["svc"].pc = "attain" -> status # {}
                                       [] th'["svc"].pc = "off"    -> FALSE
                                       [] OTHER                    -> @]
  /\ UNCHANGED <<setup, layer, cwVars, target_state, state, modeVars, drive>>

\* MUTANT of CallRecover: the fault reset bit does not start low.
CallRecoverNoEdge ==
  /\ "recover" \in setup.services /\ Idle("svc") /\ layer = ErrorState
  /\ layer' = Recover
  /\ th' = [th EXCEPT !["svc"] = [Fresh("get") EXCEPT !.cmd = "recover", !.phase = "enable"]]
  /\ UNCHANGED <<setup, homingVars, cwVars, target_state, state, modeVars, drive, hist>>

\* handleRecover restarts the mode's handler, which forgets its target; homing's is not
\* selected once init has ended.
CallRecover ==
  /\ "recover" \in setup.services /\ Idle("svc") /\ layer = ErrorState
  /\ layer' = Recover
  /\ start_fault_reset' = TRUE
  /\ th' = [th EXCEPT !["svc"] = [Fresh("get") EXCEPT !.cmd = "recover", !.phase = "enable"]]
  /\ UNCHANGED <<setup, homingVars, control_word, out, target_state, state, modeVars, drive, hist>>

RecoverDone ==
  /\ th["svc"].pc = "ret" /\ th["svc"].cmd = "recover"
  /\ IF th["svc"].ok
     THEN layer' = Ready /\ Done("svc")
     ELSE IF layer > HaltState
     THEN layer' = HaltState /\ Goto("svc", "haltRead")
     ELSE Done("svc") /\ UNCHANGED layer
  /\ ForgetCall
  /\ UNCHANGED <<setup, homingVars, cwVars, target_state, state, modeVars, drive>>

CallHalt ==
  /\ "halt" \in setup.services /\ Idle("svc") /\ layer > HaltState
  /\ layer' = HaltState
  /\ Call("svc", "haltRead", "halt", NoMode, "idle")
  /\ UNCHANGED <<setup, homingVars, cwVars, target_state, state, modeVars, drive, hist>>

\* The shutdown service halts the motor first.
CallShutdown ==
  /\ "shutdown" \in setup.services /\ Idle("svc") /\ layer # Off
  /\ IF layer > HaltState
     THEN layer' = HaltState /\ Call("svc", "haltRead", "shutdown", NoMode, "off")
     ELSE Call("svc", "off", "shutdown", NoMode, "idle") /\ UNCHANGED layer
  /\ UNCHANGED <<setup, homingVars, cwVars, target_state, state, modeVars, drive, hist>>

ShutdownBegin ==
  /\ th["svc"].pc = "off"
  /\ layer' = Shutdown
  /\ Goto("svc", "smNone")
  /\ UNCHANGED <<setup, homingVars, cwVars, target_state, state, modeVars, drive, hist>>

\* handleShutdown does not look at the result of switchState.
ShutdownEnd ==
  /\ th["svc"].pc = "ret" /\ th["svc"].phase = "sd"
  /\ layer' = Off
  /\ Done("svc")
  /\ ForgetCall
  /\ UNCHANGED <<setup, homingVars, cwVars, target_state, state, modeVars, drive>>

Svc ==
  \/ InitRead \/ InitMode \/ InitReset \/ InitEnabled \/ InitHomed
  \/ RecoverDone \/ ShutdownBegin \/ ShutdownEnd
  \/ SwitchState("svc") \/ SwitchMode("svc") \/ Halt("svc")

\* An application that switches once has no more calls left.
CountSwitch ==
  /\ setup.switches # "none"
  /\ setup' = [setup EXCEPT !.switches = IF @ = "once" THEN "none" ELSE @]

CallEnterMode ==
  /\ setup.app /\ CountSwitch /\ Idle("app") /\ layer = Ready
  /\ \E m \in Modes \ {setup.homing} : Call("app", "smCheck", "enter", m, "idle")
  /\ UNCHANGED <<homingVars, layer, cwVars, target_state, state, modeVars, drive, hist>>

CallLeaveMode ==
  /\ setup.app /\ CountSwitch /\ Idle("app") /\ layer = Ready
  /\ Call("app", "smNone", "enter", NoMode, "idle")
  /\ UNCHANGED <<homingVars, layer, cwVars, target_state, state, modeVars, drive, hist>>

App == setup.app /\ (SwitchState("app") \/ SwitchMode("app"))

-------------------------------------------------------------------------------
(* The drive: it follows the word it received last                         *)

Command(w) ==
  IF "Enable_Voltage" \notin w THEN "disable_voltage"
  ELSE IF "Quick_Stop" \notin w THEN "quickstop"
  ELSE IF "Switch_On" \notin w THEN "shutdown"
  ELSE IF "Enable_Operation" \notin w THEN "switch_on"
  ELSE "enable_operation"

\* The transitions a drive makes on a command.
DriveTable ==
  LET disable == {"disable_voltage", "quickstop"} IN
  {<<"Switch_On_Disabled", "shutdown", "Ready_To_Switch_On">>,
   <<"Ready_To_Switch_On", "switch_on", "Switched_On">>,
   <<"Ready_To_Switch_On", "enable_operation", "Switched_On">>,
   <<"Switched_On", "enable_operation", "Operation_Enable">>,
   <<"Switched_On", "shutdown", "Ready_To_Switch_On">>,
   <<"Operation_Enable", "switch_on", "Switched_On">>,
   <<"Operation_Enable", "shutdown", "Ready_To_Switch_On">>,
   <<"Operation_Enable", "disable_voltage", "Switch_On_Disabled">>,
   <<"Operation_Enable", "quickstop", "Quick_Stop_Active">>,
   <<"Quick_Stop_Active", "enable_operation", "Operation_Enable">>}
  \cup {<<d, c, "Switch_On_Disabled">> :
          d \in {"Ready_To_Switch_On", "Switched_On", "Quick_Stop_Active"}, c \in disable}

\* The transitions it makes by itself; a reset that was seen clears the fault.
DriveAlone(d) ==
  CASE d = "Not_Ready_To_Switch_On" -> {"Switch_On_Disabled"}
    [] d = "Fault_Reaction_Active"  -> {"Fault"}
    [] d = "Fault" /\ drive.reset   -> {"Switch_On_Disabled"}
    [] OTHER                        -> {}

DriveMoves ==
  /\ \E d \in States402 :
        /\ d \in DriveAlone(drive.state) \/ <<drive.state, Command(drive.word), d>> \in DriveTable
        /\ drive' = [drive EXCEPT !.state = d, !.reset = FALSE]
  /\ UNCHANGED <<setup, homingVars, layer, cwVars, target_state, state, modeVars, th, hist>>

DriveFaults ==
  /\ drive.faults < setup.faults
  /\ drive.state \notin {"Not_Ready_To_Switch_On", "Fault_Reaction_Active", "Fault"}
  /\ drive' = [drive EXCEPT !.state = "Fault_Reaction_Active", !.faults = @ + 1]
  /\ UNCHANGED <<setup, homingVars, layer, cwVars, target_state, state, modeVars, th, hist>>

DriveMode ==
  /\ drive.mode # drive.op
  /\ drive' = [drive EXCEPT !.mode = drive.op]
  /\ IF drive.op # NoMode /\ drive.op = setup.homing THEN EntersHoming ELSE LeavesHoming
  /\ UNCHANGED <<setup, execute, status, layer, cwVars, target_state, state, modeVars, th, hist>>

\* It homes in its mode, while it is enabled and not halted.
DriveHoming ==
  /\ setup.homing # NoMode
  /\ DriveHomes(/\ InHoming /\ drive.state = "Operation_Enable"
                /\ "Start" \in drive.word /\ "Halt" \notin drive.word)
  /\ UNCHANGED <<setup, layer, cwVars, target_state, state, modeVars, th, drive, hist>>

Drive == DriveMoves \/ DriveFaults \/ DriveMode \/ DriveHoming

-------------------------------------------------------------------------------
Calls == CallInit \/ CallRecover \/ CallHalt \/ CallShutdown \/ CallEnterMode \/ CallLeaveMode

Next == Run \/ Svc \/ App \/ Calls \/ Drive

Spec == Init /\ [][Next]_vars

\* The threads are scheduled; the drive may be silent and nobody has to call.
FairSpec == Spec /\ WF_vars(Run) /\ WF_vars(Svc) /\ WF_vars(App)

-------------------------------------------------------------------------------
(* Properties                                                              *)

TypeOK ==
  /\ setup \in Situations /\ HomingTypeOK
  /\ layer \in LayerState
  /\ control_word \subseteq Bits
  /\ out \subseteq Bits
  /\ target_state \in States402 /\ state \in States402
  /\ start_fault_reset \in BOOLEAN
  /\ selected \in Modes \cup {NoMode} /\ mode_id \in Modes \cup {NoMode}
  /\ th \in [Threads -> Locals]
  /\ drive \in [state : States402, mode : Modes \cup {NoMode}, op : Modes \cup {NoMode},
                word : SUBSET Bits, reset : BOOLEAN,
                faults : 0 .. setup.faults]
  /\ hist \in [edge : BOOLEAN, halted : BOOLEAN, waits : 0 .. 3, silent : 0 .. 2,
               unseen : BOOLEAN]

Recovered == th["svc"].pc = "ret" /\ th["svc"].cmd = "recover" /\ th["svc"].ok

\* A halt that catches a recover in switchState after it has stored its target
\* wins: the recover does not report success (handleHalt replaces target_state_,
\* switchState returns state == target).
HaltStopsRecover == Recovered => ~hist.halted

\* "enforce rising edge on fault reset bit on init and recover": an init or
\* recover that waits for the drive to leave Fault and has seen three frames go out has shown
\* the drive a rising edge, whatever an earlier attempt left in the word; unless a halt
\* has stored its target meanwhile, whose command takes the bit back.
FaultResetRises ==
  th["svc"].phase = "enable" /\ th["svc"].pc = "wait" /\ th["svc"].st = "Fault"
    => hist.waits < 3 \/ hist.edge \/ hist.halted

\* "disable mode handler": while the application switches the mode, no handler
\* moves the drive.  From the second frame on after the old handler was dropped
\* (one may have been on its way) the drive holds the Halt bit, whatever the
\* services do meanwhile.
SwitchIsSilent == Switching /\ hist.silent = 2 => "Halt" \in drive.word

\* A homing that executeHoming takes for a success has left the drive at home and
\* standing still, though time limits pass and an earlier homing was given up; unless
\* the drive was never seen under way, because it is quick or has shown from the
\* beginning what it attained earlier.
HomedIsHome ==
  th["svc"].phase = "homed" /\ th["svc"].pc = "smNone"
    => homer.status = Completed \/ hist.unseen

\* Every service call and every mode switch returns, though the drive is silent, faults
\* or is halted by the run thread meanwhile: switchState has one deadline for all of its
\* hops.  waitForNewState looks at the deadline only when the state has not changed, so
\* this holds of drives whose state changes finitely often during a call: of a bounded
\* number of faults, and for an application not beside a recover that is called for ever.
CallsReturn ==
  \A t \in {"svc", "app"} : (t \in Threads /\ ~Idle(t)) ~> (t \in Threads /\ Idle(t))
===============================================================================
