---------------------------- MODULE Motor402Proofs -----------------------------
(***************************************************************************)
(* For any modes, situations of the motor and faults of the drive: types,  *)
(* what a halt does to a recover, the rising edge a reset needs, the Halt  *)
(* bit while the mode is switched, and what a homing that reports success  *)
(* has achieved.                                                           *)
(*                                                                         *)
(* All of them rest on Stages, the places the service's thread can be at   *)
(* in each of its calls: one service runs at a time, and while it runs the *)
(* layer's state keeps the run thread from halting in its way.  On top of  *)
(* it, for each theorem, what the words and the drive look like at each    *)
(* place: HaltedRecover, Rises, Silent, and Prep with Home.                *)
(*                                                                         *)
(* An application that switches the mode at the same time runs switchState *)
(* too and takes the target away from a recover, the word from a reset and *)
(* the mode from a homing; where that matters the theorem excludes it.  A  *)
(* recover that a halt has beaten never reaches its reset: quickstop takes *)
(* the bit back.  And a handler of homing releases Halt itself, so silence *)
(* is claimed of the other modes.                                          *)
(***************************************************************************)
EXTENDS Motor402, TLAPS

-------------------------------------------------------------------------------
(* Types                                                                   *)

LEMMA ThreadNames ==
  ASSUME TypeOK
  PROVE  /\ "run" \in Threads /\ "svc" \in Threads
         /\ "app" \in Threads <=> setup.app
         /\ Threads \subseteq {"run", "svc", "app"}
         /\ setup.app \in BOOLEAN
BY DEF TypeOK, Situations, Threads

\* A thread's locals are replaced, the other threads' stay.
LEMMA Put ==
  ASSUME th \in [Threads -> Locals], NEW t \in Threads, NEW r \in Locals,
         th' = [th EXCEPT ![t] = r]
  PROVE  /\ th' \in [Threads -> Locals]
         /\ th'[t] = r
         /\ \A u \in Threads : u # t => th'[u] = th[u]
OBVIOUS

\* What one thread's locals have become when it alone has gone on.
Others(t) == /\ th' \in [Threads -> Locals]
             /\ \A u \in Threads : u # t => th'[u] = th[u]

LEMMA GotoMoves ==
  ASSUME th \in [Threads -> Locals], NEW t \in Threads, NEW pc \in Pcs, Goto(t, pc)
  PROVE  /\ Others(t)
         /\ th'[t] = [th[t] EXCEPT !.pc = pc]
         /\ th'[t].pc = pc /\ th'[t].st = th[t].st /\ th'[t].cmd = th[t].cmd
         /\ th'[t].phase = th[t].phase /\ th'[t].mode = th[t].mode /\ th'[t].sw = th[t].sw
         /\ th'[t].ok = th[t].ok /\ th'[t].next = th[t].next
<1> DEFINE r == [th[t] EXCEPT !.pc = pc]
<1>1. r \in Locals
  BY ZenonT(30) DEF Locals
<1>2. th' = [th EXCEPT ![t] = r]
  BY DEF Goto
<1>3. /\ r.pc = pc /\ r.st = th[t].st /\ r.cmd = th[t].cmd /\ r.phase = th[t].phase
      /\ r.mode = th[t].mode /\ r.sw = th[t].sw /\ r.ok = th[t].ok /\ r.next = th[t].next
  BY DEF Locals
<1> HIDE DEF r
<1>4. Others(t) /\ th'[t] = r
  BY <1>1, <1>2, Put DEF Others
<1> QED
  BY <1>3, <1>4 DEF r

LEMMA PcNames ==
  /\ {"get", "target", "test", "set", "wait"} \subseteq Pcs
  /\ {"prepare", "start", "attain", "stop"} \subseteq Pcs
  /\ {"idle", "ret", "initRead", "initMode", "initReset", "smCheck", "smSet", "smWait",
      "homing", "smNone", "off", "haltRead", "haltLock", "haltEnd",
      "read", "mode", "write", "send", "sent"} \subseteq Pcs
BY DEF Pcs, SwitchPcs, Waits

LEMMA EnterMoves ==
  ASSUME th \in [Threads -> Locals], NEW t \in Threads,
         NEW phase \in {"none", "enable", "pre", "post", "postFail", "homed", "sd"},
         Enter(t, phase)
  PROVE  /\ Others(t)
         /\ th'[t].pc = "get" /\ th'[t].cmd = th[t].cmd /\ th'[t].phase = phase
         /\ th'[t].mode = th[t].mode /\ th'[t].next = th[t].next
<1> DEFINE r == [th[t] EXCEPT !.pc = "get", !.phase = phase]
<1>0. "get" \in Pcs
  BY PcNames
<1>1. r \in Locals
  BY ZenonT(30), <1>0 DEF Locals
<1>2. th' = [th EXCEPT ![t] = r]
  BY DEF Enter
<1>3. /\ r.pc = "get" /\ r.cmd = th[t].cmd /\ r.phase = phase
      /\ r.mode = th[t].mode /\ r.next = th[t].next
  BY DEF Locals
<1> HIDE DEF r
<1> QED
  BY <1>1, <1>2, <1>3, Put DEF Others

LEMMA RetMoves ==
  ASSUME th \in [Threads -> Locals], NEW t \in Threads, NEW ok \in BOOLEAN, Ret(t, ok)
  PROVE  /\ Others(t)
         /\ th'[t].pc = "ret" /\ th'[t].ok = ok /\ th'[t].st = "Unknown"
         /\ th'[t].cmd = th[t].cmd /\ th'[t].phase = th[t].phase
         /\ th'[t].mode = th[t].mode /\ th'[t].next = th[t].next
<1> DEFINE r == [th[t] EXCEPT !.pc = "ret", !.ok = ok, !.st = "Unknown"]
<1>0. "ret" \in Pcs /\ "Unknown" \in States402
  BY PcNames DEF States402
<1>1. r \in Locals
  BY ZenonT(30), <1>0 DEF Locals
<1>2. th' = [th EXCEPT ![t] = r]
  BY DEF Ret
<1>3. /\ r.pc = "ret" /\ r.ok = ok /\ r.st = "Unknown" /\ r.cmd = th[t].cmd
      /\ r.phase = th[t].phase /\ r.mode = th[t].mode /\ r.next = th[t].next
  BY DEF Locals
<1> HIDE DEF r
<1> QED
  BY <1>1, <1>2, <1>3, Put DEF Others

\* A thread goes on with what it has read of the motor's state.
LEMMA LookMoves ==
  ASSUME th \in [Threads -> Locals], NEW t \in Threads, NEW pc \in Pcs, NEW s \in States402,
         th' = [th EXCEPT ![t].pc = pc, ![t].st = s]
  PROVE  /\ Others(t)
         /\ th'[t].pc = pc /\ th'[t].st = s /\ th'[t].cmd = th[t].cmd
         /\ th'[t].phase = th[t].phase /\ th'[t].mode = th[t].mode
         /\ th'[t].ok = th[t].ok /\ th'[t].next = th[t].next
<1> DEFINE r == [th[t] EXCEPT !.pc = pc, !.st = s]
<1>1. r \in Locals
  BY ZenonT(30) DEF Locals
<1>2. th' = [th EXCEPT ![t] = r]
  OBVIOUS
<1>3. /\ r.pc = pc /\ r.st = s /\ r.cmd = th[t].cmd /\ r.phase = th[t].phase
      /\ r.mode = th[t].mode /\ r.ok = th[t].ok /\ r.next = th[t].next
  BY DEF Locals
<1> HIDE DEF r
<1> QED
  BY <1>1, <1>2, <1>3, Put DEF Others

\* A thread goes on with the homing bits it has read.
LEMMA BitsMove ==
  ASSUME th \in [Threads -> Locals], NEW t \in Threads, NEW pc \in Pcs, NEW s \in SUBSET StatusBits,
         th' = [th EXCEPT ![t].pc = pc, ![t].sw = s]
  PROVE  /\ Others(t)
         /\ th'[t].pc = pc /\ th'[t].sw = s /\ th'[t].st = th[t].st /\ th'[t].cmd = th[t].cmd
         /\ th'[t].phase = th[t].phase /\ th'[t].mode = th[t].mode
         /\ th'[t].ok = th[t].ok /\ th'[t].next = th[t].next
<1> DEFINE r == [th[t] EXCEPT !.pc = pc, !.sw = s]
<1>1. r \in Locals
  BY ZenonT(30) DEF Locals
<1>2. th' = [th EXCEPT ![t] = r]
  OBVIOUS
<1>3. /\ r.pc = pc /\ r.sw = s /\ r.st = th[t].st /\ r.cmd = th[t].cmd
      /\ r.phase = th[t].phase /\ r.mode = th[t].mode /\ r.ok = th[t].ok /\ r.next = th[t].next
  BY DEF Locals
<1> HIDE DEF r
<1> QED
  BY <1>1, <1>2, <1>3, Put DEF Others

LEMMA FreshIsTyped ==
  ASSUME NEW pc \in Pcs
  PROVE  /\ Fresh(pc) \in Locals
         /\ Fresh(pc).pc = pc /\ Fresh(pc).st = "Unknown" /\ Fresh(pc).cmd = "none"
         /\ Fresh(pc).phase = "none" /\ Fresh(pc).mode = NoMode /\ Fresh(pc).next = "idle"
         /\ Fresh(pc).ok = TRUE /\ Fresh(pc).sw = {}
BY DEF Fresh, Locals, States402

LEMMA DoneMoves ==
  ASSUME th \in [Threads -> Locals], NEW t \in Threads, Done(t)
  PROVE  /\ Others(t)
         /\ th'[t] = Fresh("idle") /\ th'[t].pc = "idle" /\ th'[t].cmd = "none"
         /\ th'[t].phase = "none" /\ th'[t].mode = NoMode /\ th'[t].next = "idle"
<1>1. "idle" \in Pcs
  BY PcNames
<1>2. Fresh("idle") \in Locals
  BY <1>1, FreshIsTyped
<1>3. Others(t) /\ th'[t] = Fresh("idle")
  BY <1>2, Put DEF Done, Others
<1>4. /\ Fresh("idle").pc = "idle" /\ Fresh("idle").cmd = "none"
      /\ Fresh("idle").phase = "none" /\ Fresh("idle").mode = NoMode
      /\ Fresh("idle").next = "idle"
  BY DEF Fresh
<1> QED
  BY <1>3, <1>4

\* A call begins.
LEMMA CallMoves ==
  ASSUME th \in [Threads -> Locals], NEW t \in Threads, NEW pc \in Pcs,
         NEW cmd \in {"none", "init", "recover", "halt", "shutdown", "enter"},
         NEW mode \in Modes \cup {NoMode}, NEW next \in {"idle", "write", "read", "off"},
         Call(t, pc, cmd, mode, next)
  PROVE  /\ Others(t)
         /\ th'[t].pc = pc /\ th'[t].cmd = cmd /\ th'[t].phase = "none"
         /\ th'[t].mode = mode /\ th'[t].next = next
<1> DEFINE f == Fresh(pc)
          r == [f EXCEPT !.cmd = cmd, !.mode = mode, !.next = next]
<1>0. f \in Locals /\ f.pc = pc /\ f.phase = "none"
  BY FreshIsTyped
<1>2. th' = [th EXCEPT ![t] = r]
  BY DEF Call
<1> HIDE DEF f
<1>1. r \in Locals
  BY ZenonT(30), <1>0 DEF Locals
<1>3. r.pc = pc /\ r.cmd = cmd /\ r.phase = "none" /\ r.mode = mode /\ r.next = next
  BY <1>0 DEF Locals
<1> HIDE DEF r
<1> QED
  BY <1>1, <1>2, <1>3, Put DEF Others

\* The setup changes only in the calls that are left.
SameSituation ==
  /\ setup'.homing = setup.homing /\ setup'.method = setup.method
  /\ setup'.services = setup.services /\ setup'.app = setup.app
  /\ setup'.errors = setup.errors /\ setup'.faults = setup.faults
  /\ Threads' = Threads

LEMMA SameSetup ==
  ASSUME TypeOK, [Next]_vars
  PROVE  setup' \in Situations /\ SameSituation
<1>1. CASE setup' = setup
  BY <1>1 DEF TypeOK, SameSituation, Threads
<1>2. CASE CallInit
  <2>1. setup \in Situations /\ setup.inits \in Nat \ {0}
    BY <1>2 DEF CallInit, TypeOK, Situations
  <2>2. setup.inits - 1 \in Nat
    BY <2>1
  <2>3. setup' = [setup EXCEPT !.inits = @ - 1]
    BY <1>2 DEF CallInit
  <2>4. setup' \in Situations /\ setup'.app = setup.app /\ setup'.homing = setup.homing
        /\ setup'.method = setup.method /\ setup'.services = setup.services
        /\ setup'.errors = setup.errors /\ setup'.faults = setup.faults
    BY <2>1, <2>2, <2>3 DEF Situations
  <2> QED
    BY <2>4 DEF SameSituation, Threads
<1>3. CASE Run
  <2>1. setup' = setup
    BY <1>3 DEF Run, RunRead, RunMode, ReadState, ReadMode, RunFails, RunWrite, RunSend,
                Halt, HaltRead, HaltLock, HaltEnd
  <2> QED
    BY <1>1, <2>1
<1>4. ASSUME NEW t, SwitchState(t) \/ SwitchMode(t) PROVE setup' = setup
  BY <1>4 DEF SwitchState, SwitchGet, SwitchTarget, SwitchTest, SwitchSet, SwitchWait,
              SwitchTimeout, SwitchMode, ModeCheck, ModePre, ModeSet, ModeWait, ModePost, ModeNone
<1>5. CASE Svc \/ App
  <2>1. setup' = setup
    BY <1>4, <1>5 DEF App, Svc, InitRead, InitMode, ReadState, ReadMode, InitReset, InitEnabled, InitHomed,
       RecoverDone, ShutdownBegin, ShutdownEnd, Halt, HaltRead, HaltLock, HaltEnd
  <2> QED
    BY <1>1, <2>1
<1>6. CASE CallRecover \/ CallHalt \/ CallShutdown \/ Drive
  <2>1. setup' = setup
    BY <1>6 DEF CallRecover, CallHalt, CallShutdown, Drive,
                DriveMoves, DriveFaults, DriveMode, DriveHoming
  <2> QED
    BY <1>1, <2>1
<1>7. CASE CallEnterMode \/ CallLeaveMode
  <2>1. setup \in Situations
    BY DEF TypeOK
  <2>2. PICK left \in {"none", "often"} : setup' = [setup EXCEPT !.switches = left]
    BY <1>7, <2>1 DEF CallEnterMode, CallLeaveMode, CountSwitch, Situations
  <2>3. setup' \in Situations /\ setup'.app = setup.app /\ setup'.homing = setup.homing
        /\ setup'.method = setup.method /\ setup'.services = setup.services
        /\ setup'.errors = setup.errors /\ setup'.faults = setup.faults
    BY <2>1, <2>2 DEF Situations
  <2> QED
    BY <2>3 DEF SameSituation, Threads
<1> QED
  BY <1>1, <1>2, <1>3, <1>5, <1>6, <1>7 DEF Next, Calls, vars

\* Commands only touch the bits of their own.
LEMMA TransitionOps ==
  ASSUME NEW from, NEW to, NEW op \in Transitions(from, to)
  PROVE  op \in {disable_voltage, automatic, shutdown, switch_on, enable_operation, quickstop,
                 fault_reset}
BY DEF Transitions

LEMMA ApplyBits ==
  ASSUME NEW cw \in SUBSET Bits, NEW from, NEW to, NEW op \in Transitions(from, to)
  PROVE  /\ Apply(op, cw) \subseteq Bits
         /\ "Start" \in Apply(op, cw) <=> "Start" \in cw
<1>1. /\ op.set \subseteq Bits /\ "Start" \notin op.set /\ "Start" \notin op.reset
  BY TransitionOps
     DEF disable_voltage, automatic, shutdown, switch_on, enable_operation, quickstop,
         fault_reset, Op, Bits
<1> QED
  BY <1>1 DEF Apply

LEMMA GoalIsState ==
  ASSUME NEW t PROVE Goal(t) \in {"Switched_On", "Operation_Enable", "Ready_To_Switch_On",
                                  "Switch_On_Disabled"}
BY MotorAssumption DEF Goal

\* A step of switchState: the thread and the target or the word are all it touches.
LEMMA SwitchTypes ==
  ASSUME TypeOK, NEW t \in Threads, SwitchState(t), Threads' = Threads
  PROVE  TypeOK'
<1>0. /\ th \in [Threads -> Locals] /\ state \in States402 /\ target_state \in States402
      /\ control_word \in SUBSET Bits
  BY DEF TypeOK
<1>1. th' \in [Threads -> Locals]
  <2>1. CASE SwitchGet(t)
    BY <1>0, <2>1, LookMoves, PcNames DEF SwitchGet, Others
  <2>2. CASE SwitchTarget(t)
    BY <1>0, <2>2, GotoMoves, PcNames DEF SwitchTarget, Others
  <2>3. CASE SwitchTest(t)
    BY <1>0, <2>3, GotoMoves, RetMoves, PcNames DEF SwitchTest, Others
  <2>4. CASE SwitchSet(t)
    BY <1>0, <2>4, GotoMoves, RetMoves, PcNames DEF SwitchSet, Others
  <2>5. CASE SwitchWait(t)
    BY <1>0, <2>5, LookMoves, PcNames DEF SwitchWait, Others
  <2>6. CASE SwitchTimeout(t)
    BY <1>0, <2>6, RetMoves, PcNames DEF SwitchTimeout, Others
  <2> QED
    BY <2>1, <2>2, <2>3, <2>4, <2>5, <2>6 DEF SwitchState
<1>2. target_state' \in States402
  BY <1>0, GoalIsState DEF SwitchState, SwitchGet, SwitchTarget, SwitchTest, SwitchSet,
     SwitchWait, SwitchTimeout, States402
<1>3. control_word' \in SUBSET Bits
  BY <1>0, ApplyBits DEF SwitchState, SwitchGet, SwitchTarget, SwitchTest, SwitchSet,
     SwitchWait, SwitchTimeout, cwVars
<1>4. hist' = hist \/ hist' = [hist EXCEPT !.waits = 0]
  BY DEF SwitchState, SwitchGet, SwitchTarget, SwitchTest, SwitchSet, SwitchWait, SwitchTimeout
<1>5. /\ UNCHANGED <<setup, homingVars, layer, out, start_fault_reset, state, modeVars, drive>>
  BY DEF SwitchState, SwitchGet, SwitchTarget, SwitchTest, SwitchSet, SwitchWait, SwitchTimeout, cwVars
<1>6. hist' \in [edge : BOOLEAN, halted : BOOLEAN, waits : 0 .. 3, silent : 0 .. 2, unseen : BOOLEAN]
  BY <1>4 DEF TypeOK
<1> QED
  BY <1>1, <1>2, <1>3, <1>5, <1>6 DEF TypeOK, HomingTypeOK, homingVars, modeVars

LEMMA SwitchedMoves ==
  ASSUME th \in [Threads -> Locals], NEW t \in Threads, NEW ok \in BOOLEAN, Switched(t, ok)
  PROVE  /\ Others(t)
         /\ t = "app" => th'[t] = Fresh("idle")
         /\ t # "app" => /\ th'[t].phase = th[t].phase /\ th'[t].mode = th[t].mode
                         /\ th'[t].next = th[t].next
                         /\ ok  => th'[t].pc = "homing" /\ th'[t].cmd = th[t].cmd
                         /\ ~ok => th'[t].pc = "off" /\ th'[t].cmd = "shutdown"
<1>1. CASE t = "app"
  BY <1>1, DoneMoves DEF Switched
<1>2. CASE t # "app" /\ ok
  BY <1>2, GotoMoves, PcNames DEF Switched
<1>3. CASE t # "app" /\ ~ok
  <2> DEFINE r == [th[t] EXCEPT !.pc = "off", !.cmd = "shutdown"]
  <2>0. "off" \in Pcs
    BY PcNames
  <2>1. r \in Locals
    BY ZenonT(30), <2>0 DEF Locals
  <2>2. th' = [th EXCEPT ![t] = r]
    BY <1>3 DEF Switched
  <2>3. /\ r.pc = "off" /\ r.cmd = "shutdown" /\ r.phase = th[t].phase
        /\ r.mode = th[t].mode /\ r.next = th[t].next
    BY DEF Locals
  <2> HIDE DEF r
  <2> QED
    BY <1>3, <2>1, <2>2, <2>3, Put DEF Others
<1> QED
  BY <1>1, <1>2, <1>3

\* The modes of threads are modes.
LEMMA ModeIsTyped ==
  ASSUME TypeOK, NEW t \in Threads
  PROVE  /\ th[t].mode \in Modes \cup {NoMode} /\ th[t].ok \in BOOLEAN
         /\ th[t].st \in States402 /\ th[t].sw \in SUBSET StatusBits
         /\ th[t].pc \in Pcs /\ th[t].next \in {"idle", "write", "read", "off"}
BY DEF TypeOK, Locals

\* A step of switchMode.
LEMMA ModeTypes ==
  ASSUME TypeOK, NEW t \in Threads, SwitchMode(t), SameSituation
  PROVE  TypeOK'
<1>0. th \in [Threads -> Locals] /\ th[t].mode \in Modes \cup {NoMode} /\ th[t].ok \in BOOLEAN
  BY ModeIsTyped DEF TypeOK
<1>1. th' \in [Threads -> Locals]
  <2>1. CASE ModeCheck(t)
    BY <1>0, <2>1, SwitchedMoves, EnterMoves DEF ModeCheck, Others
  <2>2. CASE ModePre(t)
    BY <1>0, <2>2, SwitchedMoves, GotoMoves, PcNames DEF ModePre, Others
  <2>3. CASE ModeSet(t)
    BY <1>0, <2>3, SwitchedMoves, GotoMoves, PcNames DEF ModeSet, Others
  <2>4. CASE ModeWait(t)
    BY <1>0, <2>4, SwitchedMoves, EnterMoves DEF ModeWait, Others
  <2>5. CASE ModePost(t)
    <3>1. (th[t].ok /\ th[t].phase = "post") \in BOOLEAN
      BY <1>0
    <3> QED
      BY <1>0, <2>5, <3>1, SwitchedMoves DEF ModePost, Others
  <2>6. CASE ModeNone(t)
    BY <1>0, <2>6, EnterMoves, DoneMoves DEF ModeNone, Others
  <2> QED
    BY <2>1, <2>2, <2>3, <2>4, <2>5, <2>6 DEF SwitchMode
<1>2. selected' \in Modes \cup {NoMode}
  BY <1>0 DEF TypeOK, SwitchMode, ModeCheck, ModePre, ModeSet, ModeWait, ModePost, ModeNone, modeVars
<1>3. \/ drive' = drive \/ drive' = [drive EXCEPT !.op = th[t].mode]
      \/ drive' = [drive EXCEPT !.op = mode_id] \/ drive' = [drive EXCEPT !.op = NoMode]
  BY DEF SwitchMode, ModeCheck, ModePre, ModeSet, ModeWait, ModePost, ModeNone
<1>4. drive' \in [state : States402, mode : Modes \cup {NoMode}, op : Modes \cup {NoMode},
                  word : SUBSET Bits, reset : BOOLEAN, faults : 0 .. setup'.faults]
  BY <1>0, <1>3 DEF TypeOK, SameSituation
<1>5. hist' = hist \/ hist' = [hist EXCEPT !.silent = 0]
  BY DEF SwitchMode, ModeCheck, ModePre, ModeSet, ModeWait, ModePost, ModeNone
<1>6. hist' \in [edge : BOOLEAN, halted : BOOLEAN, waits : 0 .. 3, silent : 0 .. 2, unseen : BOOLEAN]
  BY <1>5 DEF TypeOK
<1>7. layer' \in LayerState
  <2>1. layer' = layer \/ layer' = Ready
    BY DEF SwitchMode, ModeCheck, ModePre, ModeSet, ModeWait, ModePost, ModeNone
  <2> QED
    BY <2>1 DEF TypeOK, LayerState, Ready, Off
<1>8. UNCHANGED <<setup, homingVars, cwVars, target_state, state, mode_id>>
  BY DEF SwitchMode, ModeCheck, ModePre, ModeSet, ModeWait, ModePost, ModeNone, modeVars
<1> QED
  BY <1>1, <1>2, <1>4, <1>6, <1>7, <1>8 DEF TypeOK, HomingTypeOK, homingVars, cwVars, SameSituation

\* After a halt a thread is done or goes on where the halt came from.
LEMMA HaltEndMoves ==
  ASSUME th \in [Threads -> Locals], NEW t \in Threads, HaltEnd(t)
  PROVE  /\ Others(t)
         /\ th[t].next = "idle" => th'[t] = Fresh("idle")
         /\ th[t].next # "idle" =>
              /\ th'[t].pc = th[t].next /\ th'[t].st = "Unknown" /\ th'[t].next = "idle"
              /\ th'[t].cmd = th[t].cmd /\ th'[t].phase = th[t].phase
              /\ th'[t].mode = th[t].mode /\ th'[t].sw = th[t].sw
<1>1. CASE th[t].next = "idle"
  BY <1>1, DoneMoves DEF HaltEnd
<1>2. CASE th[t].next # "idle"
  <2> DEFINE r == [th[t] EXCEPT !.pc = th[t].next, !.st = "Unknown", !.next = "idle"]
  <2>0. th[t].next \in Pcs /\ "Unknown" \in States402
    BY PcNames DEF Locals, States402
  <2>1. r \in Locals
    BY ZenonT(30), <2>0 DEF Locals
  <2>2. th' = [th EXCEPT ![t] = r]
    BY <1>2 DEF HaltEnd
  <2>3. /\ r.pc = th[t].next /\ r.st = "Unknown" /\ r.next = "idle" /\ r.cmd = th[t].cmd
        /\ r.phase = th[t].phase /\ r.mode = th[t].mode /\ r.sw = th[t].sw
    BY DEF Locals
  <2> HIDE DEF r
  <2> QED
    BY <1>2, <2>1, <2>2, <2>3, Put DEF Others
<1> QED
  BY <1>1, <1>2

LEMMA HaltTypes ==
  ASSUME TypeOK, NEW t \in Threads, Halt(t), SameSituation
  PROVE  TypeOK'
<1>0. th \in [Threads -> Locals] /\ state \in States402
  BY DEF TypeOK
<1>1. th' \in [Threads -> Locals]
  <2>1. CASE HaltRead(t)
    BY <1>0, <2>1, LookMoves, PcNames DEF HaltRead, Others
  <2>2. CASE HaltLock(t)
    BY <1>0, <2>2, GotoMoves, PcNames DEF HaltLock, Others
  <2>3. CASE HaltEnd(t)
    BY <1>0, <2>3, HaltEndMoves DEF Others
  <2> QED
    BY <2>1, <2>2, <2>3 DEF Halt
<1>2. target_state' \in States402 /\ control_word' \subseteq Bits
  <2>1. th[t].st \in States402
    BY ModeIsTyped
  <2>2. CASE HaltLock(t)
    BY <2>1, <2>2 DEF HaltLock, HaltCommand, Apply, quickstop, Op, Bits, TypeOK, States402
  <2>3. CASE HaltRead(t) \/ HaltEnd(t)
    BY <2>3 DEF HaltRead, HaltEnd, TypeOK, cwVars
  <2> QED
    BY <2>2, <2>3 DEF Halt
<1>3. layer' \in LayerState
  BY DEF TypeOK, Halt, HaltRead, HaltLock, HaltEnd, LayerState, Off, Ready, ErrorState
<1>4. hist' = hist \/ hist' = [hist EXCEPT !.halted = TRUE]
  BY DEF Halt, HaltRead, HaltLock, HaltEnd
<1>5. hist' \in [edge : BOOLEAN, halted : BOOLEAN, waits : 0 .. 3, silent : 0 .. 2, unseen : BOOLEAN]
  BY <1>4 DEF TypeOK
<1>6. UNCHANGED <<setup, homingVars, out, start_fault_reset, state, modeVars, drive>>
  BY DEF Halt, HaltRead, HaltLock, HaltEnd, cwVars
<1> QED
  BY <1>1, <1>2, <1>3, <1>5, <1>6 DEF TypeOK, HomingTypeOK, homingVars, modeVars, SameSituation

\* The master makes a state of any status word.
LEMMA WordsAreDecoded == ASSUME NEW sw PROVE Decode(sw) \in States402
BY DEF Decode, States402

\* A thread has read the drive's status word or its mode.
LEMMA ReadMoves ==
  ASSUME TypeOK, NEW t \in Threads, NEW to \in Pcs, ReadState(t, to) \/ ReadMode(t, to)
  PROVE  /\ Others(t)
         /\ th'[t].pc = to /\ th'[t].cmd = th[t].cmd /\ th'[t].phase = th[t].phase
         /\ th'[t].mode = th[t].mode /\ th'[t].next = th[t].next
         /\ ReadState(t, to) => th'[t].sw = IF InHoming THEN homer.status ELSE {}
         /\ UNCHANGED <<setup, layer>>
<1> DEFINE bits == IF InHoming THEN homer.status ELSE {}
<1>0. th \in [Threads -> Locals] /\ bits \in SUBSET StatusBits /\ {} \in SUBSET StatusBits
  BY DEF TypeOK, HomingTypeOK
<1>1. bits = IF InHoming THEN homer.status ELSE {}
  OBVIOUS
<1>2. ReadState(t, to) => th' = [th EXCEPT ![t].pc = to, ![t].sw = bits]
  BY DEF ReadState
<1> HIDE DEF bits
<1>3. CASE ReadState(t, to)
  <2>1. th' = [th EXCEPT ![t].pc = to, ![t].sw = bits]
    BY <1>2, <1>3
  <2>2. /\ Others(t)
        /\ th'[t].pc = to /\ th'[t].cmd = th[t].cmd /\ th'[t].phase = th[t].phase
        /\ th'[t].mode = th[t].mode /\ th'[t].next = th[t].next
    BY <1>0, <2>1, BitsMove
  <2>3. th'[t].sw = bits
    BY <1>0, <2>1 DEF Locals
  <2> QED
    BY <1>1, <1>3, <2>2, <2>3 DEF ReadState
<1>4. CASE ReadMode(t, to) /\ ~ReadState(t, to)
  <2>1. th' = [th EXCEPT ![t].pc = to, ![t].sw = {}]
    BY <1>4 DEF ReadMode
  <2>2. /\ Others(t)
        /\ th'[t].pc = to /\ th'[t].cmd = th[t].cmd /\ th'[t].phase = th[t].phase
        /\ th'[t].mode = th[t].mode /\ th'[t].next = th[t].next
    BY <1>0, <2>1, BitsMove
  <2> QED
    BY <1>4, <2>2 DEF ReadMode
<1> QED
  BY <1>3, <1>4

LEMMA ReadersMove ==
  ASSUME TypeOK
  PROVE  /\ RunRead \/ RunMode =>
              Others("run") /\ th'["run"].pc \in {"mode", "write"} /\ UNCHANGED <<setup, layer>>
         /\ InitRead \/ InitMode =>
              /\ Others("svc") /\ th'["svc"].pc \in {"initMode", "initReset"}
              /\ th'["svc"].cmd = th["svc"].cmd /\ th'["svc"].phase = th["svc"].phase
              /\ th'["svc"].next = th["svc"].next /\ UNCHANGED <<setup, layer>>
<1>1. "run" \in Threads /\ "svc" \in Threads
  BY ThreadNames
<1>2. "mode" \in Pcs /\ "write" \in Pcs /\ "initMode" \in Pcs /\ "initReset" \in Pcs
  BY PcNames
<1> QED
  BY <1>1, <1>2, ReadMoves DEF RunRead, RunMode, InitRead, InitMode

LEMMA ReadTypes ==
  ASSUME TypeOK, NEW t \in Threads, NEW to \in Pcs, ReadState(t, to) \/ ReadMode(t, to), SameSituation
  PROVE  TypeOK'
<1>0. th \in [Threads -> Locals] /\ th[t].sw \in SUBSET StatusBits /\ homer.status \in SUBSET StatusBits
  BY ModeIsTyped DEF TypeOK, HomingTypeOK
<1>1. CASE ReadState(t, to)
  <2>1. th' \in [Threads -> Locals]
    BY <1>1, ReadMoves DEF Others
  <2>2. state' \in States402
    BY <1>1, WordsAreDecoded DEF ReadState
  <2> QED
    BY <1>1, <2>1, <2>2 DEF ReadState, TypeOK, HomingTypeOK, homingVars, cwVars, modeVars, SameSituation
<1>2. CASE ReadMode(t, to)
  <2>1. th' \in [Threads -> Locals]
    BY <1>2, ReadMoves DEF Others
  <2>2. mode_id' \in Modes \cup {NoMode} /\ HomingTypeOK'
    BY <1>0, <1>2 DEF ReadMode, read, TypeOK, HomingTypeOK, homingVars
  <2> QED
    BY <1>2, <2>1, <2>2 DEF ReadMode, TypeOK, cwVars, SameSituation
<1> QED
  BY <1>1, <1>2

\* A control word keeps to its bits.
LEMMA WriteTypes ==
  ASSUME TypeOK, Write
  PROVE  control_word' \subseteq Bits /\ out' \subseteq Bits /\ start_fault_reset' = FALSE
<1>1. PICK okay \in BOOLEAN :
        LET handled == state = "Operation_Enable" /\ selected # NoMode /\ selected = mode_id
            homes   == handled /\ selected = setup.homing
            word    == CASE homes                         -> write(control_word)
                         [] state = "Operation_Enable" /\ ~homes -> control_word \ {"Start"}
                         [] OTHER                         -> control_word
            cw      == IF handled /\ okay THEN word \ {"Halt"} ELSE word \cup {"Halt"}
        IN
        /\ control_word' = cw
        /\ out' = IF start_fault_reset THEN cw \ {"Fault_Reset"} ELSE cw
        /\ start_fault_reset' = FALSE
  BY DEF Write
<1>2. write(control_word) \subseteq Bits
  BY DEF write, TypeOK, Bits
<1>3. control_word' \subseteq Bits
  BY <1>1, <1>2 DEF TypeOK, Bits
<1> QED
  BY <1>1, <1>3

LEMMA RunFailsMoves ==
  ASSUME TypeOK, RunFails
  PROVE  /\ Others("run")
         /\ th'["run"].pc = "haltRead" /\ th'["run"].next \in {"write", "read"}
         /\ (th'["run"].next = "write") = (th["run"].pc = "write")
         /\ th'["run"].cmd = th["run"].cmd /\ th'["run"].sw = th["run"].sw
<1> DEFINE n == IF th["run"].pc = "write" THEN "write" ELSE "read"
           r == [th["run"] EXCEPT !.pc = "haltRead", !.next = n]
<1>1. th \in [Threads -> Locals] /\ "run" \in Threads
  BY ThreadNames DEF TypeOK
<1>2. "haltRead" \in Pcs
  BY PcNames
<1>3. r \in Locals
  <2>1. n \in {"idle", "write", "read", "off"}
    OBVIOUS
  <2> HIDE DEF n
  <2> QED
    BY <1>1, <1>2, <2>1 DEF Locals
<1>4. th' = [th EXCEPT !["run"] = r]
  BY <1>1 DEF RunFails
<1>5. r.pc = "haltRead" /\ r.next = n /\ r.cmd = th["run"].cmd /\ r.sw = th["run"].sw
  BY <1>1 DEF Locals
<1> HIDE DEF r
<1> QED
  BY <1>1, <1>3, <1>4, <1>5, Put DEF Others

LEMMA RunTypes ==
  ASSUME TypeOK, Run, SameSituation
  PROVE  TypeOK'
<1>0. "run" \in Threads /\ th \in [Threads -> Locals]
  BY ThreadNames DEF TypeOK
<1>1. CASE RunRead \/ RunMode
  <2>1. "mode" \in Pcs /\ "write" \in Pcs
    BY PcNames
  <2> QED
    BY <1>0, <1>1, <2>1, ReadTypes DEF RunRead, RunMode
<1>2. CASE Halt("run")
  BY <1>0, <1>2, HaltTypes
<1>3. CASE RunFails
  <2>1. th' \in [Threads -> Locals]
    BY <1>3, RunFailsMoves DEF Others
  <2> QED
    BY <1>3, <2>1 DEF RunFails, TypeOK, HomingTypeOK, homingVars, cwVars, modeVars, SameSituation,
       LayerState, Off, Ready, HaltState
<1>4. CASE RunWrite
  <2>1. th' \in [Threads -> Locals]
    BY <1>0, <1>4, GotoMoves, PcNames DEF RunWrite, Others
  <2>2. control_word' \subseteq Bits /\ out' \subseteq Bits /\ start_fault_reset' \in BOOLEAN
    BY <1>4, WriteTypes DEF RunWrite, TypeOK, cwVars
  <2> QED
    BY <1>4, <2>1, <2>2 DEF RunWrite, TypeOK, HomingTypeOK, homingVars, modeVars, SameSituation
<1>5. CASE RunSend
  <2>1. th' \in [Threads -> Locals]
    BY <1>0, <1>5, GotoMoves, PcNames DEF RunSend, Others
  <2>2. PICK seen \in BOOLEAN : drive' = [drive EXCEPT !.word = out, !.reset = seen]
    <3>1. drive.reset \in BOOLEAN
      BY DEF TypeOK
    <3> QED
      BY <1>5, <3>1 DEF RunSend
  <2>3. drive' \in [state : States402, mode : Modes \cup {NoMode}, op : Modes \cup {NoMode},
                    word : SUBSET Bits, reset : BOOLEAN, faults : 0 .. setup'.faults]
    BY <2>2 DEF TypeOK, SameSituation
  <2>4. HomingTypeOK'
    <3>1. \A b \in BOOLEAN : [homer EXCEPT !.seen = b] \in [status : SUBSET StatusBits, seen : BOOLEAN]
      BY DEF TypeOK, HomingTypeOK
    <3>2. ("Start" \in out /\ ("Start" \notin drive.word \/ homer.seen)) \in BOOLEAN
      BY DEF TypeOK, HomingTypeOK
    <3>3. homer' = homer \/ \E b \in BOOLEAN : homer' = [homer EXCEPT !.seen = b]
      BY <1>5, <3>2 DEF RunSend, SeesStart
    <3>4. UNCHANGED <<execute, status>>
      BY <1>5 DEF RunSend
    <3> QED
      BY <3>1, <3>3, <3>4 DEF TypeOK, HomingTypeOK
  <2>5. PICK e \in BOOLEAN, w \in 0 .. 3, s \in 0 .. 2 :
          hist' = [hist EXCEPT !.edge = e, !.waits = w, !.silent = s]
    <3> DEFINE Up(n, k) == IF n < k THEN n + 1 ELSE n
    <3>1. /\ hist.edge \in BOOLEAN /\ hist.waits \in 0 .. 3 /\ hist.silent \in 0 .. 2
          /\ Up(hist.waits, 3) \in 0 .. 3 /\ Up(hist.silent, 2) \in 0 .. 2 /\ 0 \in 0 .. 2
      BY DEF TypeOK
    <3> QED
      BY <1>5, <3>1 DEF RunSend
  <2>6. hist' \in [edge : BOOLEAN, halted : BOOLEAN, waits : 0 .. 3, silent : 0 .. 2, unseen : BOOLEAN]
    BY <2>5 DEF TypeOK
  <2> QED
    BY <1>5, <2>1, <2>3, <2>4, <2>6 DEF RunSend, TypeOK, cwVars, modeVars, SameSituation
<1> QED
  BY <1>1, <1>2, <1>3, <1>4, <1>5 DEF Run

HistTyped == hist \in [edge : BOOLEAN, halted : BOOLEAN, waits : 0 .. 3, silent : 0 .. 2,
                       unseen : BOOLEAN]

LEMMA ForgetTypes == ASSUME TypeOK, ForgetCall PROVE HistTyped'
<1>1. hist' = [edge |-> FALSE, halted |-> FALSE, waits |-> 0, silent |-> hist.silent, unseen |-> FALSE]
  BY DEF ForgetCall, NoHist
<1>2. hist.silent \in 0 .. 2 /\ 0 \in 0 .. 3
  BY DEF TypeOK
<1> QED
  BY <1>1, <1>2 DEF HistTyped

\* init ends in a failure and the motor is shut down.
FailsTo(t) == th' = [th EXCEPT ![t].pc = "off", ![t].cmd = "shutdown"]

LEMMA FailsMove ==
  ASSUME th \in [Threads -> Locals], NEW t \in Threads, FailsTo(t)
  PROVE  /\ Others(t)
         /\ th'[t].pc = "off" /\ th'[t].cmd = "shutdown" /\ th'[t].phase = th[t].phase
         /\ th'[t].mode = th[t].mode /\ th'[t].next = th[t].next
<1> DEFINE r == [th[t] EXCEPT !.pc = "off", !.cmd = "shutdown"]
<1>0. "off" \in Pcs
  BY PcNames
<1>1. r \in Locals
  BY ZenonT(30), <1>0 DEF Locals
<1>2. th' = [th EXCEPT ![t] = r]
  BY DEF FailsTo
<1>3. /\ r.pc = "off" /\ r.cmd = "shutdown" /\ r.phase = th[t].phase
      /\ r.mode = th[t].mode /\ r.next = th[t].next
  BY DEF Locals
<1> HIDE DEF r
<1> QED
  BY <1>1, <1>2, <1>3, Put DEF Others

\* The ends of init's enabling: shut down, on to homing, or ready.
LEMMA InitEnabledMoves ==
  ASSUME TypeOK, InitEnabled
  PROVE  /\ Others("svc")
         /\ \/ /\ ~th["svc"].ok /\ UNCHANGED <<layer, homingVars>>
               /\ th'["svc"].pc = "off" /\ th'["svc"].cmd = "shutdown"
               /\ th'["svc"].phase = "enable" /\ th'["svc"].next = th["svc"].next
            \/ /\ th["svc"].ok /\ setup.homing # NoMode /\ start /\ UNCHANGED <<layer, homer>>
               /\ th'["svc"].pc = "smCheck" /\ th'["svc"].mode = setup.homing
               /\ th'["svc"].cmd = "init" /\ th'["svc"].phase = "enable"
               /\ th'["svc"].next = th["svc"].next
            \/ /\ setup.homing = NoMode /\ layer' = Ready /\ UNCHANGED homingVars
               /\ th'["svc"] = Fresh("idle")
<1>0. "svc" \in Threads /\ th \in [Threads -> Locals] /\ setup.homing \in Modes \cup {NoMode}
      /\ th["svc"].phase = "enable" /\ th["svc"].cmd = "init"
  BY ThreadNames DEF TypeOK, InitEnabled, Situations
<1>1. CASE ~th["svc"].ok /\ FailsTo("svc") /\ UNCHANGED <<layer, homingVars>>
  BY <1>0, <1>1, FailsMove
<1>2. CASE /\ th["svc"].ok /\ setup.homing # NoMode
           /\ th' = [th EXCEPT !["svc"].pc = "smCheck", !["svc"].mode = setup.homing]
           /\ start /\ UNCHANGED <<layer, homer>>
  <2> DEFINE r == [th["svc"] EXCEPT !.pc = "smCheck", !.mode = setup.homing]
  <2>0. "smCheck" \in Pcs
    BY PcNames
  <2>1. r \in Locals
    BY ZenonT(30), <1>0, <2>0 DEF Locals
  <2>2. th' = [th EXCEPT !["svc"] = r]
    BY <1>0, <1>2
  <2>3. /\ r.pc = "smCheck" /\ r.mode = setup.homing /\ r.cmd = "init" /\ r.phase = "enable"
        /\ r.next = th["svc"].next
    BY <1>0 DEF Locals
  <2> HIDE DEF r
  <2> QED
    BY <1>0, <1>2, <2>1, <2>2, <2>3, Put DEF Others
<1>3. CASE th["svc"].ok /\ setup.homing = NoMode /\ Done("svc") /\ layer' = Ready /\ UNCHANGED homingVars
  BY <1>0, <1>3, DoneMoves
<1> QED
  BY <1>1, <1>2, <1>3 DEF InitEnabled, FailsTo

\* The moves of executeHoming.
LEMMA InitHomedMoves ==
  ASSUME TypeOK, InitHomed
  PROVE  /\ Others("svc")
         /\ th'["svc"].mode = th["svc"].mode /\ th'["svc"].next = th["svc"].next
         /\ \/ /\ th["svc"].pc = "homing" /\ UNCHANGED homingVars
               /\ th'["svc"].pc \in {"prepare", "smNone"}
               /\ th'["svc"].cmd = th["svc"].cmd /\ th'["svc"].phase = th["svc"].phase
            \/ /\ th["svc"].pc \in {"prepare", "start", "attain"} /\ Waited(th["svc"].pc)
               /\ th'["svc"].pc = Following[th["svc"].pc]
               /\ th'["svc"].cmd = th["svc"].cmd /\ th'["svc"].phase = th["svc"].phase
            \/ /\ th["svc"].pc = "stop" /\ Homed
               /\ execute' = FALSE /\ UNCHANGED <<status, homer>>
               /\ th'["svc"].pc = "smNone" /\ th'["svc"].phase = "homed"
               /\ th'["svc"].cmd = th["svc"].cmd
            \/ /\ th["svc"].pc \in {"homing"} \cup Waits /\ HomingError
               /\ th'["svc"].pc = "off" /\ th'["svc"].cmd = "shutdown"
               /\ th'["svc"].phase = th["svc"].phase
<1>0. "svc" \in Threads /\ th \in [Threads -> Locals]
  BY ThreadNames DEF TypeOK
<1>1. CASE th["svc"].pc \in {"homing"} \cup Waits /\ HomingError /\ FailsTo("svc")
  BY <1>0, <1>1, FailsMove
<1>2. CASE /\ th["svc"].pc = "homing" /\ UNCHANGED homingVars
           /\ Goto("svc", IF setup.method THEN "prepare" ELSE "smNone")
  BY <1>0, <1>2, GotoMoves, PcNames
<1>3. ASSUME NEW wait \in {"prepare", "start", "attain"}, th["svc"].pc = wait, Waited(wait),
             Goto("svc", Following[wait])
      PROVE  /\ Others("svc")
             /\ th'["svc"].mode = th["svc"].mode /\ th'["svc"].next = th["svc"].next
             /\ th'["svc"].pc = Following[th["svc"].pc]
             /\ th'["svc"].cmd = th["svc"].cmd /\ th'["svc"].phase = th["svc"].phase
  <2>1. Following[wait] \in Pcs
    BY PcNames DEF Following
  <2> QED
    BY <1>0, <1>3, <2>1, GotoMoves
<1>4. CASE /\ th["svc"].pc = "stop" /\ Homed
           /\ execute' = FALSE /\ UNCHANGED <<status, homer>>
           /\ th' = [th EXCEPT !["svc"].pc = "smNone", !["svc"].phase = "homed"]
  <2> DEFINE r == [th["svc"] EXCEPT !.pc = "smNone", !.phase = "homed"]
  <2>0. "smNone" \in Pcs
    BY PcNames
  <2>1. r \in Locals
    BY ZenonT(30), <1>0, <2>0 DEF Locals
  <2>2. th' = [th EXCEPT !["svc"] = r]
    BY <1>0, <1>4
  <2>3. /\ r.pc = "smNone" /\ r.phase = "homed" /\ r.cmd = th["svc"].cmd
        /\ r.mode = th["svc"].mode /\ r.next = th["svc"].next
    BY <1>0 DEF Locals
  <2> HIDE DEF r
  <2> QED
    BY <1>0, <1>4, <2>1, <2>2, <2>3, Put DEF Others
<1>5. CASE HomingBegin
  BY <1>1, <1>2, <1>5 DEF HomingBegin, HomingFails, FailsTo
<1>6. CASE HomingWait
  <2>1. PICK wait \in Waits :
          /\ th["svc"].pc = wait
          /\ \/ wait # "stop" /\ Waited(wait) /\ Goto("svc", Following[wait])
             \/ HomingFails
             \/ /\ wait = "stop" /\ Homed
                /\ execute' = FALSE /\ UNCHANGED <<status, homer>>
                /\ th' = [th EXCEPT !["svc"].pc = "smNone", !["svc"].phase = "homed"]
    BY <1>6 DEF HomingWait
  <2>2. CASE wait # "stop" /\ Waited(wait) /\ Goto("svc", Following[wait])
    <3>1. wait \in {"prepare", "start", "attain"}
      BY <2>2 DEF Waits
    <3> QED
      BY <1>3, <2>1, <2>2, <3>1
  <2>3. CASE HomingFails
    BY <1>1, <2>1, <2>3 DEF HomingFails, FailsTo
  <2> QED
    BY <1>4, <2>1, <2>2, <2>3
<1> QED
  BY <1>5, <1>6 DEF InitHomed

LEMMA RecoverDoneMoves ==
  ASSUME TypeOK, RecoverDone
  PROVE  /\ Others("svc")
         /\ th'["svc"].pc \in {"idle", "haltRead"}
         /\ th'["svc"].pc = "idle" => th'["svc"] = Fresh("idle")
         /\ th'["svc"].pc = "haltRead" =>
              /\ th'["svc"].cmd = "recover" /\ th'["svc"].phase = th["svc"].phase
              /\ th'["svc"].next = th["svc"].next /\ layer' = HaltState
         /\ layer' \in {Ready, HaltState, layer}
<1>0. "svc" \in Threads /\ th \in [Threads -> Locals] /\ th["svc"].cmd = "recover"
  BY ThreadNames DEF TypeOK, RecoverDone
<1>1. CASE Done("svc") /\ layer' \in {Ready, layer}
  BY <1>0, <1>1, DoneMoves
<1>2. CASE layer' = HaltState /\ Goto("svc", "haltRead")
  BY <1>0, <1>2, GotoMoves, PcNames
<1> QED
  BY <1>1, <1>2 DEF RecoverDone

LEMMA SvcTypes ==
  ASSUME TypeOK, Svc, SameSituation
  PROVE  TypeOK'
<1>0. "svc" \in Threads /\ th \in [Threads -> Locals]
  BY ThreadNames DEF TypeOK
<1>1. CASE InitRead \/ InitMode
  <2>1. "initMode" \in Pcs /\ "initReset" \in Pcs
    BY PcNames
  <2> QED
    BY <1>0, <1>1, <2>1, ReadTypes DEF InitRead, InitMode
<1>2. CASE SwitchState("svc") \/ SwitchMode("svc") \/ Halt("svc")
  BY <1>0, <1>2, SwitchTypes, ModeTypes, HaltTypes DEF SameSituation
<1>3. CASE InitReset
  <2>1. th' \in [Threads -> Locals]
    BY <1>0, <1>3, EnterMoves DEF InitReset, Others
  <2> QED
    BY <1>3, <2>1 DEF InitReset, TypeOK, HomingTypeOK, homingVars, modeVars, SameSituation
<1>4. CASE InitEnabled
  <2>1. th' \in [Threads -> Locals]
    BY <1>4, InitEnabledMoves DEF Others
  <2>2. HomingTypeOK' /\ layer' \in LayerState
    <3>1. UNCHANGED homingVars \/ (execute' = FALSE /\ status' = {} /\ homer' = homer)
      BY <1>4, InitEnabledMoves DEF start
    <3>2. layer' = layer \/ layer' = Ready
      BY <1>4, InitEnabledMoves
    <3>3. HomingTypeOK'
      BY <3>1 DEF homingVars, TypeOK, HomingTypeOK
    <3> QED
      BY <3>2, <3>3 DEF TypeOK, LayerState, Off, Ready
  <2>3. HistTyped'
    BY <1>4, ForgetTypes DEF InitEnabled
  <2> QED
    BY <1>4, <2>1, <2>2, <2>3 DEF InitEnabled, TypeOK, HistTyped, cwVars, modeVars, SameSituation
<1>5. CASE InitHomed
  <2>1. th' \in [Threads -> Locals]
    BY <1>5, InitHomedMoves DEF Others
  <2>2. HomingTypeOK'
    BY <1>5, InitHomedMoves DEF Waited, HomingError, homingVars, TypeOK, HomingTypeOK
  <2>3. \E b \in BOOLEAN : hist' = [hist EXCEPT !.unseen = b]
    BY <1>5 DEF InitHomed, TypeOK
  <2>4. HistTyped'
    BY <2>3 DEF HistTyped, TypeOK
  <2> QED
    BY <1>5, <2>1, <2>2, <2>4 DEF InitHomed, TypeOK, HistTyped, cwVars, modeVars, SameSituation
<1>6. CASE RecoverDone
  <2>1. th' \in [Threads -> Locals]
    BY <1>6, RecoverDoneMoves DEF Others
  <2>2. layer' \in LayerState
    BY <1>6, RecoverDoneMoves DEF TypeOK, LayerState, Off, Ready, HaltState
  <2>3. HistTyped'
    BY <1>6, ForgetTypes DEF RecoverDone
  <2> QED
    BY <1>6, <2>1, <2>2, <2>3 DEF RecoverDone, TypeOK, HomingTypeOK, homingVars, HistTyped, cwVars, modeVars, SameSituation
<1>7. CASE ShutdownBegin
  <2>1. th' \in [Threads -> Locals]
    BY <1>0, <1>7, GotoMoves, PcNames DEF ShutdownBegin, Others
  <2> QED
    BY <1>7, <2>1 DEF ShutdownBegin, TypeOK, HomingTypeOK, homingVars, cwVars, modeVars, SameSituation,
       LayerState, Off, Ready, Shutdown
<1>8. CASE ShutdownEnd
  <2>1. th' \in [Threads -> Locals]
    BY <1>0, <1>8, DoneMoves DEF ShutdownEnd, Others
  <2>2. HistTyped'
    BY <1>8, ForgetTypes DEF ShutdownEnd
  <2> QED
    BY <1>8, <2>1, <2>2 DEF ShutdownEnd, TypeOK, HomingTypeOK, homingVars, HistTyped, cwVars, modeVars, SameSituation,
       LayerState, Off, Ready
<1> QED
  BY <1>1, <1>2, <1>3, <1>4, <1>5, <1>6, <1>7, <1>8 DEF Svc

\* init begins: the chain starts another run thread.
LEMMA CallInitMoves ==
  ASSUME TypeOK, CallInit
  PROVE  /\ th' \in [Threads -> Locals]
         /\ \A u \in Threads : u \notin {"run", "svc"} => th'[u] = th[u]
         /\ th'["run"] = Fresh("read")
         /\ th'["svc"].pc = "initRead" /\ th'["svc"].cmd = "init"
         /\ th'["svc"].phase = "none" /\ th'["svc"].next = "idle" /\ th'["svc"].mode = NoMode
<1> DEFINE f == Fresh("read")
           i == Fresh("initRead")
           r == [i EXCEPT !.cmd = "init"]
<1>0. /\ "svc" \in Threads /\ "run" \in Threads /\ th \in [Threads -> Locals]
      /\ "read" \in Pcs /\ "initRead" \in Pcs
  BY ThreadNames, PcNames DEF TypeOK
<1>1. f \in Locals
  BY <1>0, FreshIsTyped
<1>2. /\ i \in Locals /\ i.pc = "initRead" /\ i.phase = "none" /\ i.next = "idle"
      /\ i.mode = NoMode
  BY <1>0, FreshIsTyped
<1>3. th' = [th EXCEPT !["run"] = f, !["svc"] = r]
  BY DEF CallInit
<1> HIDE DEF f, i
<1>4. /\ r \in Locals /\ r.pc = "initRead" /\ r.cmd = "init" /\ r.phase = "none" /\ r.next = "idle"
      /\ r.mode = NoMode
  BY <1>2 DEF Locals
<1> HIDE DEF r
<1>5. /\ th' \in [Threads -> Locals] /\ th'["run"] = f /\ th'["svc"] = r
      /\ \A u \in Threads : u \notin {"run", "svc"} => th'[u] = th[u]
  BY <1>0, <1>1, <1>3, <1>4
<1> QED
  BY <1>4, <1>5 DEF f

LEMMA CallRecoverMoves ==
  ASSUME TypeOK, CallRecover
  PROVE  /\ Others("svc")
         /\ th'["svc"].pc = "get" /\ th'["svc"].cmd = "recover"
         /\ th'["svc"].phase = "enable" /\ th'["svc"].next = "idle"
<1> DEFINE i == Fresh("get")
           r == [i EXCEPT !.cmd = "recover", !.phase = "enable"]
<1>0. "svc" \in Threads /\ th \in [Threads -> Locals] /\ "get" \in Pcs
  BY ThreadNames, PcNames DEF TypeOK
<1>1. i \in Locals /\ i.pc = "get" /\ i.next = "idle"
  BY <1>0, FreshIsTyped
<1>2. th' = [th EXCEPT !["svc"] = r]
  BY DEF CallRecover
<1> HIDE DEF i
<1>3. r \in Locals /\ r.pc = "get" /\ r.cmd = "recover" /\ r.phase = "enable" /\ r.next = "idle"
  BY <1>1 DEF Locals
<1> HIDE DEF r
<1> QED
  BY <1>0, <1>2, <1>3, Put DEF Others

LEMMA CallsTypes ==
  ASSUME TypeOK, Calls, SameSituation, setup' \in Situations
  PROVE  TypeOK'
<1>0. /\ "svc" \in Threads /\ th \in [Threads -> Locals] /\ (setup.app => "app" \in Threads)
      /\ layer' \in LayerState
  BY ThreadNames DEF TypeOK, Calls, CallInit, CallRecover, CallHalt, CallShutdown, CallEnterMode,
     CallLeaveMode, LayerState, Off, Ready, InitState, HaltState, Recover
<1>1. th' \in [Threads -> Locals]
  <2>1. CASE CallInit
    BY <2>1, CallInitMoves
  <2>2. CASE CallRecover
    BY <2>2, CallRecoverMoves DEF Others
  <2>3. CASE CallHalt \/ CallShutdown
    <3>1. "haltRead" \in Pcs /\ "off" \in Pcs
      BY PcNames
    <3> QED
      BY <1>0, <2>3, <3>1, CallMoves DEF CallHalt, CallShutdown, Others
  <2>4. CASE CallEnterMode \/ CallLeaveMode
    <3>1. "smCheck" \in Pcs /\ "smNone" \in Pcs
      BY PcNames
    <3> QED
      BY <1>0, <2>4, <3>1, CallMoves DEF CallEnterMode, CallLeaveMode, Others
  <2> QED
    BY <2>1, <2>2, <2>3, <2>4 DEF Calls
<1>2. start_fault_reset' \in BOOLEAN
  BY DEF TypeOK, Calls, CallInit, CallRecover, CallHalt, CallShutdown, CallEnterMode,
     CallLeaveMode, cwVars
<1>3. UNCHANGED <<homingVars, control_word, out, target_state, state, modeVars, drive, hist>>
  BY DEF Calls, CallInit, CallRecover, CallHalt, CallShutdown, CallEnterMode,
     CallLeaveMode, cwVars
<1> QED
  BY <1>0, <1>1, <1>2, <1>3 DEF TypeOK, HomingTypeOK, homingVars, modeVars, SameSituation

DriveTyped == drive \in [state : States402, mode : Modes \cup {NoMode}, op : Modes \cup {NoMode},
                         word : SUBSET Bits, reset : BOOLEAN, faults : 0 .. setup.faults]

LEMMA DriveTypes ==
  ASSUME TypeOK, Drive, SameSituation
  PROVE  TypeOK'
<1>0. DriveTyped /\ setup.faults \in Nat /\ setup' = setup
  BY DEF TypeOK, DriveTyped, Situations, Drive, DriveMoves, DriveFaults, DriveMode, DriveHoming
<1>1. DriveTyped'
  <2>1. CASE DriveMoves
    <3>1. PICK d \in States402 : drive' = [drive EXCEPT !.state = d, !.reset = FALSE]
      BY <2>1 DEF DriveMoves
    <3> QED
      BY <1>0, <3>1 DEF DriveTyped
  <2>2. CASE DriveFaults
    <3>1. "Fault_Reaction_Active" \in States402 /\ drive.faults + 1 \in 0 .. setup.faults
      BY <1>0, <2>2 DEF DriveFaults, States402, DriveTyped
    <3> QED
      BY <1>0, <2>2, <3>1 DEF DriveFaults, DriveTyped
  <2>3. CASE DriveMode
    BY <1>0, <2>3 DEF DriveMode, DriveTyped
  <2>4. CASE DriveHoming
    BY <1>0, <2>4 DEF DriveHoming, DriveTyped
  <2> QED
    BY <2>1, <2>2, <2>3, <2>4 DEF Drive
<1>2. HomingTypeOK'
  <2>1. CASE DriveMoves \/ DriveFaults
    BY <2>1 DEF DriveMoves, DriveFaults, TypeOK, HomingTypeOK, homingVars
  <2>2. CASE DriveMode
    <3>1. homer' \in [status : SUBSET StatusBits, seen : BOOLEAN]
      <4>1. {"Reached"} \in SUBSET StatusBits /\ Completed \in SUBSET StatusBits
        BY DEF Completed, StatusBits
      <4>2. \E s \in {{"Reached"}, Completed} : homer' = [status |-> s, seen |-> FALSE]
        BY <2>2 DEF DriveMode, EntersHoming, LeavesHoming
      <4> QED
        BY <4>1, <4>2
    <3> QED
      BY <2>2, <3>1 DEF DriveMode, TypeOK, HomingTypeOK
  <2>3. CASE DriveHoming
    <3>1. Moves \subseteq SUBSET StatusBits
      BY DEF Moves, Completed, StatusBits
    <3>2. homer' \in [status : SUBSET StatusBits, seen : BOOLEAN]
      <4>1. CASE \E s \in Moves : homer' = [status |-> s, seen |-> FALSE]
        BY <3>1, <4>1
      <4>2. CASE homer' = [homer EXCEPT !.status = {"Reached"}]
        BY <4>2 DEF TypeOK, HomingTypeOK, StatusBits
      <4> QED
        BY <2>3, <4>1, <4>2 DEF DriveHoming, DriveHomes
    <3> QED
      BY <2>3, <3>2 DEF DriveHoming, DriveHomes, TypeOK, HomingTypeOK
  <2> QED
    BY <2>1, <2>2, <2>3 DEF Drive
<1>3. UNCHANGED <<layer, cwVars, target_state, state, modeVars, th, hist>>
  BY DEF Drive, DriveMoves, DriveFaults, DriveMode, DriveHoming
<1> QED
  BY <1>0, <1>1, <1>2, <1>3 DEF TypeOK, DriveTyped, cwVars, modeVars, SameSituation

LEMMA InitTypes == Init => TypeOK
<1> SUFFICES ASSUME Init PROVE TypeOK
  OBVIOUS
<1>1. setup \in Situations
  BY MotorAssumption DEF Init
<1>2. th \in [Threads -> Locals]
  <2>1. "read" \in Pcs /\ "idle" \in Pcs
    BY PcNames
  <2>2. Fresh("read") \in Locals /\ Fresh("idle") \in Locals
    BY <2>1, FreshIsTyped
  <2> QED
    BY <2>2 DEF Init
<1>3. HomingTypeOK
  BY DEF Init, HomingInit, HomingTypeOK, StatusBits
<1>4. DriveTyped
  BY <1>1 DEF Init, DriveTyped, Situations, States402
<1>5. HistTyped
  BY DEF Init, NoHist, HistTyped
<1>6. layer \in LayerState /\ target_state \in States402 /\ state \in States402
  BY DEF Init, LayerState, Off, Ready, States402
<1>7. /\ control_word \subseteq Bits /\ out \subseteq Bits /\ start_fault_reset \in BOOLEAN
      /\ selected \in Modes \cup {NoMode} /\ mode_id \in Modes \cup {NoMode}
  BY DEF Init
<1> QED
  BY <1>1, <1>2, <1>3, <1>4, <1>5, <1>6, <1>7 DEF TypeOK, DriveTyped, HistTyped

LEMMA NextTypes == ASSUME TypeOK, [Next]_vars PROVE TypeOK'
<1>1. SameSituation /\ setup' \in Situations
  BY SameSetup
<1>2. CASE Run
  BY <1>1, <1>2, RunTypes
<1>3. CASE Svc
  BY <1>1, <1>3, SvcTypes
<1>4. CASE App
  BY <1>1, <1>4, ThreadNames, SwitchTypes, ModeTypes DEF App, SameSituation
<1>5. CASE Calls
  BY <1>1, <1>5, CallsTypes
<1>6. CASE Drive
  BY <1>1, <1>6, DriveTypes
<1>7. CASE UNCHANGED vars
  BY <1>1, <1>7 DEF vars, homingVars, cwVars, modeVars, TypeOK, HomingTypeOK, SameSituation
<1> QED
  BY <1>2, <1>3, <1>4, <1>5, <1>6, <1>7 DEF Next

\* For any modes, situations and drives' faults: the motor's variables keep their types.
THEOREM Motor402Types == Spec => []TypeOK
BY InitTypes, NextTypes, PTL DEF Spec

-------------------------------------------------------------------------------
(* The stages of the services                                              *)

S == th["svc"]
R == th["run"]
USE DEF S, R

HaltPcs == {"haltRead", "haltLock", "haltEnd"}

SwitchOrRet == {"get", "target", "test", "set", "wait", "ret"}

\* Where a thread is between the start of a switchState and the look at its result.
InSwitch(t, phases) == th[t].phase \in phases /\ th[t].pc \in SwitchOrRet

\* The service switches to homing mode or homes.
Homing ==
  \/ S.pc \in {"smCheck", "smSet", "smWait", "homing", "prepare", "start", "attain", "stop"}
  \/ InSwitch("svc", {"pre", "post", "postFail"})

Stages ==
  /\ S.cmd = "init" => layer = InitState /\ R.pc \notin HaltPcs
  /\ S.cmd = "recover" => /\ S.phase = "enable" /\ S.next = "idle"
                          /\ S.pc \in SwitchOrRet \cup HaltPcs
                          /\ "recover" \in setup.services
  /\ InSwitch("svc", {"enable"}) => S.cmd \in {"init", "recover"}
  /\ S.pc \in HaltPcs => S.cmd \in {"recover", "halt", "shutdown"}
  /\ S.pc \in HaltPcs => S.next \in {"idle", "off"}
  /\ S.next = "off" \/ S.pc = "off" => S.cmd = "shutdown"
  /\ Homing => S.cmd = "init" /\ setup.homing # NoMode /\ S.mode = setup.homing
  /\ S.pc \in {"initRead", "initMode", "initReset"} => S.cmd = "init"

LEMMA StagesInit == ASSUME Init PROVE Stages
<1>1. "svc" \in Threads /\ "run" \in Threads
  BY DEF Threads
<1>2. S = Fresh("idle") /\ R = Fresh("read")
  BY <1>1 DEF Init
<1> QED
  BY <1>2 DEF Fresh, Stages, HaltPcs, SwitchOrRet, InSwitch, Homing

\* Steps of others that leave the service and the layer alone.
LEMMA StagesKept ==
  ASSUME Stages, UNCHANGED <<setup, layer>>, S' = S, R'.pc \in HaltPcs => R.pc \in HaltPcs
  PROVE  Stages'
BY DEF Stages, InSwitch, Homing

LEMMA StagesRun ==
  ASSUME TypeOK, Stages, Run
  PROVE  Stages'
<1>0. "run" \in Threads /\ "svc" \in Threads /\ th \in [Threads -> Locals]
  BY ThreadNames DEF TypeOK
<1>1. CASE RunRead \/ RunMode
  <2>1. Others("run") /\ R'.pc \in {"mode", "write"}
    BY <1>1, ReadersMove
  <2>2. S' = S /\ UNCHANGED <<setup, layer>>
    BY <1>0, <1>1, <2>1 DEF Others, RunRead, RunMode, ReadState, ReadMode
  <2> QED
    BY <2>1, <2>2, StagesKept DEF HaltPcs
<1>2. CASE RunWrite \/ RunSend
  <2>1. Others("run") /\ R'.pc \in {"read", "send", "sent"}
    BY <1>0, <1>2, GotoMoves, PcNames DEF RunWrite, RunSend
  <2>2. S' = S /\ UNCHANGED <<setup, layer>>
    BY <1>0, <1>2, <2>1 DEF Others, RunWrite, RunSend
  <2> QED
    BY <2>1, <2>2, StagesKept DEF HaltPcs
<1>3. CASE RunFails
  <2>1. S' = S /\ UNCHANGED setup
    BY <1>0, <1>3, RunFailsMoves DEF RunFails, Others
  <2>2. S.cmd # "init"
    BY <1>3 DEF RunFails, Stages, HaltState, InitState
  <2> QED
    BY <2>1, <2>2 DEF Stages, InSwitch, Homing
<1>4. CASE Halt("run")
  <2>0. R.pc \in HaltPcs
    BY <1>4 DEF Halt, HaltRead, HaltLock, HaltEnd, HaltPcs
  <2>1. Others("run")
    <3>1. CASE HaltRead("run")
      <4>1. "haltLock" \in Pcs /\ state \in States402
        BY PcNames DEF TypeOK
      <4> QED
        BY <1>0, <3>1, <4>1, LookMoves DEF HaltRead
    <3>2. CASE HaltLock("run")
      BY <1>0, <3>2, GotoMoves, PcNames DEF HaltLock
    <3>3. CASE HaltEnd("run")
      BY <1>0, <3>3, HaltEndMoves
    <3> QED
      BY <1>4, <3>1, <3>2, <3>3 DEF Halt
  <2>2. S' = S /\ UNCHANGED setup
    BY <1>0, <1>4, <2>1 DEF Others, Halt, HaltRead, HaltLock, HaltEnd
  <2>3. S.cmd # "init"
    BY <2>0 DEF Stages
  <2> QED
    BY <2>2, <2>3 DEF Stages, InSwitch, Homing
<1> QED
  BY <1>1, <1>2, <1>3, <1>4 DEF Run

\* The service's own steps leave the run thread where it is.
RunStays == R' = R /\ UNCHANGED setup

LEMMA StagesSwitch ==
  ASSUME TypeOK, Stages, SwitchState("svc")
  PROVE  Stages'
<1>0. "run" \in Threads /\ "svc" \in Threads /\ th \in [Threads -> Locals] /\ state \in States402
  BY ThreadNames DEF TypeOK
<1>1. /\ Others("svc") /\ S'.pc \in SwitchOrRet /\ S.pc \in SwitchOrRet
      /\ S'.cmd = S.cmd /\ S'.phase = S.phase /\ S'.mode = S.mode /\ S'.next = S.next
  <2>1. CASE SwitchGet("svc") \/ SwitchWait("svc")
    BY <1>0, <2>1, LookMoves, PcNames DEF SwitchGet, SwitchWait, SwitchOrRet
  <2>2. CASE SwitchTarget("svc") \/ SwitchTest("svc") \/ SwitchSet("svc") \/ SwitchTimeout("svc")
    <3>1. "test" \in Pcs /\ "set" \in Pcs /\ "wait" \in Pcs
      BY PcNames
    <3>2. CASE SwitchTarget("svc")
      BY <1>0, <3>1, <3>2, GotoMoves DEF SwitchTarget, SwitchOrRet
    <3>3. CASE SwitchTest("svc")
      BY <1>0, <3>1, <3>3, GotoMoves, RetMoves DEF SwitchTest, SwitchOrRet
    <3>4. CASE SwitchSet("svc")
      BY <1>0, <3>1, <3>4, GotoMoves, RetMoves DEF SwitchSet, SwitchOrRet
    <3>5. CASE SwitchTimeout("svc")
      BY <1>0, <3>5, RetMoves DEF SwitchTimeout, SwitchOrRet
    <3> QED
      BY <2>2, <3>2, <3>3, <3>4, <3>5
  <2> QED
    BY <2>1, <2>2 DEF SwitchState
<1>2. R' = R /\ UNCHANGED <<setup, layer>>
  BY <1>0, <1>1 DEF Others, SwitchState, SwitchGet, SwitchTarget, SwitchTest, SwitchSet, SwitchWait, SwitchTimeout
<1> QED
  BY <1>1, <1>2 DEF Stages, InSwitch, Homing, SwitchOrRet, HaltPcs

LEMMA StagesMode ==
  ASSUME TypeOK, Stages, SwitchMode("svc")
  PROVE  Stages'
<1>0. "run" \in Threads /\ "svc" \in Threads /\ th \in [Threads -> Locals] /\ S.ok \in BOOLEAN
  BY ThreadNames, ModeIsTyped DEF TypeOK
<1>1. CASE ~ModeNone("svc")
  <2>1. /\ Others("svc") /\ S'.mode = S.mode /\ S'.next = S.next
        /\ \/ S'.pc = "off" /\ S'.cmd = "shutdown" /\ S'.phase = S.phase
           \/ S'.pc \in {"homing", "smSet", "smWait"} /\ S'.cmd = S.cmd /\ S'.phase = S.phase
           \/ S'.pc = "get" /\ S'.phase \in {"pre", "post", "postFail"} /\ S'.cmd = S.cmd
    <3>1. CASE ModeCheck("svc")
      BY <1>0, <3>1, SwitchedMoves, EnterMoves DEF ModeCheck
    <3>2. CASE ModePre("svc")
      <4>1. CASE Goto("svc", "smSet")
        BY <1>0, <4>1, GotoMoves, PcNames
      <4>2. CASE Switched("svc", FALSE)
        BY <1>0, <4>2, SwitchedMoves
      <4> QED
        BY <3>2, <4>1, <4>2 DEF ModePre
    <3>3. CASE ModeSet("svc")
      <4>1. CASE Goto("svc", "smWait")
        BY <1>0, <4>1, GotoMoves, PcNames
      <4>2. CASE Switched("svc", FALSE)
        BY <1>0, <4>2, SwitchedMoves
      <4> QED
        BY <3>3, <4>1, <4>2 DEF ModeSet
    <3>4. CASE ModeWait("svc")
      BY <1>0, <3>4, SwitchedMoves, EnterMoves DEF ModeWait
    <3>5. CASE ModePost("svc")
      <4>1. (S.ok /\ S.phase = "post") \in BOOLEAN
        BY <1>0
      <4> QED
        BY <1>0, <3>5, <4>1, SwitchedMoves DEF ModePost
    <3> QED
      BY <1>1, <3>1, <3>2, <3>3, <3>4, <3>5 DEF SwitchMode
  <2>2. /\ R' = R /\ UNCHANGED <<setup, layer>>
    BY <1>0, <1>1, <2>1 DEF Others, SwitchMode, ModeCheck, ModePre, ModeSet, ModeWait, ModePost
  <2>3. Homing
    BY <1>1 DEF SwitchMode, ModeCheck, ModePre, ModeSet, ModeWait, ModePost, Homing, InSwitch, SwitchOrRet
  <2> QED
    BY <2>1, <2>2, <2>3 DEF Stages, InSwitch, Homing, SwitchOrRet, HaltPcs
<1>2. CASE ModeNone("svc")
  <2>1. CASE S.cmd = "shutdown"
    <3>1. /\ Others("svc") /\ S'.pc = "get" /\ S'.phase = "sd" /\ S'.cmd = "shutdown"
      BY <1>0, <1>2, <2>1, EnterMoves DEF ModeNone
    <3> QED
      BY <3>1 DEF Stages, InSwitch, Homing, SwitchOrRet, HaltPcs
  <2>2. CASE S.cmd # "shutdown"
    <3>1. /\ Others("svc") /\ S'.pc = "idle" /\ S'.phase = "none" /\ S'.cmd = "none" /\ S'.next = "idle"
      BY <1>0, <1>2, <2>2, DoneMoves DEF ModeNone
    <3> QED
      BY <3>1 DEF Stages, InSwitch, Homing, SwitchOrRet, HaltPcs
  <2> QED
    BY <2>1, <2>2
<1> QED
  BY <1>1, <1>2

LEMMA StagesSvc ==
  ASSUME TypeOK, Stages, Svc
  PROVE  Stages'
<1>0. /\ "run" \in Threads /\ "svc" \in Threads /\ th \in [Threads -> Locals]
      /\ S.next \in {"idle", "write", "read", "off"}
  BY ThreadNames, ModeIsTyped DEF TypeOK
<1>1. CASE SwitchState("svc") \/ SwitchMode("svc")
  BY <1>1, StagesSwitch, StagesMode
<1>2. CASE InitRead \/ InitMode
  <2>1. /\ Others("svc") /\ S'.pc \in {"initMode", "initReset"} /\ S'.cmd = S.cmd /\ S'.phase = S.phase
        /\ S'.next = S.next
    BY <1>2, ReadersMove
  <2>2. R' = R /\ UNCHANGED <<setup, layer>> /\ S.cmd = "init"
    BY <1>0, <1>2, <2>1 DEF Others, InitRead, InitMode, ReadState, ReadMode, Stages
  <2> QED
    BY <2>1, <2>2 DEF Stages, InSwitch, Homing, SwitchOrRet, HaltPcs
<1>3. CASE InitReset
  <2>1. /\ Others("svc") /\ S'.pc = "get" /\ S'.cmd = S.cmd /\ S'.phase = "enable" /\ S'.next = S.next
    BY <1>0, <1>3, EnterMoves DEF InitReset
  <2>2. R' = R /\ UNCHANGED <<setup, layer>> /\ S.cmd = "init"
    BY <1>0, <1>3, <2>1 DEF Others, InitReset, Stages
  <2> QED
    BY <2>1, <2>2 DEF Stages, InSwitch, Homing, SwitchOrRet, HaltPcs
<1>4. CASE InitEnabled
  <2>1. R' = R /\ UNCHANGED setup /\ S.cmd = "init" /\ S.next # "off"
    BY <1>0, <1>4, InitEnabledMoves DEF Others, InitEnabled, Stages
  <2>2. CASE S'.pc = "off" /\ S'.cmd = "shutdown"
    BY <2>1, <2>2 DEF Stages, InSwitch, Homing, SwitchOrRet, HaltPcs
  <2>3. CASE /\ setup.homing # NoMode /\ UNCHANGED layer
             /\ S'.pc = "smCheck" /\ S'.mode = setup.homing /\ S'.cmd = "init" /\ S'.next = S.next
    BY <2>1, <2>3 DEF Stages, InSwitch, Homing, SwitchOrRet, HaltPcs
  <2>4. CASE S' = Fresh("idle")
    BY <2>4 DEF Fresh, Stages, InSwitch, Homing, SwitchOrRet, HaltPcs
  <2> QED
    BY <1>4, <2>2, <2>3, <2>4, InitEnabledMoves
<1>5. CASE InitHomed
  <2>1. R' = R /\ UNCHANGED <<setup, layer>> /\ S'.mode = S.mode /\ S'.next = S.next
    BY <1>0, <1>5, InitHomedMoves DEF Others, InitHomed
  <2>2. Homing
    BY <1>5, InitHomedMoves DEF Homing, Waits
  <2>3. \/ S'.pc = "off" /\ S'.cmd = "shutdown"
        \/ S'.pc \in {"smNone", "prepare", "start", "attain", "stop"} /\ S'.cmd = S.cmd
    <3>1. \A p \in {"prepare", "start", "attain"} : Following[p] \in {"start", "attain", "stop"}
      BY DEF Following
    <3> QED
      BY <1>5, <3>1, InitHomedMoves
  <2> QED
    BY <2>1, <2>2, <2>3 DEF Stages, InSwitch, Homing, SwitchOrRet, HaltPcs
<1>6. CASE RecoverDone
  <2>1. R' = R /\ UNCHANGED setup /\ S.cmd = "recover"
    BY <1>0, <1>6, RecoverDoneMoves DEF Others, RecoverDone
  <2>2. CASE S' = Fresh("idle")
    BY <2>2 DEF Fresh, Stages, InSwitch, Homing, SwitchOrRet, HaltPcs
  <2>3. CASE S'.pc = "haltRead" /\ S'.cmd = "recover" /\ S'.phase = S.phase /\ S'.next = S.next
    BY <2>1, <2>3 DEF Stages, InSwitch, Homing, SwitchOrRet, HaltPcs
  <2> QED
    BY <1>6, <2>2, <2>3, RecoverDoneMoves
<1>7. CASE Halt("svc")
  <2>1. CASE HaltRead("svc") \/ HaltLock("svc")
    <3>1. /\ Others("svc") /\ S'.pc \in HaltPcs /\ S'.cmd = S.cmd /\ S'.phase = S.phase /\ S'.next = S.next
      <4>1. "haltLock" \in Pcs /\ "haltEnd" \in Pcs /\ state \in States402
        BY PcNames DEF TypeOK
      <4>2. CASE HaltRead("svc")
        BY <1>0, <4>1, <4>2, LookMoves DEF HaltRead, HaltPcs
      <4>3. CASE HaltLock("svc")
        BY <1>0, <4>1, <4>3, GotoMoves DEF HaltLock, HaltPcs
      <4> QED
        BY <2>1, <4>2, <4>3
    <3>2. R' = R /\ UNCHANGED <<setup, layer>> /\ S.pc \in HaltPcs
      BY <1>0, <2>1, <3>1 DEF Others, HaltRead, HaltLock, HaltPcs
    <3> QED
      BY <3>1, <3>2 DEF Stages, InSwitch, Homing, SwitchOrRet, HaltPcs
  <2>2. CASE HaltEnd("svc") /\ S.next = "idle"
    <3>1. S' = Fresh("idle")
      BY <1>0, <2>2, HaltEndMoves
    <3> QED
      BY <3>1 DEF Fresh, Stages, InSwitch, Homing, SwitchOrRet, HaltPcs
  <2>3. CASE HaltEnd("svc") /\ S.next # "idle"
    <3>1. S.next = "off" /\ S.cmd = "shutdown"
      BY <2>3 DEF HaltEnd, HaltPcs, Stages
    <3>2. S'.pc = "off" /\ S'.cmd = "shutdown" /\ S'.next = "idle"
      BY <1>0, <2>3, <3>1, HaltEndMoves
    <3> QED
      BY <3>2 DEF Stages, InSwitch, Homing, SwitchOrRet, HaltPcs
  <2> QED
    BY <1>7, <2>1, <2>2, <2>3 DEF Halt
<1>8. CASE ShutdownBegin
  <2>1. S'.pc = "smNone" /\ S'.cmd = "shutdown"
    BY <1>0, <1>8, GotoMoves, PcNames DEF ShutdownBegin, Stages
  <2> QED
    BY <2>1 DEF Stages, InSwitch, Homing, SwitchOrRet, HaltPcs
<1>9. CASE ShutdownEnd
  <2>1. S' = Fresh("idle")
    BY <1>0, <1>9, DoneMoves DEF ShutdownEnd
  <2> QED
    BY <2>1 DEF Fresh, Stages, InSwitch, Homing, SwitchOrRet, HaltPcs
<1> QED
  BY <1>1, <1>2, <1>3, <1>4, <1>5, <1>6, <1>7, <1>8, <1>9 DEF Svc

LEMMA StagesCalls ==
  ASSUME TypeOK, Stages, Calls
  PROVE  Stages'
<1>0. "run" \in Threads /\ "svc" \in Threads /\ th \in [Threads -> Locals] /\ (setup.app => "app" \in Threads)
  BY ThreadNames DEF TypeOK
<1>1. CASE CallInit
  <2>1. R'.pc = "read" /\ S'.pc = "initRead" /\ S'.cmd = "init" /\ S'.next = "idle"
    BY <1>0, <1>1, CallInitMoves DEF Fresh
  <2>2. layer' = InitState
    BY <1>1 DEF CallInit
  <2> QED
    BY <2>1, <2>2 DEF Stages, InSwitch, Homing, SwitchOrRet, HaltPcs
<1>2. CASE CallRecover
  <2>1. /\ S'.pc = "get" /\ S'.cmd = "recover" /\ S'.phase = "enable" /\ S'.next = "idle"
        /\ "recover" \in setup'.services
    BY <1>2, CallRecoverMoves DEF CallRecover
  <2> QED
    BY <2>1 DEF Stages, InSwitch, Homing, SwitchOrRet, HaltPcs
<1>3. CASE CallHalt
  <2>1. S'.pc = "haltRead" /\ S'.cmd = "halt" /\ S'.next = "idle" /\ S'.phase = "none"
    BY <1>0, <1>3, CallMoves, PcNames DEF CallHalt
  <2> QED
    BY <2>1 DEF Stages, InSwitch, Homing, SwitchOrRet, HaltPcs
<1>4. CASE CallShutdown
  <2>1. /\ S'.pc \in {"haltRead", "off"} /\ S'.cmd = "shutdown" /\ S'.next \in {"idle", "off"}
        /\ S'.phase = "none"
    <3>1. "haltRead" \in Pcs /\ "off" \in Pcs
      BY PcNames
    <3> QED
      BY <1>0, <1>4, <3>1, CallMoves DEF CallShutdown
  <2> QED
    BY <2>1 DEF Stages, InSwitch, Homing, SwitchOrRet, HaltPcs
<1>5. CASE CallEnterMode \/ CallLeaveMode
  <2>0. "smCheck" \in Pcs /\ "smNone" \in Pcs
    BY PcNames
  <2>1. Others("app") /\ UNCHANGED layer
    BY <1>0, <1>5, <2>0, CallMoves DEF CallEnterMode, CallLeaveMode
  <2>2. S' = S /\ R' = R
    BY <1>0, <2>1 DEF Others
  <2>3. setup'.homing = setup.homing /\ setup'.services = setup.services
    BY <1>5, SameSetup DEF SameSituation, Next, Calls
  <2> QED
    BY <2>1, <2>2, <2>3 DEF Stages, InSwitch, Homing
<1> QED
  BY <1>1, <1>2, <1>3, <1>4, <1>5 DEF Calls

\* A step of the application's thread touches no other's locals.
LEMMA AppMoves ==
  ASSUME TypeOK, App
  PROVE  Others("app") /\ S' = S /\ R' = R /\ UNCHANGED <<setup, layer>>
<1>0. /\ "run" \in Threads /\ "svc" \in Threads /\ "app" \in Threads /\ th \in [Threads -> Locals]
      /\ state \in States402 /\ th["app"].ok \in BOOLEAN
  BY ThreadNames, ModeIsTyped DEF TypeOK, App
<1>1. Others("app")
  <2>1. CASE SwitchGet("app") \/ SwitchWait("app")
    BY <1>0, <2>1, LookMoves, PcNames DEF SwitchGet, SwitchWait
  <2>2. CASE SwitchTarget("app") \/ SwitchTest("app") \/ SwitchSet("app") \/ SwitchTimeout("app")
    BY <1>0, <2>2, GotoMoves, RetMoves, PcNames
       DEF SwitchTarget, SwitchTest, SwitchSet, SwitchTimeout
  <2>3. CASE ModeCheck("app") \/ ModeWait("app")
    BY <1>0, <2>3, SwitchedMoves, EnterMoves DEF ModeCheck, ModeWait
  <2>4. CASE ModePre("app") \/ ModeSet("app")
    <3>1. CASE Goto("app", "smSet") \/ Goto("app", "smWait")
      BY <1>0, <3>1, GotoMoves, PcNames
    <3>2. CASE Switched("app", FALSE)
      BY <1>0, <3>2, SwitchedMoves
    <3> QED
      BY <2>4, <3>1, <3>2 DEF ModePre, ModeSet
  <2>5. CASE ModePost("app")
    <3>1. (th["app"].ok /\ th["app"].phase = "post") \in BOOLEAN
      BY <1>0
    <3> QED
      BY <1>0, <2>5, <3>1, SwitchedMoves DEF ModePost
  <2>6. CASE ModeNone("app")
    BY <1>0, <2>6, EnterMoves, DoneMoves DEF ModeNone
  <2> QED
    BY <2>1, <2>2, <2>3, <2>4, <2>5, <2>6 DEF App, SwitchState, SwitchMode
<1>2. UNCHANGED <<setup, layer>>
  BY DEF App, SwitchState, SwitchGet, SwitchTarget, SwitchTest, SwitchSet, SwitchWait, SwitchTimeout,
     SwitchMode, ModeCheck, ModePre, ModeSet, ModeWait, ModePost, ModeNone
<1> QED
  BY <1>0, <1>1, <1>2 DEF Others

LEMMA StagesNext == ASSUME TypeOK, Stages, [Next]_vars PROVE Stages'
<1>1. CASE App
  BY <1>1, AppMoves, StagesKept
<1>2. CASE Drive \/ UNCHANGED vars
  BY <1>2, StagesKept DEF Drive, DriveMoves, DriveFaults, DriveMode, DriveHoming, vars
<1> QED
  BY <1>1, <1>2, StagesRun, StagesSvc, StagesCalls DEF Next

-------------------------------------------------------------------------------
(* A halt stops a recover                                                  *)

Faults == {"Fault", "Fault_Reaction_Active"}

NoFaultIsWanted == target_state \notin Faults

\* Nobody else moves the target while a recover waits.
Alone == setup.app => "recover" \notin setup.services

HaltedRecover ==
  Alone /\ hist.halted =>
    /\ S.cmd = "recover" /\ S.pc \in {"test", "set", "wait", "ret"}
    /\ target_state # "Operation_Enable" /\ (S.pc = "ret" => ~S.ok)

LEMMA TargetStep == ASSUME TypeOK, NoFaultIsWanted, [Next]_vars PROVE NoFaultIsWanted'
<1>1. ASSUME NEW t, SwitchState(t) PROVE target_state' \in {target_state, Goal(t)}
  BY <1>1 DEF SwitchState, SwitchGet, SwitchTarget, SwitchTest, SwitchSet, SwitchWait, SwitchTimeout
<1>2. ASSUME NEW t, Halt(t) PROVE target_state' = target_state \/ target_state' \notin Faults
  BY <1>2 DEF Halt, HaltRead, HaltLock, HaltEnd, HaltCommand, Faults
<1>3. ASSUME NEW t, SwitchMode(t) PROVE target_state' = target_state
  BY <1>3 DEF SwitchMode, ModeCheck, ModePre, ModeSet, ModeWait, ModePost, ModeNone
<1>4. \A t : Goal(t) \notin Faults
  BY GoalIsState DEF Faults
<1>5. CASE Run
  BY <1>2, <1>5 DEF NoFaultIsWanted, Run, RunRead, RunMode, ReadState, ReadMode, RunFails, RunWrite, RunSend
<1>6. CASE Svc
  BY <1>1, <1>2, <1>3, <1>4, <1>6
     DEF NoFaultIsWanted, Svc, InitRead, InitMode, ReadState, ReadMode, InitReset, InitEnabled,
         InitHomed, RecoverDone, ShutdownBegin, ShutdownEnd
<1>7. CASE App
  BY <1>1, <1>3, <1>4, <1>7 DEF NoFaultIsWanted, App
<1>8. CASE Calls \/ Drive \/ UNCHANGED vars
  BY <1>8 DEF NoFaultIsWanted, Calls, CallInit, CallRecover, CallHalt, CallShutdown, CallEnterMode,
     CallLeaveMode, Drive, DriveMoves, DriveFaults, DriveMode, DriveHoming, vars
<1> QED
  BY <1>5, <1>6, <1>7, <1>8 DEF Next

\* A step of switchState is a step between its stages.
LEMMA SwitchMoves ==
  ASSUME TypeOK, NEW t \in Threads, SwitchState(t)
  PROVE  /\ Others(t)
         /\ th[t].pc \in SwitchPcs /\ th'[t].cmd = th[t].cmd /\ th'[t].phase = th[t].phase
         /\ th'[t].mode = th[t].mode /\ th'[t].next = th[t].next
         /\ \/ th[t].pc = "get" /\ th'[t].pc = "target"
            \/ th[t].pc = "target" /\ th'[t].pc = "test" /\ target_state' = Goal(t)
            \/ /\ th[t].pc = "test" /\ th'[t].st = th[t].st /\ UNCHANGED target_state
               /\ th'[t].pc = "set"
            \/ /\ th[t].pc = "test" /\ UNCHANGED target_state
               /\ th'[t].pc = "ret" /\ (th'[t].ok => target_state = Goal(t))
            \/ /\ th[t].pc = "set" /\ UNCHANGED target_state
               /\ \/ th'[t].pc = "test"
                  \/ th'[t].pc = "wait" /\ th'[t].st = th[t].st
                  \/ th'[t].pc = "ret" /\ th'[t].ok = FALSE
            \/ /\ th[t].pc = "wait" /\ UNCHANGED target_state
               /\ \/ th'[t].pc = "test"
                  \/ th'[t].pc = "ret" /\ th'[t].ok = FALSE
         /\ hist' = hist \/ (th[t].pc = "wait" /\ hist' = [hist EXCEPT !.waits = 0])
         /\ t = "svc" /\ th[t].pc = "wait" => hist' = [hist EXCEPT !.waits = 0]
         /\ th[t].pc # "set" => control_word' = control_word
         /\ UNCHANGED <<setup, homingVars, layer, out, start_fault_reset, state, modeVars, drive>>
<1> DEFINE Kept == /\ Others(t)
                  /\ th'[t].cmd = th[t].cmd /\ th'[t].phase = th[t].phase
                  /\ th'[t].mode = th[t].mode /\ th'[t].next = th[t].next
<1>0. th \in [Threads -> Locals] /\ state \in States402
  BY DEF TypeOK
<1>1. /\ th[t].pc \in SwitchPcs
      /\ hist' = hist \/ (th[t].pc = "wait" /\ hist' = [hist EXCEPT !.waits = 0])
      /\ t = "svc" /\ th[t].pc = "wait" => hist' = [hist EXCEPT !.waits = 0]
  <2>1. CASE SwitchGet(t) \/ SwitchTarget(t) \/ SwitchTest(t) \/ SwitchSet(t)
    <3>1. th[t].pc \in {"get", "target", "test", "set"} /\ hist' = hist
      BY <2>1 DEF SwitchGet, SwitchTarget, SwitchTest, SwitchSet
    <3> QED
      BY <3>1 DEF SwitchPcs
  <2>2. CASE SwitchWait(t) \/ SwitchTimeout(t)
    <3>1. th[t].pc = "wait" /\ hist' = IF t = "svc" THEN [hist EXCEPT !.waits = 0] ELSE hist
      BY <2>2 DEF SwitchWait, SwitchTimeout
    <3> QED
      BY <3>1 DEF SwitchPcs
  <2> QED
    BY <2>1, <2>2 DEF SwitchState
<1>2. /\ th[t].pc # "set" => control_word' = control_word
      /\ th[t].pc # "target" => target_state' = target_state
      /\ UNCHANGED <<setup, homingVars, layer, out, start_fault_reset, state, modeVars, drive>>
  BY DEF SwitchState, SwitchGet, SwitchTarget, SwitchTest, SwitchSet, SwitchWait, SwitchTimeout, cwVars
<1>3. CASE SwitchGet(t)
  <2>1. Kept /\ th[t].pc = "get" /\ th'[t].pc = "target"
    BY <1>0, <1>3, LookMoves, PcNames DEF SwitchGet
  <2> QED
    BY <1>1, <1>2, <2>1
<1>4. CASE SwitchTarget(t)
  <2>1. Kept /\ th[t].pc = "target" /\ th'[t].pc = "test" /\ target_state' = Goal(t)
    BY <1>0, <1>4, GotoMoves, PcNames DEF SwitchTarget
  <2> QED
    BY <1>1, <1>2, <2>1
<1>5. CASE SwitchTest(t)
  <2>0. th[t].pc = "test"
    BY <1>5 DEF SwitchTest
  <2>1. CASE th[t].st = target_state
    <3>1. (th[t].st = Goal(t)) \in BOOLEAN /\ Ret(t, th[t].st = Goal(t))
      BY <1>5, <2>1 DEF SwitchTest
    <3>2. Kept /\ th'[t].pc = "ret" /\ th'[t].ok = (th[t].st = Goal(t))
      BY <1>0, <3>1, RetMoves
    <3>3. th'[t].ok => target_state = Goal(t)
      BY <2>1, <3>2
    <3> QED
      BY <1>1, <1>2, <2>0, <3>2, <3>3
  <2>2. CASE Goto(t, "set")
    <3>1. Kept /\ th'[t].pc = "set" /\ th'[t].st = th[t].st
      BY <1>0, <2>2, GotoMoves, PcNames
    <3> QED
      BY <1>1, <1>2, <2>0, <3>1
  <2> QED
    BY <1>5, <2>1, <2>2 DEF SwitchTest
<1>6. CASE SwitchSet(t)
  <2>0. th[t].pc = "set"
    BY <1>6 DEF SwitchSet
  <2>1. CASE Goto(t, "test") \/ Goto(t, "wait")
    <3>1. Kept /\ th'[t].pc \in {"test", "wait"} /\ th'[t].st = th[t].st
      BY <1>0, <2>1, GotoMoves, PcNames
    <3> QED
      BY <1>1, <1>2, <2>0, <3>1
  <2>2. CASE Ret(t, FALSE)
    <3>1. Kept /\ th'[t].pc = "ret" /\ th'[t].ok = FALSE
      BY <1>0, <2>2, RetMoves
    <3> QED
      BY <1>1, <1>2, <2>0, <3>1
  <2> QED
    BY <1>6, <2>1, <2>2 DEF SwitchSet
<1>7. CASE SwitchWait(t)
  <2>1. Kept /\ th[t].pc = "wait" /\ th'[t].pc = "test"
    BY <1>0, <1>7, LookMoves, PcNames DEF SwitchWait
  <2> QED
    BY <1>1, <1>2, <2>1
<1>8. CASE SwitchTimeout(t)
  <2>1. Kept /\ th[t].pc = "wait" /\ th'[t].pc = "ret" /\ th'[t].ok = FALSE
    BY <1>0, <1>8, RetMoves DEF SwitchTimeout
  <2> QED
    BY <1>1, <1>2, <2>1
<1> QED
  BY <1>3, <1>4, <1>5, <1>6, <1>7, <1>8 DEF SwitchState

\* A step of the run thread leaves the others where they are.
LEMMA RunMoves ==
  ASSUME TypeOK, Run
  PROVE  Others("run") /\ S' = S /\ UNCHANGED setup
<1>0. "run" \in Threads /\ "svc" \in Threads /\ th \in [Threads -> Locals] /\ state \in States402
  BY ThreadNames DEF TypeOK
<1>1. CASE RunRead \/ RunMode
  <2>1. Others("run") /\ UNCHANGED setup
    BY <1>1, ReadersMove
  <2> QED
    BY <1>0, <2>1 DEF Others
<1>2. CASE RunWrite \/ RunSend
  <2>1. Others("run") /\ UNCHANGED setup
    BY <1>0, <1>2, GotoMoves, PcNames DEF RunWrite, RunSend
  <2> QED
    BY <1>0, <2>1 DEF Others
<1>3. CASE RunFails
  BY <1>0, <1>3, RunFailsMoves DEF RunFails, Others
<1>4. CASE Halt("run")
  <2>1. Others("run") /\ UNCHANGED setup
    <3>1. CASE HaltRead("run")
      BY <1>0, <3>1, LookMoves, PcNames DEF HaltRead
    <3>2. CASE HaltLock("run")
      BY <1>0, <3>2, GotoMoves, PcNames DEF HaltLock
    <3>3. CASE HaltEnd("run")
      BY <1>0, <3>3, HaltEndMoves DEF HaltEnd
    <3> QED
      BY <1>4, <3>1, <3>2, <3>3 DEF Halt
  <2> QED
    BY <1>0, <2>1 DEF Others
<1> QED
  BY <1>1, <1>2, <1>3, <1>4 DEF Run

\* What a halt does to the target and to what is remembered.
LEMMA HaltTells ==
  ASSUME TypeOK, NEW t \in Threads, Halt(t)
  PROVE  /\ target_state' = target_state \/ target_state' # "Operation_Enable"
         /\ \/ hist' = hist
            \/ /\ Recovering /\ S.pc \notin {"get", "target"} /\ target_state' # "Operation_Enable"
               /\ hist' = [hist EXCEPT !.halted = TRUE]
BY DEF Halt, HaltRead, HaltLock, HaltEnd, HaltCommand

LEMMA HaltedStep ==
  ASSUME TypeOK, Stages, HaltedRecover, [Next]_vars
  PROVE  HaltedRecover'
<1>0. /\ "run" \in Threads /\ "svc" \in Threads /\ Alone' = Alone
      /\ hist \in [edge : BOOLEAN, halted : BOOLEAN, waits : 0 .. 3, silent : 0 .. 2, unseen : BOOLEAN]
  BY ThreadNames, SameSetup DEF TypeOK, SameSituation, Alone
<1> SUFFICES ASSUME Alone, hist'.halted
             PROVE  /\ S'.cmd = "recover" /\ S'.pc \in {"test", "set", "wait", "ret"}
                    /\ target_state' # "Operation_Enable" /\ (S'.pc = "ret" => ~S'.ok)
  BY <1>0 DEF HaltedRecover
\* What it comes to when the halt was there before.
<1>1. ASSUME hist.halted
      PROVE  /\ S.cmd = "recover" /\ S.pc \in {"test", "set", "wait", "ret"} /\ S.phase = "enable"
             /\ target_state # "Operation_Enable" /\ (S.pc = "ret" => ~S.ok) /\ ~setup.app
  BY <1>1 DEF HaltedRecover, Stages, Alone
<1>2. CASE Run
  <2>1. S' = S
    BY <1>2, RunMoves
  <2>2. CASE Halt("run")
    BY <1>0, <1>1, <2>1, <2>2, HaltTells DEF Recovering, SwitchPcs
  <2>3. CASE ~Halt("run")
    <3>1. hist'.halted = hist.halted /\ target_state' = target_state
      BY <1>0, <1>2, <2>3 DEF Run, RunRead, RunMode, ReadState, ReadMode, RunFails, RunWrite, RunSend
    <3> QED
      BY <1>1, <2>1, <3>1
  <2> QED
    BY <2>2, <2>3
<1>3. CASE SwitchState("svc")
  <2>1. hist.halted
    BY <1>0, <1>3, SwitchMoves
  <2>2. Goal("svc") = "Operation_Enable"
    BY <1>1, <2>1 DEF Goal
  <2> QED
    BY <1>0, <1>1, <1>3, <2>1, <2>2, SwitchMoves
<1>4. CASE Svc /\ ~SwitchState("svc")
  <2>1. ~hist.halted
    <3> SUFFICES ASSUME hist.halted PROVE FALSE
      OBVIOUS
    <3>1. S.cmd = "recover" /\ S.phase = "enable" /\ S.pc \in {"test", "set", "wait", "ret"}
      BY <1>1
    <3>2. RecoverDone
      BY <1>4, <3>1 DEF Svc, InitRead, InitMode, InitReset, InitEnabled, InitHomed, HomingBegin,
         HomingWait, Waits, ShutdownBegin, ShutdownEnd, SwitchMode, ModeCheck, ModePre, ModeSet, ModeWait,
         ModePost, ModeNone, Halt, HaltRead, HaltLock, HaltEnd
    <3> QED
      BY <3>2 DEF RecoverDone, ForgetCall, NoHist
  <2>2. CASE Halt("svc")
    BY <1>0, <2>1, <2>2, HaltTells DEF Halt, HaltRead, HaltLock, HaltEnd, Recovering, SwitchPcs
  <2>3. CASE SwitchMode("svc")
    BY <1>0, <2>1, <2>3 DEF SwitchMode, ModeCheck, ModePre, ModeSet, ModeWait, ModePost, ModeNone
  <2>4. CASE ~Halt("svc") /\ ~SwitchMode("svc")
    BY <1>0, <1>4, <2>1, <2>4 DEF Svc, InitRead, InitMode, ReadState, ReadMode, InitReset, InitEnabled,
       InitHomed, RecoverDone, ShutdownBegin, ShutdownEnd, ForgetCall, NoHist
  <2> QED
    BY <2>2, <2>3, <2>4
<1>5. CASE App
  <2>1. hist'.halted = hist.halted
    BY <1>0, <1>5 DEF App, SwitchState, SwitchGet, SwitchTarget, SwitchTest, SwitchSet, SwitchWait, SwitchTimeout,
       SwitchMode, ModeCheck, ModePre, ModeSet, ModeWait, ModePost, ModeNone
  <2> QED
    BY <1>1, <1>5, <2>1 DEF App
<1>6. CASE Calls
  <2>1. hist' = hist
    BY <1>6 DEF Calls, CallInit, CallRecover, CallHalt, CallShutdown, CallEnterMode, CallLeaveMode
  <2> QED
    BY <1>1, <1>6, <2>1 DEF Calls, CallInit, CallRecover, CallHalt, CallShutdown, CallEnterMode,
       CallLeaveMode, Idle
<1>7. CASE Drive \/ UNCHANGED vars
  BY <1>1, <1>7 DEF Drive, DriveMoves, DriveFaults, DriveMode, DriveHoming, vars
<1> QED
  BY <1>2, <1>3, <1>4, <1>5, <1>6, <1>7 DEF Next

-------------------------------------------------------------------------------
(* The fault reset bit rises                                               *)

FR == "Fault_Reset"

Enabling == S.pc \in SwitchPcs /\ S.phase = "enable"

\* The service waits for the drive to leave Fault.
AtFault == S.pc = "wait" /\ S.phase = "enable" /\ S.st = "Fault"

\* What is still ahead of a rising edge: a frame without the bit, or one with it.
Low == start_fault_reset \/ (R.pc = "send" /\ FR \notin out) \/ FR \notin drive.word

Ahead ==
  \/ start_fault_reset /\ hist.waits <= 1 /\ (R.pc = "send" => hist.waits = 0)
  \/ ~start_fault_reset /\ R.pc = "send" /\ FR \notin out /\ hist.waits <= 1
  \/ /\ ~start_fault_reset /\ FR \notin drive.word /\ hist.waits <= 2
     /\ R.pc = "send" => FR \in out

Rises ==
  /\ hist.waits # 0 => AtFault
  /\ ~setup.app /\ Enabling /\ ~hist.edge => Low
  /\ ~setup.app /\ AtFault /\ ~hist.halted /\ ~hist.edge => FR \in control_word /\ Ahead

\* Only a write makes the next frame.
LEMMA RunSendsWhatItWrote ==
  ASSUME TypeOK, Run, ~RunWrite
  PROVE  R'.pc # "send"
<1>0. /\ "run" \in Threads /\ th \in [Threads -> Locals]
      /\ R.next \in {"idle", "write", "read", "off"}
  BY ThreadNames, ModeIsTyped DEF TypeOK
<1>1. CASE RunRead \/ RunMode
  <2> QED
    BY <1>1, ReadersMove
<1>2. CASE RunFails
  BY <1>2, RunFailsMoves
<1>3. CASE RunSend
  BY <1>0, <1>3, GotoMoves, PcNames DEF RunSend
<1>4. CASE HaltRead("run")
  <2>1. "haltLock" \in Pcs /\ state \in States402
    BY PcNames DEF TypeOK
  <2> QED
    BY <1>0, <1>4, <2>1, LookMoves DEF HaltRead
<1>5. CASE HaltLock("run")
  BY <1>0, <1>5, GotoMoves, PcNames DEF HaltLock
<1>6. CASE HaltEnd("run")
  BY <1>0, <1>6, HaltEndMoves DEF Fresh
<1> QED
  BY <1>1, <1>2, <1>3, <1>4, <1>5, <1>6 DEF Run, Halt

\* Steps that leave alone what the edge depends on.
LEMMA RisesKept ==
  ASSUME Rises, setup'.app = setup.app, S' = S, R'.pc = "send" <=> R.pc = "send",
         UNCHANGED <<control_word, out, start_fault_reset, hist>>, drive'.word = drive.word
  PROVE  Rises'
BY DEF Rises, Enabling, AtFault, Low, Ahead

LEMMA RisesRun ==
  ASSUME TypeOK, Stages, Rises, Run
  PROVE  Rises'
<1>0. /\ "run" \in Threads /\ "svc" \in Threads /\ th \in [Threads -> Locals]
      /\ hist \in [edge : BOOLEAN, halted : BOOLEAN, waits : 0 .. 3, silent : 0 .. 2, unseen : BOOLEAN]
      /\ hist.edge \in BOOLEAN /\ hist.halted \in BOOLEAN
      /\ hist.waits \in 0 .. 3 /\ start_fault_reset \in BOOLEAN
  BY ThreadNames DEF TypeOK
<1>1. S' = S /\ UNCHANGED setup
  BY RunMoves
<1>2. CASE RunRead \/ RunMode
  <2>1. R'.pc \in {"mode", "write"}
    BY <1>2, ReadersMove
  <2>2. R.pc # "send"
    BY <1>2 DEF RunRead, RunMode
  <2> QED
    BY <1>1, <1>2, <2>1, <2>2, RisesKept DEF RunRead, RunMode, ReadState, ReadMode, cwVars
<1>3. CASE RunFails
  <2>1. R'.pc = "haltRead" /\ R.pc # "send"
    BY <1>3, RunFailsMoves DEF RunFails
  <2> QED
    BY <1>1, <1>3, <2>1, RisesKept DEF RunFails, cwVars
<1>4. CASE RunWrite /\ ~(layer > Off)
  <2>1. R'.pc = "read" /\ R.pc # "send"
    BY <1>0, <1>4, GotoMoves, PcNames DEF RunWrite
  <2> QED
    BY <1>1, <1>4, <2>1, RisesKept DEF RunWrite, cwVars
<1>5. CASE RunWrite /\ layer > Off
  <2>1. R'.pc = "send" /\ R.pc = "write"
    BY <1>0, <1>5, GotoMoves, PcNames DEF RunWrite
  <2>2. /\ start_fault_reset' = FALSE
        /\ FR \in control_word' <=> FR \in control_word
        /\ out' = IF start_fault_reset THEN control_word' \ {FR} ELSE control_word'
    BY <1>5 DEF RunWrite, Write, write, FR
  <2>3. UNCHANGED <<drive, hist>>
    BY <1>5 DEF RunWrite
  <2> QED
    BY <1>0, <1>1, <2>1, <2>2, <2>3 DEF Rises, Enabling, AtFault, Low, Ahead
<1>6. CASE RunSend
  <2>1. R'.pc = "sent" /\ R.pc = "send"
    BY <1>0, <1>6, GotoMoves, PcNames DEF RunSend
  <2>2. drive'.word = out /\ UNCHANGED <<control_word, start_fault_reset>>
    BY <1>6 DEF RunSend, TypeOK, cwVars
  <2>3. /\ hist'.halted = hist.halted
        /\ hist'.waits = (IF AtFault THEN IF hist.waits < 3 THEN hist.waits + 1 ELSE hist.waits
                          ELSE hist.waits)
    BY <1>0, <1>6 DEF RunSend, AtFault, SwitchPcs
  <2>4. Enabling /\ FR \in out /\ FR \notin drive.word => hist'.edge
    BY <1>0, <1>6 DEF RunSend, Enabling, FR
  <2>5. hist.edge => hist'.edge
    BY <1>0, <1>6 DEF RunSend
  <2>6. AtFault => Enabling
    BY DEF AtFault, Enabling, SwitchPcs
  <2>7. AtFault' = AtFault /\ Enabling' = Enabling
    BY <1>1 DEF AtFault, Enabling
  <2>8. ~setup.app /\ Enabling /\ ~hist'.edge => Low'
    BY <1>0, <2>1, <2>2, <2>4, <2>5 DEF Rises, Low
  <2>9. ~setup.app /\ AtFault /\ ~hist.halted /\ ~hist'.edge => FR \in control_word' /\ Ahead'
    BY <1>0, <2>1, <2>2, <2>3, <2>4, <2>5, <2>6 DEF Rises, Ahead
  <2>10. hist'.waits # 0 => AtFault'
    BY <1>0, <2>3, <2>7 DEF Rises
  <2> QED
    BY <1>1, <2>3, <2>7, <2>8, <2>9, <2>10 DEF Rises
<1>7. CASE Halt("run")
  <2>0. R.pc \in HaltPcs
    BY <1>7 DEF Halt, HaltRead, HaltLock, HaltEnd, HaltPcs
  <2>1. R'.pc # "send"
    BY <1>7, RunSendsWhatItWrote DEF Halt, HaltRead, HaltLock, HaltEnd, RunWrite
  <2>2. UNCHANGED <<out, start_fault_reset, drive>>
    BY <1>7 DEF Halt, HaltRead, HaltLock, HaltEnd, cwVars
  <2>3. \/ UNCHANGED <<control_word, hist>>
        \/ hist' = [hist EXCEPT !.halted = TRUE]
        \/ hist' = hist /\ ~AtFault
    <3>1. CASE HaltRead("run") \/ HaltEnd("run")
      BY <3>1 DEF HaltRead, HaltEnd, cwVars
    <3>2. CASE HaltLock("run") /\ R.st \in Faults
      BY <3>2 DEF HaltLock, HaltCommand, Faults
    <3>3. CASE HaltLock("run") /\ R.st \notin Faults
      <4>1. AtFault => S.cmd = "recover"
        BY <2>0 DEF Stages, AtFault, InSwitch, SwitchOrRet
      <4> QED
        BY <3>3, <4>1 DEF HaltLock, Recovering, AtFault, SwitchPcs, Faults
    <3> QED
      BY <1>7, <3>1, <3>2, <3>3 DEF Halt
  <2>4. R.pc # "send"
    BY <2>0 DEF HaltPcs
  <2>5. CASE UNCHANGED <<control_word, hist>>
    BY <1>1, <2>1, <2>2, <2>4, <2>5, RisesKept
  <2>6. CASE hist' = [hist EXCEPT !.halted = TRUE] \/ (hist' = hist /\ ~AtFault)
    <3>1. /\ hist'.edge = hist.edge /\ hist'.waits = hist.waits /\ (hist'.halted \/ ~AtFault)
      BY <1>0, <2>6
    <3> QED
      BY <1>1, <2>1, <2>2, <2>4, <3>1 DEF Rises, Enabling, AtFault, Low
  <2> QED
    BY <2>3, <2>5, <2>6
<1> QED
  BY <1>2, <1>3, <1>4, <1>5, <1>6, <1>7 DEF Run

\* The service's steps outside of switchState.
LEMMA SvcMoves ==
  ASSUME TypeOK, Stages, Svc, ~SwitchState("svc")
  PROVE  /\ Others("svc") /\ S.pc \notin SwitchPcs
         /\ S'.pc \notin {"target", "test", "set", "wait"}
         /\ (S'.pc = "get" /\ S'.phase = "enable") => InitReset
<1>0. /\ "run" \in Threads /\ "svc" \in Threads /\ th \in [Threads -> Locals]
      /\ S.next \in {"idle", "write", "read", "off"} /\ S.ok \in BOOLEAN /\ state \in States402
  BY ThreadNames, ModeIsTyped DEF TypeOK
<1>1. S.pc \notin SwitchPcs
  BY DEF Svc, InitRead, InitMode, InitReset, InitEnabled, InitHomed, HomingBegin,
         HomingWait, Waits, RecoverDone, ShutdownBegin, ShutdownEnd, SwitchMode, ModeCheck, ModePre,
         ModeSet, ModeWait, ModePost, ModeNone, Halt, HaltRead, HaltLock, HaltEnd, SwitchPcs
<1>2. CASE InitRead \/ InitMode
  <2>1. Others("svc") /\ S'.pc \in {"initMode", "initReset"}
    BY <1>2, ReadersMove
  <2> QED
    BY <1>1, <2>1
<1>3. CASE InitReset
  BY <1>0, <1>1, <1>3, EnterMoves DEF InitReset
<1>4. CASE InitEnabled
  <2>1. Others("svc") /\ S'.pc \in {"off", "smCheck", "idle"}
    BY <1>0, <1>4, InitEnabledMoves DEF Fresh
  <2> QED
    BY <1>1, <2>1
<1>5. CASE InitHomed
  <2>1. Others("svc") /\ S'.pc \in {"off", "smNone", "prepare", "start", "attain", "stop"}
    <3>1. \A p \in {"prepare", "start", "attain"} : Following[p] \in {"start", "attain", "stop"}
      BY DEF Following
    <3> QED
      BY <1>5, <3>1, InitHomedMoves
  <2> QED
    BY <1>1, <2>1
<1>6. CASE RecoverDone
  BY <1>1, <1>6, RecoverDoneMoves
<1>7. CASE Halt("svc")
  <2>1. CASE HaltRead("svc")
    <3>1. "haltLock" \in Pcs /\ state \in States402
      BY <1>0, PcNames
    <3>2. Others("svc") /\ S'.pc = "haltLock"
      BY <1>0, <2>1, <3>1, LookMoves DEF HaltRead
    <3> QED
      BY <1>1, <3>2
  <2>2. CASE HaltLock("svc")
    BY <1>0, <1>1, <2>2, GotoMoves, PcNames DEF HaltLock
  <2>3. CASE HaltEnd("svc") /\ S.next = "idle"
    BY <1>0, <1>1, <2>3, HaltEndMoves DEF Fresh
  <2>4. CASE HaltEnd("svc") /\ S.next # "idle"
    BY <1>0, <1>1, <2>4, HaltEndMoves
  <2> QED
    BY <1>7, <2>1, <2>2, <2>3, <2>4 DEF Halt
<1>8. CASE ShutdownBegin
  BY <1>0, <1>1, <1>8, GotoMoves, PcNames DEF ShutdownBegin
<1>9. CASE ShutdownEnd
  BY <1>0, <1>1, <1>9, DoneMoves DEF ShutdownEnd
<1>10. CASE SwitchMode("svc")
  <2>1. CASE ModeCheck("svc") \/ ModeWait("svc")
    BY <1>0, <1>1, <2>1, SwitchedMoves, EnterMoves DEF ModeCheck, ModeWait
  <2>2. CASE ModePre("svc") \/ ModeSet("svc")
    <3>1. CASE Goto("svc", "smSet") \/ Goto("svc", "smWait")
      BY <1>0, <1>1, <3>1, GotoMoves, PcNames
    <3>2. CASE Switched("svc", FALSE)
      BY <1>0, <1>1, <3>2, SwitchedMoves
    <3> QED
      BY <2>2, <3>1, <3>2 DEF ModePre, ModeSet
  <2>3. CASE ModePost("svc")
    <3>1. (S.ok /\ S.phase = "post") \in BOOLEAN
      BY <1>0
    <3> QED
      BY <1>0, <1>1, <2>3, <3>1, SwitchedMoves DEF ModePost
  <2>4. CASE ModeNone("svc")
    BY <1>0, <1>1, <2>4, EnterMoves, DoneMoves DEF ModeNone
  <2> QED
    BY <1>10, <2>1, <2>2, <2>3, <2>4 DEF SwitchMode
<1> QED
  BY <1>2, <1>3, <1>4, <1>5, <1>6, <1>7, <1>8, <1>9, <1>10 DEF Svc

\* What the service's steps leave as it is for the reset bit.
LEMMA SvcKeeps ==
  ASSUME TypeOK, Svc, ~SwitchState("svc")
  PROVE  /\ hist'.waits \in {hist.waits, 0} /\ UNCHANGED <<setup, out>> /\ drive'.word = drive.word
         /\ InitReset => start_fault_reset'
         /\ ~InitReset => UNCHANGED <<start_fault_reset>>
<1>0. /\ hist \in [edge : BOOLEAN, halted : BOOLEAN, waits : 0 .. 3, silent : 0 .. 2, unseen : BOOLEAN]
      /\ DriveTyped
  BY DEF TypeOK, DriveTyped
<1>1. CASE SwitchMode("svc")
  BY <1>0, <1>1 DEF SwitchMode, ModeCheck, ModePre, ModeSet, ModeWait, ModePost, ModeNone, InitReset,
     cwVars, DriveTyped
<1>2. CASE ~SwitchMode("svc")
  BY <1>0, <1>2 DEF Svc, InitRead, InitMode, ReadState, ReadMode, InitReset, InitEnabled, InitHomed,
     RecoverDone, ShutdownBegin, ShutdownEnd, Halt, HaltRead, HaltLock, HaltEnd, ForgetCall, NoHist, cwVars
<1> QED
  BY <1>1, <1>2

LEMMA RisesSwitch ==
  ASSUME TypeOK, Stages, NoFaultIsWanted, Rises, SwitchState("svc")
  PROVE  Rises'
<1>0. /\ "run" \in Threads /\ "svc" \in Threads
      /\ hist \in [edge : BOOLEAN, halted : BOOLEAN, waits : 0 .. 3, silent : 0 .. 2, unseen : BOOLEAN]
      /\ hist.waits \in 0 .. 3
  BY ThreadNames DEF TypeOK
<1>1. /\ R' = R /\ UNCHANGED <<setup, out, start_fault_reset, drive>>
      /\ (Enabling' => Enabling)
  <2>1. R' = R
    <3>1. Others("svc")
      BY <1>0, SwitchMoves
    <3> QED
      BY <1>0, <3>1 DEF Others
  <2>2. UNCHANGED <<setup, out, start_fault_reset, drive>>
    BY <1>0, SwitchMoves
  <2>3. Enabling' => Enabling
    BY <1>0, SwitchMoves DEF Enabling
  <2> QED
    BY <2>1, <2>2, <2>3
<1>2. hist'.edge = hist.edge /\ hist'.halted = hist.halted /\ hist'.waits = 0
  <2>1. CASE S.pc = "wait"
    BY <1>0, <2>1, SwitchMoves
  <2>2. CASE S.pc # "wait"
    BY <1>0, <2>2, SwitchMoves DEF Rises, AtFault
  <2> QED
    BY <2>1, <2>2
<1>3. ~setup.app /\ Enabling' /\ ~hist'.edge => Low'
  BY <1>1, <1>2 DEF Rises, Low
<1>4. AtFault' => FR \in control_word'
  <2> SUFFICES ASSUME AtFault' PROVE FR \in control_word'
    OBVIOUS
  <2>1. S.pc = "set" /\ S.st = "Fault"
    BY <1>0, SwitchMoves DEF AtFault, SwitchPcs
  <2>2. SwitchSet("svc") /\ S'.pc = "wait"
    BY <2>1 DEF AtFault, SwitchState, SwitchGet, SwitchTarget, SwitchTest, SwitchSet, SwitchWait, SwitchTimeout
  <2>3. target_state # "Fault"
    BY DEF NoFaultIsWanted, Faults
  <2>4. \A to, op : op \in Transitions("Fault", to) => op = fault_reset
    BY DEF Transitions
  <2>5. ~Ret("svc", FALSE)
    BY <1>0, <2>2, RetMoves DEF TypeOK
  <2>6. \E op \in Transitions("Fault", Hop("Fault", target_state)) : control_word' = Apply(op, control_word)
    BY <2>1, <2>2, <2>3, <2>5 DEF SwitchSet
  <2>7. control_word' = Apply(fault_reset, control_word)
    BY <2>4, <2>6
  <2> QED
    BY <2>7 DEF Apply, fault_reset, Op, FR
<1>5. AtFault' => Enabling'
  BY DEF AtFault, Enabling, SwitchPcs
<1>6. start_fault_reset \in BOOLEAN
  BY DEF TypeOK
<1>7. Low' /\ hist'.waits = 0 => Ahead'
  BY <1>1, <1>6 DEF Low, Ahead
<1> QED
  BY <1>1, <1>2, <1>3, <1>4, <1>5, <1>7 DEF Rises

LEMMA RisesStep ==
  ASSUME TypeOK, Stages, NoFaultIsWanted, Rises, [Next]_vars
  PROVE  Rises'
<1>0. /\ "run" \in Threads /\ "svc" \in Threads /\ setup'.app = setup.app /\ DriveTyped
      /\ hist \in [edge : BOOLEAN, halted : BOOLEAN, waits : 0 .. 3, silent : 0 .. 2, unseen : BOOLEAN]
  BY ThreadNames, SameSetup DEF SameSituation, TypeOK, DriveTyped
<1>1. CASE Run
  BY <1>1, RisesRun
<1>2. CASE SwitchState("svc")
  BY <1>2, RisesSwitch
<1>3. CASE Svc /\ ~SwitchState("svc")
  <2>1. ~AtFault /\ hist.waits = 0
    BY <1>3, SvcMoves DEF AtFault, SwitchPcs, Rises
  <2>2. hist'.waits = 0 /\ ~AtFault'
    BY <1>3, <2>1, SvcMoves, SvcKeeps DEF AtFault
  <2>3. Enabling' => Low'
    BY <1>3, SvcMoves, SvcKeeps DEF Enabling, SwitchPcs, Low
  <2> QED
    BY <2>2, <2>3 DEF Rises
<1>4. CASE App
  <2>1. S' = S /\ setup.app
    BY <1>4, AppMoves DEF App
  <2>2. hist'.waits = hist.waits
    BY <1>0, <1>4 DEF App, SwitchState, SwitchGet, SwitchTarget, SwitchTest, SwitchSet, SwitchWait, SwitchTimeout,
       SwitchMode, ModeCheck, ModePre, ModeSet, ModeWait, ModePost, ModeNone
  <2> QED
    BY <1>0, <2>1, <2>2 DEF Rises, AtFault
<1>5. CASE CallInit \/ CallRecover \/ CallHalt \/ CallShutdown
  <2>1. hist' = hist /\ S.pc = "idle"
    BY <1>5 DEF CallInit, CallRecover, CallHalt, CallShutdown, Idle
  <2>2. hist.waits = 0
    BY <2>1 DEF Rises, AtFault
  <2>3. CASE CallRecover
    BY <2>1, <2>2, <2>3, CallRecoverMoves DEF Rises, AtFault, Low, CallRecover
  <2>4. CASE CallInit
    BY <2>1, <2>2, <2>4, CallInitMoves DEF Rises, AtFault, Enabling, SwitchPcs
  <2>5. CASE CallHalt \/ CallShutdown
    <3>1. "haltRead" \in Pcs /\ "off" \in Pcs /\ th \in [Threads -> Locals]
      BY PcNames DEF TypeOK
    <3>2. S'.pc \in {"haltRead", "off"}
      BY <1>0, <2>5, <3>1, CallMoves DEF CallHalt, CallShutdown
    <3> QED
      BY <2>1, <2>2, <3>2 DEF Rises, AtFault, Enabling, SwitchPcs
  <2> QED
    BY <1>5, <2>3, <2>4, <2>5
<1>6. CASE CallEnterMode \/ CallLeaveMode
  <2>0. "smCheck" \in Pcs /\ "smNone" \in Pcs /\ "app" \in Threads /\ th \in [Threads -> Locals]
    BY <1>6, PcNames, ThreadNames DEF CallEnterMode, CallLeaveMode, TypeOK
  <2>1. Others("app")
    BY <1>0, <1>6, <2>0, CallMoves DEF CallEnterMode, CallLeaveMode, TypeOK
  <2>2. S' = S /\ R' = R
    BY <1>0, <2>1 DEF Others
  <2> QED
    BY <1>0, <1>6, <2>2, RisesKept DEF CallEnterMode, CallLeaveMode, cwVars
<1>7. CASE Drive \/ UNCHANGED vars
  <2>1. drive'.word = drive.word
    BY <1>0, <1>7 DEF DriveTyped, Drive, DriveMoves, DriveFaults, DriveMode, DriveHoming, vars
  <2> QED
    BY <1>0, <1>7, <2>1, RisesKept DEF Drive, DriveMoves, DriveFaults, DriveMode, DriveHoming, vars, cwVars
<1> QED
  BY <1>1, <1>2, <1>3, <1>4, <1>5, <1>6, <1>7 DEF Next, Calls

-------------------------------------------------------------------------------
(* No handler moves the drive while the application switches the mode      *)

A == th["app"]
USE DEF A

\* The application has dropped the handler and not selected another.
Between == setup.app /\ (InSwitch("app", {"pre"}) \/ A.pc \in {"smSet", "smWait"})

Silent ==
  setup.homing = NoMode /\ Between =>
    /\ selected = NoMode
    /\ hist.silent >= 1 /\ R.pc = "send" => "Halt" \in out
    /\ hist.silent = 2 => "Halt" \in drive.word

LEMMA SilentRun ==
  ASSUME TypeOK, Silent, Run
  PROVE  Silent'
<1>0. /\ "run" \in Threads /\ DriveTyped /\ hist.silent \in 0 .. 2
      /\ hist \in [edge : BOOLEAN, halted : BOOLEAN, waits : 0 .. 3, silent : 0 .. 2, unseen : BOOLEAN]
      /\ th \in [Threads -> Locals]
  BY ThreadNames DEF TypeOK, DriveTyped
<1> SUFFICES ASSUME setup.homing = NoMode, Between'
             PROVE  /\ selected' = NoMode
                    /\ hist'.silent >= 1 /\ R'.pc = "send" => "Halt" \in out'
                    /\ hist'.silent = 2 => "Halt" \in drive'.word
  BY RunMoves DEF Silent
<1>1. Between /\ selected' = selected
  <2>1. setup.app => A' = A
    BY RunMoves, ThreadNames DEF Others
  <2>2. Between
    BY <2>1, RunMoves DEF Between, InSwitch
  <2>3. selected' = selected
    BY DEF Run, RunRead, RunMode, ReadState, ReadMode, RunFails, RunWrite, RunSend, Halt, HaltRead,
           HaltLock, HaltEnd, modeVars
  <2> QED
    BY <2>2, <2>3
<1>2. selected = NoMode
  BY <1>1 DEF Silent
<1>3. CASE RunWrite
  <2>1. UNCHANGED <<hist, drive>>
    BY <1>3 DEF RunWrite
  <2>2. CASE layer > Off
    <3>1. "Halt" \in out'
      BY <1>2, <1>3, <2>2 DEF RunWrite, Write
    <3> QED
      BY <1>1, <2>1, <3>1 DEF Silent
  <2>3. CASE ~(layer > Off)
    <3>1. R'.pc = "read"
      BY <1>0, <1>3, <2>3, GotoMoves, PcNames DEF RunWrite
    <3> QED
      BY <1>1, <2>1, <3>1 DEF Silent
  <2> QED
    BY <2>2, <2>3
<1>4. CASE RunSend
  <2>1. R.pc = "send" /\ drive'.word = out
    BY <1>0, <1>4 DEF RunSend, DriveTyped
  <2>2. hist'.silent = 2 => hist.silent >= 1
    BY <1>0, <1>4 DEF RunSend
  <2> QED
    BY <1>1, <1>4, <2>1, <2>2, RunSendsWhatItWrote DEF Silent, RunSend, RunWrite
<1>5. CASE ~RunWrite /\ ~RunSend
  <2>1. hist'.silent = hist.silent /\ drive' = drive
    BY <1>0, <1>5 DEF Run, RunRead, RunMode, ReadState, ReadMode, RunFails, Halt, HaltRead, HaltLock, HaltEnd
  <2> QED
    BY <1>1, <1>5, <2>1, RunSendsWhatItWrote DEF Silent
<1> QED
  BY <1>3, <1>4, <1>5

\* Steps that leave the application and what the drive hears alone.
LEMMA SilentKept ==
  ASSUME Silent, SameSituation, setup.app => A' = A, R'.pc = "send" => R.pc = "send",
         out' = out, drive'.word = drive.word, hist'.silent = hist.silent,
         setup.homing = NoMode => selected' \in {selected, NoMode}
  PROVE  Silent'
BY DEF Silent, Between, InSwitch, SameSituation

LEMMA SilentSvc ==
  ASSUME TypeOK, Stages, Silent, Svc
  PROVE  Silent'
<1>0. /\ "run" \in Threads /\ "svc" \in Threads /\ DriveTyped /\ hist.silent \in 0 .. 2
      /\ hist \in [edge : BOOLEAN, halted : BOOLEAN, waits : 0 .. 3, silent : 0 .. 2, unseen : BOOLEAN]
  BY ThreadNames DEF TypeOK, DriveTyped
<1>1. Others("svc")
  BY <1>0, SvcMoves, SwitchMoves
<1>2. R' = R /\ (setup.app => A' = A)
  BY <1>0, <1>1, ThreadNames DEF Others
<1>3. SameSituation
  BY SameSetup DEF Next
<1>4. CASE SwitchState("svc")
  <2>1. hist'.silent = hist.silent /\ out' = out /\ drive' = drive /\ selected' = selected
    BY <1>0, <1>4, SwitchMoves DEF modeVars
  <2> QED
    BY <1>2, <1>3, <2>1, SilentKept
<1>5. CASE ~SwitchState("svc")
  <2>1. out' = out /\ drive'.word = drive.word
    BY <1>5, SvcKeeps
  <2>2. hist'.silent = hist.silent
    <3>1. CASE SwitchMode("svc")
      BY <1>0, <3>1 DEF SwitchMode, ModeCheck, ModePre, ModeSet, ModeWait, ModePost, ModeNone
    <3>2. CASE ~SwitchMode("svc")
      BY <1>0, <1>5, <3>2 DEF Svc, InitRead, InitMode, ReadState, ReadMode, InitReset, InitEnabled,
         InitHomed, RecoverDone, ShutdownBegin, ShutdownEnd, Halt, HaltRead, HaltLock, HaltEnd,
         ForgetCall, NoHist
    <3> QED
      BY <3>1, <3>2
  <2>3. setup.homing = NoMode => selected' \in {selected, NoMode}
    <3>1. CASE SwitchMode("svc")
      BY <3>1 DEF SwitchMode, ModeCheck, ModePre, ModeSet, ModeWait, ModePost, ModeNone, modeVars,
         Stages, Homing
    <3>2. CASE ~SwitchMode("svc")
      BY <1>5, <3>2 DEF Svc, InitRead, InitMode, ReadState, ReadMode, InitReset, InitEnabled, InitHomed,
         RecoverDone, ShutdownBegin, ShutdownEnd, Halt, HaltRead, HaltLock, HaltEnd, modeVars
    <3> QED
      BY <3>1, <3>2
  <2> QED
    BY <1>2, <1>3, <2>1, <2>2, <2>3, SilentKept
<1> QED
  BY <1>4, <1>5

LEMMA Leaves ==
  ASSUME th \in [Threads -> Locals], "app" \in Threads, NEW ok \in BOOLEAN, Switched("app", ok)
  PROVE  A'.pc = "idle" /\ A'.phase = "none"
<1>1. A' = Fresh("idle")
  BY DoneMoves DEF Switched
<1> QED
  BY <1>1 DEF Fresh

\* The application's switch of mode starts when it drops the handler, and has not
\* another one before it is over.
LEMMA SilentApp ==
  ASSUME TypeOK, Silent, App
  PROVE  Silent'
<1>0. /\ "run" \in Threads /\ "svc" \in Threads /\ "app" \in Threads /\ DriveTyped
      /\ hist \in [edge : BOOLEAN, halted : BOOLEAN, waits : 0 .. 3, silent : 0 .. 2, unseen : BOOLEAN]
      /\ th \in [Threads -> Locals] /\ A.ok \in BOOLEAN
  BY ThreadNames, ModeIsTyped DEF TypeOK, DriveTyped, App
<1>1. R' = R /\ UNCHANGED setup
  BY AppMoves
<1>2. out' = out /\ drive'.word = drive.word
  BY <1>0 DEF App, SwitchState, SwitchGet, SwitchTarget, SwitchTest, SwitchSet, SwitchWait, SwitchTimeout,
     SwitchMode, ModeCheck, ModePre, ModeSet, ModeWait, ModePost, ModeNone, cwVars, DriveTyped
<1>3. CASE SwitchState("app")
  <2>1. hist'.silent = hist.silent /\ selected' = selected
    BY <1>0, <1>3, SwitchMoves DEF modeVars
  <2>2. Between' => Between
    BY <1>0, <1>1, <1>3, SwitchMoves DEF Between, InSwitch, SwitchPcs, SwitchOrRet
  <2> QED
    BY <1>1, <1>2, <2>1, <2>2 DEF Silent
<1>4. CASE ModeCheck("app")
  <2>1. CASE Switched("app", TRUE)
    <3>1. A'.pc = "idle" /\ A'.phase = "none"
      BY <1>0, <2>1, Leaves
    <3> QED
      BY <3>1 DEF Silent, Between, InSwitch
  <2>2. CASE selected' = NoMode /\ hist'.silent = 0
    BY <2>2 DEF Silent
  <2> QED
    BY <1>0, <1>4, <2>1, <2>2 DEF ModeCheck
<1>5. CASE ModePre("app") \/ ModeSet("app")
  <2>1. CASE Switched("app", FALSE)
    <3>1. A'.pc = "idle" /\ A'.phase = "none"
      BY <1>0, <2>1, Leaves
    <3> QED
      BY <3>1 DEF Silent, Between, InSwitch
  <2>2. CASE ~Switched("app", FALSE)
    <3>1. hist' = hist /\ selected' = selected
      BY <1>5 DEF ModePre, ModeSet, modeVars
    <3>2. setup.app => Between
      BY <1>5 DEF ModePre, ModeSet, Between, InSwitch, SwitchOrRet
    <3> QED
      BY <1>1, <1>2, <3>1, <3>2 DEF Silent, Between
  <2> QED
    BY <2>1, <2>2
<1>6. CASE ModeWait("app") \/ ModePost("app") \/ ModeNone("app")
  <2>1. A'.phase # "pre" /\ A'.pc \notin {"smSet", "smWait"}
    <3>1. CASE ModeWait("app")
      BY <1>0, <3>1, Leaves, EnterMoves DEF ModeWait
    <3>2. CASE ModePost("app")
      <4>1. (A.ok /\ A.phase = "post") \in BOOLEAN
        BY <1>0
      <4> QED
        BY <1>0, <3>2, <4>1, Leaves DEF ModePost
    <3>3. CASE ModeNone("app")
      BY <1>0, <3>3, EnterMoves, DoneMoves DEF ModeNone, Fresh
    <3> QED
      BY <1>6, <3>1, <3>2, <3>3
  <2> QED
    BY <2>1 DEF Silent, Between, InSwitch
<1> QED
  BY <1>3, <1>4, <1>5, <1>6 DEF App, SwitchMode

LEMMA SilentStep ==
  ASSUME TypeOK, Stages, Silent, [Next]_vars
  PROVE  Silent'
<1>0. /\ "run" \in Threads /\ "svc" \in Threads /\ SameSituation /\ DriveTyped
      /\ th \in [Threads -> Locals]
  BY ThreadNames, SameSetup DEF TypeOK, DriveTyped
<1>1. CASE CallInit \/ CallRecover \/ CallHalt \/ CallShutdown
  <2>1. (setup.app => A' = A) /\ (R'.pc = "send" => R.pc = "send")
    <3>1. CASE CallInit
      BY <1>0, <3>1, CallInitMoves, ThreadNames DEF Fresh
    <3>2. CASE CallRecover
      BY <1>0, <3>2, CallRecoverMoves, ThreadNames DEF Others
    <3>3. CASE CallHalt \/ CallShutdown
      <4>1. "haltRead" \in Pcs /\ "off" \in Pcs
        BY PcNames
      <4>2. Others("svc")
        BY <1>0, <3>3, <4>1, CallMoves DEF CallHalt, CallShutdown
      <4> QED
        BY <1>0, <4>2, ThreadNames DEF Others
    <3> QED
      BY <1>1, <3>1, <3>2, <3>3
  <2>2. UNCHANGED <<out, drive, hist, selected>>
    BY <1>1 DEF CallInit, CallRecover, CallHalt, CallShutdown, cwVars, modeVars
  <2> QED
    BY <1>0, <2>1, <2>2, SilentKept
<1>2. CASE CallEnterMode \/ CallLeaveMode
  <2>1. "smCheck" \in Pcs /\ "smNone" \in Pcs /\ "app" \in Threads
    BY <1>2, PcNames, ThreadNames DEF CallEnterMode, CallLeaveMode
  <2>2. A'.pc \in {"smCheck", "smNone"} /\ A'.phase = "none"
    BY <1>0, <1>2, <2>1, CallMoves DEF CallEnterMode, CallLeaveMode, TypeOK
  <2> QED
    BY <2>2 DEF Silent, Between, InSwitch
<1>3. CASE Drive \/ UNCHANGED vars
  <2>1. drive'.word = drive.word
    BY <1>0, <1>3 DEF DriveTyped, Drive, DriveMoves, DriveFaults, DriveMode, DriveHoming, vars
  <2>2. UNCHANGED <<th, out, hist, selected>>
    BY <1>3 DEF Drive, DriveMoves, DriveFaults, DriveMode, DriveHoming, vars, cwVars, modeVars
  <2> QED
    BY <1>0, <2>1, <2>2, SilentKept
<1> QED
  BY <1>1, <1>2, <1>3, SilentRun, SilentSvc, SilentApp DEF Next, Calls

-------------------------------------------------------------------------------
(* A homing that ends well has ended at home                               *)

Start == "Start"
Begun == Start \in control_word

\* Where the service is: telling the drive to home, or waiting for it; switching to
\* homing mode; between the two; done; in the switchState by which init begins.
Execs     == S.pc \in {"start", "attain", "stop"}
Choosing  == S.pc \in {"smCheck", "smSet", "smWait"} \/ InSwitch("svc", {"pre"})
Before    == InSwitch("svc", {"post"}) \/ S.pc \in {"homing", "prepare"}
AtHome    == S.pc = "smNone" /\ S.phase = "homed"
Resetting == S.cmd = "init" /\ InSwitch("svc", {"enable"})

\* What the service has prepared when it gets there.
Prep ==
  /\ S.phase = "homed" => S.pc = "smNone"
  /\ execute <=> Execs
  /\ selected # NoMode => selected = setup.homing /\ (Before \/ Execs \/ S.pc \in {"smNone", "off"})
  /\ S.pc = "smWait" => drive.op = setup.homing
  /\ Before \/ Execs \/ AtHome => selected = setup.homing /\ drive.op = setup.homing
  /\ Choosing => status = {}
  /\ (Before /\ status # {}) \/ Execs => drive.mode = setup.homing /\ mode_id = setup.homing
  /\ Resetting \/ Choosing \/ Before => ~Begun

Elsewhere ==
  ~Execs /\ ~Choosing /\ ~Before /\ ~AtHome /\ ~Resetting /\ S.phase # "homed"

\* The ways on for the service, other than by a step of switchState.
Leaving ==
  /\ Elsewhere' /\ ~execute'
  /\ selected' = NoMode \/ (selected' = selected /\ S'.pc \in {"smNone", "off"})

Preparing ==
  /\ ~Execs' /\ ~Before' /\ ~AtHome' /\ S'.phase # "homed"
  /\ ~execute' /\ selected' = NoMode /\ ~Begun'
  /\ Choosing' => status' = {}
  /\ S'.pc = "smWait" => drive'.op = setup.homing

Steady == UNCHANGED <<control_word, status, mode_id>> /\ drive'.op = drive.op

SelectsHoming ==
  /\ S.pc = "smWait" /\ S'.pc = "get" /\ S'.phase = "post"
  /\ Steady /\ ~execute' /\ selected' = setup.homing

GoesOn ==
  /\ Before /\ S'.pc \in {"homing", "prepare"} /\ S'.phase # "homed"
  /\ Steady /\ ~execute' /\ selected' = selected

Executes ==
  /\ \/ S.pc = "prepare" /\ S'.pc = "start"  /\ status # {}
     \/ S.pc = "start"   /\ S'.pc = "attain" /\ hist'.unseen = (status # {})
     \/ S.pc = "attain"  /\ S'.pc = "stop"   /\ hist'.unseen = hist.unseen
  /\ S'.phase # "homed" /\ Steady /\ execute' /\ selected' = selected

Arrives ==
  /\ S.pc = "stop" /\ S'.pc = "smNone" /\ S'.phase = "homed"
  /\ Completed \subseteq status /\ hist'.unseen = hist.unseen
  /\ Steady /\ ~execute' /\ selected' = selected

LEMMA ModeHomes ==
  ASSUME TypeOK, Stages, Prep, SwitchMode("svc")
  PROVE  Leaving \/ Preparing \/ SelectsHoming \/ GoesOn
<1>0. /\ "svc" \in Threads /\ th \in [Threads -> Locals] /\ S.ok \in BOOLEAN /\ DriveTyped
      /\ setup.homing \in Modes \cup {NoMode}
  BY ThreadNames, ModeIsTyped DEF TypeOK, DriveTyped, Situations
<1>1. ASSUME Switched("svc", FALSE), ~execute', selected' = NoMode \/ selected' = selected, S.pc # "smNone"
      PROVE  Leaving
  <2>1. S'.pc = "off" /\ S'.phase = S.phase
    BY <1>0, <1>1, SwitchedMoves
  <2>2. S'.phase # "homed"
    BY <1>1, <2>1 DEF Prep
  <2>3. Elsewhere'
    BY <2>1, <2>2 DEF Elsewhere, Execs, Choosing, Before, AtHome, Resetting, InSwitch, SwitchOrRet
  <2> QED
    BY <1>1, <2>1, <2>3 DEF Leaving
<1>2. ~Execs /\ ~execute /\ execute' = execute
  BY DEF Prep, Execs, SwitchMode, ModeCheck, ModePre, ModeSet, ModeWait, ModePost, ModeNone, homingVars
<1>3. CASE ModeCheck("svc")
  <2>1. selected = NoMode /\ S.mode # NoMode /\ status = {} /\ ~Begun /\ S.phase # "homed"
    BY <1>0, <1>3 DEF ModeCheck, Prep, Stages, Homing, Choosing, Before, Execs, InSwitch, SwitchOrRet
  <2>2. Enter("svc", "pre") /\ selected' = NoMode /\ UNCHANGED <<status, control_word>>
    BY <1>3, <2>1 DEF ModeCheck, homingVars, cwVars
  <2>3. S'.pc = "get" /\ S'.phase = "pre"
    BY <1>0, <2>2, EnterMoves
  <2> QED
    BY <1>2, <2>1, <2>2, <2>3 DEF Preparing, Execs, Before, AtHome, InSwitch, Begun
<1>4. CASE ModePre("svc") \/ ModeSet("svc")
  <2>1. /\ S.mode = setup.homing /\ status = {} /\ ~Begun /\ S.phase # "homed" /\ S.pc # "smNone"
        /\ UNCHANGED <<status, control_word, selected>>
    BY <1>4 DEF ModePre, ModeSet, Prep, Stages, Homing, Choosing, InSwitch, SwitchOrRet, homingVars, cwVars,
                modeVars
  <2>2. selected = NoMode
    BY <1>4 DEF ModePre, ModeSet, Prep, Before, Execs, InSwitch, SwitchOrRet
  <2>3. CASE Switched("svc", FALSE)
    BY <1>1, <1>2, <2>1, <2>3
  <2>4. CASE ModePre("svc") /\ Goto("svc", "smSet")
    <3>1. S'.pc = "smSet" /\ S'.phase = S.phase
      BY <1>0, <2>4, GotoMoves, PcNames
    <3> QED
      BY <1>2, <2>1, <2>2, <3>1 DEF Preparing, Execs, Before, AtHome, InSwitch, SwitchOrRet, Begun
  <2>5. CASE ModeSet("svc") /\ Goto("svc", "smWait") /\ drive' = [drive EXCEPT !.op = S.mode]
    <3>1. S'.pc = "smWait" /\ S'.phase = S.phase
      BY <1>0, <2>5, GotoMoves, PcNames
    <3>2. drive'.op = setup.homing
      BY <1>0, <2>1, <2>5 DEF DriveTyped
    <3> QED
      BY <1>2, <2>1, <2>2, <3>1, <3>2 DEF Preparing, Execs, Before, AtHome, InSwitch, SwitchOrRet, Begun
  <2> QED
    BY <1>4, <2>3, <2>4, <2>5 DEF ModePre, ModeSet
<1>5. CASE ModeWait("svc")
  <2>1. S.mode = setup.homing /\ S.pc = "smWait" /\ selected = NoMode
    BY <1>5 DEF ModeWait, Prep, Stages, Homing, Before, Execs, InSwitch, SwitchOrRet
  <2>2. CASE Switched("svc", FALSE) /\ UNCHANGED selected
    BY <1>1, <1>2, <2>1, <2>2
  <2>3. CASE selected' = S.mode /\ Enter("svc", "post") /\ UNCHANGED drive
    <3>1. S'.pc = "get" /\ S'.phase = "post"
      BY <1>0, <2>3, EnterMoves
    <3> QED
      BY <1>2, <1>5, <2>1, <2>3, <3>1 DEF SelectsHoming, Steady, ModeWait, homingVars, cwVars
  <2>4. CASE Enter("svc", "postFail") /\ UNCHANGED selected
    <3>1. S'.pc = "get" /\ S'.phase = "postFail"
      BY <1>0, <2>4, EnterMoves
    <3>2. Elsewhere'
      BY <3>1 DEF Elsewhere, Execs, Choosing, Before, AtHome, Resetting, InSwitch, SwitchOrRet
    <3> QED
      BY <1>2, <2>1, <2>4, <3>2 DEF Leaving
  <2> QED
    BY <1>5, <2>2, <2>3, <2>4 DEF ModeWait
<1>6. CASE ModePost("svc")
  <2>1. UNCHANGED <<control_word, status, mode_id, selected, drive>> /\ S.phase # "homed" /\ S.pc # "smNone"
    BY <1>6 DEF ModePost, homingVars, cwVars, modeVars
  <2>2. CASE S.ok /\ S.phase = "post"
    <3>1. Switched("svc", TRUE)
      BY <1>6, <2>2 DEF ModePost
    <3>2. S'.pc = "homing" /\ S'.phase = S.phase
      BY <1>0, <3>1, SwitchedMoves
    <3>3. Before
      BY <1>6, <2>2 DEF ModePost, Before, InSwitch, SwitchOrRet
    <3> QED
      BY <1>2, <2>1, <3>2, <3>3 DEF GoesOn, Steady
  <2>3. CASE ~(S.ok /\ S.phase = "post")
    <3>1. Switched("svc", FALSE)
      BY <1>6, <2>3 DEF ModePost, Switched
    <3> QED
      BY <1>1, <1>2, <2>1, <3>1
  <2> QED
    BY <2>2, <2>3
<1>7. CASE ModeNone("svc")
  <2>1. \/ S'.pc = "get" /\ S'.phase = "sd"
        \/ S'.pc = "idle" /\ S'.phase = "none"
    BY <1>0, <1>7, EnterMoves, DoneMoves DEF ModeNone
  <2>2. Elsewhere'
    BY <2>1 DEF Elsewhere, Execs, Choosing, Before, AtHome, Resetting, InSwitch, SwitchOrRet
  <2> QED
    BY <1>2, <1>7, <2>2 DEF Leaving, ModeNone
<1> QED
  BY <1>3, <1>4, <1>5, <1>6, <1>7 DEF SwitchMode

LEMMA HomingHomes ==
  ASSUME TypeOK, Stages, Prep, InitHomed
  PROVE  Leaving \/ GoesOn \/ Executes \/ Arrives
<1>0. /\ UNCHANGED <<control_word, mode_id, selected, drive>> /\ S.phase # "homed"
      /\ hist \in [edge : BOOLEAN, halted : BOOLEAN, waits : 0 .. 3, silent : 0 .. 2, unseen : BOOLEAN]
      /\ hist'.unseen = CASE S'.pc = "attain" -> status # {}
                          [] S'.pc = "off"    -> FALSE
                          [] OTHER            -> hist.unseen
  BY DEF InitHomed, HomingBegin, HomingWait, Waits, cwVars, modeVars, Prep, TypeOK
<1>1. CASE /\ S.pc = "homing" /\ UNCHANGED homingVars
           /\ S'.pc \in {"prepare", "smNone"} /\ S'.phase = S.phase
  <2>1. ~execute' /\ status' = status
    BY <1>1 DEF Prep, Execs, homingVars
  <2>2. CASE S'.pc = "prepare"
    BY <1>0, <1>1, <2>1, <2>2 DEF GoesOn, Steady, Before
  <2>3. CASE S'.pc = "smNone"
    <3>1. Elsewhere'
      BY <1>0, <1>1, <2>3 DEF Elsewhere, Execs, Choosing, Before, AtHome, Resetting, InSwitch, SwitchOrRet
    <3> QED
      BY <1>0, <2>1, <2>3, <3>1 DEF Leaving
  <2> QED
    BY <1>1, <2>2, <2>3
<1>2. CASE /\ S.pc \in {"prepare", "start", "attain"} /\ Waited(S.pc)
           /\ S'.pc = Following[S.pc] /\ S'.phase = S.phase
  <2>1. execute' /\ status' = status /\ Awaited(S.pc)
    BY <1>2 DEF Waited
  <2>2. CASE S.pc = "prepare"
    <3>1. S'.pc = "start" /\ status # {}
      BY <1>2, <2>1, <2>2 DEF Following, Awaited
    <3> QED
      BY <1>0, <1>2, <2>1, <2>2, <3>1 DEF Executes, Steady
  <2>3. CASE S.pc = "start"
    <3>1. S'.pc = "attain"
      BY <1>2, <2>3 DEF Following
    <3> QED
      BY <1>0, <1>2, <2>1, <2>3, <3>1 DEF Executes, Steady
  <2>4. CASE S.pc = "attain"
    <3>1. S'.pc = "stop"
      BY <1>2, <2>4 DEF Following
    <3> QED
      BY <1>0, <1>2, <2>1, <2>4, <3>1 DEF Executes, Steady
  <2> QED
    BY <1>2, <2>2, <2>3, <2>4
<1>3. CASE /\ S.pc = "stop" /\ Homed /\ execute' = FALSE /\ UNCHANGED <<status, homer>>
           /\ S'.pc = "smNone" /\ S'.phase = "homed"
  BY <1>0, <1>3 DEF Arrives, Steady, Homed
<1>4. CASE HomingError /\ S'.pc = "off" /\ S'.phase = S.phase
  <2>1. Elsewhere'
    BY <1>0, <1>4 DEF Elsewhere, Execs, Choosing, Before, AtHome, Resetting, InSwitch, SwitchOrRet
  <2> QED
    BY <1>0, <1>4, <2>1 DEF Leaving, HomingError
<1> QED
  BY <1>1, <1>2, <1>3, <1>4, InitHomedMoves

LEMMA SvcHomes ==
  ASSUME TypeOK, Stages, Prep, Svc, ~SwitchState("svc")
  PROVE  Leaving \/ Preparing \/ SelectsHoming \/ GoesOn \/ Executes \/ Arrives
<1>0. /\ "svc" \in Threads /\ th \in [Threads -> Locals]
      /\ S.next \in {"idle", "write", "read", "off"} /\ state \in States402
  BY ThreadNames, ModeIsTyped DEF TypeOK
\* In these places no mode is selected and nothing is executed.
<1>1. ASSUME S.pc \notin {"start", "attain", "stop", "homing", "prepare", "smNone", "off"},
             ~InSwitch("svc", {"post"})
      PROVE  ~execute /\ selected = NoMode /\ S.phase # "homed"
  BY <1>1 DEF Prep, Execs, Before
<1>2. CASE SwitchMode("svc") \/ InitHomed
  BY <1>2, ModeHomes, HomingHomes
<1>3. CASE InitRead \/ InitMode
  <2>1. S'.pc \in {"initMode", "initReset"} /\ S'.phase = S.phase
    BY <1>3, ReadersMove
  <2>2. ~execute /\ selected = NoMode /\ S.phase # "homed"
    BY <1>1, <1>3 DEF InitRead, InitMode, InSwitch, SwitchOrRet
  <2>3. execute' = execute /\ selected' = selected
    BY <1>3 DEF InitRead, InitMode, ReadState, ReadMode, homingVars, modeVars, read
  <2>4. Elsewhere'
    BY <2>1, <2>2 DEF Elsewhere, Execs, Choosing, Before, AtHome, Resetting, InSwitch, SwitchOrRet
  <2> QED
    BY <2>2, <2>3, <2>4 DEF Leaving
<1>4. CASE InitReset
  <2>1. S'.pc = "get" /\ S'.phase = "enable"
    BY <1>0, <1>4, EnterMoves DEF InitReset
  <2>2. ~execute /\ selected = NoMode
    BY <1>1, <1>4 DEF InitReset, InSwitch, SwitchOrRet
  <2>3. ~execute' /\ selected' = NoMode /\ ~Begun'
    BY <1>4, <2>2 DEF InitReset, homingVars, modeVars, Begun
  <2> QED
    BY <2>1, <2>3 DEF Preparing, Execs, Before, AtHome, Choosing, InSwitch
<1>5. CASE InitEnabled
  <2>1. ~execute /\ selected = NoMode /\ ~Begun
    BY <1>1, <1>5 DEF InitEnabled, InSwitch, Prep, Resetting, SwitchOrRet
  <2>2. UNCHANGED <<control_word, selected>>
    BY <1>5 DEF InitEnabled, cwVars, modeVars
  <2>3. CASE S'.pc \in {"off", "idle"} /\ S'.phase # "homed" /\ UNCHANGED homingVars
    <3>1. Elsewhere'
      BY <2>3 DEF Elsewhere, Execs, Choosing, Before, AtHome, Resetting, InSwitch, SwitchOrRet
    <3> QED
      BY <2>1, <2>2, <2>3, <3>1 DEF Leaving, homingVars
  <2>4. CASE S'.pc = "smCheck" /\ S'.phase = "enable" /\ start
    BY <2>1, <2>2, <2>4 DEF Preparing, start, Execs, Before, AtHome, InSwitch, SwitchOrRet, Begun
  <2> QED
    BY <1>5, <2>3, <2>4, InitEnabledMoves DEF Fresh
<1>6. CASE RecoverDone \/ ShutdownEnd
  <2>1. \/ S'.pc = "idle" /\ S'.phase = "none"
        \/ S'.pc = "haltRead" /\ S'.phase = S.phase
    <3>1. CASE RecoverDone
      BY <3>1, RecoverDoneMoves DEF Fresh
    <3>2. CASE ShutdownEnd
      BY <1>0, <3>2, DoneMoves DEF ShutdownEnd
    <3> QED
      BY <1>6, <3>1, <3>2
  <2>2. ~execute /\ selected = NoMode /\ S.phase # "homed"
    BY <1>1, <1>6 DEF RecoverDone, ShutdownEnd, InSwitch, Stages
  <2>3. execute' = execute /\ selected' = selected
    BY <1>6 DEF RecoverDone, ShutdownEnd, homingVars, modeVars
  <2>4. Elsewhere'
    BY <2>1, <2>2 DEF Elsewhere, Execs, Choosing, Before, AtHome, Resetting, InSwitch, SwitchOrRet
  <2> QED
    BY <2>2, <2>3, <2>4 DEF Leaving
<1>7. CASE ShutdownBegin
  <2>1. S'.pc = "smNone" /\ S'.phase = S.phase
    BY <1>0, <1>7, GotoMoves, PcNames DEF ShutdownBegin
  <2>2. ~execute' /\ selected' = selected /\ S.phase # "homed"
    BY <1>7 DEF ShutdownBegin, Prep, Execs, homingVars, modeVars
  <2>3. Elsewhere'
    BY <2>1, <2>2 DEF Elsewhere, Execs, Choosing, Before, AtHome, Resetting, InSwitch, SwitchOrRet
  <2> QED
    BY <2>1, <2>2, <2>3 DEF Leaving
<1>8. CASE Halt("svc")
  <2>1. /\ S'.pc \in {"haltLock", "haltEnd", "idle", "write", "read", "off"}
        /\ S'.phase \in {S.phase, "none"}
    <3>1. CASE HaltRead("svc")
      <4>1. "haltLock" \in Pcs
        BY PcNames
      <4> QED
        BY <1>0, <3>1, <4>1, LookMoves DEF HaltRead
    <3>2. CASE HaltLock("svc")
      BY <1>0, <3>2, GotoMoves, PcNames DEF HaltLock
    <3>3. CASE HaltEnd("svc")
      BY <1>0, <3>3, HaltEndMoves DEF Fresh
    <3> QED
      BY <1>8, <3>1, <3>2, <3>3 DEF Halt
  <2>2. ~execute /\ selected = NoMode /\ S.phase # "homed"
    BY <1>1, <1>8 DEF Halt, HaltRead, HaltLock, HaltEnd, InSwitch, SwitchOrRet
  <2>3. execute' = execute /\ selected' = selected
    BY <1>8 DEF Halt, HaltRead, HaltLock, HaltEnd, homingVars, modeVars
  <2>4. Elsewhere'
    BY <2>1, <2>2 DEF Elsewhere, Execs, Choosing, Before, AtHome, Resetting, InSwitch, SwitchOrRet
  <2> QED
    BY <2>2, <2>3, <2>4 DEF Leaving
<1> QED
  BY <1>2, <1>3, <1>4, <1>5, <1>6, <1>7, <1>8 DEF Svc

\* What the service's steps outside of switchState do not touch.
LEMMA SvcHears ==
  ASSUME TypeOK, Stages, Svc, ~SwitchState("svc")
  PROVE  /\ R' = R /\ UNCHANGED <<setup, out, homer>>
         /\ drive'.word = drive.word /\ drive'.mode = drive.mode
<1>0. "run" \in Threads /\ "svc" \in Threads /\ DriveTyped
  BY ThreadNames DEF TypeOK, DriveTyped
<1>1. R' = R
  BY <1>0, SvcMoves DEF Others
<1>2. homer' = homer /\ drive'.mode = drive.mode
  <2>1. CASE SwitchMode("svc")
    BY <1>0, <2>1 DEF SwitchMode, ModeCheck, ModePre, ModeSet, ModeWait, ModePost, ModeNone, homingVars,
       DriveTyped
  <2>2. CASE InitHomed
    BY <2>2 DEF InitHomed, HomingBegin, HomingWait, HomingFails, HomingError, Waited, homingVars
  <2>3. CASE ~SwitchMode("svc") /\ ~InitHomed
    BY <2>3 DEF Svc, InitRead, InitMode, ReadState, ReadMode, InitReset, InitEnabled, RecoverDone,
       ShutdownBegin, ShutdownEnd, Halt, HaltRead, HaltLock, HaltEnd, homingVars, read
  <2> QED
    BY <2>1, <2>2, <2>3
<1> QED
  BY <1>1, <1>2, SvcKeeps

\* A step of switchState keeps the service at its place and the bit that starts homing.
LEMMA SwitchHomes ==
  ASSUME TypeOK, SwitchState("svc")
  PROVE  /\ R' = R /\ UNCHANGED <<setup, out, homingVars, modeVars, drive>>
         /\ Begun' <=> Begun
         /\ hist'.unseen = hist.unseen
         /\ S.pc \in SwitchPcs /\ S'.pc \in SwitchOrRet /\ S'.phase = S.phase /\ S'.cmd = S.cmd
<1>0. /\ "run" \in Threads /\ "svc" \in Threads
      /\ hist \in [edge : BOOLEAN, halted : BOOLEAN, waits : 0 .. 3, silent : 0 .. 2, unseen : BOOLEAN]
  BY ThreadNames DEF TypeOK
<1>1. Begun' <=> Begun
  <2>1. CASE SwitchSet("svc")
    <3>1. CASE UNCHANGED control_word
      BY <3>1 DEF Begun
    <3>2. CASE \E op \in Transitions(S.st, Hop(S.st, target_state)) : control_word' = Apply(op, control_word)
      <4>1. control_word \in SUBSET Bits
        BY DEF TypeOK
      <4> QED
        BY <3>2, <4>1, ApplyBits DEF Begun, Start
    <3> QED
      BY <2>1, <3>1, <3>2 DEF SwitchSet
  <2>2. CASE ~SwitchSet("svc")
    BY <2>2 DEF SwitchState, SwitchGet, SwitchTarget, SwitchTest, SwitchWait, SwitchTimeout, cwVars, Begun
  <2> QED
    BY <2>1, <2>2
<1>2. R' = R
  <2>1. Others("svc")
    BY <1>0, SwitchMoves
  <2> QED
    BY <1>0, <2>1 DEF Others
<1>3. /\ UNCHANGED <<setup, out, homingVars, modeVars, drive>>
      /\ S.pc \in SwitchPcs /\ S'.phase = S.phase /\ S'.cmd = S.cmd
  BY <1>0, SwitchMoves
<1>4. S'.pc \in SwitchOrRet
  BY <1>0, SwitchMoves DEF SwitchOrRet
<1>5. hist'.unseen = hist.unseen
  BY <1>0, SwitchMoves
<1> QED
  BY <1>1, <1>2, <1>3, <1>4, <1>5

LEMMA CallsHome ==
  ASSUME TypeOK, Prep, ~setup.app, Calls
  PROVE  Leaving
<1>0. "svc" \in Threads /\ th \in [Threads -> Locals] /\ ~CallEnterMode /\ ~CallLeaveMode
  BY ThreadNames DEF TypeOK, CallEnterMode, CallLeaveMode
<1>1. \/ S'.pc \in {"initRead", "haltRead", "off"} /\ S'.phase = "none"
      \/ S'.pc = "get" /\ S'.phase = "enable" /\ S'.cmd = "recover"
  <2>1. CASE CallInit
    BY <2>1, CallInitMoves
  <2>2. CASE CallRecover
    BY <2>2, CallRecoverMoves
  <2>3. CASE CallHalt \/ CallShutdown
    <3>1. "haltRead" \in Pcs /\ "off" \in Pcs
      BY PcNames
    <3> QED
      BY <1>0, <2>3, <3>1, CallMoves DEF CallHalt, CallShutdown
  <2> QED
    BY <1>0, <2>1, <2>2, <2>3 DEF Calls
<1>2. S.pc = "idle" /\ UNCHANGED <<execute, selected>>
  BY <1>0 DEF Calls, CallInit, CallRecover, CallHalt, CallShutdown, Idle, homingVars, modeVars
<1>3. ~execute /\ selected = NoMode
  BY <1>2 DEF Prep, Execs, Before, InSwitch, SwitchOrRet
<1>4. Elsewhere'
  BY <1>1 DEF Elsewhere, Execs, Choosing, Before, AtHome, Resetting, InSwitch, SwitchOrRet
<1> QED
  BY <1>2, <1>3, <1>4 DEF Leaving

\* What the run thread's steps do to the homing.
LEMMA RunHomes ==
  ASSUME TypeOK, Run
  PROVE  /\ S' = S /\ UNCHANGED <<setup, execute, selected>> /\ hist'.unseen = hist.unseen
         /\ drive'.op = drive.op /\ drive'.mode = drive.mode
         /\ ~RunMode => UNCHANGED <<status, mode_id>>
         /\ ~RunWrite => (Begun' <=> Begun) /\ UNCHANGED out
         /\ ~RunSend => UNCHANGED <<homer, drive>>
<1>0. DriveTyped
      /\ hist \in [edge : BOOLEAN, halted : BOOLEAN, waits : 0 .. 3, silent : 0 .. 2, unseen : BOOLEAN]
  BY DEF TypeOK, DriveTyped
<1>1. CASE Halt("run")
  <2>1. Begun' <=> Begun
    BY <1>1 DEF Halt, HaltRead, HaltLock, HaltEnd, HaltCommand, Apply, quickstop, Op, cwVars, Begun, Start
  <2>2. hist'.unseen = hist.unseen
    BY <1>0, <1>1 DEF Halt, HaltRead, HaltLock, HaltEnd
  <2> QED
    BY <1>1, <2>1, <2>2, RunMoves DEF Halt, HaltRead, HaltLock, HaltEnd, homingVars, modeVars, cwVars
<1>2. CASE RunMode
  BY <1>2, RunMoves DEF RunMode, ReadMode, read, homingVars, modeVars, cwVars, Begun, RunWrite, RunSend
<1>3. CASE RunSend
  BY <1>0, <1>3, RunMoves DEF RunSend, homingVars, modeVars, cwVars, Begun, RunMode, RunWrite, DriveTyped, SeesStart
<1>4. CASE RunRead \/ RunFails
  BY <1>4, RunMoves DEF RunRead, ReadState, RunFails, homingVars, modeVars, cwVars, Begun
<1>5. CASE RunWrite
  BY <1>5, RunMoves DEF RunWrite, homingVars, modeVars
<1> QED
  BY <1>1, <1>2, <1>3, <1>4, <1>5 DEF Run

LEMMA RunModeReads ==
  ASSUME TypeOK, RunMode
  PROVE  /\ R.pc = "mode" /\ R'.pc = "write" /\ mode_id' = drive.mode
         /\ IF InHoming /\ selected = drive.mode THEN status' = R.sw ELSE status' = status
<1>0. "run" \in Threads /\ "write" \in Pcs
  BY ThreadNames, PcNames
<1>1. R'.pc = "write"
  BY <1>0, ReadMoves DEF RunMode
<1> QED
  BY <1>1 DEF RunMode, ReadMode, read, homingVars

\* The word that is written starts homing only while executeHoming wants it to.
LEMMA RunWrites ==
  ASSUME TypeOK, RunWrite
  PROVE  \/ R'.pc = "read" /\ ~(layer > Off) /\ UNCHANGED <<control_word, out>>
         \/ /\ R'.pc = "send" /\ (Start \in out' <=> Begun')
            /\ Begun' => Begun \/ (execute /\ selected = setup.homing)
            /\ execute /\ selected = setup.homing /\ mode_id = selected /\ selected # NoMode
                 => (Begun => Begun')
<1>0. "run" \in Threads /\ th \in [Threads -> Locals]
  BY ThreadNames DEF TypeOK
<1>1. CASE ~(layer > Off)
  BY <1>0, <1>1, GotoMoves, PcNames DEF RunWrite, cwVars
<1>2. CASE layer > Off
  <2>1. R'.pc = "send"
    BY <1>0, <1>2, GotoMoves, PcNames DEF RunWrite
  <2>2. Start \in out' <=> Begun'
    BY <1>2 DEF RunWrite, Write, Begun, Start
  <2>3. Begun' => Begun \/ (execute /\ selected = setup.homing)
    BY <1>2 DEF RunWrite, Write, write, Begun, Start
  <2>4. execute /\ selected = setup.homing /\ mode_id = selected /\ selected # NoMode => (Begun => Begun')
    BY <1>2 DEF RunWrite, Write, write, Begun, Start
  <2> QED
    BY <2>1, <2>2, <2>3, <2>4
<1> QED
  BY <1>1, <1>2

LEMMA PrepRun ==
  ASSUME TypeOK, Stages, Prep, Run
  PROVE  Prep'
<1>1. /\ S' = S /\ UNCHANGED <<setup, execute, selected>>
      /\ drive'.op = drive.op /\ drive'.mode = drive.mode
  BY RunHomes
<1>2. CASE RunMode
  <2>1. (Begun' <=> Begun) /\ mode_id' = drive.mode
    BY <1>2, RunHomes, RunModeReads DEF RunWrite, RunMode
  <2>2. CASE status' = status
    BY <1>1, <2>1, <2>2 DEF Prep, Execs, Choosing, Before, AtHome, Resetting, InSwitch
  <2>3. CASE status' # status
    <3>1. setup.homing # NoMode /\ drive.mode = setup.homing /\ selected = drive.mode
      BY <1>2, <2>3, RunModeReads DEF InHoming
    <3>2. ~Choosing
      BY <3>1 DEF Prep, Choosing, Before, Execs, InSwitch, SwitchOrRet
    <3> QED
      BY <1>1, <2>1, <3>1, <3>2 DEF Prep, Execs, Choosing, Before, AtHome, Resetting, InSwitch
  <2> QED
    BY <2>2, <2>3
<1>3. CASE RunWrite
  <2>1. UNCHANGED <<status, mode_id>>
    BY <1>3, RunHomes DEF RunMode, RunWrite
  <2>2. Begun' => Begun \/ execute
    BY <1>3, RunWrites DEF Begun
  <2>3. Resetting \/ Choosing \/ Before => ~Execs
    BY DEF Resetting, Choosing, Before, Execs, InSwitch, SwitchOrRet
  <2> QED
    BY <1>1, <2>1, <2>2, <2>3 DEF Prep, Execs, Choosing, Before, AtHome, Resetting, InSwitch
<1>4. CASE ~RunMode /\ ~RunWrite
  <2>1. UNCHANGED <<status, mode_id>> /\ (Begun' <=> Begun)
    BY <1>4, RunHomes
  <2> QED
    BY <1>1, <2>1 DEF Prep, Execs, Choosing, Before, AtHome, Resetting, InSwitch
<1> QED
  BY <1>2, <1>3, <1>4

LEMMA PrepLeaving ==
  ASSUME Prep, Leaving, setup'.homing = setup.homing
  PROVE  Prep'
BY DEF Leaving, Prep, Elsewhere, Choosing

LEMMA PrepSvc ==
  ASSUME TypeOK, Stages, Prep, Svc
  PROVE  Prep'
<1>1. CASE SwitchState("svc")
  <2>1. /\ ~Execs' /\ ~Execs /\ ~AtHome' /\ (Choosing' => Choosing) /\ (Before' => Before)
        /\ (Resetting' => Resetting) /\ S'.pc \notin {"smWait", "smNone"}
        /\ S'.phase # "homed"
    BY <1>1, SwitchHomes DEF Prep, Execs, AtHome, Choosing, Before, Resetting, InSwitch, SwitchPcs, SwitchOrRet
  <2>2. S.pc \notin {"smNone", "off"}
    BY <1>1, SwitchHomes DEF SwitchPcs
  <2>3. Before' <=> Before
    BY <1>1, SwitchHomes DEF Before, InSwitch, SwitchPcs, SwitchOrRet
  <2> QED
    BY <1>1, <2>1, <2>2, <2>3, SwitchHomes DEF Prep, homingVars, modeVars
<1>2. CASE ~SwitchState("svc")
  <2>1. UNCHANGED setup /\ drive'.mode = drive.mode
    BY <1>2, SvcHears
  <2>2. CASE Leaving
    BY <2>1, <2>2, PrepLeaving
  <2>3. CASE Preparing
    BY <2>1, <2>3 DEF Preparing, Prep, Before
  <2>4. CASE SelectsHoming
    BY <2>1, <2>4 DEF SelectsHoming, Steady, Prep, Execs, Before, AtHome, Choosing, Resetting, InSwitch, SwitchOrRet, Begun
  <2>5. CASE GoesOn
    BY <2>1, <2>5 DEF GoesOn, Steady, Prep, Execs, Before, AtHome, Choosing, Resetting, InSwitch, SwitchOrRet, Begun
  <2>6. CASE Executes
    BY <2>1, <2>6 DEF Executes, Steady, Prep, Execs, Before, AtHome, Choosing, Resetting, InSwitch, SwitchOrRet, Begun
  <2>7. CASE Arrives
    BY <2>1, <2>7 DEF Arrives, Steady, Prep, Execs, Before, AtHome, Choosing, Resetting, InSwitch, SwitchOrRet, Begun
  <2> QED
    BY <1>2, <2>2, <2>3, <2>4, <2>5, <2>6, <2>7, SvcHomes
<1> QED
  BY <1>1, <1>2

LEMMA PrepStep ==
  ASSUME TypeOK, Stages, Prep, ~setup.app, [Next]_vars
  PROVE  Prep'
<1>1. CASE Calls
  BY <1>1, CallsHome, PrepLeaving, SameSetup DEF SameSituation
<1>2. CASE Drive \/ UNCHANGED vars
  <2>0. DriveTyped
    BY DEF TypeOK, DriveTyped
  <2>1. /\ UNCHANGED <<th, setup, execute, status, selected, mode_id, control_word>> /\ drive'.op = drive.op
        /\ drive'.mode \in {drive.mode, drive.op}
    BY <1>2, <2>0 DEF Drive, DriveMoves, DriveFaults, DriveMode, DriveHoming, DriveHomes, homingVars, modeVars,
                      cwVars, vars, DriveTyped
  <2> QED
    BY <2>1 DEF Prep, Execs, Choosing, Before, AtHome, Resetting, InSwitch, Begun
<1> QED
  BY <1>1, <1>2, PrepRun, PrepSvc DEF Next, App

Whole == Completed \subseteq homer.status => homer.status = Completed

\* The drive has heard of a start only if it was told to start.
Synced ==
  /\ Start \in drive.word => Begun
  /\ R.pc = "send" => (Start \in drive.word => Start \in out) /\ (Start \in out => Begun)

\* A status that was read since homing was selected was read after a frame.
Sampled ==
  (Before \/ Execs) /\ status # {} =>
     /\ R.pc = "send" => (Start \in out => Begun)
     /\ R.pc \in {"sent", "read", "mode"} => Synced

\* The drive has been seen under way, or is going to be.
Under ==
  \/ (Before \/ S.pc = "start") /\ status # {} /\ R.pc = "mode" /\ R.sw = {}
  \/ S.pc = "start" /\ status = {}
  \/ S.pc \in {"attain", "stop"} /\ ~hist.unseen

\* A drive that is at home has got there at what it was told last.
Finished ==
  homer.status = Completed =>
    ~homer.seen /\ Start \in drive.word /\ Begun /\ (R.pc = "send" => Start \in out)

Tells == Completed \subseteq status \/ (R.pc = "mode" /\ Completed \subseteq R.sw)

Way ==
  Under => /\ Finished /\ Synced
           /\ Execs /\ Tells /\ (S.pc = "start" => status = {}) => homer.status = Completed

Stays ==
  AtHome /\ ~hist.unseen =>
    /\ homer.status = Completed /\ ~homer.seen /\ drive.mode = setup.homing
    /\ R.pc = "send" => (Start \in out => Start \in drive.word)
    /\ Begun => Start \in drive.word /\ (R.pc = "send" => Start \in out)

Home == Whole /\ Sampled /\ Way /\ Stays

\* While the service homes, the layer is initialised and the run thread does not halt.
LEMMA HomingRuns ==
  ASSUME TypeOK, Stages, Before \/ Execs
  PROVE  layer = InitState /\ R.pc \notin HaltPcs /\ setup.homing # NoMode /\ layer > Off /\ ~(layer > HaltState)
<1>1. Homing
  BY DEF Before, Execs, Homing, InSwitch
<1> QED
  BY <1>1 DEF Stages, InitState, Off, HaltState

LEMMA WholeStep ==
  ASSUME TypeOK, Stages, Whole, [Next]_vars
  PROVE  Whole'
<1>0. homer \in [status : SUBSET StatusBits, seen : BOOLEAN]
  BY DEF TypeOK, HomingTypeOK
<1>1. CASE Svc
  BY <1>1, SvcHears, SwitchHomes, SwitchMoves DEF Whole, homingVars
<1>2. CASE Run
  <2>1. homer'.status = homer.status
    BY <1>0, <1>2, RunHomes DEF RunSend, SeesStart
  <2> QED
    BY <2>1 DEF Whole
<1>3. CASE Drive
  <2>1. CASE DriveMoves \/ DriveFaults
    BY <2>1 DEF Whole, DriveMoves, DriveFaults, homingVars
  <2>2. CASE DriveMode
    <3>1. homer'.status \in {{"Reached"}, Completed}
      BY <2>2 DEF DriveMode, EntersHoming, LeavesHoming
    <3> QED
      BY <3>1 DEF Whole, Completed
  <2>3. CASE DriveHoming
    <3>1. homer'.status \in {{}, {"Attained"}, Completed, {"Error"}, {"Reached"}}
      BY <1>0, <2>3 DEF DriveHoming, DriveHomes, Moves, Completed
    <3> QED
      BY <3>1 DEF Whole, Completed
  <2> QED
    BY <1>3, <2>1, <2>2, <2>3 DEF Drive
<1>4. CASE App \/ Calls \/ UNCHANGED vars
  <2>1. homer' = homer
    BY <1>4 DEF App, SwitchState, SwitchGet, SwitchTarget, SwitchTest, SwitchSet, SwitchWait, SwitchTimeout,
       SwitchMode, ModeCheck, ModePre, ModeSet, ModeWait, ModePost, ModeNone, Calls, CallInit, CallRecover,
       CallHalt, CallShutdown, CallEnterMode, CallLeaveMode, homingVars, vars
  <2> QED
    BY <2>1 DEF Whole
<1> QED
  BY <1>1, <1>2, <1>3, <1>4 DEF Next

\* Somewhere else nothing is claimed.
LEMMA HomeElsewhere ==
  ASSUME ~Before', ~Execs', ~AtHome'
  PROVE  Sampled' /\ Way' /\ Stays'
BY DEF Sampled, Way, Stays, Under, Execs

LEMMA HomeRun ==
  ASSUME TypeOK, Stages, Prep, Home, Run
  PROVE  Sampled' /\ Way' /\ Stays'
<1>0. /\ "run" \in Threads /\ th \in [Threads -> Locals] /\ DriveTyped
      /\ homer \in [status : SUBSET StatusBits, seen : BOOLEAN]
  BY ThreadNames DEF TypeOK, DriveTyped, HomingTypeOK
<1>1. /\ S' = S /\ UNCHANGED setup /\ hist'.unseen = hist.unseen /\ drive'.mode = drive.mode
      /\ Execs' = Execs /\ Before' = Before /\ AtHome' = AtHome
  BY RunHomes DEF Execs, Before, AtHome, InSwitch
<1>2. CASE RunRead
  <2>0. R.pc \in {"read", "sent"}
    BY <1>2 DEF RunRead
  <2>1. R'.pc = "mode" /\ R'.sw = IF InHoming THEN homer.status ELSE {}
    <3>1. "mode" \in Pcs
      BY PcNames
    <3> QED
      BY <1>0, <1>2, <3>1, ReadMoves DEF RunRead
  <2>2. UNCHANGED <<status, homer, drive, control_word, out>>
    BY <1>2 DEF RunRead, ReadState, homingVars, cwVars
  <2>3. Sampled'
    BY <1>1, <2>0, <2>1, <2>2 DEF Home, Sampled, Synced, Begun
  <2>4. Stays'
    BY <1>1, <2>1, <2>2 DEF Home, Stays, Begun
  <2>5. CASE (Before \/ S.pc = "start") /\ status # {}
    <3>1. InHoming
      BY <2>5, HomingRuns DEF Prep, Execs, InHoming
    <3>2. Under' => homer.status = {}
      BY <1>1, <2>1, <2>2, <2>5, <3>1 DEF Under, Before, InSwitch, SwitchOrRet
    <3>3. Synced'
      BY <2>0, <2>1, <2>2, <2>5 DEF Home, Sampled, Synced, Begun, Execs
    <3>4. ~(Execs /\ (S.pc = "start" => status = {}))
      BY <2>5 DEF Execs, Before, InSwitch, SwitchOrRet
    <3>5. {} # Completed
      BY DEF Completed
    <3> QED
      BY <1>1, <2>2, <2>3, <2>4, <3>2, <3>3, <3>4, <3>5 DEF Way, Finished
  <2>6. CASE ~((Before \/ S.pc = "start") /\ status # {})
    <3>1. Under' => Under
      BY <1>1, <2>2, <2>6 DEF Under
    <3>2. Under => Synced' /\ Finished'
      BY <2>0, <2>1, <2>2 DEF Home, Way, Synced, Finished, Begun
    <3>3. Tells' => (Completed \subseteq status \/ homer.status = Completed)
      BY <2>1, <2>2 DEF Tells, Home, Whole, Completed
    <3>4. Way'
      BY <1>1, <2>2, <3>1, <3>2, <3>3 DEF Home, Way, Tells
    <3> QED
      BY <2>3, <2>4, <3>4
  <2> QED
    BY <2>5, <2>6
<1>3. CASE RunMode
  <2>1. /\ R.pc = "mode" /\ R'.pc = "write"
        /\ status' = R.sw \/ status' = status
    BY <1>3, RunModeReads
  <2>2. UNCHANGED <<homer, drive, control_word, out>>
    BY <1>3 DEF RunMode, ReadMode, homingVars, cwVars, read
  <2>3. Sampled' /\ Stays'
    BY <1>1, <2>1, <2>2 DEF Home, Sampled, Stays, Begun
  <2>4. Under' => Under
    BY <1>1, <2>1 DEF Under
  <2>5. Under => Synced' /\ Finished'
    BY <2>1, <2>2 DEF Home, Way, Synced, Finished, Begun
  <2>6. Tells' => Tells
    BY <2>1 DEF Tells
  <2>7. Tells' /\ (S.pc = "start" => status' = {}) => S.pc # "start"
    BY <2>1 DEF Tells, Completed
  <2>8. Way'
    BY <1>1, <2>2, <2>4, <2>5, <2>6, <2>7 DEF Home, Way
  <2> QED
    BY <2>3, <2>8
<1>4. CASE RunFails \/ Halt("run")
  <2>1. ~Before' /\ ~Execs'
    BY <1>1, <1>4, HomingRuns DEF RunFails, Halt, HaltRead, HaltLock, HaltEnd, HaltPcs
  <2>2. /\ R'.pc # "send" /\ (Begun' <=> Begun) /\ UNCHANGED <<homer, drive>>
    <3>1. CASE RunFails
      BY <3>1, RunFailsMoves DEF RunFails, homingVars, cwVars, Begun
    <3>2. CASE Halt("run")
      <4>1. ~RunWrite /\ ~RunSend
        BY <3>2 DEF Halt, HaltRead, HaltLock, HaltEnd, RunWrite, RunSend
      <4> QED
        BY <4>1, RunHomes, RunSendsWhatItWrote
    <3> QED
      BY <1>4, <3>1, <3>2
  <2> QED
    BY <1>1, <2>1, <2>2 DEF Home, Sampled, Way, Stays, Under, Execs
<1>5. CASE RunWrite
  <2>1. UNCHANGED <<status, homer, drive>> /\ R.pc = "write" /\ R'.pc # "mode"
    BY <1>5, RunHomes, RunWrites DEF RunWrite, RunMode, RunSend
  <2>2. Before \/ Execs => R'.pc = "send" /\ (Start \in out' <=> Begun')
    BY <1>5, HomingRuns, RunWrites
  <2>3. Execs => (Begun => Begun')
    BY <1>5, <2>2, HomingRuns, RunWrites DEF Prep
  <2>4. Sampled'
    BY <1>1, <2>1, <2>2 DEF Sampled
  <2>5. Under' => Under /\ Execs
    BY <1>1, <2>1 DEF Under, Execs
  <2>6. Under /\ Execs => Synced' /\ Finished'
    BY <2>1, <2>2, <2>3 DEF Home, Way, Synced, Finished
  <2>7. Tells' => Tells
    BY <2>1 DEF Tells
  <2>8. Way'
    BY <1>1, <2>1, <2>5, <2>6, <2>7 DEF Home, Way
  <2>9. Stays'
    <3>1. AtHome => ~execute
      BY DEF AtHome, Prep, Execs
    <3>2. AtHome => (Begun' => Begun) /\ (R'.pc = "send" => (Start \in out' <=> Begun'))
      BY <1>5, <3>1, RunWrites DEF Begun
    <3> QED
      BY <1>1, <2>1, <3>2 DEF Home, Stays
  <2> QED
    BY <2>4, <2>8, <2>9
<1>6. CASE RunSend
  <2>1. /\ R.pc = "send" /\ R'.pc = "sent" /\ drive'.word = out
        /\ UNCHANGED <<status, control_word, out>>
    BY <1>0, <1>6, GotoMoves, PcNames DEF RunSend, cwVars, DriveTyped
  <2>2. /\ homer'.status = homer.status
        /\ (Start \in out => Start \in drive.word) /\ ~homer.seen => ~homer'.seen
    BY <1>0, <1>6 DEF RunSend, SeesStart, Start
  <2>3. Sampled'
    BY <1>1, <2>1 DEF Home, Sampled, Synced, Begun
  <2>4. Under' => Under
    BY <1>1, <2>1 DEF Under
  <2>5. Under => Synced' /\ Finished'
    BY <2>1, <2>2 DEF Home, Way, Synced, Finished, Begun
  <2>6. Tells' => Tells
    BY <2>1 DEF Tells
  <2>7. Way'
    BY <1>1, <2>1, <2>2, <2>4, <2>5, <2>6 DEF Home, Way
  <2>8. Stays'
    BY <1>1, <2>1, <2>2 DEF Home, Stays, Begun
  <2> QED
    BY <2>3, <2>7, <2>8
<1> QED
  BY <1>2, <1>3, <1>4, <1>5, <1>6 DEF Run

LEMMA HomeSvc ==
  ASSUME TypeOK, Stages, Prep, Home, Svc
  PROVE  Sampled' /\ Way' /\ Stays'
<1>1. CASE SwitchState("svc")
  <2>1. /\ ~Execs' /\ ~AtHome' /\ (Before' <=> Before)
    BY <1>1, SwitchHomes DEF Execs, AtHome, Before, InSwitch, SwitchPcs, SwitchOrRet
  <2>2. /\ R' = R /\ UNCHANGED <<out, status, homer, drive>> /\ (Begun' <=> Begun)
    BY <1>1, SwitchHomes DEF homingVars
  <2>3. Sampled' /\ Stays'
    BY <2>1, <2>2 DEF Home, Sampled, Stays, Synced
  <2>4. Under' => Under
    BY <2>1, <2>2 DEF Under, Execs
  <2>5. Under => Synced' /\ Finished'
    BY <2>2 DEF Home, Way, Synced, Finished
  <2> QED
    BY <2>1, <2>3, <2>4, <2>5 DEF Way
<1>2. CASE ~SwitchState("svc")
  <2>1. /\ R' = R /\ UNCHANGED <<setup, out, homer>>
        /\ drive'.word = drive.word /\ drive'.mode = drive.mode
    BY <1>2, SvcHears
  <2>2. CASE Leaving \/ Preparing
    BY <2>2, HomeElsewhere DEF Leaving, Elsewhere, Preparing
  <2>3. CASE SelectsHoming
    <3>1. status' = {} /\ ~Execs' /\ ~AtHome' /\ S'.pc \notin {"start", "attain", "stop"}
      BY <2>3 DEF SelectsHoming, Steady, Prep, Choosing, Execs, AtHome
    <3> QED
      BY <3>1 DEF Sampled, Way, Under, Stays
  <2>4. CASE GoesOn
    <3>1. ~Execs' /\ ~AtHome' /\ S'.pc \notin {"start", "attain", "stop"}
      BY <2>4 DEF GoesOn, Execs, AtHome
    <3>2. Before /\ status' = status /\ (Begun' <=> Begun)
      BY <2>4 DEF GoesOn, Steady, Begun
    <3>3. Under' => Under
      BY <2>1, <3>1, <3>2 DEF Under
    <3>4. Under => Synced' /\ Finished'
      BY <2>1, <3>2 DEF Home, Way, Synced, Finished
    <3> QED
      BY <2>1, <3>1, <3>2, <3>3, <3>4 DEF Home, Sampled, Synced, Way, Stays
  <2>5. CASE Executes
    <3>1. /\ Execs' /\ ~Before' /\ ~AtHome' /\ (Before \/ Execs) /\ status' = status /\ (Begun' <=> Begun)
      BY <2>5 DEF Executes, Steady, Execs, Before, AtHome, InSwitch, SwitchOrRet, Begun
    <3>2. Sampled' /\ Stays'
      BY <2>1, <3>1 DEF Home, Sampled, Synced, Stays
    <3>3. Under' => Under
      BY <2>1, <2>5, <3>1 DEF Executes, Under, Before
    <3>4. Under => Synced' /\ Finished'
      BY <2>1, <3>1 DEF Home, Way, Synced, Finished
    <3>5. Tells' => Tells
      BY <2>1, <3>1 DEF Tells
    <3>6. Under' /\ (S'.pc = "start" => status = {}) => Execs /\ (S.pc = "start" => status = {})
      BY <2>5, <3>1 DEF Executes, Under, Execs
    <3>7. Way'
      BY <2>1, <3>1, <3>3, <3>4, <3>5, <3>6 DEF Home, Way
    <3> QED
      BY <3>2, <3>7
  <2>6. CASE Arrives
    <3>1. ~Execs' /\ ~Before' /\ S'.pc \notin {"start", "attain", "stop"}
      BY <2>6 DEF Arrives, Execs, Before, InSwitch, SwitchOrRet
    <3>2. Sampled' /\ Way'
      BY <3>1 DEF Sampled, Way, Under
    <3>3. ~hist'.unseen => Under /\ Tells /\ Execs
      BY <2>6 DEF Arrives, Under, Tells, Execs
    <3>4. ~hist'.unseen => homer.status = Completed /\ Finished
      BY <2>6, <3>3 DEF Home, Way, Arrives
    <3>5. drive.mode = setup.homing /\ (Begun' <=> Begun)
      BY <2>6 DEF Arrives, Prep, Execs, Steady, Begun
    <3>6. Stays'
      BY <2>1, <3>4, <3>5 DEF Stays, Finished
    <3> QED
      BY <3>2, <3>6
  <2> QED
    BY <1>2, <2>2, <2>3, <2>4, <2>5, <2>6, SvcHomes
<1> QED
  BY <1>1, <1>2

LEMMA HomeDrive ==
  ASSUME TypeOK, Stages, Prep, Home, Drive
  PROVE  Sampled' /\ Way' /\ Stays'
<1>0. DriveTyped /\ homer \in [status : SUBSET StatusBits, seen : BOOLEAN]
  BY DEF TypeOK, DriveTyped, HomingTypeOK
<1>1. /\ UNCHANGED <<th, setup, status, control_word, out, hist>> /\ drive'.word = drive.word
      /\ Execs' = Execs /\ Before' = Before /\ AtHome' = AtHome
      /\ Begun' = Begun /\ Synced' = Synced /\ Under' = Under /\ Tells' = Tells
  <2>1. UNCHANGED <<th, setup, status, control_word, out, hist>> /\ drive'.word = drive.word
    BY <1>0 DEF Drive, DriveMoves, DriveFaults, DriveMode, DriveHoming, DriveHomes, homingVars, cwVars, DriveTyped
  <2> QED
    BY <2>1 DEF Execs, Before, AtHome, InSwitch, Begun, Synced, Under, Tells
<1>2. Sampled'
  BY <1>1 DEF Home, Sampled
<1>3. CASE DriveMoves \/ DriveFaults
  <2>1. UNCHANGED homer /\ drive'.mode = drive.mode
    BY <1>0, <1>3 DEF DriveMoves, DriveFaults, homingVars, DriveTyped
  <2> QED
    BY <1>1, <1>2, <2>1 DEF Home, Way, Finished, Stays
<1>4. CASE DriveMode
  <2>1. drive.mode # drive.op
    BY <1>4 DEF DriveMode
  <2>2. ~Under
    BY <2>1 DEF Prep, Under, Execs
  <2>3. ~(AtHome /\ ~hist.unseen)
    BY <2>1 DEF Home, Stays, Prep
  <2> QED
    BY <1>1, <1>2, <2>2, <2>3 DEF Way, Stays
<1>5. CASE DriveHoming
  <2>1. drive' = drive
    BY <1>5 DEF DriveHoming
  <2>2. \/ ~(homer.status = Completed /\ ~homer.seen) /\ homer'.status # Completed
        \/ /\ ~(homer.status = Completed /\ ~homer.seen)
           /\ ~homer'.seen /\ Start \in drive.word
    BY <1>0, <1>5 DEF DriveHoming, DriveHomes, Moves, Completed, Start
  <2>3. ~(AtHome /\ ~hist.unseen)
    BY <2>2 DEF Home, Stays
  <2>4. Under => Finished' /\ homer.status # Completed
    BY <1>1, <2>1, <2>2 DEF Home, Way, Finished, Synced
  <2>5. Way'
    BY <1>1, <2>4 DEF Home, Way
  <2> QED
    BY <1>1, <1>2, <2>3, <2>5 DEF Stays
<1> QED
  BY <1>3, <1>4, <1>5 DEF Drive

LEMMA HomeStep ==
  ASSUME TypeOK, Stages, Prep, Home, ~setup.app, [Next]_vars
  PROVE  Home'
<1> SUFFICES Sampled' /\ Way' /\ Stays'
  BY WholeStep DEF Home
<1>1. CASE Calls
  BY <1>1, CallsHome, HomeElsewhere DEF Leaving, Elsewhere
<1>2. CASE UNCHANGED vars
  BY <1>2 DEF vars, homingVars, cwVars, Home, Sampled, Way, Stays, Under, Tells, Finished, Synced, Begun, Before,
     Execs, AtHome, InSwitch
<1> QED
  BY <1>1, <1>2, HomeRun, HomeSvc, HomeDrive DEF Next, App

-------------------------------------------------------------------------------
(* The theorems                                                            *)

IInv ==
  /\ TypeOK /\ Stages /\ NoFaultIsWanted
  /\ HaltedRecover /\ Rises /\ Silent
  /\ ~setup.app => Prep /\ Home

LEMMA InitIInv == Init => IInv
<1> SUFFICES ASSUME Init PROVE IInv
  OBVIOUS
<1>1. /\ "svc" \in Threads /\ "run" \in Threads /\ setup.app \in BOOLEAN
      /\ "app" \in Threads <=> setup.app
  BY InitTypes, ThreadNames
<1>2. S = Fresh("idle") /\ R = Fresh("read") /\ (setup.app => A = Fresh("idle"))
  BY <1>1 DEF Init
<1>3. Stages
  BY StagesInit
<1>4. NoFaultIsWanted /\ HaltedRecover /\ Rises
  BY <1>2 DEF Init, NoHist, Fresh, NoFaultIsWanted, Faults, HaltedRecover, Rises, Enabling, AtFault, SwitchPcs
<1>5. Silent
  BY <1>2 DEF Fresh, Silent, Between, InSwitch
<1>6. Prep
  BY <1>2 DEF Fresh, Init, HomingInit, Prep, Execs, Choosing, Before, AtHome, Resetting, InSwitch, SwitchOrRet
<1>7. Home
  <2>1. ~Before /\ ~Execs /\ ~AtHome
    BY <1>2 DEF Fresh, Execs, Before, AtHome, InSwitch, SwitchOrRet
  <2>2. Whole
    BY DEF Init, HomingInit, Whole, Completed
  <2> QED
    BY <2>1, <2>2 DEF Home, Sampled, Way, Stays, Under, Execs
<1> QED
  BY <1>3, <1>4, <1>5, <1>6, <1>7, InitTypes DEF IInv

LEMMA NextIInv == IInv /\ [Next]_vars => IInv'
<1> SUFFICES ASSUME IInv, [Next]_vars PROVE IInv'
  OBVIOUS
<1>1. setup'.app = setup.app
  BY SameSetup DEF IInv, SameSituation
<1>2. ~setup.app => Prep' /\ Home'
  BY PrepStep, HomeStep DEF IInv
<1> QED
  BY <1>1, <1>2, NextTypes, StagesNext, TargetStep, HaltedStep, RisesStep, SilentStep DEF IInv

LEMMA Invariant == Spec => []IInv
BY InitIInv, NextIInv, PTL DEF Spec

\* Unless an application switches the mode at the same time, a halt that catches a
\* recover after it has stored its target is not lost: the recover reports a failure,
\* for any drive, modes and services.
THEOREM HaltStops == Spec => [](Alone => HaltStopsRecover)
<1>1. IInv => (Alone => HaltStopsRecover)
  BY DEF IInv, HaltedRecover, HaltStopsRecover, Recovered
<1> QED
  BY <1>1, Invariant, PTL

\* Without an application that switches the mode, an init or recover that no halt has
\* beaten shows the drive a rising edge of the reset bit within three frames of its
\* wait for the drive to leave Fault.
THEOREM ResetRises == Spec => [](~setup.app => FaultResetRises)
<1>1. IInv => (~setup.app => FaultResetRises)
  <2> SUFFICES ASSUME IInv, ~setup.app, ~hist.halted PROVE FaultResetRises
    BY DEF FaultResetRises
  <2>1. hist.waits \in 0 .. 3
    BY DEF IInv, TypeOK
  <2> QED
    BY <2>1 DEF IInv, Rises, AtFault, Ahead, FaultResetRises
<1> QED
  BY <1>1, Invariant, PTL

\* For a drive without homing: from the second frame on after enterModeAndWait has
\* dropped the old mode's handler until it has selected the new one the drive holds the
\* Halt bit, whatever the services do meanwhile.
THEOREM SwitchesAreSilent == Spec => [](setup.homing = NoMode => SwitchIsSilent)
<1>1. IInv => (setup.homing = NoMode => SwitchIsSilent)
  BY DEF IInv, Silent, Between, InSwitch, SwitchOrRet, SwitchPcs, Switching, SwitchIsSilent
<1> QED
  BY <1>1, Invariant, PTL

\* Without an application that switches the mode, for any drive: a homing that
\* executeHoming takes for a success after the drive was seen under way has left the drive
\* at home, however many homings were given up before.
THEOREM HomingEndsAtHome == Spec => [](~setup.app => HomedIsHome)
<1>1. IInv => (~setup.app => HomedIsHome)
  BY DEF IInv, Home, Stays, AtHome, HomedIsHome
<1> QED
  BY <1>1, Invariant, PTL
===============================================================================
