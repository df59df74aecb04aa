------------------------------- MODULE RosChain -------------------------------
(***************************************************************************)
(* The life cycle of a CANopen stack: canopen::RosChain, which is a        *)
(* LayerStack of members that are themselves Layers.                       *)
(*                                                                         *)
(* Two kinds of threads work on the same Layer::state words, which are     *)
(* std::atomic and protected by no lock:                                   *)
(*   - the service thread (thread 0) answers init, recover, halt and       *)
(*     shutdown, one at a time because every handler holds mutex_;         *)
(*   - a run thread (1 .. MaxRunners; the init service starts one) reads    *)
(*     and writes the stack in a loop and halts it when a cycle reports an *)
(*     error.                                                              *)
(*                                                                         *)
(* A step is one access to a shared word or one handler call.  What a      *)
(* member's handler does is left open: it reports an error or it does not. *)
(***************************************************************************)
EXTENDS LayerStates

CONSTANTS
  N,            \* number of members in the stack
  MaxRunners,   \* bound: run threads that exist at the same time
  PromptStart,  \* the scheduler runs a new thread's first statement before
                \* its creator goes on with init()
  HasSync       \* a sync layer paces the loop, so the loop never sleeps in
                \* run() itself

ASSUME RosChainAssumption ==
  /\ N \in Nat \ {0}
  /\ MaxRunners \in Nat \ {0}
  /\ PromptStart \in BOOLEAN
  /\ HasSync \in BOOLEAN

VARIABLES
  state,        \* Layer::state of the chain
  mstate,       \* Layer::state of each member, in the order they were added
  running,      \* running_
  handle,       \* thread_: the run thread it owns, 0 when it is empty
  interrupted,  \* threads on which thread_->interrupt() was called
  th,           \* what each thread is doing
  started,      \* history: members whose handleInit succeeded after their last
                \* shutdown began
  crossed       \* history: members that a run thread was still halting when
                \* their last shutdown had stored Off

history == <<started, crossed>>
vars == <<state, mstate, running, handle, interrupted, th, history>>

Svc     == 0
Runners == 1 .. MaxRunners
Members == 1 .. N

\* A thread's program counter and locals: i counts the members visited, err is
\* the LayerStatus of the call, part tells read from write, level tells the
\* members' own halt from the one inside the chain's halt, cmd is the service
\* being answered, and quiet is a history flag: no service has run since the
\* cycle began.
RunPcs  == {"none", "boot", "loop", "enter", "call", "done"}
HaltPcs == {"haltTest", "haltSet", "haltEnd", "selfTest", "selfSet", "selfEnd"}
SvcPcs  == {"idle", "initSet", "mInit", "mInitHandler", "mInitShutdown",
            "sdSet", "mSd", "mSdHandler", "stop", "join", "sdEnd",
            "mRecover", "mRecoverHandler", "recoverTest", "recoverSet", "recoverEnd"}

Thread(pcs) ==
  [pc : pcs, i : 1 .. N + 1, err : BOOLEAN, part : {"read", "write"},
   level : {"direct", "self"}, cmd : {"none", "init", "recover", "halt", "shutdown"},
   quiet : BOOLEAN]

Fresh(pc) == [pc |-> pc, i |-> 1, err |-> FALSE, part |-> "read",
              level |-> "direct", cmd |-> "none", quiet |-> FALSE]

Init ==
  /\ state = Off
  /\ mstate = [m \in Members |-> Off]
  /\ running = FALSE
  /\ handle = 0
  /\ interrupted = {}
  /\ th = [t \in {Svc} \cup Runners |-> Fresh(IF t = Svc THEN "idle" ELSE "none")]
  /\ started = {}
  /\ crossed = {}

Alive(t) == th[t].pc \notin {"none", "done"}

Goto(t, pc)      == th' = [th EXCEPT ![t].pc = pc]
GotoAt(t, pc, i) == th' = [th EXCEPT ![t].pc = pc, ![t].i = i]
SkipMember(t)    == th' = [th EXCEPT ![t].i = @ + 1]

-------------------------------------------------------------------------------
(* Layer::halt and the halt of a group, executed by any thread             *)

\* Forward through the members, except that the write half of a cycle and the
\* shutdown of a LayerStack go through them backwards.
Member(t) ==
  IF \/ th[t].level = "direct" /\ th[t].part = "write"
     \/ th[t].pc \in {"mSd", "mSdHandler"}
  THEN N + 1 - th[t].i
  ELSE th[t].i

\* Thread t has found m at work and has not stored the Error of its halt yet.
Halting(t, m) == th[t].pc \in {"haltSet", "haltEnd"} /\ Member(t) = m

\* if(state > Halt): a member that is not working is left alone.
HaltTest(t) ==
  /\ th[t].pc = "haltTest"
  /\ th[t].i <= N
  /\ IF mstate[Member(t)] > HaltState THEN Goto(t, "haltSet") ELSE SkipMember(t)
  /\ UNCHANGED <<state, mstate, running, handle, interrupted, history>>

HaltSet(t) ==
  /\ th[t].pc = "haltSet"
  /\ mstate' = [mstate EXCEPT ![Member(t)] = HaltState]
  /\ Goto(t, "haltEnd")
  /\ UNCHANGED <<state, running, handle, interrupted, history>>

\* handleHalt has returned.
HaltEnd(t) ==
  /\ th[t].pc = "haltEnd"
  /\ mstate' = [mstate EXCEPT ![Member(t)] = ErrorState]
  /\ GotoAt(t, "haltTest", th[t].i + 1)
  /\ UNCHANGED <<state, running, handle, interrupted, history>>

\* call_or_fail halts the members and then the chain itself; the chain's own
\* handleHalt goes through the members once more.
HaltMembersDone(t) ==
  /\ th[t].pc = "haltTest"
  /\ th[t].i = N + 1
  /\ Goto(t, IF th[t].level = "direct" THEN "selfTest" ELSE "selfEnd")
  /\ UNCHANGED <<state, mstate, running, handle, interrupted, history>>

\* Where a thread goes on once the chain's halt has returned.
AfterHalt(t) ==
  IF t = Svc
  THEN Goto(t, IF th[t].cmd = "shutdown" THEN "sdSet" ELSE "idle")
  ELSE IF th[t].part = "read"
       THEN th' = [th EXCEPT ![t].pc = "enter", ![t].part = "write"]
       ELSE Goto(t, "loop")

SelfTest(t) ==
  /\ th[t].pc = "selfTest"
  /\ IF state > HaltState THEN Goto(t, "selfSet") ELSE AfterHalt(t)
  /\ UNCHANGED <<state, mstate, running, handle, interrupted, history>>

SelfSet(t) ==
  /\ th[t].pc = "selfSet"
  /\ state' = HaltState
  /\ th' = [th EXCEPT ![t].pc = "haltTest", ![t].i = 1, ![t].level = "self"]
  /\ UNCHANGED <<mstate, running, handle, interrupted, history>>

SelfEnd(t) ==
  /\ th[t].pc = "selfEnd"
  /\ state' = ErrorState
  /\ AfterHalt(t)
  /\ UNCHANGED <<mstate, running, handle, interrupted, history>>

Halt(t) ==
  \/ HaltTest(t) \/ HaltSet(t) \/ HaltEnd(t) \/ HaltMembersDone(t)
  \/ SelfTest(t) \/ SelfSet(t) \/ SelfEnd(t)

-------------------------------------------------------------------------------
(* RosChain::run                                                           *)

RunBoot(t) ==
  /\ th[t].pc = "boot"
  /\ running' = TRUE
  /\ Goto(t, "loop")
  /\ UNCHANGED <<state, mstate, handle, interrupted, history>>

\* MUTANT of RunLoop: the loop ends on an error.
RunLoopEndsOnError(t) ==
  /\ th[t].pc = "loop"
  /\ IF running /\ ~th[t].err
     THEN th' = [th EXCEPT ![t] = [Fresh("enter") EXCEPT !.quiet = th[Svc].pc = "idle"]]
     ELSE Goto(t, "done")
  /\ UNCHANGED <<state, mstate, running, handle, interrupted, history>>

\* while(running_) { LayerStatus s; ...
RunLoop(t) ==
  /\ th[t].pc = "loop"
  /\ IF running
     THEN th' = [th EXCEPT ![t] = [Fresh("enter") EXCEPT !.quiet = th[Svc].pc = "idle"]]
     ELSE Goto(t, "done")
  /\ UNCHANGED <<state, mstate, running, handle, interrupted, history>>

\* Layer::read and Layer::write of the chain: if(state > Off).
RunEnter(t) ==
  /\ th[t].pc = "enter"
  /\ IF state > Off
     THEN th' = [th EXCEPT ![t].pc = "call", ![t].i = 1, ![t].level = "direct"]
     ELSE IF th[t].part = "read"
          THEN th' = [th EXCEPT ![t].part = "write"]
          ELSE Goto(t, "loop")
  /\ UNCHANGED <<state, mstate, running, handle, interrupted, history>>

\* The members' handleRead or handleWrite.  The bound is Unbounded, so every
\* member is called even after one has failed.
RunCall(t) ==
  /\ th[t].pc = "call"
  /\ th[t].i <= N
  /\ \E fails \in (IF mstate[Member(t)] > Off THEN BOOLEAN ELSE {FALSE}) :
        th' = [th EXCEPT ![t].i = @ + 1, ![t].err = @ \/ fails]
  /\ UNCHANGED <<state, mstate, running, handle, interrupted, history>>

\* MUTANT of RunCallDone: an error of the write half halts nothing.
RunCallDoneReadOnly(t) ==
  /\ th[t].pc = "call"
  /\ th[t].i = N + 1
  /\ IF th[t].err /\ th[t].part = "read" THEN GotoAt(t, "haltTest", 1) ELSE AfterHalt(t)
  /\ UNCHANGED <<state, mstate, running, handle, interrupted, history>>

\* call_or_fail: the status of the read is handed on to the write, so an error
\* of either half halts the stack.
RunCallDone(t) ==
  /\ th[t].pc = "call"
  /\ th[t].i = N + 1
  /\ IF th[t].err THEN GotoAt(t, "haltTest", 1) ELSE AfterHalt(t)
  /\ UNCHANGED <<state, mstate, running, handle, interrupted, history>>

\* boost::thread_interrupted is not a std::exception: it leaves run() from the
\* waits inside a member's handler and from the sleep at the end of the loop.
RunInterrupted(t) ==
  /\ t \in interrupted
  /\ \/ th[t].pc = "call" /\ th[t].i <= N /\ mstate[Member(t)] > Off
     \/ th[t].pc = "loop" /\ ~HasSync
  /\ Goto(t, "done")
  /\ UNCHANGED <<state, mstate, running, handle, interrupted, history>>

Run(t) ==
  \/ RunBoot(t) \/ RunLoop(t) \/ RunEnter(t) \/ RunCall(t) \/ RunCallDone(t)
  \/ RunInterrupted(t) \/ Halt(t)

-------------------------------------------------------------------------------
(* The services                                                            *)

\* The start of a service call; the history flag of a running cycle is cleared.
Begin(cmd, pc, new) ==
  th' = [t \in DOMAIN th |->
           IF t = Svc THEN [Fresh(pc) EXCEPT !.cmd = cmd]
           ELSE IF t = new THEN Fresh("boot")
           ELSE [th[t] EXCEPT !.quiet = FALSE]]

\* handle_init on a chain that is Off.  thread_.reset(new boost::thread(run)):
\* a thread the old handle still owned is detached and goes on running.
CallInit ==
  /\ th[Svc].pc = "idle"
  /\ state = Off
  /\ \E new \in Runners :
        /\ ~Alive(new)
        /\ handle' = new
        /\ interrupted' = interrupted \ {new}
        /\ Begin("init", "initSet", new)
  /\ UNCHANGED <<state, mstate, running, history>>

InitSet ==
  /\ th[Svc].pc = "initSet"
  /\ PromptStart => th[handle].pc # "boot"
  /\ state' = InitState
  /\ GotoAt(Svc, "mInit", 1)
  /\ UNCHANGED <<mstate, running, handle, interrupted, history>>

\* Layer::init of a member does nothing unless the member is Off.
MemberInit ==
  /\ th[Svc].pc = "mInit"
  /\ th[Svc].i <= N
  /\ IF mstate[th[Svc].i] = Off
     THEN /\ mstate' = [mstate EXCEPT ![th[Svc].i] = InitState]
          /\ Goto(Svc, "mInitHandler")
     ELSE /\ SkipMember(Svc)
          /\ UNCHANGED mstate
  /\ UNCHANGED <<state, running, handle, interrupted, history>>

MemberInitOk ==
  /\ th[Svc].pc = "mInitHandler"
  /\ mstate' = [mstate EXCEPT ![th[Svc].i] = Ready]
  /\ started' = started \cup {th[Svc].i}
  /\ GotoAt(Svc, "mInit", th[Svc].i + 1)
  /\ UNCHANGED <<state, running, handle, interrupted, crossed>>

MemberInitFails ==
  /\ th[Svc].pc = "mInitHandler"
  /\ mstate' = [mstate EXCEPT ![th[Svc].i] = Shutdown]
  /\ th' = [th EXCEPT ![Svc].pc = "mInitShutdown", ![Svc].err = TRUE]
  /\ UNCHANGED <<state, running, handle, interrupted, history>>

\* MUTANT of MemberInitShutdown: the initialisation goes on after a failure.
MemberInitGoesOn ==
  /\ th[Svc].pc = "mInitShutdown"
  /\ mstate' = [mstate EXCEPT ![th[Svc].i] = Off]
  /\ GotoAt(Svc, "mInit", th[Svc].i + 1)
  /\ UNCHANGED <<state, running, handle, interrupted, history>>

\* The Warn bound stops at the first member that failed, and the chain is shut
\* down.
MemberInitShutdown ==
  /\ th[Svc].pc = "mInitShutdown"
  /\ mstate' = [mstate EXCEPT ![th[Svc].i] = Off]
  /\ Goto(Svc, "sdSet")
  /\ UNCHANGED <<state, running, handle, interrupted, history>>

InitDone ==
  /\ th[Svc].pc = "mInit"
  /\ th[Svc].i = N + 1
  /\ state' = Ready
  /\ Goto(Svc, "idle")
  /\ UNCHANGED <<mstate, running, handle, interrupted, history>>

CallHalt ==
  /\ th[Svc].pc = "idle"
  /\ state > InitState
  /\ Begin("halt", "selfTest", 0)
  /\ UNCHANGED <<state, mstate, running, handle, interrupted, history>>

CallShutdown ==
  /\ th[Svc].pc = "idle"
  /\ state > InitState
  /\ Begin("shutdown", "selfTest", 0)
  /\ UNCHANGED <<state, mstate, running, handle, interrupted, history>>

\* Layer::shutdown of the chain.
ShutdownSet ==
  /\ th[Svc].pc = "sdSet"
  /\ state # Off
  /\ state' = Shutdown
  /\ GotoAt(Svc, "mSd", 1)
  /\ UNCHANGED <<mstate, running, handle, interrupted, history>>

MemberShutdown ==
  /\ th[Svc].pc = "mSd"
  /\ th[Svc].i <= N
  /\ IF mstate[Member(Svc)] # Off
     THEN /\ mstate' = [mstate EXCEPT ![Member(Svc)] = Shutdown]
          /\ started' = started \ {Member(Svc)}
          /\ Goto(Svc, "mSdHandler")
     ELSE /\ SkipMember(Svc)
          /\ UNCHANGED <<mstate, started>>
  /\ UNCHANGED <<state, running, handle, interrupted, crossed>>

MemberShutdownEnd ==
  /\ th[Svc].pc = "mSdHandler"
  /\ mstate' = [mstate EXCEPT ![Member(Svc)] = Off]
  /\ crossed' = IF \E t \in Runners : Halting(t, Member(Svc))
                THEN crossed \cup {Member(Svc)}
                ELSE crossed \ {Member(Svc)}
  /\ GotoAt(Svc, "mSd", th[Svc].i + 1)
  /\ UNCHANGED <<state, running, handle, interrupted, started>>

\* MUTANT of MembersAreShutDown: the last member of the walk is left out.
MembersButOneAreShutDown ==
  /\ th[Svc].pc = "mSd"
  /\ th[Svc].i >= N
  /\ Goto(Svc, "stop")
  /\ UNCHANGED <<state, mstate, running, handle, interrupted, history>>

MembersAreShutDown ==
  /\ th[Svc].pc = "mSd"
  /\ th[Svc].i = N + 1
  /\ Goto(Svc, "stop")
  /\ UNCHANGED <<state, mstate, running, handle, interrupted, history>>

\* MUTANT of StopThread: thread_.reset() before thread_->interrupt().
StopThreadResetFirst ==
  /\ th[Svc].pc = "stop"
  /\ running' = FALSE
  /\ handle' = 0
  /\ interrupted' = interrupted \cup {handle'}
  /\ Goto(Svc, "sdEnd")
  /\ UNCHANGED <<state, mstate, history>>

\* MUTANT of StopThread: running_ is not cleared.
StopThreadKeepsRunning ==
  /\ th[Svc].pc = "stop"
  /\ interrupted' = interrupted \cup {handle}
  /\ Goto(Svc, "join")
  /\ UNCHANGED <<state, mstate, running, handle, history>>

\* if(running_){ running_ = false; thread_->interrupt(); ...
StopThread ==
  /\ th[Svc].pc = "stop"
  /\ IF running
     THEN /\ running' = FALSE
          /\ interrupted' = interrupted \cup {handle}
          /\ Goto(Svc, "join")
     ELSE /\ Goto(Svc, "sdEnd")
          /\ UNCHANGED <<running, interrupted>>
  /\ UNCHANGED <<state, mstate, handle, history>>

\* MUTANT of JoinThread: the handle is dropped without waiting.
JoinThreadSkipped ==
  /\ th[Svc].pc = "join"
  /\ handle' = 0
  /\ Goto(Svc, "sdEnd")
  /\ UNCHANGED <<state, mstate, running, interrupted, history>>

\* thread_->join(); thread_.reset(); }
JoinThread ==
  /\ th[Svc].pc = "join"
  /\ th[handle].pc = "done"
  /\ handle' = 0
  /\ Goto(Svc, "sdEnd")
  /\ UNCHANGED <<state, mstate, running, interrupted, history>>

ShutdownEnd ==
  /\ th[Svc].pc = "sdEnd"
  /\ state' = Off
  /\ Goto(Svc, "idle")
  /\ UNCHANGED <<mstate, running, handle, interrupted, history>>

\* handle_recover and Layer::recover of the chain.  A chain that is not in
\* Error is left alone, and the service still answers success.
CallRecover ==
  /\ th[Svc].pc = "idle"
  /\ state = ErrorState
  /\ state' = Recover
  /\ Begin("recover", "mRecover", 0)
  /\ UNCHANGED <<mstate, running, handle, interrupted, history>>

MemberRecover ==
  /\ th[Svc].pc = "mRecover"
  /\ th[Svc].i <= N
  /\ IF mstate[th[Svc].i] = ErrorState
     THEN /\ mstate' = [mstate EXCEPT ![th[Svc].i] = Recover]
          /\ Goto(Svc, "mRecoverHandler")
     ELSE /\ SkipMember(Svc)
          /\ UNCHANGED mstate
  /\ UNCHANGED <<state, running, handle, interrupted, history>>

\* handleRecover has returned; nothing looks at what the run thread did to the
\* member's state meanwhile.
MemberRecoverOk ==
  /\ th[Svc].pc = "mRecoverHandler"
  /\ mstate' = [mstate EXCEPT ![th[Svc].i] = Ready]
  /\ GotoAt(Svc, "mRecover", th[Svc].i + 1)
  /\ UNCHANGED <<state, running, handle, interrupted, history>>

MemberRecoverFails ==
  /\ th[Svc].pc = "mRecoverHandler"
  /\ th' = [th EXCEPT ![Svc].pc = "recoverTest", ![Svc].err = TRUE]
  /\ UNCHANGED <<state, mstate, running, handle, interrupted, history>>

\* The failed member is halted, then the chain.
RecoverHaltTest ==
  /\ th[Svc].pc = "recoverTest"
  /\ Goto(Svc, IF mstate[th[Svc].i] > HaltState THEN "recoverSet" ELSE "selfTest")
  /\ UNCHANGED <<state, mstate, running, handle, interrupted, history>>

RecoverHaltSet ==
  /\ th[Svc].pc = "recoverSet"
  /\ mstate' = [mstate EXCEPT ![th[Svc].i] = HaltState]
  /\ Goto(Svc, "recoverEnd")
  /\ UNCHANGED <<state, running, handle, interrupted, history>>

RecoverHaltEnd ==
  /\ th[Svc].pc = "recoverEnd"
  /\ mstate' = [mstate EXCEPT ![th[Svc].i] = ErrorState]
  /\ Goto(Svc, "selfTest")
  /\ UNCHANGED <<state, running, handle, interrupted, history>>

RecoverDone ==
  /\ th[Svc].pc = "mRecover"
  /\ th[Svc].i = N + 1
  /\ state' = Ready
  /\ Goto(Svc, "idle")
  /\ UNCHANGED <<mstate, running, handle, interrupted, history>>

\* What a service does once it was called.
Serve ==
  \/ InitSet \/ MemberInit \/ MemberInitOk \/ MemberInitFails
  \/ MemberInitShutdown \/ InitDone
  \/ ShutdownSet \/ MemberShutdown \/ MemberShutdownEnd \/ MembersAreShutDown
  \/ StopThread \/ JoinThread \/ ShutdownEnd
  \/ MemberRecover \/ MemberRecoverOk \/ MemberRecoverFails
  \/ RecoverHaltTest \/ RecoverHaltSet \/ RecoverHaltEnd \/ RecoverDone
  \/ Halt(Svc)

Next ==
  \/ CallInit \/ CallHalt \/ CallShutdown \/ CallRecover
  \/ Serve
  \/ \E t \in Runners : Run(t)

Spec == Init /\ [][Next]_vars

\* Every thread keeps running once it has something to do; nobody has to call a
\* service.
Fairness ==
  /\ WF_vars(Serve)
  /\ \A t \in Runners : WF_vars(Run(t))

FairSpec == Spec /\ Fairness

-------------------------------------------------------------------------------
(* Properties                                                              *)

StateTypeOK ==
  /\ state \in LayerState
  /\ mstate \in [Members -> LayerState]
  /\ running \in BOOLEAN
  /\ handle \in {0} \cup Runners
  /\ interrupted \subseteq Runners
  /\ th \in [{Svc} \cup Runners -> Thread(RunPcs \cup HaltPcs \cup SvcPcs)]
  /\ th[Svc].pc \in SvcPcs \cup HaltPcs
  /\ \A t \in Runners : th[t].pc \in RunPcs \cup HaltPcs

HistoryTypeOK == started \subseteq Members /\ crossed \subseteq Members

TypeOK == StateTypeOK /\ HistoryTypeOK

Idle == th[Svc].pc = "idle"

\* No run thread outlives the stack: once a shutdown, or the shutdown that ends
\* a failed init, has returned, no run thread is left that could still touch a
\* layer (RosChain::handleShutdown joins it before the chain goes Off).
RunThreadStopped ==
  Idle /\ state = Off => \A t \in Runners : ~Alive(t)

\* A service returns with the run thread in charge alive and told to run unless
\* the chain is Off: nothing leaves a chain that is up without its run thread.
RunThreadServes ==
  Idle /\ state # Off => handle # 0 /\ Alive(handle) /\ running

\* What a shutdown leaves behind.  Every member is Off, with one exception: a
\* run thread that was inside a member's halt while the member was shut down
\* stores Error after Off.  It is joined before the chain goes Off, so even that
\* member is not left half halted or at work.
ShutdownLeavesNoWork ==
  Idle /\ state = Off =>
    \A m \in Members : mstate[m] = Off \/ (m \in crossed /\ mstate[m] = ErrorState)

\* A chain that reports Ready to its services has started every member since it
\* was last shut down: handleInit of each has succeeded, and none is Off, being
\* initialised or shut down.  The one exception is a member whose last shutdown
\* was crossed by a halt: the Error stored late makes the next init skip it, so
\* the chain may be Ready over a member that was not started again.
ReadyIsStarted ==
  Idle /\ state = Ready =>
    \A m \in Members : /\ mstate[m] \notin {Off, InitState, Shutdown}
                       /\ m \in started \cup crossed

\* A cycle of the run loop that ended in an error, and that no service ran
\* into, has halted everything: no member and not the chain itself is left at
\* work (call_or_fail hands halt to the members and then to the chain).
ErrorHaltsAll ==
  \A t \in Runners :
    th[t].pc = "loop" /\ th[t].err /\ th[t].quiet /\ Idle =>
      /\ state = ErrorState
      /\ \A m \in Members : mstate[m] <= ErrorState

\* Every service call returns: the shutdown that waits for the run thread while
\* the run thread is in the middle of a cycle is not a deadlock.
ServicesReturn == ~Idle ~> Idle

==============================================================================
