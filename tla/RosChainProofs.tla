---------------------------- MODULE RosChainProofs ----------------------------
(***************************************************************************)
(* No run thread outlives the stack, and no stack is up without one.       *)
(* Proved for any number of members and of run threads, under the one      *)
(* scheduling assumption PromptStart.                                      *)
(***************************************************************************)
EXTENDS RosChain, TLAPS

\* A thread that is at a member has one more to count.
IndexOK ==
  \A t \in {Svc} \cup Runners :
    th[t].pc \in {"haltSet", "haltEnd", "mInitHandler", "mSdHandler",
                  "mRecoverHandler"} => th[t].i <= N

\* Only the thread the handle owns runs.
OnlyHandleRuns == \A t \in Runners : Alive(t) => t = handle

\* Once init goes on, the new thread has set running_, and only the shutdown
\* that is about to join it clears the flag again.
RunningIsSet ==
  \A t \in Runners : Alive(t) /\ running = FALSE =>
    \/ th[t].pc = "boot" /\ th[Svc].pc = "initSet"
    \/ th[Svc].pc = "join"

BootOnlyAtStart == \A t \in Runners : th[t].pc = "boot" => th[Svc].pc = "initSet"

\* A chain that is Off is being started, and its run thread has seen nothing
\* but Off, or its run thread is gone.
OffHasNoRunner ==
  state = Off =>
    \/ /\ th[Svc].pc = "idle"
       /\ \A t \in Runners : ~Alive(t)
    \/ /\ th[Svc].pc = "initSet"
       /\ \A t \in Runners : th[t].pc \in {"none", "done", "boot", "loop", "enter"}

StartIsOff == th[Svc].pc = "initSet" => state = Off

StoppedAtEnd == th[Svc].pc = "sdEnd" => \A t \in Runners : ~Alive(t)

\* As long as the chain is up, the handle owns a live thread.
RunnerIsUp ==
  \/ th[Svc].pc \notin {"idle", "join", "sdEnd"}
  \/ th[Svc].pc = "idle" /\ state # Off
  => handle \in Runners /\ Alive(handle)

\* Nobody but the shutdown that joins a thread interrupts it.
InterruptedIsJoined ==
  \A t \in interrupted : Alive(t) => th[Svc].pc = "join"

Control ==
  /\ OnlyHandleRuns /\ RunningIsSet /\ BootOnlyAtStart /\ OffHasNoRunner
  /\ StartIsOff /\ StoppedAtEnd /\ RunnerIsUp /\ InterruptedIsJoined

IInv == StateTypeOK /\ IndexOK /\ Control

-------------------------------------------------------------------------------
(* Steps, seen as moves of one thread's program counter *)

Threads == {Svc} \cup Runners
Pcs     == RunPcs \cup HaltPcs \cup SvcPcs
AtMember == {"haltSet", "haltEnd", "mInitHandler", "mSdHandler", "mRecoverHandler"}

Move(t, x) ==
  /\ th' \in [Threads -> Thread(Pcs)]
  /\ \A u \in Threads : th'[u].pc = IF u = t THEN x ELSE th[u].pc
  /\ \A u \in Threads : u # t => th'[u].i = th[u].i

WordsOK ==
  /\ state \in LayerState
  /\ mstate \in [Members -> LayerState]
  /\ running \in BOOLEAN
  /\ handle \in {0} \cup Runners
  /\ interrupted \subseteq Runners

TypeInv == StateTypeOK /\ IndexOK

\* The program counters the actions name, and which thread may be at them.
LEMMA PcNames ==
  /\ {"loop", "enter", "call", "done", "boot", "none"} \subseteq RunPcs
  /\ {"haltTest", "haltSet", "haltEnd", "selfTest", "selfSet", "selfEnd"} \subseteq HaltPcs
  /\ {"idle", "initSet", "mInit", "mInitHandler", "mInitShutdown", "sdSet", "mSd",
      "mSdHandler", "stop", "join", "sdEnd", "mRecover", "mRecoverHandler",
      "recoverTest", "recoverSet", "recoverEnd"} \subseteq SvcPcs
  /\ RunPcs \cup HaltPcs \subseteq Pcs
  /\ SvcPcs \cup HaltPcs \subseteq Pcs
BY DEF RunPcs, HaltPcs, SvcPcs, Pcs

\* The service thread is none of the run threads.
LEMMA SvcIsNoRunner == Svc \notin Runners
BY DEF Svc, Runners

LEMMA TypeOfThreads == StateTypeOK => th \in [Threads -> Thread(Pcs)] /\ WordsOK
BY DEF StateTypeOK, Threads, Pcs, WordsOK

\* A move to a counter of the thread's own keeps the types.
LEMMA MoveType ==
  ASSUME TypeInv, NEW t \in Threads, NEW x, Move(t, x), WordsOK',
         IF t = Svc THEN x \in SvcPcs \cup HaltPcs ELSE x \in RunPcs \cup HaltPcs,
         x \in AtMember => th'[t].i <= N
  PROVE  TypeInv'
<1>1. StateTypeOK'
  BY SvcIsNoRunner DEF TypeInv, StateTypeOK, Move, WordsOK, Threads, Pcs
<1>2. IndexOK'
  BY DEF TypeInv, IndexOK, Move, AtMember, Threads
<1> QED BY <1>1, <1>2 DEF TypeInv

\* What a run thread may do to the control invariant.
LEMMA RunnerMove ==
  ASSUME IInv, NEW t \in Runners, NEW x, Move(t, x), Alive(t),
         x \notin {"none", "boot"},
         x = "done" => th[Svc].pc = "join",
         state = Off => x \in {"loop", "enter", "done"},
         state = Off <=> state' = Off,
         running' \in BOOLEAN,
         running => running',
         th[t].pc = "boot" => running',
         UNCHANGED <<handle, interrupted>>
  PROVE  Control'
<1>1. /\ th'[Svc].pc = th[Svc].pc
      /\ \A u \in Runners : th'[u].pc = IF u = t THEN x ELSE th[u].pc
  BY SvcIsNoRunner DEF Move, Threads
<1>2. \A u \in Runners : Alive(u)' => Alive(u)
  BY <1>1 DEF Alive
<1>3. OnlyHandleRuns'
  BY <1>2 DEF IInv, Control, OnlyHandleRuns
<1>4. RunningIsSet'
  <2> SUFFICES ASSUME NEW u \in Runners, Alive(u)', running' = FALSE
               PROVE  \/ th'[u].pc = "boot" /\ th'[Svc].pc = "initSet"
                      \/ th'[Svc].pc = "join"
    BY DEF RunningIsSet
  <2>1. running = FALSE
    BY DEF IInv, StateTypeOK
  <2>2. Alive(t) /\ u = t
    BY <1>2, <1>3, <1>2 DEF IInv, Control, OnlyHandleRuns
  <2> QED
    BY <1>1, <2>1, <2>2 DEF IInv, Control, RunningIsSet
<1>5. BootOnlyAtStart'
  BY <1>1 DEF IInv, Control, BootOnlyAtStart
<1>6. OffHasNoRunner'
  BY <1>1, <1>2 DEF IInv, Control, OffHasNoRunner, Alive
<1>7. StartIsOff'
  BY <1>1 DEF IInv, Control, StartIsOff
<1>8. StoppedAtEnd'
  BY <1>1, <1>2 DEF IInv, Control, StoppedAtEnd
<1>9. RunnerIsUp'
  <2>1. CASE x # "done"
    BY <2>1, <1>1 DEF IInv, Control, RunnerIsUp, Alive, OffHasNoRunner
  <2>2. CASE x = "done"
    BY <2>2, <1>1 DEF RunnerIsUp
  <2> QED BY <2>1, <2>2
<1>10. InterruptedIsJoined'
  BY <1>1, <1>2 DEF IInv, Control, InterruptedIsJoined, StateTypeOK
<1> QED
  BY <1>3, <1>4, <1>5, <1>6, <1>7, <1>8, <1>9, <1>10 DEF Control

\* The service thread inside a call, as long as it is not the stopping part of
\* the shutdown.
LEMMA ServiceMove ==
  ASSUME IInv, NEW x, Move(Svc, x),
         th[Svc].pc \notin {"idle", "initSet", "join", "sdEnd"},
         x \notin {"initSet", "join", "sdEnd"},
         state # Off => state' # Off,
         UNCHANGED <<running, handle, interrupted>>
  PROVE  Control'
<1>1. /\ th'[Svc].pc = x
      /\ \A u \in Runners : th'[u].pc = th[u].pc
  BY SvcIsNoRunner DEF Move, Threads
<1>2. \A u \in Runners : Alive(u)' <=> Alive(u)
  BY <1>1 DEF Alive
<1>3. state # Off /\ state' # Off
  BY DEF IInv, Control, OffHasNoRunner
<1>4. handle \in Runners /\ Alive(handle)
  BY DEF IInv, Control, RunnerIsUp
<1>5. OnlyHandleRuns' /\ RunnerIsUp' /\ OffHasNoRunner' /\ StartIsOff' /\ StoppedAtEnd'
  BY <1>1, <1>2, <1>3, <1>4 DEF IInv, Control, OnlyHandleRuns, RunnerIsUp, OffHasNoRunner,
     StartIsOff, StoppedAtEnd
<1>6. RunningIsSet' /\ BootOnlyAtStart'
  BY <1>1, <1>2 DEF IInv, Control, RunningIsSet, BootOnlyAtStart
<1>7. InterruptedIsJoined'
  BY <1>1, <1>2 DEF IInv, Control, InterruptedIsJoined, StateTypeOK
<1> QED
  BY <1>5, <1>6, <1>7 DEF Control

-------------------------------------------------------------------------------
(* The halts *)

\* Where a halt moves the thread that executes it.
HaltMove(t, x) ==
  /\ Move(t, x)
  /\ WordsOK'
  /\ x \in HaltPcs \cup (IF t = Svc THEN {"sdSet", "idle"} ELSE {"enter", "loop"})
  /\ x \in AtMember => th'[t].i <= N
  /\ state # Off => state' # Off
  /\ UNCHANGED <<running, handle, interrupted>>

LEMMA PutThread ==
  ASSUME NEW t \in Threads, th \in [Threads -> Thread(Pcs)], NEW r \in Thread(Pcs),
         th' = [th EXCEPT ![t] = r]
  PROVE  Move(t, r.pc) /\ th'[t] = r
BY DEF Move

LEMMA AfterHaltMove ==
  ASSUME StateTypeOK, NEW t \in Threads, AfterHalt(t)
  PROVE  \E x \in (IF t = Svc THEN {"sdSet", "idle"} ELSE {"enter", "loop"}) : Move(t, x)
<1>1. th \in [Threads -> Thread(Pcs)]
  BY TypeOfThreads
<1>2. {"sdSet", "idle", "enter", "loop"} \subseteq Pcs
  BY PcNames
<1>3. CASE t = Svc
  <2>1. PICK x \in {"sdSet", "idle"} : Goto(Svc, x)
    BY <1>3 DEF AfterHalt
  <2>2. Move(t, x)
    BY <1>1, <1>2, <1>3, <2>1 DEF Goto, Move, Thread
  <2> QED BY <1>3, <2>2
<1>4. CASE t # Svc /\ th[t].part = "read"
  <2>1. th' = [th EXCEPT ![t].pc = "enter", ![t].part = "write"]
    BY <1>4 DEF AfterHalt
  <2> DEFINE f == [th[t] EXCEPT !.pc = "enter", !.part = "write"]
  <2>2. f \in Thread(Pcs) /\ f.pc = "enter"
    BY <1>1, <1>2 DEF Thread
  <2>3. th' = [th EXCEPT ![t] = f]
    BY <1>1, <2>1
  <2> HIDE DEF f
  <2>4. Move(t, "enter")
    BY <1>1, <1>2, <2>2, <2>3, PutThread
  <2> QED BY <1>4, <2>4
<1>5. CASE t # Svc /\ th[t].part # "read"
  <2>1. Goto(t, "loop")
    BY <1>5 DEF AfterHalt
  <2>2. Move(t, "loop")
    BY <1>1, <1>2, <2>1 DEF Goto, Move, Thread
  <2> QED BY <1>5, <2>2
<1> QED
  BY <1>3, <1>4, <1>5

LEMMA HaltMoves ==
  ASSUME TypeInv, NEW t \in Threads, Halt(t)
  PROVE  \E x : HaltMove(t, x)
<1>1. th \in [Threads -> Thread(Pcs)] /\ WordsOK
  BY TypeOfThreads DEF TypeInv
<1>2. /\ {"haltTest", "haltSet", "haltEnd", "selfTest", "selfSet", "selfEnd"} \subseteq Pcs
      /\ {"haltTest", "haltSet", "haltEnd", "selfTest", "selfSet", "selfEnd"} \subseteq HaltPcs
  BY PcNames
<1>3. N \in Nat \ {0}
  BY RosChainAssumption
<1>4. HaltState \in LayerState \ {Off} /\ ErrorState \in LayerState \ {Off}
  BY DEF HaltState, ErrorState, Off, Ready, LayerState
<1>5. th[t].i \in 1 .. N + 1
  BY <1>1 DEF Thread
<1>6. CASE HaltTest(t)
  <2>1. CASE Goto(t, "haltSet")
    BY <1>1, <1>2, <1>6, <2>1 DEF HaltTest, HaltMove, Move, Goto, Thread, WordsOK, AtMember
  <2>2. CASE SkipMember(t)
    <3>1. Move(t, "haltTest")
      BY <1>1, <1>2, <1>3, <1>5, <1>6, <2>2 DEF HaltTest, Move, SkipMember, Thread
    <3> QED BY <1>1, <1>2, <1>6, <3>1 DEF HaltTest, HaltMove, WordsOK, AtMember
  <2> QED BY <1>6, <2>1, <2>2 DEF HaltTest
<1>7. CASE HaltSet(t)
  <2>1. Move(t, "haltEnd") /\ th'[t].i = th[t].i
    BY <1>1, <1>2, <1>7 DEF HaltSet, Move, Goto, Thread
  <2>2. th[t].i <= N
    BY <1>7 DEF HaltSet, TypeInv, IndexOK, Threads
  <2>3. WordsOK'
    BY <1>1, <1>4, <1>7 DEF HaltSet, WordsOK
  <2> QED BY <1>2, <1>7, <2>1, <2>2, <2>3 DEF HaltSet, HaltMove, AtMember
<1>8. CASE HaltEnd(t)
  <2>1. th[t].i <= N
    BY <1>8 DEF HaltEnd, TypeInv, IndexOK, Threads
  <2>2. Move(t, "haltTest")
    BY <1>1, <1>2, <1>3, <1>5, <1>8, <2>1 DEF HaltEnd, Move, GotoAt, Thread
  <2>3. WordsOK'
    BY <1>1, <1>4, <1>8 DEF HaltEnd, WordsOK
  <2> QED BY <1>2, <1>8, <2>2, <2>3 DEF HaltEnd, HaltMove, AtMember
<1>9. CASE HaltMembersDone(t)
  <2>1. PICK x \in {"selfTest", "selfEnd"} : Goto(t, x)
    BY <1>9 DEF HaltMembersDone
  <2>2. Move(t, x)
    BY <1>1, <1>2, <2>1 DEF Move, Goto, Thread
  <2> QED BY <1>1, <1>2, <1>9, <2>2 DEF HaltMembersDone, HaltMove, WordsOK, AtMember
<1>10. CASE SelfTest(t)
  <2>1. CASE Goto(t, "selfSet")
    BY <1>1, <1>2, <1>10, <2>1 DEF SelfTest, HaltMove, Move, Goto, Thread, WordsOK, AtMember
  <2>2. CASE AfterHalt(t)
    <3>1. PICK x \in (IF t = Svc THEN {"sdSet", "idle"} ELSE {"enter", "loop"}) : Move(t, x)
      BY <2>2, AfterHaltMove DEF TypeInv
    <3> QED BY <1>1, <1>10, <3>1 DEF SelfTest, HaltMove, WordsOK, AtMember
  <2> QED BY <1>10, <2>1, <2>2 DEF SelfTest
<1>11. CASE SelfSet(t)
  <2>1. Move(t, "haltTest")
    <3> DEFINE r == [th[t] EXCEPT !.pc = "haltTest", !.i = 1, !.level = "self"]
    <3>0. th[t] \in Thread(Pcs) /\ 1 \in 1 .. N + 1 /\ "haltTest" \in Pcs
      BY <1>1, <1>2, <1>3
    <3>1. r \in Thread(Pcs) /\ r.pc = "haltTest"
      BY <3>0 DEF Thread
    <3>2. th' = [th EXCEPT ![t] = r]
      BY <1>1, <1>11 DEF SelfSet
    <3> HIDE DEF r
    <3> QED BY <1>1, <3>1, <3>2 DEF Move
  <2>2. WordsOK'
    BY <1>1, <1>4, <1>11 DEF SelfSet, WordsOK
  <2> QED BY <1>2, <1>4, <1>11, <2>1, <2>2 DEF SelfSet, HaltMove, AtMember
<1>12. CASE SelfEnd(t)
  <2>1. WordsOK'
    BY <1>1, <1>4, <1>12 DEF SelfEnd, WordsOK
  <2> QED BY <1>4, <1>12, <2>1, AfterHaltMove DEF TypeInv, SelfEnd, HaltMove, AtMember
<1> QED
  BY <1>6, <1>7, <1>8, <1>9, <1>10, <1>11, <1>12 DEF Halt

\* The chain is never Off while one of its threads is in a halt.
LEMMA HaltIsUp ==
  ASSUME IInv, NEW t \in Threads, th[t].pc \in HaltPcs
  PROVE  state # Off
BY DEF IInv, Control, OffHasNoRunner, Threads, HaltPcs, Alive

LEMMA HaltKeepsIInv ==
  ASSUME IInv, NEW t \in Threads, Halt(t)
  PROVE  IInv'
<1>1. PICK x : HaltMove(t, x)
  BY HaltMoves DEF IInv, TypeInv
<1>2. th[t].pc \in HaltPcs
  BY PcNames DEF Halt, HaltTest, HaltSet, HaltEnd, HaltMembersDone, SelfTest, SelfSet, SelfEnd
<1>3. state # Off
  BY <1>2, HaltIsUp
<1>4. x \in RunPcs \cup HaltPcs \/ t = Svc
  BY <1>1, PcNames DEF HaltMove
<1>5. x \in SvcPcs \cup HaltPcs \/ t # Svc
  BY <1>1, PcNames DEF HaltMove
<1>6. TypeInv'
  BY <1>1, <1>4, <1>5, MoveType DEF IInv, TypeInv, HaltMove
<1>7. Control'
  <2>1. CASE t = Svc
    <3>1. th[Svc].pc \notin {"idle", "initSet", "join", "sdEnd"}
      BY <1>2, <2>1 DEF HaltPcs
    <3>2. x \notin {"initSet", "join", "sdEnd"}
      BY <1>1, <2>1 DEF HaltMove, HaltPcs
    <3> QED BY <1>1, <2>1, <3>1, <3>2, ServiceMove DEF HaltMove
  <2>2. CASE t # Svc
    <3>1. t \in Runners /\ Alive(t) /\ th[t].pc # "boot"
      BY <1>2, <2>2 DEF Threads, Alive, HaltPcs
    <3>2. x \notin {"none", "boot", "done"}
      BY <1>1, <2>2 DEF HaltMove, HaltPcs
    <3>3. running' \in BOOLEAN /\ (running => running') /\ state' # Off
      BY <1>1, <1>3 DEF HaltMove, WordsOK
    <3> QED BY <1>1, <1>3, <3>1, <3>2, <3>3, RunnerMove DEF HaltMove
  <2> QED BY <2>1, <2>2
<1> QED
  BY <1>6, <1>7 DEF IInv, TypeInv

-------------------------------------------------------------------------------
(* The run threads *)

\* A record of the type of threads, put in the place of one thread's.
LEMMA FreshType == ASSUME NEW pc \in Pcs PROVE Fresh(pc) \in Thread(Pcs) /\ Fresh(pc).pc = pc
BY RosChainAssumption DEF Fresh, Thread

LEMMA RunKeepsIInv ==
  ASSUME IInv, NEW t \in Runners, Run(t)
  PROVE  IInv'
<1> DEFINE r == th[t]
<1>1. th \in [Threads -> Thread(Pcs)] /\ WordsOK
  BY TypeOfThreads DEF IInv
<1>2. t \in Threads /\ t # Svc
  BY SvcIsNoRunner DEF Threads
<1>3. /\ {"loop", "enter", "call", "done"} \subseteq Pcs
      /\ {"loop", "enter", "call", "done"} \subseteq RunPcs
      /\ "haltTest" \in Pcs /\ "haltTest" \in HaltPcs
  BY PcNames
<1>4. N \in Nat \ {0} /\ 1 \in 1 .. N + 1
  BY RosChainAssumption
<1>5. th[t] \in Thread(Pcs) /\ th[t].i \in 1 .. N + 1
  BY <1>1, <1>2 DEF Thread
\* A runner's move that touches nothing but, perhaps, running_.
<1>6. ASSUME NEW x \in {"loop", "enter", "call", "done", "haltTest"}, Move(t, x), Alive(t),
             x = "done" => th[Svc].pc = "join",
             state = Off => x \in {"loop", "enter", "done"},
             running' \in BOOLEAN, running => running',
             th[t].pc = "boot" => running',
             UNCHANGED <<state, mstate, handle, interrupted>>
      PROVE  IInv'
  <2>1. TypeInv'
    <3>1. WordsOK'
      BY <1>1, <1>6 DEF WordsOK
    <3>2. x \in RunPcs \cup HaltPcs /\ x \notin AtMember
      BY <1>3, <1>6 DEF AtMember
    <3> QED BY <1>2, <1>6, <3>1, <3>2, MoveType DEF IInv, TypeInv
  <2>2. Control'
    BY <1>6, RunnerMove
  <2> QED BY <2>1, <2>2 DEF IInv, TypeInv
<1>7. CASE RunBoot(t)
  <2>1. Move(t, "loop")
    BY <1>1, <1>2, <1>3, <1>7 DEF RunBoot, Goto, Move, Thread
  <2> QED BY <1>3, <1>6, <1>7, <2>1 DEF RunBoot, Alive
<1>8. CASE RunLoop(t)
  <2>1. CASE running
    <3> DEFINE f == [Fresh("enter") EXCEPT !.quiet = th[Svc].pc = "idle"]
    <3>0. (th[Svc].pc = "idle") \in BOOLEAN /\ "enter" \in Pcs
      BY <1>3
    <3>1. f \in Thread(Pcs) /\ f.pc = "enter"
      BY <1>4, <3>0 DEF Fresh, Thread
    <3>2. th' = [th EXCEPT ![t] = f]
      BY <1>8, <2>1 DEF RunLoop
    <3> HIDE DEF f
    <3>3. Move(t, "enter")
      BY <1>1, <1>2, <3>1, <3>2, PutThread
    <3> QED BY <1>3, <1>6, <1>8, <2>1, <3>3 DEF RunLoop, Alive
  <2>2. CASE ~running
    <3>1. Move(t, "done")
      BY <1>1, <1>2, <1>3, <1>8, <2>2 DEF RunLoop, Goto, Move, Thread
    <3>2. running = FALSE
      BY <1>1, <2>2 DEF WordsOK
    <3>3. th[Svc].pc = "join"
      BY <1>8, <3>2 DEF RunLoop, IInv, Control, RunningIsSet, Alive
    <3> QED BY <1>3, <1>6, <1>8, <3>1, <3>2, <3>3 DEF RunLoop, Alive
  <2> QED BY <2>1, <2>2
<1>9. CASE RunEnter(t)
  <2>0. running' \in BOOLEAN
    BY <1>1, <1>9 DEF RunEnter, WordsOK
  <2>1. CASE state > Off
    <3> DEFINE f == [r EXCEPT !.pc = "call", !.i = 1, !.level = "direct"]
    <3>1. f \in Thread(Pcs) /\ f.pc = "call"
      BY <1>3, <1>4, <1>5 DEF Thread
    <3>2. th' = [th EXCEPT ![t] = f]
      BY <1>1, <1>9, <2>1 DEF RunEnter
    <3>3. state # Off
      BY <1>1, <2>1 DEF WordsOK, LayerState, Off
    <3> HIDE DEF f
    <3>4. Move(t, "call")
      BY <1>1, <1>2, <3>1, <3>2, PutThread
    <3> QED BY <1>3, <1>6, <1>9, <2>0, <3>3, <3>4 DEF RunEnter, Alive
  <2>2. CASE ~(state > Off) /\ th[t].part = "read"
    <3> DEFINE f == [r EXCEPT !.part = "write"]
    <3>1. f \in Thread(Pcs) /\ f.pc = "enter"
      BY <1>3, <1>5, <1>9 DEF RunEnter, Thread
    <3>2. th' = [th EXCEPT ![t] = f]
      BY <1>1, <1>9, <2>2 DEF RunEnter
    <3> HIDE DEF f
    <3>3. Move(t, "enter")
      BY <1>1, <1>2, <3>1, <3>2, PutThread
    <3> QED BY <1>3, <1>6, <1>9, <2>0, <3>3 DEF RunEnter, Alive
  <2>3. CASE ~(state > Off) /\ th[t].part # "read"
    <3>1. Move(t, "loop")
      BY <1>1, <1>2, <1>3, <1>9, <2>3 DEF RunEnter, Goto, Move, Thread
    <3> QED BY <1>3, <1>6, <1>9, <2>0, <3>1 DEF RunEnter, Alive
  <2> QED BY <2>1, <2>2, <2>3
<1>10. ASSUME th[t].pc = "call" PROVE state # Off
  BY <1>10 DEF IInv, Control, OffHasNoRunner, Alive
<1>11. CASE RunCall(t)
  <2>1. PICK fails \in BOOLEAN : th' = [th EXCEPT ![t].i = @ + 1, ![t].err = @ \/ fails]
    BY <1>11 DEF RunCall
  <2> DEFINE f == [r EXCEPT !.i = @ + 1, !.err = @ \/ fails]
  <2>2. th[t].i + 1 \in 1 .. N + 1
    BY <1>4, <1>5, <1>11 DEF RunCall
  <2>3. f \in Thread(Pcs) /\ f.pc = "call"
    BY <1>5, <1>11, <2>2 DEF RunCall, Thread
  <2>4. th' = [th EXCEPT ![t] = f]
    BY <1>1, <1>2, <2>1
  <2> HIDE DEF f
  <2>5. Move(t, "call")
    BY <1>1, <1>2, <2>3, <2>4, PutThread
  <2>6. running' \in BOOLEAN
    BY <1>1, <1>11 DEF RunCall, WordsOK
  <2>7. Alive(t) /\ state # Off /\ running' = running /\ th[t].pc = "call"
        /\ UNCHANGED <<state, mstate, handle, interrupted>>
    BY <1>10, <1>11 DEF RunCall, Alive
  <2> QED BY <1>6, <2>5, <2>6, <2>7
<1>12. CASE RunCallDone(t)
  <2>0. running' \in BOOLEAN
    BY <1>1, <1>12 DEF RunCallDone, WordsOK
  <2>1. CASE GotoAt(t, "haltTest", 1)
    <3> DEFINE f == [r EXCEPT !.pc = "haltTest", !.i = 1]
    <3>1. Move(t, "haltTest")
      <4>1. f \in Thread(Pcs) /\ f.pc = "haltTest"
        BY <1>3, <1>4, <1>5 DEF Thread
      <4>2. th' = [th EXCEPT ![t] = f]
        BY <1>1, <1>2, <2>1 DEF GotoAt
      <4> HIDE DEF f
      <4> QED BY <1>1, <1>2, <4>1, <4>2, PutThread
    <3> HIDE DEF f
    <3> QED BY <1>3, <1>6, <1>10, <1>12, <2>0, <3>1 DEF RunCallDone, Alive
  <2>2. CASE AfterHalt(t)
    <3>1. PICK x \in {"enter", "loop"} : Move(t, x)
      BY <1>2, <2>2, AfterHaltMove DEF IInv
    <3> QED BY <1>3, <1>6, <1>10, <1>12, <2>0, <3>1 DEF RunCallDone, Alive
  <2> QED BY <1>12, <2>1, <2>2 DEF RunCallDone
<1>13. CASE RunInterrupted(t)
  <2>1. Move(t, "done")
    BY <1>1, <1>2, <1>3, <1>13 DEF RunInterrupted, Goto, Move, Thread
  <2>2. Alive(t) /\ th[t].pc # "boot"
    BY <1>13 DEF RunInterrupted, Alive
  <2>3. th[Svc].pc = "join"
    BY <1>13, <2>2 DEF RunInterrupted, IInv, Control, InterruptedIsJoined
  <2>4. running' \in BOOLEAN
    BY <1>1, <1>13 DEF RunInterrupted, WordsOK
  <2> QED BY <1>3, <1>6, <1>13, <2>1, <2>2, <2>3, <2>4 DEF RunInterrupted
<1>14. CASE Halt(t)
  BY <1>2, <1>14, HaltKeepsIInv
<1> QED
  BY <1>7, <1>8, <1>9, <1>11, <1>12, <1>13, <1>14 DEF Run

-------------------------------------------------------------------------------
(* The services *)

LEMMA LayerStateFacts ==
  /\ {Off, InitState, Shutdown, ErrorState, HaltState, Recover, Ready} \subseteq LayerState
  /\ Off \notin {InitState, Shutdown, ErrorState, HaltState, Recover, Ready}
BY DEF LayerState, Off, InitState, Shutdown, ErrorState, HaltState, Recover, Ready

\* The steps of a call that neither start nor stop the run thread.
ServeInside ==
  \/ MemberInit \/ MemberInitOk \/ MemberInitFails \/ MemberInitShutdown \/ InitDone
  \/ ShutdownSet \/ MemberShutdown \/ MemberShutdownEnd \/ MembersAreShutDown
  \/ MemberRecover \/ MemberRecoverOk \/ MemberRecoverFails
  \/ RecoverHaltTest \/ RecoverHaltSet \/ RecoverHaltEnd \/ RecoverDone

LEMMA ServeInsideKeepsIInv == IInv /\ ServeInside => IInv'
<1> SUFFICES ASSUME IInv, ServeInside PROVE IInv'
  OBVIOUS
<1>1. th \in [Threads -> Thread(Pcs)] /\ WordsOK
  BY TypeOfThreads DEF IInv
<1>2. Svc \in Threads
  BY DEF Threads
<1>3. /\ SvcPcs \cup HaltPcs \subseteq Pcs
      /\ {"idle", "mInit", "mInitHandler", "mInitShutdown", "sdSet", "mSd", "mSdHandler",
          "stop", "mRecover", "mRecoverHandler", "recoverTest", "recoverSet",
          "recoverEnd", "selfTest"} \subseteq Pcs
      /\ {"idle", "mInit", "mInitHandler", "mInitShutdown", "sdSet", "mSd", "mSdHandler",
          "stop", "mRecover", "mRecoverHandler", "recoverTest", "recoverSet",
          "recoverEnd", "selfTest"} \subseteq SvcPcs \cup HaltPcs
  BY PcNames
<1>4. N \in Nat \ {0} /\ 1 \in 1 .. N + 1
  BY RosChainAssumption
<1>5. th[Svc] \in Thread(Pcs) /\ th[Svc].i \in 1 .. N + 1
  BY <1>1, <1>2 DEF Thread
<1>6. ASSUME NEW x \in SvcPcs \cup HaltPcs, Move(Svc, x), WordsOK',
             th[Svc].pc \notin {"idle", "initSet", "join", "sdEnd"},
             x \notin {"initSet", "join", "sdEnd"},
             x \in AtMember => th'[Svc].i <= N,
             state # Off => state' # Off,
             UNCHANGED <<running, handle, interrupted>>
      PROVE  IInv'
  <2>1. TypeInv'
    BY <1>2, <1>6, MoveType DEF IInv, TypeInv
  <2>2. Control'
    BY <1>6, ServiceMove
  <2> QED BY <2>1, <2>2 DEF IInv, TypeInv
<1>7. CASE MemberInit
  <2>1. WordsOK' /\ (state # Off => state' # Off)
    BY <1>1, <1>7, LayerStateFacts DEF MemberInit, WordsOK
  <2>2. CASE Goto(Svc, "mInitHandler")
    <3>1. Move(Svc, "mInitHandler") /\ th'[Svc].i = th[Svc].i
      BY <1>1, <1>2, <1>3, <2>2 DEF Goto, Move, Thread
    <3> QED BY <1>3, <1>6, <1>7, <2>1, <3>1 DEF MemberInit
  <2>3. CASE SkipMember(Svc)
    <3>1. Move(Svc, "mInit")
      BY <1>1, <1>2, <1>3, <1>4, <1>5, <1>7, <2>3 DEF MemberInit, SkipMember, Move, Thread
    <3> QED BY <1>3, <1>6, <1>7, <2>1, <3>1 DEF MemberInit, AtMember
  <2> QED BY <1>7, <2>2, <2>3 DEF MemberInit
<1>8. CASE MemberInitOk
  <2>0. th[Svc].i <= N
    BY <1>2, <1>8 DEF MemberInitOk, IInv, IndexOK, Threads
  <2>1. Move(Svc, "mInit")
    BY <1>1, <1>2, <1>3, <1>4, <1>5, <1>8, <2>0 DEF MemberInitOk, GotoAt, Move, Thread
  <2>2. WordsOK' /\ (state # Off => state' # Off)
    BY <1>1, <1>8, LayerStateFacts DEF MemberInitOk, WordsOK
  <2> QED BY <1>3, <1>6, <1>8, <2>1, <2>2 DEF MemberInitOk, AtMember
<1>9. CASE MemberInitFails
  <2>1. Move(Svc, "mInitShutdown")
    BY <1>1, <1>2, <1>3, <1>4, <1>5, <1>9 DEF MemberInitFails, Goto, GotoAt, SkipMember, Move, Thread
  <2>2. WordsOK' /\ (state # Off => state' # Off)
    BY <1>1, <1>9, LayerStateFacts DEF MemberInitFails, WordsOK
  <2> QED BY <1>3, <1>6, <1>9, <2>1, <2>2 DEF MemberInitFails, AtMember
<1>10. CASE MemberInitShutdown
  <2>1. Move(Svc, "sdSet")
    BY <1>1, <1>2, <1>3, <1>4, <1>5, <1>10 DEF MemberInitShutdown, Goto, GotoAt, SkipMember, Move, Thread
  <2>2. WordsOK' /\ (state # Off => state' # Off)
    BY <1>1, <1>10, LayerStateFacts DEF MemberInitShutdown, WordsOK
  <2> QED BY <1>3, <1>6, <1>10, <2>1, <2>2 DEF MemberInitShutdown, AtMember
<1>11. CASE InitDone
  <2>1. Move(Svc, "idle")
    BY <1>1, <1>2, <1>3, <1>4, <1>5, <1>11 DEF InitDone, Goto, GotoAt, SkipMember, Move, Thread
  <2>2. WordsOK' /\ (state # Off => state' # Off)
    BY <1>1, <1>11, LayerStateFacts DEF InitDone, WordsOK
  <2> QED BY <1>3, <1>6, <1>11, <2>1, <2>2 DEF InitDone, AtMember
<1>12. CASE ShutdownSet
  <2>1. Move(Svc, "mSd")
    BY <1>1, <1>2, <1>3, <1>4, <1>5, <1>12 DEF ShutdownSet, Goto, GotoAt, SkipMember, Move, Thread
  <2>2. WordsOK' /\ (state # Off => state' # Off)
    BY <1>1, <1>12, LayerStateFacts DEF ShutdownSet, WordsOK
  <2> QED BY <1>3, <1>6, <1>12, <2>1, <2>2 DEF ShutdownSet, AtMember
<1>13. CASE MemberShutdown
  <2>1. WordsOK' /\ (state # Off => state' # Off)
    BY <1>1, <1>13, LayerStateFacts DEF MemberShutdown, WordsOK
  <2>2. CASE Goto(Svc, "mSdHandler")
    <3>1. Move(Svc, "mSdHandler") /\ th'[Svc].i = th[Svc].i
      BY <1>1, <1>2, <1>3, <2>2 DEF Goto, Move, Thread
    <3> QED BY <1>3, <1>6, <1>13, <2>1, <3>1 DEF MemberShutdown
  <2>3. CASE SkipMember(Svc)
    <3>1. Move(Svc, "mSd")
      BY <1>1, <1>2, <1>3, <1>4, <1>5, <1>13, <2>3 DEF MemberShutdown, SkipMember, Move, Thread
    <3> QED BY <1>3, <1>6, <1>13, <2>1, <3>1 DEF MemberShutdown, AtMember
  <2> QED BY <1>13, <2>2, <2>3 DEF MemberShutdown
<1>14. CASE MemberShutdownEnd
  <2>0. th[Svc].i <= N
    BY <1>2, <1>14 DEF MemberShutdownEnd, IInv, IndexOK, Threads
  <2>1. Move(Svc, "mSd")
    BY <1>1, <1>2, <1>3, <1>4, <1>5, <1>14, <2>0 DEF MemberShutdownEnd, GotoAt, Move, Thread
  <2>2. WordsOK' /\ (state # Off => state' # Off)
    BY <1>1, <1>14, LayerStateFacts DEF MemberShutdownEnd, WordsOK
  <2> QED BY <1>3, <1>6, <1>14, <2>1, <2>2 DEF MemberShutdownEnd, AtMember
<1>15. CASE MembersAreShutDown
  <2>1. Move(Svc, "stop")
    BY <1>1, <1>2, <1>3, <1>4, <1>5, <1>15 DEF MembersAreShutDown, Goto, GotoAt, SkipMember, Move, Thread
  <2>2. WordsOK' /\ (state # Off => state' # Off)
    BY <1>1, <1>15, LayerStateFacts DEF MembersAreShutDown, WordsOK
  <2> QED BY <1>3, <1>6, <1>15, <2>1, <2>2 DEF MembersAreShutDown, AtMember
<1>16. CASE MemberRecover
  <2>1. WordsOK' /\ (state # Off => state' # Off)
    BY <1>1, <1>16, LayerStateFacts DEF MemberRecover, WordsOK
  <2>2. CASE Goto(Svc, "mRecoverHandler")
    <3>1. Move(Svc, "mRecoverHandler") /\ th'[Svc].i = th[Svc].i
      BY <1>1, <1>2, <1>3, <2>2 DEF Goto, Move, Thread
    <3> QED BY <1>3, <1>6, <1>16, <2>1, <3>1 DEF MemberRecover
  <2>3. CASE SkipMember(Svc)
    <3>1. Move(Svc, "mRecover")
      BY <1>1, <1>2, <1>3, <1>4, <1>5, <1>16, <2>3 DEF MemberRecover, SkipMember, Move, Thread
    <3> QED BY <1>3, <1>6, <1>16, <2>1, <3>1 DEF MemberRecover, AtMember
  <2> QED BY <1>16, <2>2, <2>3 DEF MemberRecover
<1>17. CASE MemberRecoverOk
  <2>0. th[Svc].i <= N
    BY <1>2, <1>17 DEF MemberRecoverOk, IInv, IndexOK, Threads
  <2>1. Move(Svc, "mRecover")
    BY <1>1, <1>2, <1>3, <1>4, <1>5, <1>17, <2>0 DEF MemberRecoverOk, GotoAt, Move, Thread
  <2>2. WordsOK' /\ (state # Off => state' # Off)
    BY <1>1, <1>17, LayerStateFacts DEF MemberRecoverOk, WordsOK
  <2> QED BY <1>3, <1>6, <1>17, <2>1, <2>2 DEF MemberRecoverOk, AtMember
<1>18. CASE MemberRecoverFails
  <2>1. Move(Svc, "recoverTest")
    BY <1>1, <1>2, <1>3, <1>4, <1>5, <1>18 DEF MemberRecoverFails, Goto, GotoAt, SkipMember, Move, Thread
  <2>2. WordsOK' /\ (state # Off => state' # Off)
    BY <1>1, <1>18, LayerStateFacts DEF MemberRecoverFails, WordsOK
  <2> QED BY <1>3, <1>6, <1>18, <2>1, <2>2 DEF MemberRecoverFails, AtMember
<1>19. CASE RecoverHaltSet
  <2>1. Move(Svc, "recoverEnd")
    BY <1>1, <1>2, <1>3, <1>4, <1>5, <1>19 DEF RecoverHaltSet, Goto, GotoAt, SkipMember, Move, Thread
  <2>2. WordsOK' /\ (state # Off => state' # Off)
    BY <1>1, <1>19, LayerStateFacts DEF RecoverHaltSet, WordsOK
  <2> QED BY <1>3, <1>6, <1>19, <2>1, <2>2 DEF RecoverHaltSet, AtMember
<1>20. CASE RecoverHaltEnd
  <2>1. Move(Svc, "selfTest")
    BY <1>1, <1>2, <1>3, <1>4, <1>5, <1>20 DEF RecoverHaltEnd, Goto, GotoAt, SkipMember, Move, Thread
  <2>2. WordsOK' /\ (state # Off => state' # Off)
    BY <1>1, <1>20, LayerStateFacts DEF RecoverHaltEnd, WordsOK
  <2> QED BY <1>3, <1>6, <1>20, <2>1, <2>2 DEF RecoverHaltEnd, AtMember
<1>21. CASE RecoverDone
  <2>1. Move(Svc, "idle")
    BY <1>1, <1>2, <1>3, <1>4, <1>5, <1>21 DEF RecoverDone, Goto, GotoAt, SkipMember, Move, Thread
  <2>2. WordsOK' /\ (state # Off => state' # Off)
    BY <1>1, <1>21, LayerStateFacts DEF RecoverDone, WordsOK
  <2> QED BY <1>3, <1>6, <1>21, <2>1, <2>2 DEF RecoverDone, AtMember
<1>22. CASE RecoverHaltTest
  <2>1. PICK x \in {"recoverSet", "selfTest"} : Goto(Svc, x)
    BY <1>22 DEF RecoverHaltTest
  <2>2. Move(Svc, x)
    BY <1>1, <1>2, <1>3, <2>1 DEF Goto, Move, Thread
  <2>3. WordsOK'
    BY <1>1, <1>22 DEF RecoverHaltTest, WordsOK
  <2> QED BY <1>3, <1>6, <1>22, <2>2, <2>3 DEF RecoverHaltTest, AtMember
<1> QED
  BY <1>7, <1>8, <1>9, <1>10, <1>11, <1>12, <1>13, <1>14,
     <1>15, <1>16, <1>17, <1>18, <1>19, <1>20, <1>21, <1>22 DEF ServeInside

\* Starting the stack: under PromptStart the new thread is past its first
\* statement when the chain leaves Off.
LEMMA InitSetKeepsIInv == PromptStart /\ IInv /\ InitSet => IInv'
<1> SUFFICES ASSUME PromptStart, IInv, InitSet PROVE IInv'
  OBVIOUS
<1>1. th \in [Threads -> Thread(Pcs)] /\ WordsOK
  BY TypeOfThreads DEF IInv
<1>2. Svc \in Threads /\ "mInit" \in Pcs /\ "mInit" \in SvcPcs /\ 1 \in 1 .. N + 1
  BY PcNames, RosChainAssumption DEF Threads
<1>3. Move(Svc, "mInit")
  <2>1. th' = [th EXCEPT ![Svc].pc = "mInit", ![Svc].i = 1]
    BY DEF InitSet, GotoAt
  <2>2. th[Svc] \in Thread(Pcs)
    BY <1>1, <1>2
  <2> DEFINE r == [th[Svc] EXCEPT !.pc = "mInit", !.i = 1]
  <2>3. r \in Thread(Pcs) /\ r.pc = "mInit"
    BY <1>2, <2>2 DEF Thread
  <2>4. th' = [th EXCEPT ![Svc] = r]
    BY <1>1, <1>2, <2>1
  <2> HIDE DEF r
  <2> QED BY <1>1, <1>2, <2>3, <2>4 DEF Move
<1>4. WordsOK' /\ state' # Off
  BY <1>1, LayerStateFacts DEF InitSet, WordsOK
<1>5. TypeInv'
  BY <1>2, <1>3, <1>4, MoveType DEF IInv, TypeInv, AtMember
<1>6. /\ th'[Svc].pc = "mInit"
      /\ \A u \in Runners : th'[u].pc = th[u].pc
  BY <1>3, SvcIsNoRunner DEF Move, Threads
<1>7. \A u \in Runners : Alive(u)' <=> Alive(u)
  BY <1>6 DEF Alive
<1>8. handle \in Runners /\ Alive(handle) /\ th[handle].pc # "boot"
  BY DEF InitSet, IInv, Control, RunnerIsUp
<1>9. \A u \in Runners : Alive(u) => u = handle
  BY DEF IInv, Control, OnlyHandleRuns
<1>10. OnlyHandleRuns' /\ StartIsOff' /\ StoppedAtEnd' /\ OffHasNoRunner' /\ RunnerIsUp'
  BY <1>4, <1>6, <1>7, <1>8, <1>9 DEF InitSet, OnlyHandleRuns, StartIsOff, StoppedAtEnd,
     OffHasNoRunner, RunnerIsUp
<1>11. BootOnlyAtStart'
  BY <1>6, <1>8, <1>9 DEF BootOnlyAtStart, Alive
<1>12. RunningIsSet'
  BY <1>6, <1>7, <1>8, <1>9 DEF InitSet, IInv, Control, RunningIsSet
<1>13. InterruptedIsJoined'
  BY <1>1, <1>6, <1>7 DEF InitSet, WordsOK, IInv, Control, InterruptedIsJoined
<1> QED BY <1>5, <1>10, <1>11, <1>12, <1>13 DEF IInv, TypeInv, Control

\* Stopping it: running_ is set whenever there is a thread to stop, so the
\* shutdown always joins, and what it joined is the only thread.
LEMMA StopKeepsIInv == IInv /\ (StopThread \/ JoinThread \/ ShutdownEnd) => IInv'
<1> SUFFICES ASSUME IInv, StopThread \/ JoinThread \/ ShutdownEnd PROVE IInv'
  OBVIOUS
<1>1. th \in [Threads -> Thread(Pcs)] /\ WordsOK
  BY TypeOfThreads DEF IInv
<1>2. /\ Svc \in Threads /\ {"join", "sdEnd", "idle"} \subseteq Pcs
      /\ {"join", "sdEnd", "idle"} \subseteq SvcPcs
  BY PcNames DEF Threads
<1>3. \A u \in Runners : Alive(u) => u = handle
  BY DEF IInv, Control, OnlyHandleRuns
<1>4. CASE StopThread
  <2>1. handle \in Runners /\ Alive(handle)
    BY <1>4 DEF StopThread, IInv, Control, RunnerIsUp
  <2>2. state # Off
    BY <1>4 DEF StopThread, IInv, Control, OffHasNoRunner
  <2>3. running
    BY <1>1, <1>4, <2>1 DEF StopThread, IInv, Control, RunningIsSet, WordsOK
  <2>4. Move(Svc, "join")
    BY <1>1, <1>2, <1>4, <2>3 DEF StopThread, Goto, Move, Thread
  <2>5. WordsOK'
    BY <1>1, <1>4, <2>1, <2>3 DEF StopThread, WordsOK
  <2>6. TypeInv'
    BY <1>2, <2>4, <2>5, MoveType DEF IInv, TypeInv, AtMember
  <2>7. /\ th'[Svc].pc = "join"
        /\ \A u \in Runners : th'[u].pc = th[u].pc
    BY <2>4, SvcIsNoRunner DEF Move, Threads
  <2>8. \A u \in Runners : Alive(u)' <=> Alive(u)
    BY <2>7 DEF Alive
  <2>9. BootOnlyAtStart'
    BY <1>4, <2>7 DEF StopThread, IInv, Control, BootOnlyAtStart
  <2>10. Control'
    BY <1>3, <1>4, <2>2, <2>7, <2>8, <2>9 DEF StopThread, Control, OnlyHandleRuns, RunningIsSet,
       OffHasNoRunner, StartIsOff, StoppedAtEnd, RunnerIsUp, InterruptedIsJoined
  <2> QED BY <2>6, <2>10 DEF IInv, TypeInv
<1>5. CASE JoinThread
  <2>1. state # Off
    BY <1>5 DEF JoinThread, IInv, Control, OffHasNoRunner
  <2>2. Move(Svc, "sdEnd")
    BY <1>1, <1>2, <1>5 DEF JoinThread, Goto, Move, Thread
  <2>3. WordsOK'
    BY <1>1, <1>5 DEF JoinThread, WordsOK
  <2>4. TypeInv'
    BY <1>2, <2>2, <2>3, MoveType DEF IInv, TypeInv, AtMember
  <2>5. /\ th'[Svc].pc = "sdEnd"
        /\ \A u \in Runners : th'[u].pc = th[u].pc
    BY <2>2, SvcIsNoRunner DEF Move, Threads
  <2>6. \A u \in Runners : ~Alive(u)
    BY <1>3, <1>5 DEF JoinThread, Alive
  <2>7. \A u \in Runners : ~Alive(u)' /\ th'[u].pc # "boot"
    BY <2>5, <2>6 DEF Alive
  <2>8. Control'
    BY <1>5, <2>1, <2>3, <2>5, <2>7 DEF JoinThread, WordsOK, Control, OnlyHandleRuns, RunningIsSet,
       BootOnlyAtStart, OffHasNoRunner, StartIsOff, StoppedAtEnd, RunnerIsUp,
       InterruptedIsJoined
  <2> QED BY <2>4, <2>8 DEF IInv, TypeInv
<1>6. CASE ShutdownEnd
  <2>1. \A u \in Runners : ~Alive(u)
    BY <1>6 DEF ShutdownEnd, IInv, Control, StoppedAtEnd
  <2>2. Move(Svc, "idle")
    BY <1>1, <1>2, <1>6 DEF ShutdownEnd, Goto, Move, Thread
  <2>3. WordsOK'
    BY <1>1, <1>6, LayerStateFacts DEF ShutdownEnd, WordsOK
  <2>4. TypeInv'
    BY <1>2, <2>2, <2>3, MoveType DEF IInv, TypeInv, AtMember
  <2>5. /\ th'[Svc].pc = "idle"
        /\ \A u \in Runners : th'[u].pc = th[u].pc
    BY <2>2, SvcIsNoRunner DEF Move, Threads
  <2>6. \A u \in Runners : ~Alive(u)' /\ th'[u].pc # "boot"
    BY <2>1, <2>5 DEF Alive
  <2>7. Control'
    BY <1>6, <2>3, <2>5, <2>6 DEF ShutdownEnd, WordsOK, Control, OnlyHandleRuns, RunningIsSet,
       BootOnlyAtStart, OffHasNoRunner, StartIsOff, StoppedAtEnd, RunnerIsUp,
       InterruptedIsJoined
  <2> QED BY <2>4, <2>7 DEF IInv, TypeInv
<1> QED BY <1>4, <1>5, <1>6

-------------------------------------------------------------------------------
(* The calls *)

\* What a call does to the threads.
LEMMA BeginThreads ==
  ASSUME TypeInv, NEW cmd \in {"init", "recover", "halt", "shutdown"},
         NEW pc \in {"initSet", "selfTest", "mRecover"}, NEW new \in {0} \cup Runners,
         Begin(cmd, pc, new)
  PROVE  /\ th' \in [Threads -> Thread(Pcs)]
         /\ th'[Svc].pc = pc
         /\ \A u \in Runners : /\ th'[u].pc = IF u = new THEN "boot" ELSE th[u].pc
                               /\ u # new => th'[u].i = th[u].i
<1>1. th \in [Threads -> Thread(Pcs)]
  BY TypeOfThreads DEF TypeInv
<1>2. {"boot", "initSet", "selfTest", "mRecover"} \subseteq Pcs
  BY PcNames
<1>3. [Fresh(pc) EXCEPT !.cmd = cmd] \in Thread(Pcs) /\ [Fresh(pc) EXCEPT !.cmd = cmd].pc = pc
  <2>1. pc \in Pcs
    BY <1>2
  <2>2. Fresh(pc) \in Thread(Pcs) /\ Fresh(pc).pc = pc
    BY <2>1, FreshType
  <2>3. cmd \in {"none", "init", "recover", "halt", "shutdown"}
    OBVIOUS
  <2> DEFINE f == Fresh(pc)
  <2> HIDE DEF f
  <2>4. f \in Thread(Pcs) /\ f.pc = pc
    BY <2>2 DEF f
  <2>5. [f EXCEPT !.cmd = cmd] \in Thread(Pcs) /\ [f EXCEPT !.cmd = cmd].pc = pc
    BY <2>3, <2>4 DEF Thread
  <2> QED BY <2>5 DEF f
<1>4. Fresh("boot") \in Thread(Pcs) /\ Fresh("boot").pc = "boot"
  BY <1>2, FreshType
<1>5. \A u \in Threads : /\ [th[u] EXCEPT !.quiet = FALSE] \in Thread(Pcs)
                         /\ [th[u] EXCEPT !.quiet = FALSE].pc = th[u].pc
                         /\ [th[u] EXCEPT !.quiet = FALSE].i = th[u].i
  BY <1>1 DEF Thread
<1>6. th' = [u \in Threads |->
               IF u = Svc THEN [Fresh(pc) EXCEPT !.cmd = cmd]
               ELSE IF u = new THEN Fresh("boot")
               ELSE [th[u] EXCEPT !.quiet = FALSE]]
  BY <1>1 DEF Begin
<1>7. \A u \in Threads : th'[u] \in Thread(Pcs)
  BY <1>3, <1>4, <1>5, <1>6
<1>8. th' \in [Threads -> Thread(Pcs)]
  BY <1>6, <1>7
<1> QED
  BY <1>3, <1>4, <1>5, <1>6, <1>8, SvcIsNoRunner DEF Threads

\* The types after a call.
LEMMA BeginType ==
  ASSUME TypeInv, NEW cmd \in {"init", "recover", "halt", "shutdown"},
         NEW pc \in {"initSet", "selfTest", "mRecover"}, NEW new \in {0} \cup Runners,
         Begin(cmd, pc, new), WordsOK'
  PROVE  TypeInv'
<1>1. /\ th' \in [Threads -> Thread(Pcs)]
      /\ th'[Svc].pc = pc
      /\ \A u \in Runners : /\ th'[u].pc = IF u = new THEN "boot" ELSE th[u].pc
                            /\ u # new => th'[u].i = th[u].i
  BY BeginThreads
<1>2. pc \in SvcPcs \cup HaltPcs /\ "boot" \in RunPcs
  BY PcNames
<1>3. StateTypeOK'
  BY <1>1, <1>2 DEF TypeInv, StateTypeOK, WordsOK, Threads, Pcs
<1>4. pc \notin AtMember /\ "boot" \notin AtMember
  BY DEF AtMember
<1>5. IndexOK'
  BY <1>1, <1>4 DEF TypeInv, IndexOK, AtMember, Threads
<1> QED BY <1>3, <1>5 DEF TypeInv

LEMMA CallKeepsIInv == IInv /\ (CallInit \/ CallHalt \/ CallShutdown \/ CallRecover) => IInv'
<1> SUFFICES ASSUME IInv, CallInit \/ CallHalt \/ CallShutdown \/ CallRecover PROVE IInv'
  OBVIOUS
<1>1. WordsOK /\ TypeInv
  BY TypeOfThreads DEF IInv, TypeInv
<1>2. CASE CallInit
  <2>1. PICK new \in Runners : /\ ~Alive(new)
                               /\ handle' = new
                               /\ interrupted' = interrupted \ {new}
                               /\ Begin("init", "initSet", new)
    BY <1>2 DEF CallInit
  <2>2. WordsOK'
    BY <1>1, <1>2, <2>1 DEF CallInit, WordsOK
  <2>3. TypeInv'
    BY <1>1, <2>1, <2>2, BeginType
  <2>4. /\ th'[Svc].pc = "initSet"
        /\ \A u \in Runners : th'[u].pc = IF u = new THEN "boot" ELSE th[u].pc
    BY <1>1, <2>1, BeginThreads
  <2>5. \A u \in Runners : ~Alive(u)
    BY <1>2 DEF CallInit, IInv, Control, OffHasNoRunner
  <2>6. \A u \in Runners : Alive(u)' <=> u = new
    BY <2>4, <2>5 DEF Alive
  <2>7. \A u \in Runners : th'[u].pc \in {"none", "done", "boot"}
    BY <2>4, <2>5 DEF Alive
  <2>8. Control'
    BY <1>2, <2>1, <2>2, <2>4, <2>6, <2>7 DEF CallInit, WordsOK, Control, OnlyHandleRuns,
       RunningIsSet, BootOnlyAtStart, OffHasNoRunner, StartIsOff, StoppedAtEnd,
       RunnerIsUp, InterruptedIsJoined
  <2> QED BY <2>3, <2>8 DEF IInv, TypeInv
<1>3. ASSUME NEW cmd \in {"recover", "halt", "shutdown"}, NEW pc \in {"selfTest", "mRecover"},
             Begin(cmd, pc, 0), th[Svc].pc = "idle", state # Off, state' # Off, WordsOK',
             UNCHANGED <<running, handle, interrupted>>
      PROVE  IInv'
  <2>1. TypeInv'
    BY <1>1, <1>3, BeginType
  <2>2. /\ th'[Svc].pc = pc
        /\ \A u \in Runners : th'[u].pc = th[u].pc
    BY <1>1, <1>3, BeginThreads DEF Runners
  <2>3. \A u \in Runners : Alive(u)' <=> Alive(u)
    BY <2>2 DEF Alive
  <2>4. handle \in Runners /\ Alive(handle)
    BY <1>3 DEF IInv, Control, RunnerIsUp
  <2>5. BootOnlyAtStart'
    BY <1>3, <2>2 DEF IInv, Control, BootOnlyAtStart
  <2>6. RunningIsSet'
    BY <1>3, <2>2, <2>3 DEF IInv, Control, RunningIsSet
  <2>7. OnlyHandleRuns' /\ OffHasNoRunner' /\ StartIsOff' /\ StoppedAtEnd' /\ RunnerIsUp'
    BY <1>3, <2>2, <2>3, <2>4 DEF IInv, Control, OnlyHandleRuns, OffHasNoRunner, StartIsOff,
       StoppedAtEnd, RunnerIsUp
  <2>8. InterruptedIsJoined'
    BY <1>1, <1>3, <2>2, <2>3 DEF WordsOK, IInv, Control, InterruptedIsJoined
  <2> QED BY <2>1, <2>5, <2>6, <2>7, <2>8 DEF IInv, TypeInv, Control
<1>4. CASE CallHalt
  <2>1. state # Off /\ state' # Off /\ WordsOK'
    BY <1>1, <1>4 DEF CallHalt, WordsOK, LayerState, Off, InitState
  <2> QED BY <1>3, <1>4, <2>1 DEF CallHalt
<1>5. CASE CallShutdown
  <2>1. state # Off /\ state' # Off /\ WordsOK'
    BY <1>1, <1>5 DEF CallShutdown, WordsOK, LayerState, Off, InitState
  <2> QED BY <1>3, <1>5, <2>1 DEF CallShutdown
<1>6. CASE CallRecover
  <2>1. state # Off /\ state' # Off /\ WordsOK'
    BY <1>1, <1>6, LayerStateFacts DEF CallRecover, WordsOK
  <2> QED BY <1>3, <1>6, <2>1 DEF CallRecover
<1> QED BY <1>2, <1>4, <1>5, <1>6

-------------------------------------------------------------------------------
(* The theorems *)

LEMMA InitIInv == Init => IInv
<1> SUFFICES ASSUME Init PROVE IInv
  OBVIOUS
<1>1. /\ th = [u \in Threads |-> Fresh(IF u = Svc THEN "idle" ELSE "none")]
      /\ {"idle", "none"} \subseteq Pcs /\ "idle" \in SvcPcs /\ "none" \in RunPcs
  BY PcNames DEF Init, Threads
<1>2. /\ th \in [Threads -> Thread(Pcs)]
      /\ \A u \in Threads : th[u].pc = IF u = Svc THEN "idle" ELSE "none"
  BY <1>1, FreshType
<1>3. WordsOK
  BY LayerStateFacts DEF Init, WordsOK
<1>4. StateTypeOK
  BY <1>1, <1>2, <1>3, SvcIsNoRunner DEF StateTypeOK, WordsOK, Threads, Pcs
<1>5. IndexOK
  BY <1>2 DEF IndexOK, Threads
<1>6. th[Svc].pc = "idle" /\ \A u \in Runners : th[u].pc = "none"
  BY <1>2, SvcIsNoRunner DEF Threads
<1>7. Control
  BY <1>6 DEF Init, Control, OnlyHandleRuns, RunningIsSet, BootOnlyAtStart, OffHasNoRunner,
     StartIsOff, StoppedAtEnd, RunnerIsUp, InterruptedIsJoined, Alive
<1> QED BY <1>4, <1>5, <1>7 DEF IInv

LEMMA NextIInv == PromptStart /\ IInv /\ [Next]_vars => IInv'
<1> SUFFICES ASSUME PromptStart, IInv, [Next]_vars PROVE IInv'
  OBVIOUS
<1>1. CASE CallInit \/ CallHalt \/ CallShutdown \/ CallRecover
  BY <1>1, CallKeepsIInv
<1>2. CASE Serve
  <2>1. CASE InitSet BY <2>1, InitSetKeepsIInv
  <2>2. CASE StopThread \/ JoinThread \/ ShutdownEnd BY <2>2, StopKeepsIInv
  <2>3. CASE ServeInside BY <2>3, ServeInsideKeepsIInv
  <2>4. CASE Halt(Svc) BY <2>4, HaltKeepsIInv DEF Threads
  <2> QED BY <1>2, <2>1, <2>2, <2>3, <2>4 DEF Serve, ServeInside
<1>3. ASSUME NEW t \in Runners, Run(t) PROVE IInv'
  BY <1>3, RunKeepsIInv
<1>4. CASE UNCHANGED vars
  BY <1>4 DEF vars, IInv, StateTypeOK, IndexOK, Control, OnlyHandleRuns, RunningIsSet,
     BootOnlyAtStart, OffHasNoRunner, StartIsOff, StoppedAtEnd, RunnerIsUp,
     InterruptedIsJoined, Alive
<1> QED
  BY <1>1, <1>2, <1>3, <1>4 DEF Next

\* RosChain::handleShutdown leaves no run thread behind, provided a new thread
\* is scheduled before init can fail.
THEOREM RunThreadStoppedHolds ==
  ASSUME PromptStart
  PROVE  Spec => []RunThreadStopped
<1>1. IInv => RunThreadStopped
  BY DEF IInv, Control, OffHasNoRunner, RunThreadStopped, Idle
<1>2. IInv /\ [Next]_vars => IInv'
  BY NextIInv
<1> QED
  BY <1>1, <1>2, InitIInv, PTL DEF Spec

\* No service returns with the chain up and its run thread gone or told to stop.
THEOREM RunThreadServesHolds ==
  ASSUME PromptStart
  PROVE  Spec => []RunThreadServes
<1>1. IInv => RunThreadServes
  <2> SUFFICES ASSUME IInv, Idle, state # Off
               PROVE  handle # 0 /\ Alive(handle) /\ running
    BY DEF RunThreadServes
  <2>1. handle \in Runners /\ Alive(handle)
    BY DEF Idle, IInv, Control, RunnerIsUp
  <2>2. running
    BY <2>1 DEF Idle, IInv, StateTypeOK, Control, RunningIsSet
  <2> QED BY <2>1, <2>2 DEF Runners
<1>2. IInv /\ [Next]_vars => IInv'
  BY NextIInv
<1> QED
  BY <1>1, <1>2, InitIInv, PTL DEF Spec

-------------------------------------------------------------------------------
(***************************************************************************)
(* What the services and the run thread leave behind in the members' state *)
(* words: a chain that is Ready has started all of them, a shutdown leaves *)
(* none at work, and a cycle that failed halts all of them.  Proved for    *)
(* any number of members and of run threads, under PromptStart.            *)
(***************************************************************************)

WalkPcs    == {"haltTest", "haltSet", "haltEnd"}
RecoverPcs == {"mRecover", "mRecoverHandler", "recoverTest", "recoverSet", "recoverEnd"}
Serving    == {"idle"} \cup RecoverPcs \cup HaltPcs

Started(m) == mstate[m] \notin {Off, InitState, Shutdown}

\* An init finds no member half started or half shut down, and has started the
\* members it has passed; a run thread that halts one meanwhile stores Halt or Error.
StartedSoFar ==
  /\ th[Svc].pc \in {"initSet", "mInit", "mInitHandler"} =>
       \A m \in Members : \/ mstate[m] \notin {InitState, Shutdown}
                          \/ th[Svc].pc = "mInitHandler" /\ m = th[Svc].i
  /\ th[Svc].pc \in {"mInit", "mInitHandler"} =>
       \A m \in Members : m < th[Svc].i => Started(m)

\* Outside init and shutdown a chain that is up has started every member.
UpIsStarted ==
  th[Svc].pc \in Serving /\ state # Off => \A m \in Members : Started(m)

\* The members a shutdown is done with.
WalkedDown(m) ==
  \/ th[Svc].pc \in {"mSd", "mSdHandler"} /\ m > N + 1 - th[Svc].i
  \/ th[Svc].pc \in {"stop", "join", "sdEnd"}
  \/ th[Svc].pc = "idle" /\ state = Off

HaltsMember(t, m) == th[t].pc = "haltEnd" /\ Member(t) = m

\* Each of these rests, or a run thread is in its halt and will store Error.
DownIsAtRest ==
  \A m \in Members : WalkedDown(m) =>
    \/ mstate[m] \in {Off, ErrorState}
    \/ mstate[m] = HaltState /\ \E t \in Runners : HaltsMember(t, m)

\* As long as the history flag of a cycle is set, no service is active.
QuietIsIdle == \A t \in Runners : th[t].quiet = TRUE => Idle

\* A member is in Halt only while a thread is in its halt.
HaltPasses ==
  \A m \in Members : mstate[m] = HaltState =>
    \/ \E t \in Threads : HaltsMember(t, m)
    \/ th[Svc].pc = "recoverEnd" /\ th[Svc].i = m

HaltsChain(t) == th[t].level = "self" /\ th[t].pc \in WalkPcs \cup {"selfEnd"}

\* The chain is in Halt only while a thread is in its halt.
ChainHaltPasses == state = HaltState => \E t \in Threads : HaltsChain(t)

\* Outside init and shutdown a chain that is up is in Error, Halt, Recover or
\* Ready; Recover ends with the service.
UpStates ==
  th[Svc].pc \in Serving /\ state # Off =>
    state \in {ErrorState, HaltState, Recover, Ready} /\ (Idle => state # Recover)

\* The members a thread has passed in a halt, which goes backwards in a write.
Passed(t, m) ==
  IF th[t].level = "direct" /\ th[t].part = "write" THEN m > N + 1 - th[t].i ELSE m < th[t].i

Halted == \A m \in Members : mstate[m] <= ErrorState

\* What a run thread that nobody disturbs has halted.
InOrder(t) ==
  /\ th[t].pc = "call" => th[t].level = "direct"
  /\ th[t].pc \in WalkPcs /\ th[t].level = "direct" =>
       \A m \in Members : Passed(t, m) => mstate[m] <= ErrorState
  /\ th[t].pc \in WalkPcs /\ th[t].level = "self" => th[t].pc = "haltTest" /\ Halted
  /\ th[t].pc \in {"selfTest", "selfSet", "selfEnd"} => Halted
  /\ th[t].pc \in {"enter", "loop"} /\ th[t].err = TRUE => Halted /\ state = ErrorState

HaltsInOrder == \A t \in Runners : th[t].quiet = TRUE => InOrder(t)

MemberInv ==
  /\ StartedSoFar /\ UpIsStarted /\ DownIsAtRest
  /\ QuietIsIdle /\ HaltPasses /\ ChainHaltPasses /\ UpStates /\ HaltsInOrder

-------------------------------------------------------------------------------
(* Steps, seen as changes of one thread's record *)

Others(t) == \A u \in Threads : u # t => th'[u] = th[u]

\* The numbers of the states.
LEMMA StateNumbers ==
  /\ Off = 0 /\ InitState = 1 /\ Shutdown = 2 /\ ErrorState = 3
  /\ HaltState = 4 /\ Recover = 5 /\ Ready = 6
BY DEF Off, InitState, Shutdown, ErrorState, HaltState, Recover, Ready

LEMMA StatesAreNumbers == LayerState \subseteq Nat /\ \A s \in LayerState : s <= 6
BY StateNumbers DEF LayerState

\* What is known of the types, in the form the steps need.
LEMMA Types ==
  ASSUME StateTypeOK
  PROVE  /\ th \in [Threads -> Thread(Pcs)]
         /\ mstate \in [Members -> LayerState] /\ state \in LayerState
         /\ N \in Nat \ {0} /\ Svc \in Threads /\ Svc \notin Runners
         /\ \A t \in Threads : /\ th[t].i \in 1 .. N + 1
                               /\ th[t].level \in {"direct", "self"}
                               /\ th[t].part \in {"read", "write"}
                               /\ th[t].quiet \in BOOLEAN /\ th[t].err \in BOOLEAN
BY TypeOfThreads, SvcIsNoRunner, RosChainAssumption DEF WordsOK, Threads, Thread

LEMMA GotoFields ==
  ASSUME StateTypeOK, NEW t \in Threads, NEW x, Goto(t, x)
  PROVE  /\ Others(t) /\ th'[t].pc = x /\ th'[t].i = th[t].i /\ th'[t].level = th[t].level
         /\ th'[t].part = th[t].part /\ th'[t].quiet = th[t].quiet /\ th'[t].err = th[t].err
         /\ th'[t].cmd = th[t].cmd
BY Types DEF Goto, Others, Thread

LEMMA GotoAtFields ==
  ASSUME StateTypeOK, NEW t \in Threads, NEW x, NEW i, GotoAt(t, x, i)
  PROVE  /\ Others(t) /\ th'[t].pc = x /\ th'[t].i = i /\ th'[t].level = th[t].level
         /\ th'[t].part = th[t].part /\ th'[t].quiet = th[t].quiet /\ th'[t].err = th[t].err
         /\ th'[t].cmd = th[t].cmd
BY Types DEF GotoAt, Others, Thread

LEMMA SkipFields ==
  ASSUME StateTypeOK, NEW t \in Threads, SkipMember(t)
  PROVE  /\ Others(t) /\ th'[t].pc = th[t].pc /\ th'[t].i = th[t].i + 1
         /\ th'[t].level = th[t].level
         /\ th'[t].part = th[t].part /\ th'[t].quiet = th[t].quiet /\ th'[t].err = th[t].err
         /\ th'[t].cmd = th[t].cmd
BY Types DEF SkipMember, Others, Thread

-------------------------------------------------------------------------------
(* The run thread *)

\* A run thread stores Halt and Error only, and never into a chain that is Off.
LEMMA RunnerKeepsStates ==
  ASSUME StateTypeOK, MemberInv, NEW t \in Runners, Others(t),
         \A m \in Members : mstate'[m] \in {mstate[m], HaltState, ErrorState},
         state' \in {state, HaltState, ErrorState}, state = Off <=> state' = Off,
         th'[t].quiet = TRUE => Idle
  PROVE  StartedSoFar' /\ UpIsStarted' /\ QuietIsIdle' /\ UpStates'
<1>1. th'[Svc] = th[Svc]
  BY Types DEF Others, Threads
<1>2. ASSUME NEW m \in Members
      PROVE  /\ Started(m) => Started(m)'
             /\ mstate[m] \notin {InitState, Shutdown} => mstate'[m] \notin {InitState, Shutdown}
  BY StateNumbers DEF Started
<1>3. StartedSoFar' /\ UpIsStarted'
  <2>1. ASSUME NEW m \in Members, th'[Svc].pc \in {"initSet", "mInit", "mInitHandler"}
        PROVE  \/ mstate'[m] \notin {InitState, Shutdown}
               \/ th'[Svc].pc = "mInitHandler" /\ m = th'[Svc].i
    BY <1>1, <1>2, <2>1 DEF MemberInv, StartedSoFar
  <2>2. ASSUME NEW m \in Members, th'[Svc].pc \in {"mInit", "mInitHandler"}, m < th'[Svc].i
        PROVE  Started(m)'
    BY <1>1, <1>2, <2>2 DEF MemberInv, StartedSoFar
  <2>3. ASSUME NEW m \in Members, th'[Svc].pc \in Serving, state' # Off
        PROVE  Started(m)'
    BY <1>1, <1>2, <2>3 DEF MemberInv, UpIsStarted
  <2> QED BY <2>1, <2>2, <2>3 DEF StartedSoFar, UpIsStarted
<1>4. QuietIsIdle'
  BY <1>1 DEF MemberInv, QuietIsIdle, Idle, Others, Threads
<1>5. UpStates'
  BY <1>1, StateNumbers DEF MemberInv, UpStates, Idle
<1> QED BY <1>3, <1>4, <1>5

\* What the steps of the other threads leave of one's place in a halt.
LEMMA SamePlace ==
  ASSUME NEW u \in Threads, th'[u] = th[u]
  PROVE  /\ \A m : HaltsMember(u, m)' <=> HaltsMember(u, m)
         /\ HaltsChain(u)' <=> HaltsChain(u)
         /\ \A m : Passed(u, m)' <=> Passed(u, m)
BY DEF HaltsMember, Member, HaltsChain, Passed

\* A step of a run thread outside the halts.
LEMMA CycleKeepsMemberInv ==
  ASSUME IInv, MemberInv, NEW t \in Runners, Others(t), UNCHANGED <<state, mstate>>,
         th[t].pc \notin HaltPcs,
         th'[t].quiet = TRUE => Idle,
         th'[t].quiet = TRUE /\ th'[t].pc \in HaltPcs =>
           th'[t].pc = "haltTest" /\ th'[t].level = "direct" /\ th'[t].i = 1,
         th'[t].quiet = TRUE /\ th'[t].pc = "call" => th'[t].level = "direct",
         th'[t].quiet = TRUE /\ th'[t].pc \in {"enter", "loop"} /\ th'[t].err = TRUE =>
           Halted /\ state = ErrorState
  PROVE  MemberInv'
<1>0. StateTypeOK
  BY DEF IInv
<1>1. StartedSoFar' /\ UpIsStarted' /\ QuietIsIdle' /\ UpStates'
  BY <1>0, RunnerKeepsStates
<1>2. \A u \in Threads : u # t => th'[u] = th[u]
  BY DEF Others
<1>3. \A u \in Threads : \A m : HaltsMember(u, m) => HaltsMember(u, m)'
  BY <1>2, SamePlace DEF HaltsMember, HaltPcs
<1>4. \A u \in Threads : HaltsChain(u) => HaltsChain(u)'
  BY <1>2, SamePlace DEF HaltsChain, HaltPcs, WalkPcs
<1>5. th'[Svc] = th[Svc] /\ t \in Threads
  BY <1>0, <1>2, Types DEF Threads
<1>6. DownIsAtRest'
  BY <1>3, <1>5 DEF MemberInv, DownIsAtRest, WalkedDown, Threads
<1>7. HaltPasses' /\ ChainHaltPasses'
  BY <1>3, <1>4, <1>5 DEF MemberInv, HaltPasses, ChainHaltPasses
<1>8. HaltsInOrder'
  <2> SUFFICES ASSUME NEW u \in Runners, th'[u].quiet = TRUE PROVE InOrder(u)'
    BY DEF HaltsInOrder
  <2>1. CASE u # t
    <3>1. th'[u] = th[u] /\ u \in Threads
      BY <1>2, <2>1 DEF Threads
    <3> QED BY <3>1, SamePlace DEF MemberInv, HaltsInOrder, InOrder, Halted
  <2>2. CASE u = t
    <3>1. th'[u].pc \notin {"haltSet", "haltEnd", "selfTest", "selfSet", "selfEnd"}
      BY <2>2 DEF HaltPcs
    <3>2. \A m \in Members : th'[u].i = 1 => ~Passed(u, m)'
      BY <1>0, Types DEF Passed, Members
    <3> QED BY <2>2, <3>1, <3>2, StateNumbers DEF InOrder, HaltPcs, WalkPcs, Halted
  <2> QED BY <2>1, <2>2
<1> QED BY <1>1, <1>6, <1>7, <1>8 DEF MemberInv

\* Where a run thread is after its halt, or after a half of the cycle.
LEMMA AfterHaltFields ==
  ASSUME StateTypeOK, NEW t \in Threads, AfterHalt(t)
  PROVE  /\ Others(t) /\ th'[t].i = th[t].i /\ th'[t].level = th[t].level
         /\ th'[t].quiet = th[t].quiet /\ th'[t].err = th[t].err
         /\ t = Svc => /\ th'[t].pc = IF th[t].cmd = "shutdown" THEN "sdSet" ELSE "idle"
                       /\ th'[t].part = th[t].part
         /\ t # Svc => th'[t].pc \in {"enter", "loop"}
<1>1. CASE t # Svc /\ th[t].part = "read"
  BY <1>1, Types DEF AfterHalt, Others, Thread
<1>2. CASE ~(t # Svc /\ th[t].part = "read")
  <2>1. Goto(t, IF t = Svc THEN IF th[t].cmd = "shutdown" THEN "sdSet" ELSE "idle" ELSE "loop")
    BY <1>2 DEF AfterHalt
  <2> QED BY <1>2, <2>1, GotoFields
<1> QED BY <1>1, <1>2

LEMMA RunKeepsMemberInv ==
  ASSUME IInv, MemberInv, NEW t \in Runners, Run(t), ~Halt(t)
  PROVE  MemberInv'
<1>1. StateTypeOK /\ t \in Threads /\ t # Svc
  BY Types DEF IInv, Threads
<1>2. th[t].quiet = TRUE => Idle
  BY DEF MemberInv, QuietIsIdle
<1>3. ASSUME Others(t), UNCHANGED <<state, mstate>>, th[t].pc \notin HaltPcs,
             th'[t].pc \notin HaltPcs \cup {"call"}, th'[t].quiet = TRUE => Idle,
             th'[t].pc \in {"enter", "loop"} =>
               \/ th'[t].err = FALSE \/ th'[t].quiet = FALSE
               \/ th[t].pc \in {"enter", "loop"} /\ th'[t].err = th[t].err
                    /\ th'[t].quiet = th[t].quiet
      PROVE  MemberInv'
  <2>1. th'[t].quiet = TRUE /\ th'[t].pc \in {"enter", "loop"} /\ th'[t].err = TRUE =>
          Halted /\ state = ErrorState
    BY <1>3 DEF MemberInv, HaltsInOrder, InOrder
  <2>2. /\ th'[t].quiet = TRUE /\ th'[t].pc \in HaltPcs =>
             th'[t].pc = "haltTest" /\ th'[t].level = "direct" /\ th'[t].i = 1
        /\ th'[t].quiet = TRUE /\ th'[t].pc = "call" => th'[t].level = "direct"
    BY <1>3
  <2> QED BY <1>3, <2>1, <2>2, CycleKeepsMemberInv
<1>10. ASSUME NEW x \in {"loop", "done"}, Goto(t, x), UNCHANGED <<state, mstate>>,
             th[t].pc \in {"boot", "loop", "enter", "call"},
             x = "loop" => th[t].pc = "enter" \/ th[t].quiet = FALSE
      PROVE  MemberInv'
  <2>1. /\ Others(t) /\ th'[t].pc = x /\ th'[t].err = th[t].err
        /\ th'[t].quiet = th[t].quiet
    BY <1>1, <1>10, GotoFields
  <2>2. th[t].pc \notin HaltPcs /\ x \notin HaltPcs \cup {"call"}
    BY <1>10 DEF HaltPcs
  <2> QED BY <1>2, <1>3, <1>10, <2>1, <2>2
<1>4. CASE RunBoot(t)
  <2>1. Goto(t, "loop") /\ th[t].pc = "boot" /\ UNCHANGED <<state, mstate>>
    BY <1>4 DEF RunBoot
  <2>2. th[t].quiet = FALSE
    BY <1>1, <1>2, <2>1, Types DEF IInv, Control, BootOnlyAtStart, Idle
  <2> QED BY <1>10, <2>1, <2>2
<1>5. CASE RunLoop(t)
  <2>1. CASE running
    <3> DEFINE f == [Fresh("enter") EXCEPT !.quiet = th[Svc].pc = "idle"]
    <3>1. th' = [th EXCEPT ![t] = f] /\ th[t].pc = "loop" /\ UNCHANGED <<state, mstate>>
      BY <1>5, <2>1 DEF RunLoop
    <3>2. f.pc = "enter" /\ f.err = FALSE /\ f.quiet = (th[Svc].pc = "idle")
      BY DEF Fresh
    <3> HIDE DEF f
    <3>3. Others(t) /\ th'[t] = f
      BY <1>1, <3>1, Types DEF Others
    <3> QED BY <1>3, <3>1, <3>2, <3>3 DEF HaltPcs, Idle
  <2>2. CASE ~running
    <3>1. Goto(t, "done") /\ th[t].pc = "loop" /\ UNCHANGED <<state, mstate>>
      BY <1>5, <2>2 DEF RunLoop
    <3> QED BY <1>10, <3>1
  <2> QED BY <2>1, <2>2
<1>6. CASE RunEnter(t)
  <2>0. th[t].pc = "enter" /\ UNCHANGED <<state, mstate>>
    BY <1>6 DEF RunEnter
  <2>1. CASE state > Off
    <3>1. th' = [th EXCEPT ![t].pc = "call", ![t].i = 1, ![t].level = "direct"]
      BY <1>6, <2>1 DEF RunEnter
    <3>2. /\ Others(t) /\ th'[t].pc = "call" /\ th'[t].level = "direct"
          /\ th'[t].quiet = th[t].quiet
      BY <1>1, <3>1, Types DEF Others, Thread
    <3> QED BY <1>2, <2>0, <3>2, CycleKeepsMemberInv DEF HaltPcs
  <2>2. CASE ~(state > Off) /\ th[t].part = "read"
    <3>1. th' = [th EXCEPT ![t].part = "write"]
      BY <1>6, <2>2 DEF RunEnter
    <3>2. /\ Others(t) /\ th'[t].pc = "enter" /\ th'[t].err = th[t].err
          /\ th'[t].quiet = th[t].quiet
      BY <1>1, <2>0, <3>1, Types DEF Others, Thread
    <3> QED BY <1>2, <1>3, <2>0, <3>2 DEF HaltPcs
  <2>3. CASE ~(state > Off) /\ th[t].part # "read"
    <3>1. Goto(t, "loop")
      BY <1>6, <2>3 DEF RunEnter
    <3> QED BY <1>10, <2>0, <3>1
  <2> QED BY <2>1, <2>2, <2>3
<1>7. CASE RunCall(t)
  <2>1. PICK fails \in BOOLEAN : th' = [th EXCEPT ![t].i = @ + 1, ![t].err = @ \/ fails]
    BY <1>7 DEF RunCall
  <2>2. th[t].pc = "call" /\ UNCHANGED <<state, mstate>>
    BY <1>7 DEF RunCall
  <2>3. /\ Others(t) /\ th'[t].pc = "call" /\ th'[t].level = th[t].level
        /\ th'[t].quiet = th[t].quiet
    BY <1>1, <2>1, <2>2, Types DEF Others, Thread
  <2>4. th'[t].quiet = TRUE => th'[t].level = "direct"
    BY <2>2, <2>3 DEF MemberInv, HaltsInOrder, InOrder
  <2> QED BY <1>2, <2>2, <2>3, <2>4, CycleKeepsMemberInv DEF HaltPcs
<1>8. CASE RunCallDone(t)
  <2>1. th[t].pc = "call" /\ UNCHANGED <<state, mstate>>
    BY <1>8 DEF RunCallDone
  <2>2. CASE th[t].err
    <3>1. GotoAt(t, "haltTest", 1)
      BY <1>8, <2>2 DEF RunCallDone
    <3>2. /\ Others(t) /\ th'[t].pc = "haltTest" /\ th'[t].i = 1 /\ th'[t].level = th[t].level
          /\ th'[t].quiet = th[t].quiet
      BY <1>1, <3>1, GotoAtFields
    <3>3. th'[t].quiet = TRUE => th'[t].level = "direct"
      BY <2>1, <3>2 DEF MemberInv, HaltsInOrder, InOrder
    <3> QED BY <1>2, <2>1, <3>2, <3>3, CycleKeepsMemberInv DEF HaltPcs
  <2>3. CASE ~th[t].err
    <3>1. AfterHalt(t) /\ th[t].err = FALSE
      BY <1>1, <1>8, <2>3, Types DEF RunCallDone
    <3>2. /\ Others(t) /\ th'[t].pc \in {"enter", "loop"} /\ th'[t].err = FALSE
          /\ th'[t].quiet = th[t].quiet
      BY <1>1, <3>1, AfterHaltFields
    <3> QED BY <1>2, <1>3, <2>1, <3>2 DEF HaltPcs
  <2> QED BY <2>2, <2>3
<1>9. CASE RunInterrupted(t)
  <2>1. Goto(t, "done") /\ th[t].pc \in {"call", "loop"} /\ UNCHANGED <<state, mstate>>
    BY <1>9 DEF RunInterrupted
  <2> QED BY <1>10, <2>1
<1> QED BY <1>4, <1>5, <1>6, <1>7, <1>8, <1>9 DEF Run

-------------------------------------------------------------------------------
(* The halts *)

\* A member a thread is at.
LEMMA MemberInHalt ==
  ASSUME StateTypeOK, NEW t \in Threads, th[t].pc \in HaltPcs
  PROVE  /\ Member(t) = IF th[t].level = "direct" /\ th[t].part = "write"
                        THEN N + 1 - th[t].i ELSE th[t].i
         /\ th[t].i <= N => Member(t) \in Members
         /\ \A m \in Members : Passed(t, m) => m # Member(t)
         /\ \A m \in Members : th[t].i = N + 1 => Passed(t, m)
BY Types DEF Member, Members, Passed, HaltPcs

\* A step within a walk leaves the place in it, or passes one member.
LEMMA WalkPlace ==
  ASSUME StateTypeOK, NEW t \in Threads, th[t].pc \in WalkPcs, th'[t].pc \in HaltPcs,
         th'[t].level = th[t].level, th'[t].part = th[t].part
  PROVE  /\ th'[t].i = th[t].i => Member(t)' = Member(t)
         /\ th'[t].i = th[t].i => \A m \in Members : Passed(t, m)' => Passed(t, m)
         /\ th'[t].i = th[t].i + 1 =>
              \A m \in Members : Passed(t, m)' => Passed(t, m) \/ m = Member(t)
<1>1. /\ Member(t) = IF th[t].level = "direct" /\ th[t].part = "write"
                     THEN N + 1 - th[t].i ELSE th[t].i
      /\ Member(t)' = IF th[t].level = "direct" /\ th[t].part = "write"
                      THEN N + 1 - th'[t].i ELSE th'[t].i
  BY DEF Member, HaltPcs, WalkPcs
<1>2. \A m : Passed(t, m)' <=> IF th[t].level = "direct" /\ th[t].part = "write"
                               THEN m > N + 1 - th'[t].i ELSE m < th'[t].i
  BY DEF Passed
<1>3. CASE th'[t].i = th[t].i
  <2>1. Member(t)' = Member(t)
    BY <1>1, <1>3
  <2>2. \A m \in Members : Passed(t, m)' => Passed(t, m)
    BY <1>2, <1>3 DEF Passed
  <2>3. th'[t].i # th[t].i + 1
    BY <1>3, Types
  <2> QED
    BY <1>3, <2>1, <2>2, <2>3
<1>4. CASE th'[t].i = th[t].i + 1
  <2>1. th[t].i \in Nat /\ N \in Nat /\ Members \subseteq Nat
    BY Types DEF Members
  <2>2. th'[t].i # th[t].i
    BY <1>4, <2>1
  <2>3. ASSUME NEW m \in Members, Passed(t, m)' PROVE Passed(t, m) \/ m = Member(t)
    <3>1. CASE th[t].level = "direct" /\ th[t].part = "write"
      BY <1>1, <1>2, <1>4, <2>1, <2>3, <3>1 DEF Passed
    <3>2. CASE ~(th[t].level = "direct" /\ th[t].part = "write")
      BY <1>1, <1>2, <1>4, <2>1, <2>3, <3>2 DEF Passed
    <3> QED
      BY <3>1, <3>2
  <2> QED
    BY <1>4, <2>2, <2>3
<1> QED
  BY <1>3, <1>4

\* Beside a run thread that nobody disturbs no other thread is in a halt.
LEMMA QuietIsAlone ==
  ASSUME IInv, MemberInv, NEW t \in Runners, Alive(t)
  PROVE  /\ \A u \in Runners : u # t => th[u].pc \in {"none", "done"}
         /\ th[t].quiet = TRUE /\ th[t].pc # "haltEnd" =>
              \A m \in Members : mstate[m] # HaltState
         /\ th[t].quiet = TRUE /\ ~HaltsChain(t) => state # HaltState
<1>1. \A u \in Runners : u # t => th[u].pc \in {"none", "done"}
  BY DEF IInv, Control, OnlyHandleRuns, Alive
<1>2. ASSUME th[t].quiet = TRUE PROVE th[Svc].pc = "idle"
  BY <1>2 DEF MemberInv, QuietIsIdle, Idle
<1>3. \A u \in Threads : u # t /\ th[t].quiet = TRUE =>
        ~HaltsChain(u) /\ \A m : ~HaltsMember(u, m)
  BY <1>1, <1>2 DEF HaltsChain, HaltsMember, WalkPcs, Threads
<1>4. ASSUME th[t].quiet = TRUE, th[t].pc # "haltEnd", NEW m \in Members
      PROVE  mstate[m] # HaltState
  <2>1. \A u \in Threads : ~HaltsMember(u, m)
    BY <1>3, <1>4 DEF HaltsMember
  <2> QED BY <1>2, <1>4, <2>1 DEF MemberInv, HaltPasses
<1>5. th[t].quiet = TRUE /\ ~HaltsChain(t) => state # HaltState
  BY <1>3 DEF MemberInv, ChainHaltPasses
<1> QED BY <1>1, <1>4, <1>5

\* A step of a run thread in a halt.
LEMMA HaltStep ==
  ASSUME IInv, MemberInv, NEW t \in Runners, th[t].pc \in HaltPcs, Others(t),
         th'[t].quiet = th[t].quiet,
         \A m \in Members : mstate'[m] \in {mstate[m], HaltState, ErrorState},
         \A m \in Members : mstate'[m] = HaltState =>
           (mstate[m] = HaltState /\ ~HaltsMember(t, m)) \/ HaltsMember(t, m)',
         state' \in {state, HaltState, ErrorState},
         state' = HaltState => (state = HaltState /\ ~HaltsChain(t)) \/ HaltsChain(t)',
         th[t].quiet = TRUE => InOrder(t)'
  PROVE  MemberInv'
<1>0. StateTypeOK /\ t \in Threads
  BY DEF IInv, Threads
<1>1. state # Off /\ state' # Off
  BY <1>0, HaltIsUp, StateNumbers
<1>2. th[t].quiet = TRUE => Idle
  BY DEF MemberInv, QuietIsIdle
<1>3. StartedSoFar' /\ UpIsStarted' /\ QuietIsIdle' /\ UpStates'
  BY <1>0, <1>1, <1>2, RunnerKeepsStates
<1>4. \A u \in Threads : u # t => th'[u] = th[u]
  BY DEF Others
<1>5. th'[Svc] = th[Svc]
  BY <1>0, <1>4, Types DEF Threads
<1>6. DownIsAtRest'
  <2> SUFFICES ASSUME NEW m \in Members, WalkedDown(m)', mstate'[m] # ErrorState,
                      mstate'[m] # Off
               PROVE  mstate'[m] = HaltState /\ \E u \in Runners : HaltsMember(u, m)'
    BY DEF DownIsAtRest
  <2>1. WalkedDown(m)
    BY <1>1, <1>5 DEF WalkedDown
  <2>2. mstate'[m] = HaltState
    BY <2>1 DEF MemberInv, DownIsAtRest
  <2>3. CASE mstate[m] = HaltState /\ ~HaltsMember(t, m)
    <3>1. PICK u \in Runners : HaltsMember(u, m)
      BY <2>1, <2>3, StateNumbers DEF MemberInv, DownIsAtRest
    <3>2. u \in Threads /\ th'[u] = th[u]
      BY <1>4, <2>3, <3>1 DEF Threads
    <3> QED BY <2>2, <3>1, <3>2, SamePlace
  <2> QED BY <2>2, <2>3
<1>7. HaltPasses'
  <2> SUFFICES ASSUME NEW m \in Members, mstate'[m] = HaltState, ~HaltsMember(t, m)'
               PROVE  \/ \E u \in Threads : HaltsMember(u, m)'
                      \/ th'[Svc].pc = "recoverEnd" /\ th'[Svc].i = m
    BY <1>0 DEF HaltPasses
  <2>1. mstate[m] = HaltState /\ ~HaltsMember(t, m)
    OBVIOUS
  <2>2. CASE \E u \in Threads : HaltsMember(u, m)
    <3>1. PICK u \in Threads : HaltsMember(u, m)
      BY <2>2
    <3>2. th'[u] = th[u]
      BY <1>4, <2>1, <3>1
    <3> QED BY <3>1, <3>2, SamePlace
  <2> QED BY <1>5, <2>1, <2>2 DEF MemberInv, HaltPasses
<1>8. ChainHaltPasses'
  <2> SUFFICES ASSUME state' = HaltState, ~HaltsChain(t)'
               PROVE  \E u \in Threads : HaltsChain(u)'
    BY <1>0 DEF ChainHaltPasses
  <2>1. PICK u \in Threads : HaltsChain(u)
    BY DEF MemberInv, ChainHaltPasses
  <2>2. th'[u] = th[u]
    BY <1>4, <2>1
  <2> QED BY <2>1, <2>2, SamePlace
<1>9. HaltsInOrder'
  <2> SUFFICES ASSUME NEW u \in Runners, th'[u].quiet = TRUE PROVE InOrder(u)'
    BY DEF HaltsInOrder
  <2>1. CASE u # t
    <3>1. th[u].pc \in {"none", "done"}
      BY <2>1, QuietIsAlone DEF Alive, HaltPcs
    <3>2. th'[u].pc \in {"none", "done"}
      BY <1>4, <2>1, <3>1 DEF Threads
    <3> QED BY <3>2 DEF InOrder, WalkPcs
  <2> QED BY <2>1
<1> QED BY <1>3, <1>6, <1>7, <1>8, <1>9 DEF MemberInv

LEMMA RunnerHaltKeepsMemberInv ==
  ASSUME IInv, MemberInv, NEW t \in Runners, Halt(t)
  PROVE  MemberInv'
<1>1. StateTypeOK /\ t \in Threads /\ t # Svc
  BY Types DEF IInv, Threads
<1>2. th[t].pc \in HaltPcs /\ Alive(t)
  BY DEF Halt, HaltTest, HaltSet, HaltEnd, HaltMembersDone, SelfTest, SelfSet, SelfEnd,
     HaltPcs, Alive
<1>3. mstate \in [Members -> LayerState] /\ state \in LayerState /\ state # Off
  BY <1>1, <1>2, Types, HaltIsUp
<1>4. th[t].quiet = TRUE => InOrder(t) /\ Idle
  BY DEF MemberInv, HaltsInOrder, QuietIsIdle
<1>5. th[t].level \in {"direct", "self"} /\ th[t].i \in 1 .. N + 1
  BY <1>1, Types
<1>6. \A m \in Members : mstate[m] \in 0 .. 6
  BY <1>3, StateNumbers DEF LayerState
<1>7. CASE HaltTest(t)
  <2>1. th[t].pc = "haltTest" /\ th[t].i <= N /\ UNCHANGED <<state, mstate>>
    BY <1>7 DEF HaltTest
  <2>2. Member(t) \in Members
    BY <1>1, <1>2, <2>1, MemberInHalt
  <2>3. CASE mstate[Member(t)] > HaltState
    <3>1. Goto(t, "haltSet")
      BY <1>7, <2>3 DEF HaltTest
    <3>2. /\ Others(t) /\ th'[t].pc = "haltSet" /\ th'[t].i = th[t].i
          /\ th'[t].level = th[t].level /\ th'[t].part = th[t].part
          /\ th'[t].quiet = th[t].quiet
      BY <1>1, <3>1, GotoFields
    <3>3. th[t].quiet = TRUE => th[t].level = "direct"
      BY <1>4, <1>5, <1>6, <2>1, <2>2, <2>3, StateNumbers DEF InOrder, WalkPcs, Halted
    <3>4. \A m \in Members : Passed(t, m)' => Passed(t, m)
      BY <1>1, <2>1, <3>2, WalkPlace DEF WalkPcs, HaltPcs
    <3>5. th[t].quiet = TRUE => InOrder(t)'
      BY <1>4, <2>1, <3>2, <3>3, <3>4 DEF InOrder, WalkPcs
    <3>6. HaltsChain(t) => HaltsChain(t)'
      BY <3>2 DEF HaltsChain, WalkPcs
    <3>7. \A m : ~HaltsMember(t, m)
      BY <2>1 DEF HaltsMember
    <3> QED BY <1>2, <2>1, <3>2, <3>5, <3>6, <3>7, HaltStep
  <2>4. CASE ~(mstate[Member(t)] > HaltState)
    <3>1. SkipMember(t)
      BY <1>7, <2>4 DEF HaltTest
    <3>2. /\ Others(t) /\ th'[t].pc = "haltTest" /\ th'[t].i = th[t].i + 1
          /\ th'[t].level = th[t].level /\ th'[t].part = th[t].part
          /\ th'[t].quiet = th[t].quiet
      BY <1>1, <2>1, <3>1, SkipFields
    <3>3. th[t].quiet = TRUE => mstate[Member(t)] <= ErrorState
      <4>1. th[t].quiet = TRUE => mstate[Member(t)] # HaltState
        BY <1>2, <2>1, <2>2, QuietIsAlone
      <4> QED BY <1>6, <2>2, <2>4, <4>1, StateNumbers
    <3>4. \A m \in Members : Passed(t, m)' => Passed(t, m) \/ m = Member(t)
      BY <1>1, <2>1, <3>2, WalkPlace DEF WalkPcs, HaltPcs
    <3>5. th[t].quiet = TRUE => InOrder(t)'
      BY <1>4, <2>1, <3>2, <3>3, <3>4 DEF InOrder, WalkPcs, Halted
    <3>6. HaltsChain(t) => HaltsChain(t)'
      BY <3>2 DEF HaltsChain, WalkPcs
    <3>7. \A m : ~HaltsMember(t, m)
      BY <2>1 DEF HaltsMember
    <3> QED BY <1>2, <2>1, <3>2, <3>5, <3>6, <3>7, HaltStep
  <2> QED BY <2>3, <2>4
<1>8. CASE HaltSet(t)
  <2>1. /\ th[t].pc = "haltSet" /\ mstate' = [mstate EXCEPT ![Member(t)] = HaltState]
        /\ state' = state /\ Goto(t, "haltEnd")
    BY <1>8 DEF HaltSet
  <2>2. th[t].i <= N
    BY <1>1, <2>1 DEF IInv, IndexOK, Threads
  <2>3. Member(t) \in Members /\ \A m \in Members : Passed(t, m) => m # Member(t)
    BY <1>1, <1>2, <2>2, MemberInHalt
  <2>4. /\ Others(t) /\ th'[t].pc = "haltEnd" /\ th'[t].i = th[t].i
        /\ th'[t].level = th[t].level /\ th'[t].part = th[t].part
        /\ th'[t].quiet = th[t].quiet
    BY <1>1, <2>1, GotoFields
  <2>5. Member(t)' = Member(t) /\ \A m \in Members : Passed(t, m)' => Passed(t, m)
    BY <1>1, <2>1, <2>4, WalkPlace DEF WalkPcs, HaltPcs
  <2>6. \A m \in Members : mstate'[m] = IF m = Member(t) THEN HaltState ELSE mstate[m]
    BY <1>3, <2>1
  <2>7. th[t].quiet = TRUE => InOrder(t)'
    BY <1>4, <2>1, <2>3, <2>4, <2>5, <2>6 DEF InOrder, WalkPcs
  <2>8. HaltsChain(t) => HaltsChain(t)'
    BY <2>4 DEF HaltsChain, WalkPcs
  <2>9. HaltsMember(t, Member(t))' /\ \A m : ~HaltsMember(t, m)
    BY <2>1, <2>4, <2>5 DEF HaltsMember
  <2>10. \A m \in Members : mstate'[m] = HaltState =>
           (mstate[m] = HaltState /\ ~HaltsMember(t, m)) \/ HaltsMember(t, m)'
    BY <2>4, <2>5, <2>6, <2>9 DEF HaltsMember
  <2>11. \A m \in Members : mstate'[m] \in {mstate[m], HaltState, ErrorState}
    BY <2>6
  <2> QED BY <1>2, <2>1, <2>4, <2>7, <2>8, <2>10, <2>11, HaltStep
<1>9. CASE HaltEnd(t)
  <2>1. /\ th[t].pc = "haltEnd" /\ mstate' = [mstate EXCEPT ![Member(t)] = ErrorState]
        /\ state' = state /\ GotoAt(t, "haltTest", th[t].i + 1)
    BY <1>9 DEF HaltEnd
  <2>2. th[t].i <= N
    BY <1>1, <2>1 DEF IInv, IndexOK, Threads
  <2>3. Member(t) \in Members
    BY <1>1, <1>2, <2>2, MemberInHalt
  <2>4. /\ Others(t) /\ th'[t].pc = "haltTest" /\ th'[t].i = th[t].i + 1
        /\ th'[t].level = th[t].level /\ th'[t].part = th[t].part
        /\ th'[t].quiet = th[t].quiet
    BY <1>1, <2>1, GotoAtFields
  <2>5. \A m \in Members : Passed(t, m)' => Passed(t, m) \/ m = Member(t)
    BY <1>1, <2>1, <2>4, WalkPlace DEF WalkPcs, HaltPcs
  <2>6. \A m \in Members : mstate'[m] = IF m = Member(t) THEN ErrorState ELSE mstate[m]
    BY <1>3, <2>1
  <2>7. th[t].quiet = TRUE => InOrder(t)'
    BY <1>4, <2>1, <2>4, <2>5, <2>6, StateNumbers DEF InOrder, WalkPcs
  <2>8. HaltsChain(t) => HaltsChain(t)'
    BY <2>4 DEF HaltsChain, WalkPcs
  <2>9. \A m \in Members : mstate'[m] = HaltState => mstate[m] = HaltState /\ ~HaltsMember(t, m)
    BY <2>6, StateNumbers DEF HaltsMember
  <2>10. \A m \in Members : mstate'[m] \in {mstate[m], HaltState, ErrorState}
    BY <2>6
  <2> QED BY <1>2, <2>1, <2>4, <2>7, <2>8, <2>9, <2>10, HaltStep
<1>10. CASE HaltMembersDone(t)
  <2>1. /\ th[t].pc = "haltTest" /\ th[t].i = N + 1 /\ UNCHANGED <<state, mstate>>
        /\ Goto(t, IF th[t].level = "direct" THEN "selfTest" ELSE "selfEnd")
    BY <1>10 DEF HaltMembersDone
  <2>2. /\ Others(t) /\ th'[t].level = th[t].level /\ th'[t].quiet = th[t].quiet
        /\ th'[t].pc = IF th[t].level = "direct" THEN "selfTest" ELSE "selfEnd"
    BY <1>1, <2>1, GotoFields
  <2>3. \A m \in Members : Passed(t, m)
    BY <1>1, <1>2, <2>1, MemberInHalt
  <2>4. th[t].quiet = TRUE => Halted
    BY <1>4, <1>5, <2>1, <2>3 DEF InOrder, WalkPcs, Halted
  <2>5. th[t].quiet = TRUE => InOrder(t)'
    BY <2>1, <2>2, <2>4 DEF InOrder, WalkPcs, Halted
  <2>6. HaltsChain(t) => HaltsChain(t)'
    BY <2>1, <2>2 DEF HaltsChain, WalkPcs
  <2>7. \A m : ~HaltsMember(t, m)
    BY <2>1 DEF HaltsMember
  <2> QED BY <1>2, <2>1, <2>2, <2>5, <2>6, <2>7, HaltStep
<1>11. CASE SelfTest(t)
  <2>1. th[t].pc = "selfTest" /\ UNCHANGED <<state, mstate>>
    BY <1>11 DEF SelfTest
  <2>2. ~HaltsChain(t) /\ \A m : ~HaltsMember(t, m)
    BY <2>1 DEF HaltsChain, HaltsMember, WalkPcs
  <2>3. th[t].quiet = TRUE => Halted
    BY <1>4, <2>1 DEF InOrder
  <2>4. CASE state > HaltState
    <3>1. Goto(t, "selfSet")
      BY <1>11, <2>4 DEF SelfTest
    <3>2. Others(t) /\ th'[t].pc = "selfSet" /\ th'[t].quiet = th[t].quiet
      BY <1>1, <3>1, GotoFields
    <3>3. th[t].quiet = TRUE => InOrder(t)'
      BY <2>1, <2>3, <3>2 DEF InOrder, WalkPcs, Halted
    <3> QED BY <1>2, <2>1, <2>2, <3>2, <3>3, HaltStep
  <2>5. CASE ~(state > HaltState)
    <3>1. AfterHalt(t)
      BY <1>11, <2>5 DEF SelfTest
    <3>2. Others(t) /\ th'[t].pc \in {"enter", "loop"} /\ th'[t].quiet = th[t].quiet
      BY <1>1, <3>1, AfterHaltFields
    <3>3. th[t].quiet = TRUE => state \in {ErrorState, Ready}
      BY <1>2, <1>3, <1>4, <2>2, QuietIsAlone DEF MemberInv, UpStates, Serving, Idle
    <3>4. th[t].quiet = TRUE => state = ErrorState
      BY <2>5, <3>3, StateNumbers
    <3>5. th[t].quiet = TRUE => InOrder(t)'
      BY <2>1, <2>3, <3>2, <3>4 DEF InOrder, WalkPcs, Halted
    <3> QED BY <1>2, <2>1, <2>2, <3>2, <3>5, HaltStep
  <2> QED BY <2>4, <2>5
<1>12. CASE SelfSet(t)
  <2>1. /\ th[t].pc = "selfSet" /\ state' = HaltState /\ mstate' = mstate
        /\ th' = [th EXCEPT ![t].pc = "haltTest", ![t].i = 1, ![t].level = "self"]
    BY <1>12 DEF SelfSet
  <2>2. /\ Others(t) /\ th'[t].pc = "haltTest" /\ th'[t].level = "self"
        /\ th'[t].quiet = th[t].quiet
    BY <1>1, <2>1, Types DEF Others, Thread
  <2>3. HaltsChain(t)' /\ \A m : ~HaltsMember(t, m)
    BY <2>1, <2>2 DEF HaltsChain, HaltsMember, WalkPcs
  <2>4. th[t].quiet = TRUE => InOrder(t)'
    BY <1>4, <2>1, <2>2 DEF InOrder, WalkPcs, Halted
  <2> QED BY <1>2, <2>1, <2>2, <2>3, <2>4, HaltStep
<1>13. CASE SelfEnd(t)
  <2>1. th[t].pc = "selfEnd" /\ state' = ErrorState /\ mstate' = mstate /\ AfterHalt(t)
    BY <1>13 DEF SelfEnd
  <2>2. Others(t) /\ th'[t].pc \in {"enter", "loop"} /\ th'[t].quiet = th[t].quiet
    BY <1>1, <2>1, AfterHaltFields
  <2>3. th[t].quiet = TRUE => InOrder(t)'
    BY <1>4, <2>1, <2>2 DEF InOrder, WalkPcs, Halted
  <2>4. \A m : ~HaltsMember(t, m)
    BY <2>1 DEF HaltsMember
  <2>5. state' # HaltState
    BY <2>1, StateNumbers
  <2> QED BY <1>2, <2>1, <2>2, <2>3, <2>4, <2>5, HaltStep
<1> QED BY <1>7, <1>8, <1>9, <1>10, <1>11, <1>12, <1>13 DEF Halt

-------------------------------------------------------------------------------
(* The services *)

\* A step of the service thread inside a call: no cycle is quiet any more.
LEMMA ServeStep ==
  ASSUME IInv, MemberInv, ~Idle, Others(Svc),
         \A m \in Members : mstate'[m] = HaltState =>
           \/ /\ mstate[m] = HaltState /\ ~HaltsMember(Svc, m)
              /\ ~(th[Svc].pc = "recoverEnd" /\ th[Svc].i = m)
           \/ HaltsMember(Svc, m)'
           \/ th'[Svc].pc = "recoverEnd" /\ th'[Svc].i = m,
         state' = HaltState => (state = HaltState /\ ~HaltsChain(Svc)) \/ HaltsChain(Svc)',
         StartedSoFar', UpIsStarted', DownIsAtRest', UpStates'
  PROVE  MemberInv'
<1>1. \A u \in Runners : th'[u] = th[u] /\ u \in Threads
  BY SvcIsNoRunner DEF Others, Threads
<1>2. \A u \in Runners : ~(th'[u].quiet = TRUE)
  BY <1>1 DEF MemberInv, QuietIsIdle
<1>3. QuietIsIdle' /\ HaltsInOrder'
  BY <1>2 DEF QuietIsIdle, HaltsInOrder
<1>4. HaltPasses'
  <2> SUFFICES ASSUME NEW m \in Members, mstate'[m] = HaltState, ~HaltsMember(Svc, m)',
                      ~(th'[Svc].pc = "recoverEnd" /\ th'[Svc].i = m)
               PROVE  \E u \in Threads : HaltsMember(u, m)'
    BY DEF HaltPasses, Threads
  <2>1. /\ mstate[m] = HaltState /\ ~HaltsMember(Svc, m)
        /\ ~(th[Svc].pc = "recoverEnd" /\ th[Svc].i = m)
    OBVIOUS
  <2>2. PICK u \in Threads : HaltsMember(u, m)
    BY <2>1 DEF MemberInv, HaltPasses
  <2>3. u \in Runners
    BY <2>1, <2>2 DEF Threads
  <2> QED BY <1>1, <2>2, <2>3, SamePlace
<1>5. ChainHaltPasses'
  <2> SUFFICES ASSUME state' = HaltState, ~HaltsChain(Svc)'
               PROVE  \E u \in Threads : HaltsChain(u)'
    BY DEF ChainHaltPasses, Threads
  <2>1. PICK u \in Threads : HaltsChain(u)
    BY DEF MemberInv, ChainHaltPasses
  <2>2. u \in Runners
    BY <2>1 DEF Threads
  <2> QED BY <1>1, <2>1, <2>2, SamePlace
<1> QED BY <1>3, <1>4, <1>5 DEF MemberInv

\* The steps of a call that are not in a halt.
LEMMA ServeKeepsMemberInv ==
  ASSUME IInv, MemberInv, Serve, ~Halt(Svc)
  PROVE  MemberInv'
<1>1. /\ StateTypeOK /\ Svc \in Threads /\ mstate \in [Members -> LayerState] /\ N \in Nat \ {0}
      /\ th[Svc].i \in 1 .. N + 1
  BY Types DEF IInv
<1>2. th[Svc].pc \notin HaltPcs \cup {"idle"}
  BY DEF Serve, InitSet, MemberInit, MemberInitOk, MemberInitFails, MemberInitShutdown,
     InitDone, ShutdownSet, MemberShutdown, MemberShutdownEnd, MembersAreShutDown, StopThread,
     JoinThread, ShutdownEnd, MemberRecover, MemberRecoverOk, MemberRecoverFails,
     RecoverHaltTest, RecoverHaltSet, RecoverHaltEnd, RecoverDone, HaltPcs
<1>3. ~Idle /\ ~HaltsChain(Svc) /\ \A m : ~HaltsMember(Svc, m)
  BY <1>2 DEF Idle, HaltsChain, HaltsMember, HaltPcs, WalkPcs
<1>4. th[Svc].pc \in {"mInitHandler", "mSdHandler", "mRecoverHandler"} => th[Svc].i <= N
  BY DEF IInv, IndexOK
<1>5. ASSUME NEW x, NEW i, Others(Svc), th'[Svc].pc = x, th'[Svc].i = i,
             x \notin {"mSd", "mSdHandler", "stop", "join", "sdEnd"},
             x = "idle" => state' # Off,
             \A m \in Members : mstate'[m] = HaltState =>
               \/ mstate[m] = HaltState /\ ~(th[Svc].pc = "recoverEnd" /\ th[Svc].i = m)
               \/ x = "recoverEnd" /\ i = m,
             state' = HaltState => state = HaltState,
             StartedSoFar', UpIsStarted', UpStates'
      PROVE  MemberInv'
  <2>1. DownIsAtRest'
    BY <1>5 DEF DownIsAtRest, WalkedDown
  <2> QED BY <1>3, <1>5, <2>1, ServeStep
<1>6. CASE InitSet \/ MemberInit \/ MemberInitOk \/ MemberInitFails \/ MemberInitShutdown
           \/ InitDone
  <2>1. CASE InitSet
    <3>1. /\ Others(Svc) /\ th'[Svc].pc = "mInit" /\ th'[Svc].i = 1
      BY <1>1, <2>1, GotoAtFields DEF InitSet
    <3>2. state' = InitState /\ mstate' = mstate
      BY <2>1 DEF InitSet
    <3>3. th[Svc].pc = "initSet"
      BY <2>1 DEF InitSet
    <3>4. StartedSoFar' /\ UpIsStarted' /\ UpStates'
      BY <1>1, <3>1, <3>2, <3>3 DEF MemberInv, StartedSoFar, UpIsStarted, UpStates, Serving,
         RecoverPcs, HaltPcs, Members
    <3> QED BY <1>5, <3>1, <3>2, <3>3, <3>4, StateNumbers
  <2>2. CASE MemberInit
    <3>1. th[Svc].pc = "mInit" /\ th[Svc].i <= N /\ state' = state
      BY <2>2 DEF MemberInit
    <3>2. CASE mstate[th[Svc].i] = Off
      <4>1. /\ Others(Svc) /\ th'[Svc].pc = "mInitHandler" /\ th'[Svc].i = th[Svc].i
        BY <1>1, <2>2, <3>2, GotoFields DEF MemberInit
      <4>2. \A m \in Members : mstate'[m] = IF m = th[Svc].i THEN InitState ELSE mstate[m]
        BY <1>1, <2>2, <3>2 DEF MemberInit
      <4>3. StartedSoFar' /\ UpIsStarted' /\ UpStates'
        BY <1>1, <3>1, <4>1, <4>2 DEF MemberInv, StartedSoFar, UpIsStarted, UpStates, Serving,
           RecoverPcs, HaltPcs, Members, Started
      <4> QED BY <1>5, <3>1, <4>1, <4>2, <4>3, StateNumbers
    <3>3. CASE mstate[th[Svc].i] # Off
      <4>1. /\ Others(Svc) /\ th'[Svc].pc = "mInit" /\ th'[Svc].i = th[Svc].i + 1
            /\ mstate' = mstate
        BY <1>1, <2>2, <3>1, <3>3, SkipFields DEF MemberInit
      <4>2. StartedSoFar' /\ UpIsStarted' /\ UpStates'
        BY <1>1, <3>1, <3>3, <4>1 DEF MemberInv, StartedSoFar, UpIsStarted, UpStates, Serving,
           RecoverPcs, HaltPcs, Members, Started
      <4> QED BY <1>5, <3>1, <4>1, <4>2
    <3> QED BY <3>2, <3>3
  <2>3. CASE MemberInitOk
    <3>1. /\ Others(Svc) /\ th'[Svc].pc = "mInit" /\ th'[Svc].i = th[Svc].i + 1
      BY <1>1, <2>3, GotoAtFields DEF MemberInitOk
    <3>2. /\ th[Svc].pc = "mInitHandler" /\ state' = state
          /\ \A m \in Members : mstate'[m] = IF m = th[Svc].i THEN Ready ELSE mstate[m]
      BY <1>1, <2>3 DEF MemberInitOk
    <3>3. StartedSoFar' /\ UpIsStarted' /\ UpStates'
      BY <1>1, <3>1, <3>2, StateNumbers DEF MemberInv, StartedSoFar, UpIsStarted, UpStates,
         Serving, RecoverPcs, HaltPcs, Members, Started
    <3> QED BY <1>5, <3>1, <3>2, <3>3, StateNumbers
  <2>4. CASE MemberInitFails
    <3>1. /\ Others(Svc) /\ th'[Svc].pc = "mInitShutdown" /\ th'[Svc].i = th[Svc].i
      BY <1>1, <2>4, Types DEF MemberInitFails, Others, Thread
    <3>2. /\ th[Svc].pc = "mInitHandler" /\ state' = state
          /\ \A m \in Members : mstate'[m] = IF m = th[Svc].i THEN Shutdown ELSE mstate[m]
      BY <1>1, <2>4 DEF MemberInitFails
    <3>3. StartedSoFar' /\ UpIsStarted' /\ UpStates'
      BY <3>1 DEF StartedSoFar, UpIsStarted, UpStates, Serving, RecoverPcs, HaltPcs
    <3> QED BY <1>5, <3>1, <3>2, <3>3, StateNumbers
  <2>5. CASE MemberInitShutdown
    <3>1. /\ Others(Svc) /\ th'[Svc].pc = "sdSet" /\ th'[Svc].i = th[Svc].i
      BY <1>1, <2>5, GotoFields DEF MemberInitShutdown
    <3>2. /\ th[Svc].pc = "mInitShutdown" /\ state' = state
          /\ \A m \in Members : mstate'[m] = IF m = th[Svc].i THEN Off ELSE mstate[m]
      BY <1>1, <2>5 DEF MemberInitShutdown
    <3>3. StartedSoFar' /\ UpIsStarted' /\ UpStates'
      BY <3>1 DEF StartedSoFar, UpIsStarted, UpStates, Serving, RecoverPcs, HaltPcs
    <3> QED BY <1>5, <3>1, <3>2, <3>3, StateNumbers
  <2>6. CASE InitDone
    <3>1. /\ Others(Svc) /\ th'[Svc].pc = "idle" /\ th'[Svc].i = th[Svc].i
      BY <1>1, <2>6, GotoFields DEF InitDone
    <3>2. th[Svc].pc = "mInit" /\ th[Svc].i = N + 1 /\ state' = Ready /\ mstate' = mstate
      BY <2>6 DEF InitDone
    <3>3. StartedSoFar' /\ UpIsStarted' /\ UpStates'
      BY <1>1, <3>1, <3>2, StateNumbers DEF MemberInv, StartedSoFar, UpIsStarted, UpStates,
         Members, Started
    <3> QED BY <1>5, <3>1, <3>2, <3>3, StateNumbers
  <2> QED BY <1>6, <2>1, <2>2, <2>3, <2>4, <2>5, <2>6
\* The shutdown.
<1>7. ASSUME NEW x \in {"mSd", "mSdHandler", "stop", "join", "sdEnd", "idle"}, Others(Svc),
             th'[Svc].pc = x, x = "idle" => state' = Off,
             \A m \in Members : mstate'[m] = HaltState => mstate[m] = HaltState,
             state' = HaltState => state = HaltState,
             th[Svc].pc \in {"sdSet", "mSd", "mSdHandler", "stop", "join", "sdEnd"},
             \A m \in Members : WalkedDown(m)' =>
               (WalkedDown(m) /\ mstate'[m] = mstate[m]) \/ mstate'[m] = Off
      PROVE  MemberInv'
  <2>1. StartedSoFar' /\ UpIsStarted' /\ UpStates'
    BY <1>7 DEF StartedSoFar, UpIsStarted, UpStates, Serving, RecoverPcs, HaltPcs
  <2>2. DownIsAtRest'
    <3>1. \A u \in Runners : u \in Threads /\ th'[u] = th[u]
      BY <1>7, SvcIsNoRunner DEF Others, Threads
    <3>2. \A u \in Runners : \A m : HaltsMember(u, m) => HaltsMember(u, m)'
      BY <3>1, SamePlace
    <3> QED BY <1>7, <3>2 DEF MemberInv, DownIsAtRest
  <2> QED BY <1>3, <1>7, <2>1, <2>2, ServeStep
<1>8. CASE ShutdownSet \/ MemberShutdown \/ MemberShutdownEnd \/ MembersAreShutDown
           \/ StopThread \/ JoinThread \/ ShutdownEnd
  <2>1. CASE ShutdownSet
    <3>1. /\ Others(Svc) /\ th'[Svc].pc = "mSd" /\ th'[Svc].i = 1
      BY <1>1, <2>1, GotoAtFields DEF ShutdownSet
    <3>2. th[Svc].pc = "sdSet" /\ state' = Shutdown /\ mstate' = mstate
      BY <2>1 DEF ShutdownSet
    <3>3. \A m \in Members : ~WalkedDown(m)'
      BY <1>1, <3>1 DEF WalkedDown, Members
    <3> QED BY <1>7, <3>1, <3>2, <3>3, StateNumbers
  <2>2. CASE MemberShutdown
    <3>1. /\ th[Svc].pc = "mSd" /\ th[Svc].i <= N /\ state' = state
          /\ Member(Svc) = N + 1 - th[Svc].i
      BY <2>2 DEF MemberShutdown, Member
    <3>2. CASE mstate[Member(Svc)] # Off
      <4>1. /\ Others(Svc) /\ th'[Svc].pc = "mSdHandler" /\ th'[Svc].i = th[Svc].i
        BY <1>1, <2>2, <3>2, GotoFields DEF MemberShutdown
      <4>2. \A m \in Members : mstate'[m] = IF m = Member(Svc) THEN Shutdown ELSE mstate[m]
        BY <1>1, <2>2, <3>2 DEF MemberShutdown
      <4>3. \A m \in Members : WalkedDown(m)' => WalkedDown(m) /\ mstate'[m] = mstate[m]
        BY <1>1, <3>1, <4>1, <4>2 DEF WalkedDown, Members
      <4> QED BY <1>7, <3>1, <4>1, <4>2, <4>3, StateNumbers
    <3>3. CASE mstate[Member(Svc)] = Off
      <4>1. /\ Others(Svc) /\ th'[Svc].pc = "mSd" /\ th'[Svc].i = th[Svc].i + 1
            /\ mstate' = mstate
        BY <1>1, <2>2, <3>1, <3>3, SkipFields DEF MemberShutdown
      <4>2. \A m \in Members : WalkedDown(m)' =>
              (WalkedDown(m) /\ mstate'[m] = mstate[m]) \/ mstate'[m] = Off
        BY <1>1, <3>1, <3>3, <4>1 DEF WalkedDown, Members
      <4> QED BY <1>7, <3>1, <4>1, <4>2
    <3> QED BY <3>2, <3>3
  <2>3. CASE MemberShutdownEnd
    <3>1. /\ Others(Svc) /\ th'[Svc].pc = "mSd" /\ th'[Svc].i = th[Svc].i + 1
      BY <1>1, <2>3, GotoAtFields DEF MemberShutdownEnd
    <3>2. /\ th[Svc].pc = "mSdHandler" /\ state' = state /\ Member(Svc) = N + 1 - th[Svc].i
          /\ \A m \in Members : mstate'[m] = IF m = Member(Svc) THEN Off ELSE mstate[m]
      BY <1>1, <2>3 DEF MemberShutdownEnd, Member
    <3>3. \A m \in Members : WalkedDown(m)' =>
            (WalkedDown(m) /\ mstate'[m] = mstate[m]) \/ mstate'[m] = Off
      BY <1>1, <3>1, <3>2 DEF WalkedDown, Members
    <3> QED BY <1>7, <3>1, <3>2, <3>3, StateNumbers
  <2>4. CASE MembersAreShutDown
    <3>1. /\ Others(Svc) /\ th'[Svc].pc = "stop"
      BY <1>1, <2>4, GotoFields DEF MembersAreShutDown
    <3>2. th[Svc].pc = "mSd" /\ th[Svc].i = N + 1 /\ state' = state /\ mstate' = mstate
      BY <2>4 DEF MembersAreShutDown
    <3>3. \A m \in Members : WalkedDown(m)
      BY <1>1, <3>2 DEF WalkedDown, Members
    <3> QED BY <1>7, <3>1, <3>2, <3>3
  <2>5. CASE StopThread \/ JoinThread \/ ShutdownEnd
    <3>1. \E x \in {"join", "sdEnd", "idle"} :
            /\ Goto(Svc, x)
            /\ x = "idle" => state' = Off
      BY <2>5 DEF StopThread, JoinThread, ShutdownEnd
    <3>2. PICK x \in {"join", "sdEnd", "idle"} : Goto(Svc, x) /\ (x = "idle" => state' = Off)
      BY <3>1
    <3>3. Others(Svc) /\ th'[Svc].pc = x
      BY <1>1, <3>2, GotoFields
    <3>4. /\ th[Svc].pc \in {"stop", "join", "sdEnd"} /\ state' \in {state, Off}
          /\ mstate' = mstate
      BY <2>5 DEF StopThread, JoinThread, ShutdownEnd
    <3>5. \A m \in Members : WalkedDown(m)
      BY <3>4 DEF WalkedDown
    <3> QED BY <1>7, <3>2, <3>3, <3>4, <3>5, StateNumbers
  <2> QED BY <1>8, <2>1, <2>2, <2>3, <2>4, <2>5
\* The recover.
<1>10. ASSUME NEW x \in RecoverPcs \cup {"idle", "selfTest"}, Others(Svc), th'[Svc].pc = x,
              th'[Svc].i \in {th[Svc].i, th[Svc].i + 1}, th[Svc].pc \in RecoverPcs,
              \A m \in Members : mstate'[m] \in {mstate[m], ErrorState, HaltState, Recover, Ready},
              \A m \in Members : mstate'[m] = HaltState =>
                \/ mstate[m] = HaltState /\ ~(th[Svc].pc = "recoverEnd" /\ th[Svc].i = m)
                \/ x = "recoverEnd" /\ th'[Svc].i = m,
              state' = IF x = "idle" THEN Ready ELSE state
       PROVE  MemberInv'
  <2>1. state # Off /\ state' # Off
    BY <1>10, StateNumbers DEF IInv, Control, OffHasNoRunner, RecoverPcs
  <2>2. StartedSoFar'
    BY <1>10 DEF StartedSoFar, RecoverPcs
  <2>3. UpIsStarted'
    BY <1>10, <2>1, StateNumbers DEF MemberInv, UpIsStarted, Started, Serving
  <2>4. UpStates'
    BY <1>10, <2>1, StateNumbers DEF MemberInv, UpStates, Serving, Idle
  <2> QED BY <1>5, <1>10, <2>1, <2>2, <2>3, <2>4, StateNumbers DEF RecoverPcs
<1>9. CASE MemberRecover \/ MemberRecoverOk \/ MemberRecoverFails
           \/ RecoverHaltTest \/ RecoverHaltSet \/ RecoverHaltEnd \/ RecoverDone
  <2>1. CASE MemberRecover
    <3>1. th[Svc].pc = "mRecover" /\ state' = state
      BY <2>1 DEF MemberRecover
    <3>2. CASE mstate[th[Svc].i] = ErrorState
      <4>1. /\ Others(Svc) /\ th'[Svc].pc = "mRecoverHandler" /\ th'[Svc].i = th[Svc].i
        BY <1>1, <2>1, <3>2, GotoFields DEF MemberRecover
      <4>2. \A m \in Members : mstate'[m] \in {mstate[m], Recover}
        BY <1>1, <2>1, <3>2 DEF MemberRecover
      <4> QED BY <1>10, <3>1, <4>1, <4>2, StateNumbers DEF RecoverPcs
    <3>3. CASE mstate[th[Svc].i] # ErrorState
      <4>1. /\ Others(Svc) /\ th'[Svc].pc = "mRecover" /\ th'[Svc].i = th[Svc].i + 1
            /\ mstate' = mstate
        BY <1>1, <2>1, <3>1, <3>3, SkipFields DEF MemberRecover
      <4> QED BY <1>10, <3>1, <4>1 DEF RecoverPcs
    <3> QED BY <3>2, <3>3
  <2>2. CASE MemberRecoverOk
    <3>1. /\ Others(Svc) /\ th'[Svc].pc = "mRecover" /\ th'[Svc].i = th[Svc].i + 1
      BY <1>1, <2>2, GotoAtFields DEF MemberRecoverOk
    <3>2. /\ th[Svc].pc = "mRecoverHandler" /\ state' = state
          /\ \A m \in Members : mstate'[m] \in {mstate[m], Ready}
      BY <1>1, <2>2 DEF MemberRecoverOk
    <3> QED BY <1>10, <3>1, <3>2, StateNumbers DEF RecoverPcs
  <2>3. CASE MemberRecoverFails
    <3>1. /\ Others(Svc) /\ th'[Svc].pc = "recoverTest" /\ th'[Svc].i = th[Svc].i
      BY <1>1, <2>3, Types DEF MemberRecoverFails, Others, Thread
    <3>2. th[Svc].pc = "mRecoverHandler" /\ state' = state /\ mstate' = mstate
      BY <2>3 DEF MemberRecoverFails
    <3> QED BY <1>10, <3>1, <3>2 DEF RecoverPcs
  <2>4. CASE RecoverHaltTest
    <3>1. PICK x \in {"recoverSet", "selfTest"} : Goto(Svc, x)
      BY <2>4 DEF RecoverHaltTest
    <3>2. /\ Others(Svc) /\ th'[Svc].pc = x /\ th'[Svc].i = th[Svc].i
      BY <1>1, <3>1, GotoFields
    <3>3. th[Svc].pc = "recoverTest" /\ state' = state /\ mstate' = mstate
      BY <2>4 DEF RecoverHaltTest
    <3> QED BY <1>10, <3>2, <3>3 DEF RecoverPcs
  <2>5. CASE RecoverHaltSet
    <3>1. /\ Others(Svc) /\ th'[Svc].pc = "recoverEnd" /\ th'[Svc].i = th[Svc].i
      BY <1>1, <2>5, GotoFields DEF RecoverHaltSet
    <3>2. /\ th[Svc].pc = "recoverSet" /\ state' = state
          /\ \A m \in Members : mstate'[m] = IF m = th[Svc].i THEN HaltState ELSE mstate[m]
      BY <1>1, <2>5 DEF RecoverHaltSet
    <3> QED BY <1>10, <3>1, <3>2 DEF RecoverPcs
  <2>6. CASE RecoverHaltEnd
    <3>1. /\ Others(Svc) /\ th'[Svc].pc = "selfTest" /\ th'[Svc].i = th[Svc].i
      BY <1>1, <2>6, GotoFields DEF RecoverHaltEnd
    <3>2. /\ th[Svc].pc = "recoverEnd" /\ state' = state
          /\ \A m \in Members : mstate'[m] = IF m = th[Svc].i THEN ErrorState ELSE mstate[m]
      BY <1>1, <2>6 DEF RecoverHaltEnd
    <3> QED BY <1>10, <3>1, <3>2, StateNumbers DEF RecoverPcs
  <2>7. CASE RecoverDone
    <3>1. /\ Others(Svc) /\ th'[Svc].pc = "idle" /\ th'[Svc].i = th[Svc].i
      BY <1>1, <2>7, GotoFields DEF RecoverDone
    <3>2. th[Svc].pc = "mRecover" /\ state' = Ready /\ mstate' = mstate
      BY <2>7 DEF RecoverDone
    <3> QED BY <1>10, <3>1, <3>2 DEF RecoverPcs
  <2> QED BY <1>9, <2>1, <2>2, <2>3, <2>4, <2>5, <2>6, <2>7
<1> QED BY <1>6, <1>8, <1>9 DEF Serve

\* A halt by the service thread, on its own behalf or that of a shutdown.
LEMMA ServiceHaltKeepsMemberInv ==
  ASSUME IInv, MemberInv, Halt(Svc)
  PROVE  MemberInv'
<1>1. /\ StateTypeOK /\ Svc \in Threads /\ mstate \in [Members -> LayerState]
      /\ state \in LayerState
  BY Types DEF IInv
<1>2. th[Svc].pc \in HaltPcs
  BY DEF Halt, HaltTest, HaltSet, HaltEnd, HaltMembersDone, SelfTest, SelfSet, SelfEnd, HaltPcs
<1>3. state # Off /\ ~Idle
  BY <1>1, <1>2, HaltIsUp DEF Idle, HaltPcs
\* What all its steps have in common.
<1>4. ASSUME Others(Svc), th'[Svc].pc \in HaltPcs \cup {"sdSet", "idle"},
             \A m \in Members : mstate'[m] \in {mstate[m], HaltState, ErrorState},
             \A m \in Members : mstate'[m] = HaltState =>
               (mstate[m] = HaltState /\ ~HaltsMember(Svc, m)) \/ HaltsMember(Svc, m)',
             state' \in {state, HaltState, ErrorState},
             state' = HaltState => (state = HaltState /\ ~HaltsChain(Svc)) \/ HaltsChain(Svc)',
             th'[Svc].pc = "idle" => state' # Recover
      PROVE  MemberInv'
  <2>1. state' # Off
    BY <1>3, <1>4, StateNumbers
  <2>2. StartedSoFar' /\ DownIsAtRest'
    BY <1>4, <2>1 DEF StartedSoFar, DownIsAtRest, WalkedDown, HaltPcs
  <2>3. UpIsStarted'
    <3>1. \A m \in Members : Started(m)
      BY <1>2, <1>3 DEF MemberInv, UpIsStarted, Serving
    <3>2. \A m \in Members : Started(m)'
      BY <1>4, <3>1, StateNumbers DEF Started
    <3> QED BY <3>2 DEF UpIsStarted
  <2>4. UpStates'
    <3>1. state \in {ErrorState, HaltState, Recover, Ready}
      BY <1>2, <1>3 DEF MemberInv, UpStates, Serving
    <3> QED BY <1>4, <3>1 DEF UpStates, Idle
  <2>5. \A m \in Members : mstate'[m] = HaltState =>
          \/ /\ mstate[m] = HaltState /\ ~HaltsMember(Svc, m)
             /\ ~(th[Svc].pc = "recoverEnd" /\ th[Svc].i = m)
          \/ HaltsMember(Svc, m)'
    BY <1>2, <1>4 DEF HaltPcs
  <2> QED BY <1>3, <1>4, <2>2, <2>3, <2>4, <2>5, ServeStep
<1>5. CASE HaltTest(Svc)
  <2>1. th[Svc].pc = "haltTest" /\ UNCHANGED <<state, mstate>>
    BY <1>5 DEF HaltTest
  <2>2. /\ Others(Svc) /\ th'[Svc].pc \in {"haltSet", "haltTest"}
        /\ th'[Svc].level = th[Svc].level
    <3>1. CASE Goto(Svc, "haltSet")
      BY <1>1, <3>1, GotoFields
    <3>2. CASE SkipMember(Svc)
      BY <1>1, <2>1, <3>2, SkipFields
    <3> QED BY <1>5, <3>1, <3>2 DEF HaltTest
  <2>3. \A m : ~HaltsMember(Svc, m)
    BY <2>1 DEF HaltsMember
  <2>4. HaltsChain(Svc) => HaltsChain(Svc)'
    BY <2>2 DEF HaltsChain, WalkPcs
  <2> QED BY <1>4, <2>1, <2>2, <2>3, <2>4 DEF HaltPcs
<1>6. CASE HaltSet(Svc)
  <2>1. /\ th[Svc].pc = "haltSet" /\ mstate' = [mstate EXCEPT ![Member(Svc)] = HaltState]
        /\ state' = state /\ Goto(Svc, "haltEnd")
    BY <1>6 DEF HaltSet
  <2>2. /\ Others(Svc) /\ th'[Svc].pc = "haltEnd" /\ th'[Svc].i = th[Svc].i
        /\ th'[Svc].level = th[Svc].level /\ th'[Svc].part = th[Svc].part
    BY <1>1, <2>1, GotoFields
  <2>3. Member(Svc)' = Member(Svc)
    BY <1>1, <2>1, <2>2, WalkPlace DEF WalkPcs, HaltPcs
  <2>4. \A m \in Members : mstate'[m] = IF m = Member(Svc) THEN HaltState ELSE mstate[m]
    BY <1>1, <2>1
  <2>5. \A m \in Members : mstate'[m] = HaltState =>
          (mstate[m] = HaltState /\ ~HaltsMember(Svc, m)) \/ HaltsMember(Svc, m)'
    BY <2>1, <2>2, <2>3, <2>4 DEF HaltsMember
  <2>6. HaltsChain(Svc) => HaltsChain(Svc)'
    BY <2>2 DEF HaltsChain, WalkPcs
  <2> QED BY <1>4, <2>1, <2>2, <2>4, <2>5, <2>6 DEF HaltPcs
<1>7. CASE HaltEnd(Svc)
  <2>1. /\ th[Svc].pc = "haltEnd" /\ mstate' = [mstate EXCEPT ![Member(Svc)] = ErrorState]
        /\ state' = state /\ GotoAt(Svc, "haltTest", th[Svc].i + 1)
    BY <1>7 DEF HaltEnd
  <2>2. /\ Others(Svc) /\ th'[Svc].pc = "haltTest" /\ th'[Svc].level = th[Svc].level
    BY <1>1, <2>1, GotoAtFields
  <2>3. \A m \in Members : mstate'[m] = IF m = Member(Svc) THEN ErrorState ELSE mstate[m]
    BY <1>1, <2>1
  <2>4. \A m \in Members : mstate'[m] = HaltState => mstate[m] = HaltState /\ ~HaltsMember(Svc, m)
    BY <2>3, StateNumbers DEF HaltsMember
  <2>5. HaltsChain(Svc) => HaltsChain(Svc)'
    BY <2>2 DEF HaltsChain, WalkPcs
  <2> QED BY <1>4, <2>1, <2>2, <2>3, <2>4, <2>5 DEF HaltPcs
<1>8. CASE HaltMembersDone(Svc)
  <2>1. /\ th[Svc].pc = "haltTest" /\ UNCHANGED <<state, mstate>>
        /\ Goto(Svc, IF th[Svc].level = "direct" THEN "selfTest" ELSE "selfEnd")
    BY <1>8 DEF HaltMembersDone
  <2>2. /\ Others(Svc) /\ th'[Svc].level = th[Svc].level
        /\ th'[Svc].pc = IF th[Svc].level = "direct" THEN "selfTest" ELSE "selfEnd"
    BY <1>1, <2>1, GotoFields
  <2>3. \A m : ~HaltsMember(Svc, m)
    BY <2>1 DEF HaltsMember
  <2>4. HaltsChain(Svc) => HaltsChain(Svc)'
    BY <2>1, <2>2 DEF HaltsChain, WalkPcs
  <2> QED BY <1>4, <2>1, <2>2, <2>3, <2>4 DEF HaltPcs
<1>9. CASE SelfTest(Svc)
  <2>1. th[Svc].pc = "selfTest" /\ UNCHANGED <<state, mstate>>
    BY <1>9 DEF SelfTest
  <2>2. ~HaltsChain(Svc) /\ \A m : ~HaltsMember(Svc, m)
    BY <2>1 DEF HaltsChain, HaltsMember, WalkPcs
  <2>3. CASE state > HaltState
    <3>1. Goto(Svc, "selfSet")
      BY <1>9, <2>3 DEF SelfTest
    <3>2. Others(Svc) /\ th'[Svc].pc = "selfSet"
      BY <1>1, <3>1, GotoFields
    <3> QED BY <1>4, <2>1, <2>2, <3>2 DEF HaltPcs
  <2>4. CASE ~(state > HaltState)
    <3>1. AfterHalt(Svc)
      BY <1>9, <2>4 DEF SelfTest
    <3>2. Others(Svc) /\ th'[Svc].pc \in {"sdSet", "idle"}
      BY <1>1, <3>1, AfterHaltFields
    <3>3. state # Recover
      BY <2>4, StateNumbers
    <3> QED BY <1>4, <2>1, <2>2, <3>2, <3>3
  <2> QED BY <2>3, <2>4
<1>10. CASE SelfSet(Svc)
  <2>1. /\ th[Svc].pc = "selfSet" /\ state' = HaltState /\ mstate' = mstate
        /\ th' = [th EXCEPT ![Svc].pc = "haltTest", ![Svc].i = 1, ![Svc].level = "self"]
    BY <1>10 DEF SelfSet
  <2>2. /\ Others(Svc) /\ th'[Svc].pc = "haltTest" /\ th'[Svc].level = "self"
    BY <1>1, <2>1, Types DEF Others, Thread
  <2>3. HaltsChain(Svc)' /\ \A m : ~HaltsMember(Svc, m)
    BY <2>1, <2>2 DEF HaltsChain, HaltsMember, WalkPcs
  <2> QED BY <1>4, <2>1, <2>2, <2>3 DEF HaltPcs
<1>11. CASE SelfEnd(Svc)
  <2>1. /\ th[Svc].pc = "selfEnd" /\ state' = ErrorState /\ mstate' = mstate
        /\ AfterHalt(Svc)
    BY <1>11 DEF SelfEnd
  <2>2. Others(Svc) /\ th'[Svc].pc \in {"sdSet", "idle"}
    BY <1>1, <2>1, AfterHaltFields
  <2>3. state' # HaltState /\ state' # Recover /\ \A m : ~HaltsMember(Svc, m)
    BY <2>1, StateNumbers DEF HaltsMember
  <2> QED BY <1>4, <2>1, <2>2, <2>3
<1> QED BY <1>5, <1>6, <1>7, <1>8, <1>9, <1>10, <1>11 DEF Halt

\* A call clears the history flag of every cycle and leaves the places in the
\* halts alone, but for the thread it creates.
LEMMA BeginKeepsPlaces ==
  ASSUME StateTypeOK, NEW cmd \in {"init", "recover", "halt", "shutdown"},
         NEW pc \in {"initSet", "selfTest", "mRecover"}, NEW new \in {0} \cup Runners,
         Begin(cmd, pc, new)
  PROVE  /\ th'[Svc].pc = pc
         /\ \A u \in Runners : ~(th'[u].quiet = TRUE)
         /\ \A u \in Runners : u # new =>
              /\ \A m : HaltsMember(u, m) => HaltsMember(u, m)'
              /\ HaltsChain(u) => HaltsChain(u)'
<1>1. th \in [Threads -> Thread(Pcs)] /\ Svc \notin Runners
  BY Types
<1>2. th' = [u \in Threads |->
               IF u = Svc THEN [Fresh(pc) EXCEPT !.cmd = cmd]
               ELSE IF u = new THEN Fresh("boot")
               ELSE [th[u] EXCEPT !.quiet = FALSE]]
  BY <1>1 DEF Begin
<1>3. th'[Svc].pc = pc
  BY <1>2 DEF Fresh, Threads
<1>4. \A u \in Runners : u # new => th'[u] = [th[u] EXCEPT !.quiet = FALSE]
  BY <1>1, <1>2 DEF Threads
<1>5. \A u \in Runners : u = new => th'[u] = Fresh("boot")
  BY <1>1, <1>2 DEF Threads
<1>6. \A u \in Runners : u # new =>
        /\ th'[u].pc = th[u].pc /\ th'[u].i = th[u].i /\ th'[u].level = th[u].level
        /\ th'[u].part = th[u].part /\ th'[u].quiet = FALSE
  <2>1. \A u \in Runners : th[u] \in Thread(Pcs)
    BY <1>1 DEF Threads
  <2> QED BY <1>4, <2>1 DEF Thread
<1>7. \A u \in Runners : u = new => th'[u].quiet = FALSE
  BY <1>5 DEF Fresh
<1>8. \A u \in Runners : u # new =>
        /\ \A m : HaltsMember(u, m) => HaltsMember(u, m)'
        /\ HaltsChain(u) => HaltsChain(u)'
  BY <1>6 DEF HaltsMember, Member, HaltsChain
<1> QED BY <1>3, <1>6, <1>7, <1>8

LEMMA CallKeepsMemberInv ==
  ASSUME IInv, MemberInv, CallInit \/ CallHalt \/ CallShutdown \/ CallRecover
  PROVE  MemberInv'
<1>1. /\ StateTypeOK /\ mstate' = mstate /\ Idle
      /\ ~HaltsChain(Svc) /\ \A m : ~HaltsMember(Svc, m)
  BY DEF IInv, CallInit, CallHalt, CallShutdown, CallRecover, Idle, HaltsChain, HaltsMember,
     WalkPcs
<1>2. CASE CallInit
  <2>1. PICK new \in Runners : Begin("init", "initSet", new)
    BY <1>2 DEF CallInit
  <2>2. th'[Svc].pc = "initSet" /\ \A u \in Runners : ~(th'[u].quiet = TRUE)
    BY <1>1, <2>1, BeginKeepsPlaces
  <2>3. state = Off /\ state' = Off /\ \A u \in Runners : ~Alive(u)
    BY <1>2 DEF CallInit, IInv, Control, OffHasNoRunner
  <2>4. \A u \in Runners : \A m : ~HaltsMember(u, m)
    BY <2>3 DEF HaltsMember, Alive
  <2>5. \A m \in Members : mstate'[m] \in {Off, ErrorState}
    BY <1>1, <2>3, <2>4 DEF MemberInv, DownIsAtRest, WalkedDown, Idle
  <2>6. StartedSoFar' /\ UpIsStarted' /\ DownIsAtRest' /\ UpStates'
    BY <2>2, <2>5, StateNumbers DEF StartedSoFar, UpIsStarted, DownIsAtRest, WalkedDown,
       UpStates, Serving, RecoverPcs, HaltPcs
  <2>7. HaltPasses' /\ ChainHaltPasses'
    BY <2>3, <2>5, StateNumbers DEF HaltPasses, ChainHaltPasses
  <2>8. QuietIsIdle' /\ HaltsInOrder'
    BY <2>2 DEF QuietIsIdle, HaltsInOrder
  <2> QED BY <2>6, <2>7, <2>8 DEF MemberInv
<1>3. CASE CallHalt \/ CallShutdown \/ CallRecover
  <2>1. /\ state # Off /\ state' # Off
        /\ \/ state' = state \/ state' = Recover
    BY <1>3, StateNumbers DEF CallHalt, CallShutdown, CallRecover
  <2>2. PICK cmd \in {"recover", "halt", "shutdown"}, pc \in {"selfTest", "mRecover"} :
          Begin(cmd, pc, 0)
    BY <1>3 DEF CallHalt, CallShutdown, CallRecover
  <2>3. \A u \in Runners : u # 0
    BY DEF Runners
  <2>4. /\ th'[Svc].pc = pc
        /\ \A u \in Runners : /\ ~(th'[u].quiet = TRUE)
                              /\ \A m : HaltsMember(u, m) => HaltsMember(u, m)'
                              /\ HaltsChain(u) => HaltsChain(u)'
    BY <1>1, <2>2, <2>3, BeginKeepsPlaces
  <2>5. StartedSoFar' /\ DownIsAtRest'
    BY <2>4 DEF StartedSoFar, DownIsAtRest, WalkedDown
  <2>6. UpIsStarted'
    BY <1>1, <2>1, <2>4 DEF MemberInv, UpIsStarted, Started, Serving, Idle
  <2>7. UpStates'
    BY <1>1, <2>1, <2>4 DEF MemberInv, UpStates, Serving, Idle
  <2>8. HaltPasses'
    BY <1>1, <2>4 DEF MemberInv, HaltPasses, Idle, Threads
  <2>9. ChainHaltPasses'
    BY <1>1, <2>1, <2>4, StateNumbers DEF MemberInv, ChainHaltPasses, Threads
  <2>10. QuietIsIdle' /\ HaltsInOrder'
    BY <2>4 DEF QuietIsIdle, HaltsInOrder
  <2> QED BY <2>5, <2>6, <2>7, <2>8, <2>9, <2>10 DEF MemberInv
<1> QED BY <1>2, <1>3

-------------------------------------------------------------------------------
(* The history of starts and shutdowns.  A member whose state says that it was *)
(* started was started since its last shutdown, or a halt crossed that.        *)

RecoverAt == {"mRecoverHandler", "recoverTest", "recoverSet", "recoverEnd"}
InitAt    == {"mInitHandler", "mInitShutdown"}

ShutsDown(m) == th[Svc].pc = "mSdHandler" /\ Member(Svc) = m
Known(m)     == m \in started \/ m \in crossed \/ ShutsDown(m)

StartedIsUp   == \A m \in Members : m \in started => Started(m)
UpIsKnown     == \A m \in Members : Started(m) => Known(m)
HaltedIsKnown == \A t \in Threads : \A m \in Members : Halting(t, m) => Known(m)

\* The member the service is at.
ServedIsKnown ==
  /\ th[Svc].pc \in RecoverAt => th[Svc].i \in started \cup crossed
  /\ th[Svc].pc \in InitAt => th[Svc].i \notin started
  /\ th[Svc].pc = "mSdHandler" => Member(Svc) \notin started

DownIsForgotten == \A m \in Members : WalkedDown(m) => m \notin started

HistoryInv ==
  /\ HistoryTypeOK /\ StartedIsUp /\ UpIsKnown /\ HaltedIsKnown
  /\ ServedIsKnown /\ DownIsForgotten

LEMMA SameHalting ==
  ASSUME NEW u \in Threads, th'[u] = th[u]
  PROVE  \A m : Halting(u, m)' <=> Halting(u, m)
BY DEF Halting, Member

\* A step of a run thread: it stores Halt and Error into members it has found at
\* work.
LEMMA RunnerHistory ==
  ASSUME StateTypeOK, HistoryInv, NEW t \in Runners, Others(t), UNCHANGED history,
         \A m \in Members : \/ mstate'[m] = mstate[m]
                            \/ Halting(t, m) /\ mstate'[m] \in {HaltState, ErrorState},
         \A m \in Members : Halting(t, m)' => Halting(t, m) \/ Started(m),
         state = Off <=> state' = Off
  PROVE  HistoryInv'
<1>1. /\ th'[Svc] = th[Svc] /\ t \in Threads /\ started' = started /\ crossed' = crossed
      /\ \A u \in Threads : u # t => th'[u] = th[u]
  BY SvcIsNoRunner DEF Others, Threads, history
<1>2. \A m : (Known(m) <=> Known(m)') /\ (WalkedDown(m) <=> WalkedDown(m)')
  BY <1>1 DEF Known, ShutsDown, Member, WalkedDown
<1>3. HistoryTypeOK' /\ DownIsForgotten'
  BY <1>1, <1>2 DEF HistoryInv, HistoryTypeOK, DownIsForgotten, Members
<1>4. StartedIsUp'
  BY <1>1, StateNumbers DEF HistoryInv, StartedIsUp, Started
<1>5. UpIsKnown'
  BY <1>1, <1>2 DEF HistoryInv, UpIsKnown, HaltedIsKnown, Started
<1>6. HaltedIsKnown'
  <2> SUFFICES ASSUME NEW u \in Threads, NEW m \in Members, Halting(u, m)'
               PROVE  Known(m)
    BY <1>2 DEF HaltedIsKnown
  <2>1. CASE u = t
    BY <2>1 DEF HistoryInv, UpIsKnown, HaltedIsKnown, Threads
  <2>2. CASE u # t
    BY <1>1, <2>2, SameHalting DEF HistoryInv, HaltedIsKnown
  <2> QED BY <2>1, <2>2
<1>7. ServedIsKnown'
  BY <1>1 DEF HistoryInv, ServedIsKnown, Member
<1> QED BY <1>3, <1>4, <1>5, <1>6, <1>7 DEF HistoryInv

\* A step of the service thread that starts no member and shuts none down.
LEMMA ServiceHistory ==
  ASSUME StateTypeOK, HistoryInv, UNCHANGED history,
         \A u \in Runners : \A m \in Members : Halting(u, m)' => Halting(u, m),
         th[Svc].pc # "mSdHandler", th'[Svc].pc # "mSdHandler",
         \A m \in Members : \/ mstate'[m] = mstate[m]
                            \/ m \notin started /\ ~Started(m)'
                            \/ Known(m) /\ Started(m)',
         \A m \in Members : Halting(Svc, m)' => Known(m),
         th'[Svc].pc \in RecoverAt => th'[Svc].i \in started \cup crossed,
         th'[Svc].pc \in InitAt => th'[Svc].i \notin started,
         \A m \in Members : WalkedDown(m)' => m \notin started
  PROVE  HistoryInv'
<1>1. started' = started /\ crossed' = crossed
  BY DEF history
<1>2. \A m : Known(m) <=> Known(m)'
  BY <1>1 DEF Known, ShutsDown
<1>3. HistoryTypeOK' /\ DownIsForgotten'
  BY <1>1 DEF HistoryInv, HistoryTypeOK, DownIsForgotten, Members
<1>4. StartedIsUp'
  BY <1>1 DEF HistoryInv, StartedIsUp, Started
<1>5. UpIsKnown'
  BY <1>2 DEF HistoryInv, UpIsKnown, Started
<1>6. HaltedIsKnown'
  BY <1>2 DEF HistoryInv, HaltedIsKnown, Threads
<1>7. ServedIsKnown'
  BY <1>1 DEF ServedIsKnown
<1> QED BY <1>3, <1>4, <1>5, <1>6, <1>7 DEF HistoryInv

\* The halts, by whichever thread.
LEMMA HaltKeepsHistory ==
  ASSUME IInv, HistoryInv, NEW t \in Threads, Halt(t)
  PROVE  HistoryInv'
<1>1. /\ StateTypeOK /\ mstate \in [Members -> LayerState]
      /\ UNCHANGED history
      /\ th[t].pc \in HaltPcs
  BY Types DEF IInv, Halt, HaltTest, HaltSet, HaltEnd, HaltMembersDone, SelfTest, SelfSet,
     SelfEnd, HaltPcs
<1>2. state # Off
  BY <1>1, HaltIsUp
\* What all its steps have in common.
<1>3. /\ Others(t)
      /\ \A m \in Members : \/ mstate'[m] = mstate[m]
                            \/ Halting(t, m) /\ mstate'[m] \in {HaltState, ErrorState}
      /\ \A m \in Members : Halting(t, m)' => Halting(t, m) \/ Started(m)
      /\ state' # Off
      /\ t = Svc => th'[t].pc \in HaltPcs \cup {"sdSet", "idle"}
  <2>1. CASE HaltTest(t)
    <3>1. /\ th[t].pc = "haltTest" /\ UNCHANGED <<state, mstate>> /\ th[t].i <= N
      BY <2>1 DEF HaltTest
    <3>2. CASE mstate[Member(t)] > HaltState
      <4>1. Goto(t, "haltSet")
        BY <2>1, <3>2 DEF HaltTest
      <4>2. /\ Others(t) /\ th'[t].pc = "haltSet" /\ th'[t].i = th[t].i
            /\ th'[t].level = th[t].level /\ th'[t].part = th[t].part
        BY <1>1, <4>1, GotoFields
      <4>3. Member(t)' = Member(t)
        BY <1>1, <3>1, <4>2, WalkPlace DEF WalkPcs, HaltPcs
      <4>4. Started(Member(t))
        BY <3>2, StateNumbers DEF Started
      <4> QED BY <1>1, <1>2, <3>1, <4>2, <4>3, <4>4 DEF Halting, HaltPcs
    <3>3. CASE ~(mstate[Member(t)] > HaltState)
      <4>1. SkipMember(t)
        BY <2>1, <3>3 DEF HaltTest
      <4> QED BY <1>1, <1>2, <3>1, <4>1, SkipFields DEF Halting, HaltPcs
    <3> QED BY <3>2, <3>3
  <2>2. CASE HaltSet(t)
    <3>1. /\ th[t].pc = "haltSet" /\ mstate' = [mstate EXCEPT ![Member(t)] = HaltState]
          /\ state' = state /\ Goto(t, "haltEnd")
      BY <2>2 DEF HaltSet
    <3>2. /\ Others(t) /\ th'[t].pc = "haltEnd" /\ th'[t].i = th[t].i
          /\ th'[t].level = th[t].level /\ th'[t].part = th[t].part
      BY <1>1, <3>1, GotoFields
    <3>3. Member(t)' = Member(t)
      BY <1>1, <3>1, <3>2, WalkPlace DEF WalkPcs, HaltPcs
    <3>4. \A m \in Members : mstate'[m] = IF m = Member(t) THEN HaltState ELSE mstate[m]
      BY <1>1, <3>1
    <3> QED BY <1>1, <1>2, <3>1, <3>2, <3>3, <3>4 DEF Halting, HaltPcs
  <2>3. CASE HaltEnd(t)
    <3>1. /\ th[t].pc = "haltEnd" /\ mstate' = [mstate EXCEPT ![Member(t)] = ErrorState]
          /\ state' = state /\ GotoAt(t, "haltTest", th[t].i + 1)
      BY <2>3 DEF HaltEnd
    <3>2. Others(t) /\ th'[t].pc = "haltTest"
      BY <1>1, <3>1, GotoAtFields
    <3>3. \A m \in Members : mstate'[m] = IF m = Member(t) THEN ErrorState ELSE mstate[m]
      BY <1>1, <3>1
    <3> QED BY <1>1, <1>2, <3>1, <3>2, <3>3 DEF Halting, HaltPcs
  <2>4. CASE HaltMembersDone(t)
    <3>1. /\ UNCHANGED <<state, mstate>>
          /\ Goto(t, IF th[t].level = "direct" THEN "selfTest" ELSE "selfEnd")
      BY <2>4 DEF HaltMembersDone
    <3> QED BY <1>1, <1>2, <3>1, GotoFields DEF Halting, HaltPcs
  <2>5. ASSUME AfterHalt(t), mstate' = mstate, state' # Off
        PROVE  <1>3!1 /\ <1>3!2 /\ <1>3!3 /\ <1>3!4 /\ <1>3!5
    BY <1>1, <2>5, AfterHaltFields DEF Halting
  <2>6. CASE SelfTest(t)
    <3>1. UNCHANGED <<state, mstate>>
      BY <2>6 DEF SelfTest
    <3>2. CASE Goto(t, "selfSet")
      BY <1>1, <1>2, <3>1, <3>2, GotoFields DEF Halting, HaltPcs
    <3>3. CASE AfterHalt(t)
      BY <1>2, <2>5, <3>1, <3>3
    <3> QED BY <2>6, <3>2, <3>3 DEF SelfTest
  <2>7. CASE SelfSet(t)
    <3>1. /\ state' = HaltState /\ mstate' = mstate
          /\ th' = [th EXCEPT ![t].pc = "haltTest", ![t].i = 1, ![t].level = "self"]
      BY <2>7 DEF SelfSet
    <3>2. Others(t) /\ th'[t].pc = "haltTest"
      BY <1>1, <3>1, Types DEF Others, Thread
    <3> QED BY <1>1, <3>1, <3>2, StateNumbers DEF Halting, HaltPcs
  <2>8. CASE SelfEnd(t)
    <3>1. state' = ErrorState /\ mstate' = mstate /\ AfterHalt(t)
      BY <2>8 DEF SelfEnd
    <3> QED BY <2>5, <3>1, StateNumbers
  <2> QED BY <2>1, <2>2, <2>3, <2>4, <2>6, <2>7, <2>8 DEF Halt
<1>4. CASE t # Svc
  <2>1. t \in Runners
    BY <1>4 DEF Threads
  <2> QED BY <1>1, <1>2, <1>3, <2>1, RunnerHistory
<1>5. CASE t = Svc
  <2>1. /\ th[Svc].pc # "mSdHandler" /\ th'[Svc].pc \notin RecoverAt \cup InitAt
        /\ th'[Svc].pc # "mSdHandler"
    BY <1>1, <1>3, <1>5 DEF HaltPcs, RecoverAt, InitAt
  <2>2. \A m \in Members : ~WalkedDown(m)'
    BY <1>3, <1>5 DEF WalkedDown, HaltPcs
  <2>3. \A m \in Members : Halting(Svc, m) \/ Started(m) => Known(m)
    BY <1>5 DEF HistoryInv, UpIsKnown, HaltedIsKnown
  <2>4. \A m \in Members : \/ mstate'[m] = mstate[m]
                           \/ Known(m) /\ Started(m)'
    BY <1>3, <1>5, <2>3, StateNumbers DEF Started
  <2>5. \A u \in Runners : \A m : Halting(u, m)' <=> Halting(u, m)
    BY <1>3, <1>5, SvcIsNoRunner, SameHalting DEF Others, Threads
  <2> QED BY <1>1, <1>3, <1>5, <2>1, <2>2, <2>3, <2>4, <2>5, ServiceHistory
<1> QED BY <1>4, <1>5

\* The cycle of a run thread outside its halts.
LEMMA RunKeepsHistory ==
  ASSUME IInv, HistoryInv, NEW t \in Runners, Run(t), ~Halt(t)
  PROVE  HistoryInv'
<1>1. StateTypeOK /\ t \in Threads /\ t # Svc /\ th \in [Threads -> Thread(Pcs)]
  BY Types DEF IInv, Threads
<1>2. UNCHANGED <<state, mstate, history>>
  BY DEF Run, RunBoot, RunLoop, RunEnter, RunCall, RunCallDone, RunInterrupted
<1>3. Others(t) /\ th'[t].pc \notin {"haltSet", "haltEnd"}
  <2>1. ASSUME NEW x \in {"loop", "done"}, Goto(t, x) PROVE <1>3!1 /\ <1>3!2
    BY <1>1, <2>1, GotoFields
  <2>2. CASE RunBoot(t)
    BY <2>1, <2>2 DEF RunBoot
  <2>3. CASE RunLoop(t)
    <3> DEFINE f == [Fresh("enter") EXCEPT !.quiet = th[Svc].pc = "idle"]
    <3>1. f.pc = "enter"
      BY DEF Fresh
    <3> HIDE DEF f
    <3>2. th' = [th EXCEPT ![t] = f] \/ Goto(t, "done")
      BY <2>3 DEF RunLoop, f
    <3> QED BY <1>1, <2>1, <3>1, <3>2 DEF Others
  <2>4. CASE RunEnter(t)
    <3>1. CASE th' = [th EXCEPT ![t].pc = "call", ![t].i = 1, ![t].level = "direct"]
      BY <1>1, <3>1 DEF Others, Thread
    <3>2. CASE th' = [th EXCEPT ![t].part = "write"]
      BY <1>1, <2>4, <3>2 DEF RunEnter, Others, Thread
    <3> QED BY <2>1, <2>4, <3>1, <3>2 DEF RunEnter
  <2>5. CASE RunCall(t)
    <3>1. PICK fails : th' = [th EXCEPT ![t].i = @ + 1, ![t].err = @ \/ fails]
      BY <2>5 DEF RunCall
    <3> QED BY <1>1, <2>5, <3>1 DEF RunCall, Others, Thread
  <2>6. CASE RunCallDone(t)
    <3>1. CASE GotoAt(t, "haltTest", 1)
      BY <1>1, <3>1, GotoAtFields
    <3>2. CASE AfterHalt(t)
      BY <1>1, <3>2, AfterHaltFields
    <3> QED BY <2>6, <3>1, <3>2 DEF RunCallDone
  <2>7. CASE RunInterrupted(t)
    BY <2>1, <2>7 DEF RunInterrupted
  <2> QED BY <2>2, <2>3, <2>4, <2>5, <2>6, <2>7 DEF Run
<1> QED BY <1>1, <1>2, <1>3, RunnerHistory DEF Halting

\* The steps of a call that are not in a halt.
LEMMA ServeKeepsHistory ==
  ASSUME IInv, HistoryInv, Serve, ~Halt(Svc)
  PROVE  HistoryInv'
<1>1. /\ StateTypeOK /\ Svc \in Threads /\ mstate \in [Members -> LayerState]
      /\ N \in Nat \ {0} /\ th[Svc].i \in 1 .. N + 1
      /\ Members = 1 .. N /\ Svc \notin Runners
  BY Types DEF IInv, Members
<1>2. th[Svc].pc \in {"mInitHandler", "mSdHandler", "mRecoverHandler"} => th[Svc].i <= N
  BY DEF IInv, IndexOK
<1>3. ASSUME Others(Svc)
      PROVE  \A u \in Runners : \A m : Halting(u, m)' <=> Halting(u, m)
  BY <1>3, SvcIsNoRunner, SameHalting DEF Others, Threads
\* A step that changes no member's state, or that of the one it is at.
<1>4. ASSUME NEW x, Others(Svc), th'[Svc].pc = x, UNCHANGED history,
             th[Svc].pc # "mSdHandler", x \notin HaltPcs \cup {"mSdHandler"} \/ x = "selfTest",
             \A m \in Members : \/ mstate'[m] = mstate[m]
                                \/ m \notin started /\ ~Started(m)'
                                \/ m \in started \cup crossed /\ Started(m)',
             x \in RecoverAt => th'[Svc].i \in started \cup crossed,
             x \in InitAt => th'[Svc].i \notin started,
             \A m \in Members : WalkedDown(m)' => m \notin started
      PROVE  HistoryInv'
  <2>1. \A m : ~Halting(Svc, m)'
    BY <1>4 DEF Halting, HaltPcs
  <2>2. \A m \in Members : m \in started \cup crossed => Known(m)
    BY DEF Known
  <2> QED BY <1>1, <1>3, <1>4, <2>1, <2>2, ServiceHistory
<1>5. CASE InitSet \/ MemberInit \/ MemberInitFails \/ MemberInitShutdown \/ InitDone
  <2>1. UNCHANGED history
    BY <1>5 DEF InitSet, MemberInit, MemberInitFails, MemberInitShutdown, InitDone
  <2>2. CASE InitSet
    <3>1. th[Svc].pc = "initSet" /\ mstate' = mstate /\ Others(Svc) /\ th'[Svc].pc = "mInit"
      BY <1>1, <2>2, GotoAtFields DEF InitSet
    <3> QED BY <1>4, <2>1, <3>1 DEF WalkedDown, RecoverAt, InitAt, HaltPcs
  <2>3. CASE MemberInit
    <3>1. th[Svc].pc = "mInit" /\ th[Svc].i \in Members
      BY <1>1, <2>3 DEF MemberInit
    <3>2. CASE mstate[th[Svc].i] = Off
      <4>1. /\ Others(Svc) /\ th'[Svc].pc = "mInitHandler" /\ th'[Svc].i = th[Svc].i
        BY <1>1, <2>3, <3>2, GotoFields DEF MemberInit
      <4>2. \A m \in Members : mstate'[m] = IF m = th[Svc].i THEN InitState ELSE mstate[m]
        BY <1>1, <2>3, <3>2 DEF MemberInit
      <4>3. th[Svc].i \notin started
        BY <3>1, <3>2 DEF HistoryInv, StartedIsUp, Started
      <4>4. \A m \in Members : mstate'[m] = mstate[m] \/ (m \notin started /\ ~Started(m)')
        BY <4>2, <4>3 DEF Started
      <4> QED BY <1>4, <2>1, <3>1, <4>1, <4>3, <4>4 DEF WalkedDown, RecoverAt, InitAt, HaltPcs
    <3>3. CASE mstate[th[Svc].i] # Off
      <4>1. /\ Others(Svc) /\ th'[Svc].pc = "mInit" /\ mstate' = mstate
        BY <1>1, <2>3, <3>1, <3>3, SkipFields DEF MemberInit
      <4> QED BY <1>4, <2>1, <3>1, <4>1 DEF WalkedDown, RecoverAt, InitAt, HaltPcs
    <3> QED BY <3>2, <3>3
  <2>4. CASE MemberInitFails
    <3>1. /\ Others(Svc) /\ th'[Svc].pc = "mInitShutdown" /\ th'[Svc].i = th[Svc].i
      BY <1>1, <2>4, Types DEF MemberInitFails, Others, Thread
    <3>2. /\ th[Svc].pc = "mInitHandler"
          /\ \A m \in Members : mstate'[m] = IF m = th[Svc].i THEN Shutdown ELSE mstate[m]
      BY <1>1, <2>4 DEF MemberInitFails
    <3>3. th[Svc].i \notin started
      BY <3>2 DEF HistoryInv, ServedIsKnown, InitAt
    <3>4. \A m \in Members : mstate'[m] = mstate[m] \/ (m \notin started /\ ~Started(m)')
      BY <3>2, <3>3 DEF Started
    <3> QED BY <1>4, <2>1, <3>1, <3>2, <3>3, <3>4 DEF WalkedDown, RecoverAt, InitAt, HaltPcs
  <2>5. CASE MemberInitShutdown
    <3>1. /\ Others(Svc) /\ th'[Svc].pc = "sdSet"
      BY <1>1, <2>5, GotoFields DEF MemberInitShutdown
    <3>2. /\ th[Svc].pc = "mInitShutdown"
          /\ \A m \in Members : mstate'[m] = IF m = th[Svc].i THEN Off ELSE mstate[m]
      BY <1>1, <2>5 DEF MemberInitShutdown
    <3>3. th[Svc].i \notin started
      BY <3>2 DEF HistoryInv, ServedIsKnown, InitAt
    <3>4. \A m \in Members : mstate'[m] = mstate[m] \/ (m \notin started /\ ~Started(m)')
      BY <3>2, <3>3 DEF Started
    <3> QED BY <1>4, <2>1, <3>1, <3>2, <3>4 DEF WalkedDown, RecoverAt, InitAt, HaltPcs
  <2>6. CASE InitDone
    <3>1. /\ Others(Svc) /\ th'[Svc].pc = "idle" /\ th[Svc].pc = "mInit"
          /\ state' = Ready /\ mstate' = mstate
      BY <1>1, <2>6, GotoFields DEF InitDone
    <3> QED BY <1>4, <2>1, <3>1, StateNumbers DEF WalkedDown, RecoverAt, InitAt, HaltPcs
  <2> QED BY <1>5, <2>2, <2>3, <2>4, <2>5, <2>6
<1>6. CASE MemberInitOk
  <2>1. /\ Others(Svc) /\ th'[Svc].pc = "mInit" /\ th[Svc].pc = "mInitHandler"
        /\ th[Svc].i \in Members /\ crossed' = crossed
        /\ started' = started \cup {th[Svc].i}
        /\ \A m \in Members : mstate'[m] = IF m = th[Svc].i THEN Ready ELSE mstate[m]
    BY <1>1, <1>2, <1>6, GotoAtFields DEF MemberInitOk
  <2>2. \A m : ~ShutsDown(m) /\ ~ShutsDown(m)' /\ (Known(m) => Known(m)')
    BY <2>1 DEF ShutsDown, Known
  <2>3. HistoryTypeOK'
    BY <2>1 DEF HistoryInv, HistoryTypeOK, Members
  <2>4. StartedIsUp' /\ UpIsKnown'
    BY <2>1, <2>2, StateNumbers DEF HistoryInv, StartedIsUp, UpIsKnown, Started, Known
  <2>5. HaltedIsKnown'
    <3>1. \A m : ~Halting(Svc, m)'
      BY <2>1 DEF Halting
    <3> QED BY <1>3, <2>1, <2>2, <3>1 DEF HistoryInv, HaltedIsKnown, Threads, Members
  <2>6. ServedIsKnown' /\ DownIsForgotten'
    BY <2>1 DEF ServedIsKnown, DownIsForgotten, WalkedDown, RecoverAt, InitAt
  <2> QED BY <2>3, <2>4, <2>5, <2>6 DEF HistoryInv
<1>7. CASE MemberShutdown
  <2>1. /\ th[Svc].pc = "mSd" /\ th[Svc].i <= N /\ state' = state
        /\ Member(Svc) = N + 1 - th[Svc].i
    BY <1>7 DEF MemberShutdown, Member
  <2>2. Member(Svc) \in Members
    BY <1>1, <2>1
  <2>3. CASE mstate[Member(Svc)] # Off
    <3>1. /\ Others(Svc) /\ th'[Svc].pc = "mSdHandler" /\ th'[Svc].i = th[Svc].i
          /\ th'[Svc].part = th[Svc].part /\ th'[Svc].level = th[Svc].level
      BY <1>1, <1>7, <2>3, GotoFields DEF MemberShutdown
    <3>2. \A m \in Members : mstate'[m] = IF m = Member(Svc) THEN Shutdown ELSE mstate[m]
      BY <1>1, <1>7, <2>3 DEF MemberShutdown
    <3>3. started' = started \ {Member(Svc)} /\ crossed' = crossed
      BY <1>7, <2>3 DEF MemberShutdown
    <3>4. Member(Svc)' = Member(Svc)
      BY <2>1, <3>1 DEF Member
    <3>5. \A m : Known(m) => Known(m)'
      BY <2>1, <3>1, <3>3, <3>4 DEF Known, ShutsDown
    <3>6. HistoryTypeOK' /\ StartedIsUp' /\ UpIsKnown'
      BY <3>2, <3>3, <3>5 DEF HistoryInv, HistoryTypeOK, StartedIsUp, UpIsKnown, Started, Members
    <3>7. HaltedIsKnown'
      <4>1. \A m : ~Halting(Svc, m)'
        BY <3>1 DEF Halting
      <4> QED BY <1>3, <3>1, <3>5, <4>1 DEF HistoryInv, HaltedIsKnown, Threads, Members
    <3>8. ServedIsKnown'
      BY <3>1, <3>3, <3>4 DEF ServedIsKnown, RecoverAt, InitAt
    <3>9. DownIsForgotten'
      <4>1. \A m \in Members : WalkedDown(m)' => WalkedDown(m)
        BY <2>1, <3>1 DEF WalkedDown
      <4> QED BY <3>3, <4>1 DEF HistoryInv, DownIsForgotten, Members
    <3> QED BY <3>6, <3>7, <3>8, <3>9 DEF HistoryInv
  <2>4. CASE mstate[Member(Svc)] = Off
    <3>1. /\ Others(Svc) /\ th'[Svc].pc = "mSd" /\ th'[Svc].i = th[Svc].i + 1
          /\ mstate' = mstate /\ UNCHANGED history
      BY <1>1, <1>7, <2>1, <2>4, SkipFields DEF MemberShutdown, history
    <3>2. Member(Svc) \notin started
      BY <2>2, <2>4 DEF HistoryInv, StartedIsUp, Started
    <3>3. \A m \in Members : WalkedDown(m)' => WalkedDown(m) \/ m = Member(Svc)
      BY <1>1, <2>1, <3>1 DEF WalkedDown
    <3>4. \A m \in Members : WalkedDown(m)' => m \notin started
      BY <3>2, <3>3 DEF HistoryInv, DownIsForgotten
    <3> QED BY <1>4, <2>1, <3>1, <3>4 DEF RecoverAt, InitAt, HaltPcs
  <2> QED BY <2>3, <2>4
<1>8. CASE MemberShutdownEnd
  <2>1. /\ Others(Svc) /\ th'[Svc].pc = "mSd" /\ th'[Svc].i = th[Svc].i + 1
        /\ th[Svc].pc = "mSdHandler" /\ Member(Svc) = N + 1 - th[Svc].i
        /\ started' = started /\ state' = state
    BY <1>1, <1>8, GotoAtFields DEF MemberShutdownEnd, Member
  <2>2. Member(Svc) \in Members
    BY <1>1, <1>2, <2>1
  <2>3. \A m \in Members : mstate'[m] = IF m = Member(Svc) THEN Off ELSE mstate[m]
    BY <1>1, <1>8 DEF MemberShutdownEnd
  <2>4. /\ \A m : m # Member(Svc) => (m \in crossed' <=> m \in crossed)
        /\ (\E u \in Runners : Halting(u, Member(Svc))) => Member(Svc) \in crossed'
        /\ crossed' \subseteq Members
    BY <1>8, <2>2 DEF MemberShutdownEnd, HistoryInv, HistoryTypeOK
  <2>5. Member(Svc) \notin started
    BY <2>1 DEF HistoryInv, ServedIsKnown
  <2>6. \A m : m # Member(Svc) /\ Known(m) => Known(m)'
    BY <2>1, <2>4 DEF Known, ShutsDown
  <2>7. HistoryTypeOK' /\ StartedIsUp' /\ UpIsKnown'
    BY <2>1, <2>3, <2>4, <2>5, <2>6 DEF HistoryInv, HistoryTypeOK, StartedIsUp, UpIsKnown, Started,
       Members
  <2>8. HaltedIsKnown'
    <3> SUFFICES ASSUME NEW u \in Threads, NEW m \in Members, Halting(u, m)' PROVE Known(m)'
      BY DEF HaltedIsKnown, Members
    <3>1. u \in Runners /\ Halting(u, m)
      BY <1>3, <2>1 DEF Halting, Threads
    <3>2. CASE m = Member(Svc)
      BY <2>4, <3>1, <3>2 DEF Known
    <3>3. CASE m # Member(Svc)
      BY <2>6, <3>1, <3>3 DEF HistoryInv, HaltedIsKnown
    <3> QED BY <3>2, <3>3
  <2>9. ServedIsKnown'
    BY <2>1 DEF ServedIsKnown, RecoverAt, InitAt
  <2>10. DownIsForgotten'
    <3>1. \A m \in Members : WalkedDown(m)' => WalkedDown(m) \/ m = Member(Svc)
      BY <1>1, <2>1 DEF WalkedDown
    <3> QED BY <2>1, <2>5, <3>1 DEF HistoryInv, DownIsForgotten, Members
  <2> QED BY <2>7, <2>8, <2>9, <2>10 DEF HistoryInv
<1>9. CASE ShutdownSet \/ MembersAreShutDown \/ StopThread \/ JoinThread \/ ShutdownEnd
  <2>1. UNCHANGED <<mstate, history>>
    BY <1>9 DEF ShutdownSet, MembersAreShutDown, StopThread, JoinThread, ShutdownEnd
  <2>2. /\ Others(Svc) /\ th'[Svc].pc \in {"mSd", "stop", "join", "sdEnd", "idle"}
        /\ th[Svc].pc \in {"sdSet", "mSd", "stop", "join", "sdEnd"}
    BY <1>1, <1>9, GotoFields, GotoAtFields DEF ShutdownSet, MembersAreShutDown, StopThread,
       JoinThread, ShutdownEnd
  <2>3. \A m \in Members : WalkedDown(m)' => WalkedDown(m)
    <3>1. CASE ShutdownSet
      <4>1. th'[Svc].pc = "mSd" /\ th'[Svc].i = 1
        BY <1>1, <3>1, GotoAtFields DEF ShutdownSet
      <4> QED BY <1>1, <4>1 DEF WalkedDown
    <3>2. CASE MembersAreShutDown
      BY <1>1, <3>2 DEF MembersAreShutDown, WalkedDown
    <3>3. CASE StopThread \/ JoinThread \/ ShutdownEnd
      BY <3>3 DEF StopThread, JoinThread, ShutdownEnd, WalkedDown
    <3> QED BY <1>9, <3>1, <3>2, <3>3
  <2>4. \A m \in Members : WalkedDown(m)' => m \notin started
    BY <2>3 DEF HistoryInv, DownIsForgotten
  <2> QED BY <1>4, <2>1, <2>2, <2>4 DEF RecoverAt, InitAt, HaltPcs
<1>10. CASE MemberRecover \/ MemberRecoverOk \/ MemberRecoverFails \/ RecoverHaltTest
            \/ RecoverHaltSet \/ RecoverHaltEnd \/ RecoverDone
  <2>1. UNCHANGED history
    BY <1>10 DEF MemberRecover, MemberRecoverOk, MemberRecoverFails, RecoverHaltTest,
       RecoverHaltSet, RecoverHaltEnd, RecoverDone
  <2>2. CASE MemberRecover
    <3>1. th[Svc].pc = "mRecover" /\ th[Svc].i \in Members
      BY <1>1, <2>2 DEF MemberRecover
    <3>2. CASE mstate[th[Svc].i] = ErrorState
      <4>1. /\ Others(Svc) /\ th'[Svc].pc = "mRecoverHandler" /\ th'[Svc].i = th[Svc].i
        BY <1>1, <2>2, <3>2, GotoFields DEF MemberRecover
      <4>2. \A m \in Members : mstate'[m] = IF m = th[Svc].i THEN Recover ELSE mstate[m]
        BY <1>1, <2>2, <3>2 DEF MemberRecover
      <4>3. th[Svc].i \in started \cup crossed
        BY <3>1, <3>2, StateNumbers DEF HistoryInv, UpIsKnown, Started, Known, ShutsDown
      <4>4. \A m \in Members : mstate'[m] = mstate[m] \/ (m \in started \cup crossed /\ Started(m)')
        BY <4>2, <4>3, StateNumbers DEF Started
      <4> QED BY <1>4, <2>1, <3>1, <4>1, <4>3, <4>4 DEF WalkedDown, RecoverAt, InitAt, HaltPcs
    <3>3. CASE mstate[th[Svc].i] # ErrorState
      <4>1. /\ Others(Svc) /\ th'[Svc].pc = "mRecover" /\ mstate' = mstate
        BY <1>1, <2>2, <3>1, <3>3, SkipFields DEF MemberRecover
      <4> QED BY <1>4, <2>1, <3>1, <4>1 DEF WalkedDown, RecoverAt, InitAt, HaltPcs
    <3> QED BY <3>2, <3>3
  <2>3. CASE MemberRecoverOk \/ RecoverHaltSet \/ RecoverHaltEnd
    <3>1. PICK x \in {"mRecover", "recoverEnd", "selfTest"} :
            /\ Others(Svc) /\ th'[Svc].pc = x
            /\ x = "recoverEnd" => th'[Svc].i = th[Svc].i
      BY <1>1, <2>3, GotoFields, GotoAtFields DEF MemberRecoverOk, RecoverHaltSet, RecoverHaltEnd
    <3>2. /\ th[Svc].pc \in RecoverAt
          /\ \E v \in {Ready, HaltState, ErrorState} :
               \A m \in Members : mstate'[m] = IF m = th[Svc].i THEN v ELSE mstate[m]
      BY <1>1, <2>3 DEF MemberRecoverOk, RecoverHaltSet, RecoverHaltEnd, RecoverAt
    <3>3. th[Svc].i \in started \cup crossed
      BY <3>2 DEF HistoryInv, ServedIsKnown
    <3>4. \A m \in Members : mstate'[m] = mstate[m] \/ (m \in started \cup crossed /\ Started(m)')
      BY <3>2, <3>3, StateNumbers DEF Started
    <3> QED BY <1>4, <2>1, <3>1, <3>2, <3>3, <3>4 DEF WalkedDown, RecoverAt, InitAt, HaltPcs
  <2>4. CASE MemberRecoverFails \/ RecoverHaltTest
    <3>1. /\ Others(Svc) /\ th'[Svc].pc \in {"recoverTest", "recoverSet", "selfTest"}
          /\ th'[Svc].i = th[Svc].i /\ mstate' = mstate /\ th[Svc].pc \in RecoverAt
      <4>1. CASE MemberRecoverFails
        BY <1>1, <4>1, Types DEF MemberRecoverFails, Others, Thread, RecoverAt
      <4>2. CASE RecoverHaltTest
        BY <1>1, <4>2, GotoFields DEF RecoverHaltTest, RecoverAt
      <4> QED BY <2>4, <4>1, <4>2
    <3>2. th[Svc].i \in started \cup crossed
      BY <3>1 DEF HistoryInv, ServedIsKnown
    <3> QED BY <1>4, <2>1, <3>1, <3>2 DEF WalkedDown, RecoverAt, InitAt, HaltPcs
  <2>5. CASE RecoverDone
    <3>1. /\ Others(Svc) /\ th'[Svc].pc = "idle" /\ th[Svc].pc = "mRecover"
          /\ state' = Ready /\ mstate' = mstate
      BY <1>1, <2>5, GotoFields DEF RecoverDone
    <3> QED BY <1>4, <2>1, <3>1, StateNumbers DEF WalkedDown, RecoverAt, InitAt, HaltPcs
  <2> QED BY <1>10, <2>2, <2>3, <2>4, <2>5
<1> QED BY <1>5, <1>6, <1>7, <1>8, <1>9, <1>10 DEF Serve

LEMMA CallKeepsHistory ==
  ASSUME IInv, HistoryInv, CallInit \/ CallHalt \/ CallShutdown \/ CallRecover
  PROVE  HistoryInv'
<1>1. /\ StateTypeOK /\ th \in [Threads -> Thread(Pcs)] /\ Svc \notin Runners
      /\ mstate' = mstate /\ UNCHANGED history /\ th[Svc].pc = "idle"
  BY Types DEF IInv, CallInit, CallHalt, CallShutdown, CallRecover
<1>2. PICK cmd \in {"init", "recover", "halt", "shutdown"},
           pc \in {"initSet", "selfTest", "mRecover"}, new \in {0} \cup Runners :
        Begin(cmd, pc, new)
  BY DEF CallInit, CallHalt, CallShutdown, CallRecover
<1>3. th' = [u \in Threads |->
               IF u = Svc THEN [Fresh(pc) EXCEPT !.cmd = cmd]
               ELSE IF u = new THEN Fresh("boot")
               ELSE [th[u] EXCEPT !.quiet = FALSE]]
  BY <1>1, <1>2 DEF Begin
<1>4. th'[Svc].pc = pc
  BY <1>3 DEF Fresh, Threads
<1>5. \A u \in Runners : \A m \in Members : Halting(u, m)' => Halting(u, m)
  <2>1. \A u \in Runners : u # new => th'[u] = [th[u] EXCEPT !.quiet = FALSE]
    BY <1>1, <1>3 DEF Threads
  <2>2. \A u \in Runners : u = new => th'[u].pc = "boot"
    BY <1>1, <1>3 DEF Threads, Fresh
  <2>3. \A u \in Runners : u # new =>
          /\ th'[u].pc = th[u].pc /\ th'[u].i = th[u].i /\ th'[u].level = th[u].level
          /\ th'[u].part = th[u].part
    <3>1. \A u \in Runners : th[u] \in Thread(Pcs)
      BY <1>1 DEF Threads
    <3> QED BY <2>1, <3>1 DEF Thread
  <2> QED BY <2>2, <2>3 DEF Halting, Member
<1> QED BY <1>1, <1>4, <1>5, ServiceHistory DEF WalkedDown, RecoverAt, InitAt, Halting

LEMMA InitHistory == Init => HistoryInv
BY StateNumbers DEF Init, HistoryInv, HistoryTypeOK, StartedIsUp, UpIsKnown, HaltedIsKnown,
   ServedIsKnown, DownIsForgotten, Started, Halting, Fresh, RecoverAt, InitAt, Threads

LEMMA NextHistory == IInv /\ HistoryInv /\ [Next]_vars => HistoryInv'
<1> SUFFICES ASSUME IInv, HistoryInv, [Next]_vars PROVE HistoryInv'
  OBVIOUS
<1>1. CASE CallInit \/ CallHalt \/ CallShutdown \/ CallRecover
  BY <1>1, CallKeepsHistory
<1>2. CASE Serve
  BY <1>2, ServeKeepsHistory, HaltKeepsHistory DEF Threads
<1>3. ASSUME NEW t \in Runners, Run(t) PROVE HistoryInv'
  BY <1>3, RunKeepsHistory, HaltKeepsHistory DEF Threads
<1>4. CASE UNCHANGED vars
  BY <1>4 DEF vars, history, HistoryInv, HistoryTypeOK, StartedIsUp, UpIsKnown, HaltedIsKnown,
     ServedIsKnown, DownIsForgotten, Started, Known, ShutsDown, Halting, Member, WalkedDown
<1> QED BY <1>1, <1>2, <1>3, <1>4 DEF Next

-------------------------------------------------------------------------------
(* The theorems *)

LEMMA InitMemberInv == Init => MemberInv
<1> SUFFICES ASSUME Init PROVE MemberInv
  OBVIOUS
<1>1. \A u \in Threads : /\ th[u].pc = IF u = Svc THEN "idle" ELSE "none"
                         /\ th[u].quiet = FALSE
  BY DEF Init, Threads, Fresh
<1>2. th[Svc].pc = "idle" /\ \A u \in Runners : ~(th[u].quiet = TRUE)
  BY <1>1 DEF Threads
<1>3. state = Off /\ \A m \in Members : mstate[m] = Off
  BY DEF Init
<1> QED BY <1>2, <1>3, StateNumbers DEF MemberInv, StartedSoFar, UpIsStarted, DownIsAtRest,
           QuietIsIdle, HaltPasses, ChainHaltPasses, UpStates, HaltsInOrder

LEMMA NextMemberInv == IInv /\ MemberInv /\ [Next]_vars => MemberInv'
<1> SUFFICES ASSUME IInv, MemberInv, [Next]_vars PROVE MemberInv'
  OBVIOUS
<1>1. CASE CallInit \/ CallHalt \/ CallShutdown \/ CallRecover
  BY <1>1, CallKeepsMemberInv
<1>2. CASE Serve
  BY <1>2, ServeKeepsMemberInv, ServiceHaltKeepsMemberInv
<1>3. ASSUME NEW t \in Runners, Run(t) PROVE MemberInv'
  BY <1>3, RunKeepsMemberInv, RunnerHaltKeepsMemberInv
<1>4. CASE UNCHANGED vars
  BY <1>4 DEF vars, MemberInv, StartedSoFar, UpIsStarted, DownIsAtRest, QuietIsIdle, HaltPasses,
     ChainHaltPasses, UpStates, HaltsInOrder, InOrder, Started, WalkedDown, HaltsMember,
     HaltsChain, Member, Passed, Halted, Idle
<1> QED BY <1>1, <1>2, <1>3, <1>4 DEF Next

LEMMA MemberInvHolds ==
  ASSUME PromptStart
  PROVE  Spec => [](IInv /\ MemberInv /\ HistoryInv)
<1>1. IInv /\ [Next]_vars => IInv'
  BY NextIInv
<1> QED
  BY <1>1, InitIInv, InitMemberInv, NextMemberInv, InitHistory, NextHistory, PTL DEF Spec

\* Type correctness of the chain's words, of every thread's locals and of the
\* history (RosChain and Layer), for every size of the stack.
THEOREM RosChainTypeOK ==
  ASSUME PromptStart
  PROVE  Spec => []TypeOK
<1>1. IInv /\ HistoryInv => TypeOK
  BY DEF IInv, HistoryInv, TypeOK
<1> QED
  BY <1>1, MemberInvHolds, PTL

\* Layer::init, the services and the run thread: in a chain that a service
\* leaves Ready each member's handleInit has succeeded since its last shutdown,
\* or a halt crossed that shutdown.
THEOREM ReadyIsStartedHolds ==
  ASSUME PromptStart
  PROVE  Spec => []ReadyIsStarted
<1>1. MemberInv /\ HistoryInv => ReadyIsStarted
  <2> SUFFICES ASSUME MemberInv, HistoryInv, Idle, state = Ready, NEW m \in Members
               PROVE  Started(m) /\ m \in started \cup crossed
    BY DEF ReadyIsStarted, Started
  <2>1. Started(m)
    BY StateNumbers DEF MemberInv, UpIsStarted, Serving, Idle
  <2>2. ~ShutsDown(m)
    BY DEF ShutsDown, Idle
  <2> QED BY <2>1, <2>2 DEF HistoryInv, UpIsKnown, Known
<1> QED
  BY <1>1, MemberInvHolds, PTL

\* Layer::shutdown: once the chain is Off every member is Off, but for those a
\* run thread was halting while they were shut down: they are in Error.
THEOREM ShutdownLeavesNoWorkHolds ==
  ASSUME PromptStart
  PROVE  Spec => []ShutdownLeavesNoWork
<1>1. IInv /\ MemberInv /\ HistoryInv => ShutdownLeavesNoWork
  <2> SUFFICES ASSUME IInv, MemberInv, HistoryInv, Idle, state = Off, NEW m \in Members,
                      mstate[m] # Off
               PROVE  m \in crossed /\ mstate[m] = ErrorState
    BY DEF ShutdownLeavesNoWork
  <2>1. \A u \in Runners : ~HaltsMember(u, m)
    BY DEF IInv, Control, OffHasNoRunner, Idle, Alive, HaltsMember
  <2>2. WalkedDown(m) /\ ~ShutsDown(m)
    BY DEF WalkedDown, ShutsDown, Idle
  <2>3. mstate[m] = ErrorState
    BY <2>1, <2>2 DEF MemberInv, DownIsAtRest
  <2>4. Started(m) /\ m \notin started
    BY <2>2, <2>3, StateNumbers DEF HistoryInv, DownIsForgotten, Started
  <2> QED BY <2>2, <2>3, <2>4 DEF HistoryInv, UpIsKnown, Known
<1> QED
  BY <1>1, MemberInvHolds, PTL

\* call_or_fail: an error in a cycle no service ran into halts every member and
\* the chain.
THEOREM ErrorHaltsAllHolds ==
  ASSUME PromptStart
  PROVE  Spec => []ErrorHaltsAll
<1>1. IInv /\ MemberInv => ErrorHaltsAll
  <2> SUFFICES ASSUME IInv, MemberInv, NEW t \in Runners, th[t].pc = "loop", th[t].err,
                      th[t].quiet
               PROVE  state = ErrorState /\ \A m \in Members : mstate[m] <= ErrorState
    BY DEF ErrorHaltsAll
  <2>1. th[t].err = TRUE /\ th[t].quiet = TRUE
    BY Types DEF IInv, Threads
  <2> QED BY <2>1 DEF MemberInv, HaltsInOrder, InOrder, Halted
<1> QED
  BY <1>1, MemberInvHolds, PTL

===============================================================================
