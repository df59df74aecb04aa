------------------------------- MODULE SocketCan ------------------------------
(***************************************************************************)
(* The SocketCAN driver: AsioDriver and SocketCANInterface.                *)
(*                                                                         *)
(* Its user opens the socket and starts a thread in run(), which starts    *)
(* another one; both work in the io_service: they execute what the reads   *)
(* of the socket have completed with and, through a strand, hand frames to *)
(* the listeners.  The second thread is detached, so that it may still be  *)
(* at work when the driver is started again, and what was queued when the  *)
(* io_service is stopped waits there until the io_service runs again.      *)
(*                                                                         *)
(* What a frame says matters to its listeners only: here it is a "frame",  *)
(* or "fatal" when it is an error frame of fatal_error_mask_.  error_code  *)
(* and internal_error are only reported and are left out.                  *)
(***************************************************************************)
EXTENDS Naturals, Sequences, FiniteSets

CONSTANTS
  PostThreads,  \* bound: threads started by run() that have not ended
  MaxQueued,    \* bound: frames read or posted that wait in the io_service
  MaxReads      \* bound: reads in progress when the driver starts, and its own

ASSUME SocketCanAssumption ==
  /\ IsFiniteSet(PostThreads) /\ PostThreads # {} /\ "run" \notin PostThreads
  /\ MaxQueued \in Nat \ {0} /\ MaxReads \in Nat \ {0}

VARIABLES
  driver_state, \* State::driver_state
  socket,       \* socket_ is open
  reading,      \* how many async_read_some wait for a frame
  completed,    \* reads that have completed, oldest first
  posted,       \* how many frames wait for the strand
  stopped,      \* the io_service is stopped
  io            \* what each thread does in or around the io_service

driverVars == <<driver_state, socket, reading, completed, posted, stopped, io>>

IoThreads == {"run"} \cup PostThreads

\* What a read ends with; "failed" is the device's error or operation_aborted.
Completions == {"frame", "fatal", "failed"}

\* ended: what the read ended with; is_open: what setNotReady has seen.
Idle == [pc |-> "none", ended |-> "frame", is_open |-> FALSE]

Goto(t, pc) == io' = [io EXCEPT ![t] = [Idle EXCEPT !.pc = pc]]

StateOf(is_open) == IF is_open THEN "open" ELSE "closed"

Repeat(x, n) == [i \in 1..n |-> x]

InitDriver ==
  /\ driver_state = "closed" /\ socket = FALSE
  /\ reading = 0 /\ completed = << >> /\ posted = 0
  /\ stopped = FALSE
  /\ io = [t \in IoThreads |-> Idle]

DriverTypeOK ==
  /\ driver_state \in {"closed", "open", "ready"}
  /\ socket \in BOOLEAN /\ stopped \in BOOLEAN
  /\ reading \in 0..MaxReads /\ completed \in Seq(Completions)
  /\ posted \in 0..(MaxQueued + MaxReads)
  /\ \A t \in IoThreads :
       /\ io[t].pc \in {"none", "work", "set", "call"} \cup
            (IF t = "run" THEN {"start", "reset", "ready", "post", "trigger", "left"} ELSE {})
       /\ io[t].ended \in Completions /\ io[t].is_open \in BOOLEAN

-------------------------------------------------------------------------------
(* What the user calls                                                     *)

\* Reads in progress: each ends in a completion that may start the next.
Reads == reading + Len(completed) + Cardinality({t \in IoThreads : io[t].pc = "set"})

\* init() when all its system calls succeed, and the thread for run(): it needs
\* a driver that is closed and a socket_ without a descriptor.
Opens ==
  /\ driver_state = "closed" /\ ~socket
  /\ Reads < MaxReads
  /\ socket' = TRUE /\ driver_state' = "open"
  /\ Goto("run", "start")
  /\ UNCHANGED <<reading, completed, posted, stopped>>

\* shutdown_internal(), first half: the reads that wait are aborted.
CloseSocket ==
  /\ socket' = FALSE
  /\ reading' = 0
  /\ completed' = completed \o Repeat("failed", reading)
  /\ UNCHANGED <<driver_state, posted, stopped, io>>

\* MUTANT of StopIo: the io_service is not stopped, its threads see the closed socket.
StopIoNot == UNCHANGED driverVars

\* The second half.
StopIo == stopped' = TRUE /\ UNCHANGED <<driver_state, socket, reading, completed, posted, io>>

-------------------------------------------------------------------------------
(* run()                                                                   *)

RunStart ==
  /\ io["run"].pc = "start"
  /\ driver_state' = StateOf(socket)
  /\ Goto("run", IF socket THEN "reset" ELSE "none")
  /\ UNCHANGED <<socket, reading, completed, posted, stopped>>

RunReset ==
  /\ io["run"].pc = "reset"
  /\ stopped' = FALSE
  /\ Goto("run", "ready")
  /\ UNCHANGED <<driver_state, socket, reading, completed, posted>>

RunReady ==
  /\ io["run"].pc = "ready"
  /\ driver_state' = "ready"
  /\ Goto("run", "post")
  /\ UNCHANGED <<socket, reading, completed, posted, stopped>>

RunPost ==
  /\ io["run"].pc = "post"
  /\ \E p \in PostThreads :
       /\ p = CHOOSE q \in PostThreads :
                (\E r \in PostThreads : io[r].pc = "none") => io[q].pc = "none"
       /\ io[p].pc = "none"
       /\ io' = [io EXCEPT !["run"].pc = "trigger", ![p] = [Idle EXCEPT !.pc = "work"]]
  /\ UNCHANGED <<driver_state, socket, reading, completed, posted, stopped>>

\* triggerReadSome after the completions cs: a read of a closed socket fails at once.
Trigger(cs) ==
  /\ reading' = IF socket THEN reading + 1 ELSE reading
  /\ completed' = IF socket THEN cs ELSE Append(cs, "failed")

RunTrigger ==
  /\ io["run"].pc = "trigger"
  /\ Trigger(completed)
  /\ Goto("run", "work")
  /\ UNCHANGED <<driver_state, socket, posted, stopped>>

RunLeft ==
  /\ io["run"].pc = "left"
  /\ driver_state' = StateOf(socket)
  /\ Goto("run", "none")
  /\ UNCHANGED <<socket, reading, completed, posted, stopped>>

-------------------------------------------------------------------------------
(* io_service::run(), in either thread                                     *)

Leave(t) ==
  /\ io[t].pc = "work" /\ stopped
  /\ Goto(t, IF t = "run" THEN "left" ELSE "none")
  /\ UNCHANGED <<driver_state, socket, reading, completed, posted, stopped>>

Works(t) == io[t].pc = "work" /\ ~stopped

Completes(t, kinds) == Works(t) /\ completed # << >> /\ Head(completed) \in kinds

\* readFrame and frameReceived of an ordinary frame: on to the strand, and the
\* next read.
ReadFrame(t) ==
  /\ Completes(t, {"frame"})
  /\ posted' = posted + 1
  /\ Trigger(Tail(completed))
  /\ UNCHANGED <<driver_state, socket, stopped, io>>

\* MUTANT of ReadError: a read that fails is the last one, but the state stays.
ReadErrorIgnored(t) ==
  /\ Completes(t, {"fatal", "failed"})
  /\ io' = [io EXCEPT ![t] = [pc |-> IF Head(completed) = "fatal" THEN "set" ELSE "work",
                              ended |-> Head(completed), is_open |-> socket]]
  /\ completed' = Tail(completed)
  /\ UNCHANGED <<driver_state, socket, reading, posted, stopped>>

\* A fatal error frame, or an error: setNotReady looks at the socket ...
ReadError(t) ==
  /\ Completes(t, {"fatal", "failed"})
  /\ io' = [io EXCEPT ![t] = [pc |-> "set", ended |-> Head(completed), is_open |-> socket]]
  /\ completed' = Tail(completed)
  /\ UNCHANGED <<driver_state, socket, reading, posted, stopped>>

\* ... and then sets the state.  An error frame goes on like any frame; after an
\* error nothing more is read.
SetNotReady(t) ==
  /\ io[t].pc = "set"
  /\ driver_state' = StateOf(io[t].is_open)
  /\ \/ io[t].ended = "failed" /\ UNCHANGED <<reading, completed, posted>>
     \/ io[t].ended = "fatal" /\ posted' = posted + 1 /\ Trigger(completed)
  /\ Goto(t, "work")
  /\ UNCHANGED <<socket, stopped>>

\* The strand runs one function at a time; a thread that is in a listener ("call")
\* holds the mutex of the dispatcher.
Dispatching == \E t \in IoThreads : io[t].pc = "call"

\* The strand hands a frame to the dispatcher, which calls the listener it has.
TakePosted(t, listener) ==
  /\ Works(t) /\ posted > 0 /\ ~Dispatching
  /\ posted' = posted - 1
  /\ Goto(t, IF listener THEN "call" ELSE "work")
  /\ UNCHANGED <<driver_state, socket, reading, completed, stopped>>

\* The bus: a read gets a frame, or the device fails it.
BusFrame ==
  /\ reading > 0 /\ posted + Len(completed) < MaxQueued
  /\ \E c \in Completions : completed' = Append(completed, c)
  /\ reading' = reading - 1
  /\ UNCHANGED <<driver_state, socket, posted, stopped, io>>
===============================================================================
