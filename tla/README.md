# TLA+ models of my_work

The repository is a ROS workspace for an autonomous vehicle. It holds a handful of
hand-written nodes (a CAN driver for the vehicle's ECU, a TCP client and server for way
points, a safe-zone test, a UART driver, transforms, a path tracker) and a CANopen stack,
`src/messages/ros_canopen-melodic-devel`, that drives CANopen devices and motors. This
directory models the parts whose behaviour is hard to test: threads that share state words,
handshakes with devices and peers, timeouts, failures, and a numeric kernel.

`R/` abbreviates `src/messages/ros_canopen-melodic-devel/` throughout. `PROJECT.json` maps
every definition to the lines it stands for, lists the hazards and says which property
covers which.

Contents: 1 inventory, 2 plan, 3 modules and their correspondence to the code, 4 runs, bounds
and fairness, 5 proofs, 6 where code and documents disagree, 7 what else the models
showed, 8 what is only model-checked and what is not modelled.

## 1. Inventory

| Part | State it keeps | Operations | Who else touches that state | Module |
|---|---|---|---|---|
| Layer stack and `RosChain` (`R/canopen_master/.../layer.h`, `R/canopen_chain_node/src/ros_chain.cpp`) | an atomic state word per layer, `running_`, `thread_` | services init, recover, halt, shutdown; the read/write loop | service thread and run thread, with no common lock | `RosChain` |
| CANopen node (`R/canopen_master/src/node.cpp`) | NMT state, heartbeat deadline, SYNC membership, listener | init, recover, shutdown, handleNMT, read, write | service thread, CAN strand, run thread; `Node::mutex`, `cond_mutex`, the mutexes of object 1017, of the SDO reader and of the dispatcher | `Node` |
| CiA 402 motor (`R/canopen_402/src/motor.cpp`) | decoded state, control word, target state, selected and displayed mode, homing's status and execute flag | read, write, init, recover, halt, shutdown, enterModeAndWait, executeHoming | run thread, service thread, an application's thread; `cw_mutex_`, `mode_mutex_`, ... | `Motor402`, `HomingMode` |
| SDO client and `BufferedReader` (`R/canopen_master/src/sdo.cpp`, `reader.h`) | last request, toggle, offset/total, frame buffer | read, write, processFrame, init | any thread that reads an object; CAN strand | `SdoClient` |
| Object storage and PDO mapper (`R/canopen_master/.../objdict.h`, `objdict.cpp`, `pdo.cpp`) | per object: buffer, valid, delegates; per mapped object a buffer (empty, dirty); RPDO timeout | get, set, cached variants, init, reset, map; read, write, sync, handleFrame, init | all threads, a mutex per object and per buffer | `PdoMapper` |
| SocketCAN driver (`R/socketcan_interface/.../asio_base.h`, `socketcan.h`, `dispatcher.h`) | driver state, socket, io_service and what is queued in it, listeners | init, run, shutdown, recover, readFrame, dispatch | the user's thread, run's thread, detached post threads; the dispatcher's mutex | `SocketCan` |
| SYNC node (`R/canopen_chain_node/src/sync_node.cpp`, `R/canopen_master/.../can_layer.h`, `bcm_sync.h`, `R/socketcan_interface/.../bcm.h`) | known and started nodes, `sync_running_`, BCM socket, listener; a state word per layer | timer tick: read, init, halt, recover; handleFrame | the timer's thread, the driver's strand; `mutex_`, the dispatcher's mutex | `BcmSync`, `SyncNode` |
| EMCY handler, SYNC masters of the chain | has_error_; counter, node set | layer handlers | run thread, CAN strand | not modelled (section 8) |
| Object services, publishers, heartbeat timer | timer, interval | services | service thread, timer thread | not modelled (section 8) |
| `can_driver_rx` | message, mutex, two sockets | rxcan, check_id and decoders, publish, txcan | two threads | `CanDriver`, `StatusTopic` |
| `tcp_client` and `server_folder` | a connection, receive buffer, published list | connect, send, receive/publish; accept, answer | main and receiving thread, server process | `TcpLink` |
| `safe_zone` | zone, position | isinner, publish | one thread | `SafeZone` |
| `uart_driver`, `odom_tf`, `state_publisher`, `stanly_method`, `just_cpp`, `socketcan_bridge`, message packages | see `PROJECT.json` | | | not modelled (section 8) |

How they interact. A ROS service call runs in the service thread of the chain node and goes
down the layer stack: `RosChain` calls `init` (`recover`, ...) of its layers, a `Node` or a
`Motor402` answers with handshakes over the bus and blocks on condition variables until the
answer was seen. The same layers are read and written in every cycle by the run thread, and
halted by it when one reports an error. Frames are handed out by the strand of the CAN
driver, one after the other, with the dispatcher's mutex held; a listener that blocks stops
everything behind it. The vehicle's own nodes are separate processes that meet in topics
only; `can_driver_rx` and `tcp_client` have a receiving thread beside `main`.

What is hard, and what makes each part correct:

* `RosChain`: a service and a cycle interleave at every access to a state word. No run
  thread may outlive a stack that is Off, no stack may be up without one, an error must
  halt everything, a service must return although it joins a thread in mid-cycle.
* `Node`: late, missing and leftover frames; a device that reboots or dies at any moment;
  five mutexes over two threads and a strand. A node that is up is in SYNC exactly while
  it is seen Operational; init reports success only for a device it started; a silent
  device is reported; every call returns, but for one inversion of locks.
* `Motor402`: a halt against a recover; edge-triggered fault reset over a word two threads
  write; a mode switch while the motor is being controlled; a drive that never answers; a
  homing told by four waits on a status word that may still be that of an earlier one.
* `SocketCan` and `SyncNode`: a driver that is stopped and started again while its detached
  threads and its queue go on; two locks that are taken in both orders; two layers of which
  each may fail while the other works; NMT commands that arrive between any two steps of a
  halt, a recover or a shutdown. A ready driver must listen, a Ready stack must be whole,
  SYNC must run exactly while a node is started, a tick of the timer must end.
* `SdoClient`: answers without a transfer number that meet the next transfer, a reader that
  drops frames, success that is read off a byte count. Values must not be torn or belong
  to another object; a call must return.
* `PdoMapper`: a value has up to four places (cache, buffer, frame, device) and is moved
  between them by the strand, the run thread and any caller, a flag at a time, while init may
  exchange the places. Nothing set may be lost or sent stale, a PDO must not change what
  nobody set, and reads must see what came last.
* `CanDriver`: a message decoded field by field while it is serialised; sockets opened for
  every frame; a mutex in a loop that must go on. What subscribers see is a register.
* `TcpLink`: a byte stream cut and joined anywhere, full channels in both directions, a
  server that goes away.
* `SafeZone`: parity of a ray's crossings at vertices, in truncating int arithmetic.

## 2. Plan

Built so far, in this order: `LayerStates`, `RosChain` and its proofs, `Motor402`,
`SafeZone`, `CanDriver` and their proofs, `TcpLink`, `Node`, `SdoClient`, `PdoMapper`;
`SocketCan`, `BcmSync` and `SyncNode`, which composes them, with their proofs;
`StatusTopic`, the abstract specification `CanDriver` implements; `HomingMode`, which
`Motor402` extends; the proofs of `Node`, `SdoClient`, `PdoMapper`, `TcpLink`, of the
members' words in `RosChain` and of `Motor402`.

Next, most important first:

1. `ObjectCache`: one object of `PdoMapper` without PDOs, on top of `SdoClient`, and the abstract
   specification "a register with a cache": small, and the refinement provable. It is to
   state what a cached value is worth after a failed transfer.
2. The abstract specification "a transfer moves the value or throws" with the refinement from
   `SdoClient`, for the transfers that meet no leftovers.
3. The device's PDO parameters: the order in which `parse_and_set_mapping` disables, changes
   and enables a PDO, against a device that refuses changes to an enabled one.
4. `Emcy`, whose flag is cleared behind the read it was judged by, and the SYNC masters.
5. `ChainOfNodes`: `Node` as a member of `RosChain`, in place of the open handlers;
   the heartbeat timer and the object services beside it.
6. Proofs: the refinements of 1 and 2.

No module that is proved about uses RECURSIVE.

## 3. The modules

Every module has one `MC` module that extends it and defines the constants a `.cfg` file
cannot write; all other values are in the `.cfg` files.
Mutants (operators marked MUTANT) are plausible errors of the code. They are not part of
the specification: substituted for the definition they name, each of them violates the
property it is listed with in `PROJECT.json`, which shows that the property can fail.

### LayerStates
The enumeration `Layer::LayerState`. The code compares its members with `<` and `>`, so they
are numbers.

### RosChain
`state` is the chain's own word, `mstate` one word per member. Thread 0 answers the
services, threads `1..MaxRunners` are run threads: every init creates one, and
`thread_.reset` detaches one that still runs. A step is one access to an atomic word or one
handler call. What a member's handler does is open (it reports an error or not), which
covers every device and every exception that `CATCH_LAYER_HANDLER_EXCEPTIONS` turns into an
error; `boost::thread_interrupted` is no `std::exception` and leaves the loop
(`RunInterrupted`). Services are serialised by the chain's mutex. `PromptStart` is the one
assumption about the scheduler: `run` sets `running_` itself (ros_chain.cpp:74), while
`handleShutdown` reads it (214); with `PromptStart` a new thread executes that statement
before init can fail. `started` and `crossed` are history: the members whose `handleInit` has
succeeded since their last shutdown, and those that a run thread was still halting when their
last shutdown had stored Off. `ReadyIsStarted` and `ShutdownLeavesNoWork` name the latter as
the one exception (section 7): every other member of a Ready chain was started, and every
other member of a chain that was shut down is Off.
Abstracted: a member that is itself a `LayerGroup` would halt itself inside its handler;
publishers, diagnostics, object services and the chain's heartbeat timer.

### Node
`svc` is where the service thread is in `handleInit`, `handleRecover` or `handleShutdown`,
`run` where the run thread is in `handleRead`/`handleWrite`; `toDev` and `toMaster` are the
frames on the bus. The strand consumes `toMaster` from the front: an SDO response
(`SdoFrame`) or a heartbeat or boot-up (`NmtHandled`). `heartbeat_.set` keeps the mutex of
object 1017 for a whole SDO transfer (objdict.h:355), and handleNMT reads the same object
(node.cpp:117): `NmtBlocked` is the strand that waits there with `cond_mutex` and the
dispatcher's mutex held, so that nothing behind it is delivered and the waits of the service
thread cannot return (they must re-acquire `cond_mutex`). `sdo_.init()`, at node.cpp:179 and
once more at 192, registers the SDO reader anew: `BufferedReader::listen` keeps the reader's
mutex (`ReaderLocked`) while it takes the dispatcher's to add the new listener and to release
the old one (`SdoListen`). The strand has the dispatcher's while it hands over a response and
then wants the reader's: a response that comes in between stops it (`SdoBlocked`), and with it
the init, for good (`Inverted`). `answer` is what the SDO reader
got: nothing, the right response, or one that belongs to another transfer. A write that gets
none within its second is taken for done (`SdoTimeout`, `ShutdownTimeout`; see `SdoClient`);
only a wrong response or a read that gets none makes the call fail (`SdoFails`,
`ShutdownFails`). A wait or a transfer may time out at any moment; `late` remembers that one
did although its answer was still under way, and `clean` that the call is an init that found no
listener and no boot-up on its way. `object` is what the device's dictionary says
of 1017, a value to configure and a default. The device (`Dev*`) is external and on when the
master starts: a CiA 301 slave that boots, answers SDOs unless Stopped, sends heartbeats
while configured, loses power and comes back, also between any two steps of the master.
Abstracted: an SDO transfer is one request and one response; configuring the PDOs and the
rest of the dictionary is one transfer; object 1017 has a DefaultValue (without one
`get_cached` would start an SDO read inside the strand); diagnostics.

### SdoClient
`pc` is where the calling thread is in `transmitAndWait`; `BeginRead` and `BeginWrite` are
everything up to the loop, `ProcessFrame` is one frame with the request it sends, `Timeout`
and `Return` are the two ways on. `frame` is the content of the reader, `toDev` and
`toClient` the bus. A transfer that ends leaves the reader as it is, so that `frame` may
hold an answer to an earlier one. Data is counted in units: one fits an initiate frame, two
fit a segment, which is what the code's 4 and 7 bytes do to sizes below, at and above them;
`Byte` is how many values a byte of an indicated size has. `DataSize` is the size as the
client reads it, from the first and the last of its four bytes (sdo.cpp:53), and
`SizeField` the size it writes (sdo.cpp:61), which the server, judging a value by its length,
does not look at.
Units carry object, version and position, so that a value put together wrongly is told from
a whole one. The server (`Srv*`) is external: it takes any time, refuses or drops what it
likes, may or may not indicate a size, takes an object over when its last segment has come,
and the object may change by itself (`DevChange`). `clean` remembers that no frame was left
when the call began. The units of a value are numbered from 1, the versions of an object are
the values it may have; 0 would be a value put together wrongly. Abstracted: `init`; the mutex other callers wait for (they throw after
2 s and change nothing); frames of another length than 8, which end a transfer like an abort
does.

### PdoMapper
`store[o]` is the cached object (`Data`): value, `valid`, and where its two delegates lead, to
the device by SDO or to the buffer of its PDO. `buf[o]` is that buffer. A step is what one
thread does to one of them with its mutex held, which is why calls (`Set`, `GetSdo`,
`GetPdo`) are single steps: `Data`'s mutex is held around the delegate. `HandleFrame`,
`HandleBuffer` and `HandleEnd` are the strand in `handleFrame`; `RunRead` and `RunWrite`,
`SyncRead`, `SyncSend` the cycle; `InitReset` (storage), `InitClear`, then for each object
`MapAttach`, `MapForce`, `MapDelegate` (received objects only) and `MapClean`, `InitListen`
between the two PDOs, `InitAll`, `InitStart` the service thread. An SDO transfer is one step that
may fail (`SdoClient` has its details): a read throws, a write gets lost. Buffers that
were freed while delegates still point to them are `~alive`. `wanted`, `received`, `late` and
`untouched` are history only. External: a device whose received objects differ in every frame
and whose sent objects may be anything after a reset.
Abstracted: one PDO in each direction, in which an object is mapped once
(`PdoMapperAssumption`; the code does not refuse a dictionary that maps one twice, but then the
object has two buffers, of which its delegates know the last one only); the PDO parameters in the device are as the
dictionary says; every object can be written; transmission types with RTR; sizes.

### Motor402
Threads "run", "svc" and "app" execute the same sub-programs (`SwitchState`, `SwitchMode`,
`Halt`) with a program counter and locals each; a step is one critical section of
`cw_mutex_`, `mode_mutex_` or the state handler's mutex. Words are sets of bits.
`Transitions` is `Command402`'s table, `Decode` is `State402::read`. A wait with a deadline
may end at any time. The drive is external: it follows the control word of the last frame,
faults and needs a rising edge of Fault_Reset. `setup` is the situation of a behaviour:
whether the drive has a homing mode and a homing method is set, which services are called,
how often init is, whether and how often an application switches modes, whether the stack reports errors
and how often the drive faults. `hist` is history only.
Abstracted: targets and the handlers of the modes other than homing, diagnostics, limits.

### HomingMode
`DefaultHomingMode`, which `Motor402` extends: `executeHoming` is the four waits of
handleInit's last part (`Awaited`, `Waited`, `Homed`, `HomingError`), `read`, `write` and
`start` what the run thread and the switch to the mode do to the same words. Of the status
word the three homing bits count, of the control word the start bit; while another mode is
selected the model leaves out what it uses them for. The drive's side (`SeesStart`,
`EntersHoming`, `LeavesHoming`, `DriveHomes`) is external: a homing begins on a rising start
bit, attains and stops in one frame or two, may fail, is interrupted when the bit falls or
the mode is left; a drive that enters homing mode may show that it was homed earlier.

### SocketCan
`AsioDriver` and `SocketCANInterface`. `Opens`, `CloseSocket` and `StopIo` are what the user
calls, `io` is where each thread is: "run" executes `run()`, a statement at a time, and both
it and the post threads then take completions and posted functions out of the io_service
(`ReadFrame`, `ReadError`, `TakePosted`). `completed` and `posted` are the queue, which
survives a stop. `setNotReady` reads `is_open` and then stores the state, in two steps.
Every read that completes starts the next one, so that `reading`, `completed` and the
threads in "set" together are the chains of reads. `BusFrame` is the device. Abstracted:
contents of frames other than "fatal error", error codes, sending, the wait for
State::closed in shutdown, which only warns.

### BcmSync
`BCMsync` and `BCMsocket`: `handleFrame` is the handler of a frame, of which kind, node and
state count; `Toggle` is the end of it, with the result of the write to the kernel's socket.
`tx` is the kernel's timer, which ends with the socket. A write to an open socket may fail
like any other call (`StartTX`, `StopTX`): the handler stores what it has achieved and tries
again with the next frame, `handleHalt` does not look. `failed` is history: which write
failed and has not been made good since, that of the last frame or that of a halt.

### SyncNode
canopen_sync_node: `main` is where the timer's tick is in the `LayerStack` of `CANLayer` and
`BCMsync`, `layers` the state words. Each access to the driver, each wait for a mutex and
each layer's handler is a step; the driver's steps are those of `SocketCan`, and
`HandleFrame` calls `handleFrame` of `BcmSync` with the dispatcher's mutex held. `lost` is
history: `stop()` came between run()'s start and its `io_service_.reset()`; `early` is
history, too: a BCMsync that was halted has started SYNC before it was recovered, and has
had `sync_running_` set since. Any system call
may fail in any tick; the driver may be ready, or not, when the second of `waitReady` is
over. Abstracted: the publication of diagnostics, parameters (read once), signals.

### CanDriver
`rx` and `tx` are the two threads' program counters. A frame is an identifier and one
number; `gps_pos` assigns two fields in two steps (`RxDecode`, `RxDecode2`), serialising
reads them in two (`MainPublish`, `MainPublish2`). `sock`, `queue` and `fds` model the
sockets: opened, bound, read and closed for every single frame; any system call may fail.
`Deliver` hands a frame to a bound socket only, so frames between a close and the next bind
are lost, and the node's own command frame is received again, as with CAN_RAW's default
loopback between sockets. Abstracted: seven more decoders of the same shape; the value range
of the fields.

### StatusTopic
What a subscriber may rely on, the abstract specification of `CanDriver`: the status is a
register of whole frames, and a message shows it as it is at one moment. The refinement mapping
(`topic` in `CanDriver`) takes the last of the steps in which a position is decoded, or a message
serialised, for the moment it happens: `value` reads the position from its second field, `shown`
keeps the old message until the second field of the new one is in.

### TcpLink
A document and a status are two units each; `toCli` and `toSrv` are the stream, from which
`recv` takes any prefix and into which `send` puts unit by unit when there is room (`Room`). The
server reads data0.json between receive and send, an operator rewrites it, the server may
be stopped and what it sent may be lost. Abstracted: a document read while it is being
rewritten; b.json and sample.json, which nobody reads back; documents that do not fit the
buffers (data0.json has 1487 bytes, the client's buffer 3000).

### SafeZone
`PushBack` builds the zone vertex by vertex, `Publish` publishes `isinner`. The position and
the vertices, literals in main, range over a grid. `Quotient` is C's division. `Inside`, the
exact even-odd rule in integers (a cross product instead of a quotient), is the reference.

## 4. Runs, bounds, fairness

| Run | Checks | Bounds and why they suffice |
|---|---|---|
| `ros_chain` | six invariants of the life cycle, `ServicesReturn` | 2 members: a first and a last one, order and "others" exist; 2 run threads: the one in charge and a detached or finished one. No sync layer paces the loop: with one, the thread is interrupted in fewer places and every behaviour is also one without |
| `ros_chain_detached` | `RunThreadStopped` fails without `PromptStart` | as above |
| `motor402` | `TypeOK`, `HaltStopsRecover`, `FaultResetRises`, `SwitchIsSilent`, `HomedIsHome` | four situations: a fault with recover and halt, an application that switches modes while the run thread halts the motor, one that does once beside a shutdown, homing in two calls of init with shutdown (an earlier homing and the next); two modes, so that there is an old and a new one, symmetric, as nothing tells them apart |
| `motor402_live` | `CallsReturn` | one mode; halt and recover as often as wanted, of a motor the run thread halts or of a drive with two faults; an application that switches modes while run thread and service halt the motor; init and shutdown, twice without a homing method, once with it; the drive may be silent at any time |
| `node` | `SyncFollowsState`, `InitStartsDevice`, `CallsAreClean`, `CallsReturn`, `DeadDeviceIsReported` | one power failure, with as many re-inits as wanted; one command and two frames on their way: a leftover or a heartbeat before an answer; no heartbeat, one that is configured on a device whose default is off, and one the device always sends; timeouts at any time |
| `sdo` | `ReadIsRight`, `WrittenIsWhole`, `WriteHasArrived`, `CallsReturn` | two objects of the same, and of five different kinds of size; `Byte` is 4 and the longest string 6, so that its size reads as 2: shorter than it is, and a whole segment; two versions, an old and a new one; two requests and one answer on the bus, which with the frame in the reader are a leftover and an answer |
| `sdo_timeout` | disagreement (section 6) | as above |
| `pdo` | `SentIsCurrent`, `OthersAreKept`, `ReceivedIsRead`, `SetsAreSent`, `SilenceIsReported` | PDOs of two objects, so that one can be new and the other not, sent or received, and one of each kind (one initialisation; two for the others, so that old buffers, delegates and frames meet the new ones); two values; one frame on the bus and one in the strand; with and without defaults, initial values and read access |
| `sync_node` | `TypeOK`, `ReadyIsListening`, `ReadyIsServed`, `SyncFollowsNodes`, `TicksReturn` | two nodes, one of them ignored or not monitored; two post threads, one of them left over from an earlier session; one frame in the io_service and two reads, so that an old chain of reads and a new one run beside each other; any call may fail, writes to the kernel included, as often as it likes |
| `can_driver` | `TypeOK`, `PositionIsWhole`, `SocketsAreClosed`, `PublishesForever`, `TopicIsRegister` (the refinement of `StatusTopic`) | 2 numbers, so that halves of two frames differ; two failing calls |
| `tcp_link` | `WholeLists`, `ServerKeepsAnswering` | 3 documents, 4 units in flight (two documents) towards each side, so that both sends block; a buffer of 3: joined and cut documents |
| `safe_zone` | `PublishedIsRight` | all quadrilaterals on a 4x4 grid, self-crossing ones included, and all positions |

`InitStartsDevice` assumes that no boot-up from before the call was on its way when init
began (`clean`). Otherwise that boot-up can be taken for the answer to the reset, and then a
heartbeat from before the reset for the answer to the start; the code has no sequence
numbers to tell them apart. That is a limit of the protocol as implemented, not an artefact
of the model. Nothing else is assumed: waits may end before their answers and the device may
fail again and again. `CallsAreClean` is about a device that does not fail and whose answers
were waited for (`~late`). `SyncFollowsState`, `CallsReturn` and `DeadDeviceIsReported` hold
without either assumption; `CallsReturn` exempts a call that the inverted locks of `sdo_.init()`
have stopped, and `CallsAreClean` says where that can happen to a healthy device: at the first
`sdo_.init()` of an init, with a heartbeat configured, and nowhere else.

`ReadIsRight` promises the whole value of everything but strings of `Byte` (256 bytes) or more;
of those it says which part arrives (section 7). It has a second half for reads that do meet leftovers: of an object whose value the
device sends in the first frame they return a value of that object. It does not hold for every
object that is one unit long in the client's dictionary: if the device's is longer, a
leftover segment of another object may complete the read. Two requests and one answer are too
few for that behaviour; the attempt to prove the stronger form showed it.

`motor402` and `motor402_live` are apart because a graph for liveness that has two modes and
faults would be too large; that is also why `setup` names situations instead of allowing
every call in all of them. `CallsReturn` of the motor is a statement about drives whose state
changes finitely often during a call: waitForNewState (motor.cpp:74-75) asks for its deadline,
one for the whole of switchState, only when it finds the state unchanged, and the model has no
clock. So faults are bounded, and no application switches modes beside a recover: TLC shows
recover and halt called for ever beside an `enterModeAndWait`, whose target they replace each
time, keep it in its loop without end. By the clock it ends with the first wait after the
deadline that finds the state unchanged. An application beside a shutdown, whose graph is too
large for liveness, is in `motor402` only. The types of `Node`, `SdoClient`, `PdoMapper` and
`TcpLink` (`TypeOK`) are proved (section 5), so that the runs do not check them.

Deadlock is checked in every run but those of the motor (one that was shut down for the last time
rests), `node` and `sync_node` (inverted locks, section 7, do stop two threads) and `ros_chain_detached`.

Bounds appear as guards: `MaxRunners`, `MaxCommands`, `MaxFrames`, `MaxRequests`,
`MaxReplies` (a sender waits for room), `MaxErrors`, `Room`, `Docs`, `GridMax`;
`PostThreads`, `MaxQueued` (the bus waits) and `MaxReads` (the driver is not opened again
while older reads have not ended); `inits`, `switches` (none, once or as
often as wanted) and `faults` of a motor's setup. `Numbers` numbers frames modulo.

Fairness. Threads of the program are weakly fair: the scheduler runs them. A mutex others
take again and again is got at last (strong fairness of `MainLock` in CanDriver and of the
run thread in Node): pthread mutexes do not promise it, but both holders sleep or block
between two acquisitions, the reader of CanDriver whenever its read does not fail, and of
failures there is a bounded number. In Node the bus carries every command on (strong fairness of `DevCommand`),
and time passes for a device that is off (`Expire`). In PdoMapper only cycle and strand are
fair. In SyncNode the driver's threads are weakly fair and the timer's thread strongly: it
contends with them for the dispatcher's mutex, which the strand releases after every frame.
What it is fair to are its own steps; neither frames nor errors are forced, and ticks come
as a timer's do. In SdoClient the bus takes every request on (`Server`, which may drop it).
Nobody has to call a service, send a frame, fail, answer, or write a document. In CanDriver
and TcpLink calls that fail and a server that stops are never forced.

## 5. Proofs

`RosChainProofs` (for every number of members and of run threads):

* `RosChainTypeOK`: `TypeOK`.
* `RunThreadStoppedHolds`, `RunThreadServesHolds`: with `PromptStart`, no run thread outlives
  a stack that is Off, and a chain that is up has a live one that is told to run.

Neither property is inductive. The invariant `IInv` adds what the threads' program counters
imply: only the thread the handle owns is alive (`OnlyHandleRuns`); `running_` is FALSE
beside a live thread only before its first statement or while the shutdown joins it
(`RunningIsSet`), which is where `PromptStart` is needed (`BootOnlyAtStart`); a chain that is
Off has either no live run thread or one whose cycle has seen nothing but Off, which cannot
be in the middle of a halt (`OffHasNoRunner`); only the joined thread is interrupted. Steps
are abstracted to moves of one program counter (`Move`, `MoveType`, `RunnerMove`, `ServiceMove`),
so that the forty actions are each reduced to a few facts. `ASSUME PromptStart` is a hypothesis of
the two theorems; `ros_chain_detached` shows that it cannot be dropped.

The second half of `RosChainProofs` is about the members' words: `ReadyIsStartedHolds`,
`ShutdownLeavesNoWorkHolds`, `ErrorHaltsAllHolds`. `MemberInv`, on top of `IInv`: an init has
started the members it has passed (`StartedSoFar`, `UpIsStarted`); the members a shutdown has
passed rest, or a run thread in the middle of their halt is about to store Error
(`DownIsAtRest`); a Halt, of a member or of the chain, is there only while a thread is at it
(`HaltPasses`, `ChainHaltPasses`); a run thread that no service disturbed has halted the
members it has passed (`HaltsInOrder`). They need `PromptStart` for `IInv`. `HistoryInv` ties
the states to what happened: a member whose state says that it was started is in `started`, or
in `crossed`, or in the hands of the shutdown (`UpIsKnown`), and so is every member a thread
has decided to halt (`HaltedIsKnown`); what a shutdown has passed is forgotten
(`DownIsForgotten`).

`Motor402Proofs` (for any modes, situations and faults of the drive):

* `Motor402Types`: `TypeOK`.
* `HaltStops`: `HaltStopsRecover`, unless an application switches modes beside a recover
  (`Alone`).
* `ResetRises`: `FaultResetRises`, without an application's switch.
* `SwitchesAreSilent`: `SwitchIsSilent`, for drives without homing.
* `HomingEndsAtHome`: `HomedIsHome`, without an application's switch.

`IInv` is `TypeOK` and six parts. `Stages`: the places of the service's thread in each call,
and that an init keeps the layer in `Init`, so that the run thread does not halt behind it.
`NoFaultIsWanted` and `HaltedRecover`: no target is a fault, and once a halt has stored its own
target, a recover can only be before its last look at it. `Rises`: where the bit
FAULT_RESET is between the command, the word, the frame and the drive (`Low`, `Ahead`), and how
many frames that takes. `Silent`: which handler is selected and which frame is next while
the mode is switched (`Between`). `Prep`: what the service has selected and executes at each
place of a homing; `Home`: every status word the handler has seen was the drive's (`Sampled`,
`Whole`), a start bit on its way belongs to this homing (`Way`), and a drive that attained
stays where it is as long as nobody starts it anew (`Stays`).

Each hypothesis has a reason in the code. `enterModeAndWait` of an application runs
`switchState` too, and nothing orders the two: it stores its own target over a halt's, takes the
reset bit back, and leaves the homing mode under a homing that runs. The run's
situations with an application have a halt or a shutdown beside it, but neither a recover nor a homing. The
handler of the homing mode releases Halt itself, while the drive may still be in the mode before.
`FaultResetRises` leaves out a recover that a halt has beaten: a quick stop's command
takes FAULT_RESET back, so that the bit may never rise (three faults and a halt of the run thread
between two frames show it; the attempt to prove the property without the exception found it).

`NodeProofs` (for every number of failures, commands and frames): `NodeTypeOK`,
`SyncFollowsStateHolds`, `InitStartsDeviceHolds`, `CallsAreCleanHolds`. `SyncFollowsState`
needs where the service thread may be in which state of the layer (`Stages`) and that only
`stop()` makes an Operational node leave (`Member`). `InitStartsDevice` needs the past of the
frames: a boot-up on its way was sent since the init began, no frame behind it says
Operational unless the device was started (`BootsAreNew`), and once a boot-up has been
handled no trace is left of what the device was before (`StartIsNew`). `CallsAreClean` is
about a pipeline: for each stage of each call `Pipeline` says which command, response or boot-up
is on its way, that there is exactly one that can end the wait, and that nothing is left that
a later wait would take for its answer. That no response is left when the second `sdo_.init()`
runs, and none at the first one either unless a heartbeat delayed it, is what keeps a healthy
device clear of the inverted locks.

`SdoClientProofs` (for all objects, dictionaries, sizes and numbers of frames): `SdoTypeOK`,
`WrittenIsWholeHolds`, `WriteHasArrivedHolds`, `ReadIsRightHolds`. Frames carry no number of
their transfer, so that what a server puts together is whole only because of the order of the
requests: each segment was sent right after the request it follows, and continues what the
server has got, if that is what the server expects (`Stream`). For the other two, a transfer
that found no leftovers has one frame on its way at most (`OneFrame`); a request finds the server
where the client is (`Asks`), and an answer brings the units the client lacks, of a value the
object had during the call (`AllGood`). How many of them make the value is what the client
reads in the indicated size (`ReadSize`), the value's own size if it is below `Byte`
(`ReadSizes`). `Sent` and `Asked` say how far the client has come.
A step of processFrame is first reduced to one of six cases (`FrameCases`).

`PdoMapperProofs` (for every mapping, dictionary, set of values and number of initialisations):
`PdoMapperTypeOK`, `ReceivedIsReadHolds`, `SentIsCurrentHolds`, `OthersAreKeptHolds`. While init
maps, the run thread rests (`Alone`); frames are handled only when every received object is
connected to its buffer (`Listens`); a pass of `TPDO::sync` has the buffers it has read in its
frame, but for objects written behind it (`Current`); an object nobody set has the device's
value in cache, buffer and frame from the moment init mapped it (`Kept`).

`TcpLinkProofs` (for any number of documents, any room in the channels, any buffer):
`TcpLinkTypeOK`, `WholeListsHolds`. What makes the property inductive is the stream: in the
channel and in every piece of it that `recv` may return, the first half of a document is followed by
its second one (`Paired`), or it is the last unit and the server is about to send the other (`Rest`).

`VehicleProofs`, for CanDriver (every number of frames and of failing calls): `CanDriverTypeOK`,
`PositionIsWholeHolds`, `SocketsAreClosedHolds`. The invariant says who holds the mutex at
which program counter (`Locked`), where the message may hold halves of two positions
(`Whole`), and that every descriptor is one a thread is using or one that a failed call gave
up (`Counted`). `ImplementsTopic` is the refinement: every step of the node is a step of
`StatusTopic` or a stutter, by the same invariant; the mutex is what keeps the step of one
thread from changing what the other has half done.
For SafeZone (every grid and number of vertices): `PublishedIsRightHolds`.
`isinner` and the even-odd rule count edges, so that no induction along the zone is needed:
edge by edge they agree (`EdgeIsRight`), since the quotient C++ computes is off by less
than one (`Rounding`) and in general position the margin of an edge is at least that. The
invariant adds that only a whole zone is asked about, which no vertex is added to (`Asked`).

`SyncNodeProofs` (for all nodes, setups, bounds and numbers of threads): `SyncFollows`.
`SyncFollowsNodes` is not inductive: the socket is replaced by every recover, and that the
layer does not go on believing in what the old one sent needs that it was halted before. A
layer that is not Ready has `sync_running_` set only if it is `early` (`HaltedRests`); each
stage of the timer's tick is part of an init, a recover or the abort of an init, of a stack
that is Off or halted (`Stages`); the kernel sends only for an open socket, no thread is in the
handler without a listener, there is no listener without a socket (`Served`), and there is
neither before the end of an init (`Closed`). Of a write the proof takes nothing for
granted: `ToggleFollows` has a case for each that succeeds and each that fails.

`ReadyListens` and `ReadyServes`, likewise. The driver's half: "ready"
is only said within `run()` (`ReadyIsSaidInRun`), the io_service is stopped under a running
thread only while the timer is about to join it (`StoppedIsJoined`), and the thread leaves
only when stopped. The stack's half: layers become Ready only after the tick has seen a
ready driver (`SeenReady`), from which until the next halt or shutdown the thread is
`Alive`.

`SyncNodeTypes` has two conjuncts that are bounds, of reads in progress and of frames in the
strand's queue, and needs to count across threads, which is why the detached threads are
assumed to be finitely many. A read is counted while it waits, has ended, is in a thread's
hands or is about to be started by `run()` (`ReadsBounded`): a driver that is started again
adds one to what its last session left over. A frame has its place in the queue from the
moment it is read, a fatal one still in a thread's hands included; reads that failed at the
end take none (`Fits`), or closing the socket would overfill it.

The proofs use no assumption beyond the named ones on the constants and, where stated,
`PromptStart`. TLC evaluates the former in every run.

Only model-checked, for the prover's reach: all liveness properties (fairness, ENABLED). Every
invariant and every action property of a passing run is proved.

## 6. Where code and documents disagree

Each is a run that is expected to find a violation; `PROJECT.json` quotes the line.

* `ros_chain_detached`. "properly stop run thread if init failed"
  (`R/canopen_chain_node/CHANGELOG.rst:81`): init can fail before the new thread has set
  `running_`; the shutdown then neither interrupts nor joins it.
* `sdo_timeout`. A transfer that gets no response is aborted with the comment "SDO protocol timed
  out." (`R/canopen_master/src/sdo.cpp:419`), but the exception is thrown only if offset and
  total differ (428). Of a write they are equal as soon as the last frame is sent, so that
  `transmitAndWait` returns as after a success. Every write of up to four bytes is affected.

## 7. What else the models showed

Nothing in the repository promises otherwise in these cases, so no property states them.

* RosChain. A halt by the run thread while a member is shut down leaves that member in Error
  after the chain is Off; the next init skips it (layer.h:86-109), so that the chain is Ready
  over a member whose `handleInit` did not run: the exception `crossed`. A recover that races with a
  halt can leave the chain Ready with members in Error, after which recover does nothing and
  reports success.
* Node. handleRecover ignores start()'s result, so recover succeeds for a device that did
  not answer. A heartbeat handled between `stop()`'s removeNode and the release of the
  listener puts the node back into SYNC after a shutdown. A heartbeat that is dispatched
  while `heartbeat_.set` waits for its response (node.cpp:52, 211) blocks the strand on the
  same object's mutex, the response behind it cannot be delivered, and the write times out;
  since a write that times out passes for done, the call goes on. Once that is repaired the
  lock shows: with `ShutdownTimeoutThrows` the shutdown of a healthy device fails before
  `stop()` and leaves it Operational (the mutant of `CallsAreClean`). A response that comes
  after its transfer timed out makes the next transfer fail. A boot-up followed at once by a
  heartbeat, which a device whose default interval is not 0 sends, is missed by the wait in
  reset_com; `CallsAreClean` leaves such devices out. `BufferedReader::listen` (reader.h:87)
  holds the reader's mutex while it takes the dispatcher's; the strand takes them in the opposite
  order, so that a response that comes in while a node is initialised again stops both threads
  for good (`Inverted`; the node stays locked up, and with it every frame). After a transfer that
  timed out that can happen at both calls of `sdo_.init()`. It can happen to a healthy device
  too: a heartbeat blocks the strand during the transfer of a shutdown (node.cpp:211), the
  response behind it is handed over when the transfer has timed out, and meets the next init. A boot-up left over from before an init
  ends the wait for the reset's (`clean`). `state_` is stored without
  `cond_mutex` (node.cpp:51).
* SdoClient. After timeouts, segments of two uploads can be joined into one value, of which
  the first part is from the old transfer: a leftover initiate response makes the client ask
  for a segment, and the leftover segment and the later ones of the new upload agree in
  their toggle bits (28 steps, two transfers that time out; segments do not name their
  object). That is why `ReadIsRight` asks for `clean`. A leftover answer to a one-frame read
  of the same object is returned as its value. The size of a segmented string is read from
  two bytes of four, the first and the last, of which the last should be the second
  (sdo.cpp:53, 61): a string of 256 bytes or more is cut to the size that is left, and the
  read of a 263-byte string returns its first seven bytes as done; if that size is 0 or ends
  within a segment the read throws. A written string of that length is announced with a wrong
  size. A string whose size the device does not
  indicate can never be read: `total` stays 0 and 428 throws.
* PdoMapper. A read that fails leaves the object valid (objdict.h:309, 350): later cached reads
  return a value the device never sent, and the next init does not read the object again but
  puts that value into the PDO, which sends it as soon as another object of it is set
  (`OthersAreKept` leaves such objects out). An object whose default in the dictionary is not what
  the device holds is overwritten likewise. A `get` of a sent object reads the device by SDO:
  between a `set` and the next cycle it puts the old value back into the cache, and a
  `set_cached` of that old value is then skipped although the PDO with the other one is on its
  way. A value set between `map()` and `clean()` (pdo.cpp:137-144) waits in the buffer until the
  next one. A received object that is written by SDO reads as written until the next frame.
  Object services that run during a re-initialisation may use buffers that were freed (pdo.cpp:179).
  `check_com_changed` is called with the index of the mapping (pdo.cpp:107), so that changed
  communication parameters alone do not count as a change. A PDO that never came is not
  reported (`timeout` is -1).
* Motor402. A halt between switchState's reading of the state and its store of the target
  (motor.cpp:361-362) is overwritten, and the recover it meant to stop goes on. handleHalt
  reads the state before it waits for `cw_mutex_` (519-520), so that it may demand a quick stop
  of a motor that is known to be in Fault by then, which the comment in line 522 excludes; the
  drive ignores it. A shutdown with a stale state may command nothing and leave an enabling word in
  place (its result is ignored). A halt of a motor that is Switched_On with
  Enable_Operation already commanded leaves the command. Recover right after a halt may
  succeed at once on a stale Operation_Enable. A second fault during one switch may miss the
  reset edge. With the default switching state the mode is changed with the drive enabled;
  one frame without the Halt bit may still be on its way. A drive that still shows
  Attained, from a homing it kept or one that was completed after its time limit, passes the wait
  that is to see it start (motor.cpp:211) at once: executeHoming reports success while the drive
  begins to move, and the switch to No_Mode that follows interrupts it (`hist.unseen`, which
  `HomedIsHome` leaves out).
* SocketCan and SyncNode. `handleShutdown` of the BCMsync takes its own mutex before the
  dispatcher's, the strand takes them in the opposite order: a frame that arrives while the
  stack recovers may stop both threads for good (`Inverted`). After an init that timed out,
  `stop()` may come before run()'s `io_service_.reset()` (asio_base.h:99): the thread never
  ends and the join never returns (`lost`). A start command handled between halt and the
  shutdown of a recover sets `sync_running_`, which `bcm_.shutdown()` leaves TRUE: SYNC is
  not sent again, with the stack Ready, until it is halted. That goes wrong whenever it
  happens, so `SyncFollowsNodes` says of it only what still holds (its first two parts), and
  that nothing else leads to it (`early`). When the write of a halt's `stopTX` fails the
  kernel goes on sending SYNC with no node started, until a recover closes the socket or a
  node is started and stopped (`failed` = "halt"). Completions left in the
  io_service are executed in the next session: two chains of reads, or a healthy driver set
  from ready to open by the failed read of the last one. The detached post thread may have
  seen the socket open before it was closed and store "open" afterwards; a driver that is
  not "closed" is never initialised again, all later attempts fail (`setNotReady` was
  introduced to "prevent enqueue() to switch from closed to open",
  `R/socketcan_interface/CHANGELOG.rst:143`, and does so but for this race). A start command
  for node 0 that comes first makes node 0 known and started, which only a stop for it, for
  all, or a halt takes back. A BCMsync that cannot be initialised again, or a driver that is
  ready only after the second of a recover, leaves the stack in Error with a ready driver;
  handleDiag of the CAN layer then reports no error, and nobody recovers it. A filter that
  cannot be set is a warning: the stack is Ready and hears no frame.
* EMCY (not modelled). An emergency that comes between the read of the error register
  and `has_error_ = false` is forgotten (`R/canopen_master/src/emcy.cpp:138`).
* CanDriver. Frames between a close and the next bind are lost; after a failed bind the read
  never returns; after a failed read the previous frame is decoded again; the node's own
  0x80 frame is taken for vehicle status; zeros are published before the first frame.
* SafeZone. A vertex at the position's height is counted wherever it lies, also left of it or
  where the ray only touches: position (0,1) is reported inside the triangle (0,0) (1,1)
  (2,1). `PublishedIsRight` leaves such positions out.
* TcpLink. The greeting or a document joined with another hides it; a cut one gives two empty
  lists, and an empty list carries one waypoint 0/0 (the loop runs to `i <= waypoints_no`).
  When the server is gone the receiving thread publishes empty lists without a pause and
  never reconnects.

## 8. What is not modelled

* Planned, see section 2: PDO parameters, the EMCY handler, the chain's SYNC masters, heartbeat
  timer and object services.
* Of the SocketCAN driver, sending: the SYNC node does not use it, and `Node` and the others take
  frames for sent. `ThreadedInterface`, which the CAN layer replaces by its own thread; the dummy
  driver, a bus in memory for the repository's tests.
* Pure conversions: EDS parsing, frame and settings strings, filters, the socketcan
  bridge's message conversions, command line tools.
* Floating point geometry: `stanly_method`, `odom_tf`, `state_publisher`, the
  decoders' scaling in `can_driver_rx`.
* Stateless or superseded programs: `uart_driver` (any byte other than '1', the line end
  included, resets the emergency), `just_cpp`, the bridge's forwarding.
* Interface definitions and assets: message packages, URDF, launch files.
