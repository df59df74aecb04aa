------------------------------- MODULE CanDriver ------------------------------
(***************************************************************************)
(* The can_driver node between the vehicle's CAN bus and ROS.              *)
(*                                                                         *)
(* The receiving thread (rxcan) opens a socket for every single frame,     *)
(* decodes the frame into the status message and closes the socket; the    *)
(* main loop publishes the message under the same mutex and then sends a   *)
(* command frame through a socket of its own (txcan), which the kernel     *)
(* hands to the receiving thread's socket too.                             *)
(*                                                                         *)
(* A frame is its identifier and the number it carries as its data.  Of    *)
(* the nine identifiers that are decoded two are kept: the GPS position,   *)
(* which fills two fields, and the vehicle's control status, whose         *)
(* identifier is the one of the command frame.  A third is not decoded.    *)
(***************************************************************************)
EXTENDS Integers

CONSTANTS
  Numbers,   \* bound: frames are numbered modulo Numbers
  MaxErrors  \* bound: system calls that fail

ASSUME CanDriverAssumption == Numbers \in Nat \ {0} /\ MaxErrors \in Nat

VARIABLES
  bus,     \* the number of the vehicle's next position frame
  sock,    \* the receiving socket
  queue,   \* the frame read from it next, if one has come
  frame,   \* frame
  msg,     \* msg
  mutex,   \* the holder of mutex
  rx,      \* where the receiving thread is
  tx,      \* where the main thread is
  pub,     \* the message that is published, as far as it is written
  fds,     \* open sockets
  errors   \* history: system calls that failed

vars == <<bus, sock, queue, frame, msg, mutex, rx, tx, pub, fds, errors>>

POS   == "pos"    \* 0x175
CTRL  == "ctrl"   \* 0x80
UNKNOWN == "other" \* an identifier check_id does not know

Number == 0 .. Numbers - 1
Frames == [id : {POS, CTRL, UNKNOWN}, n : Number]

Status == [longitude : Number, latitude : Number, car_acc : Number]
Zero   == [longitude |-> 0, latitude |-> 0, car_acc |-> 0]

Init ==
  /\ bus = 1 % Numbers
  /\ sock = "none" /\ queue = {}
  /\ frame = [id |-> UNKNOWN, n |-> 0]   \* zeroed, so its identifier is 0
  /\ msg = Zero
  /\ mutex = "free"
  /\ rx = "open" /\ tx = "lock"
  /\ pub = Zero
  /\ fds = 0
  /\ errors = 0

-------------------------------------------------------------------------------
(* The bus                                                                 *)

\* A frame reaches the receiving socket.  Only the first frame is ever read
\* from a socket, and without a bound socket the frame is lost.
Deliver(f) == IF sock = "bound" /\ queue = {} THEN {f} ELSE queue

VehicleSends ==
  /\ \E id \in {POS, CTRL, UNKNOWN} :
        /\ queue' = Deliver([id |-> id, n |-> bus])
        /\ bus' = (bus + 1) % Numbers
  /\ UNCHANGED <<sock, frame, msg, mutex, rx, tx, pub, fds, errors>>

-------------------------------------------------------------------------------
(* rxcan and check_id                                                      *)

Fails == errors < MaxErrors /\ errors' = errors + 1

\* No failure ends the loop: it goes on with a descriptor that does not work.
RxOpen ==
  /\ rx = "open"
  /\ \/ sock' = "unbound" /\ fds' = fds + 1 /\ UNCHANGED errors
     \/ sock' = "none" /\ Fails /\ UNCHANGED fds
  /\ rx' = "bind"
  /\ UNCHANGED <<bus, queue, frame, msg, mutex, tx, pub>>

RxBind ==
  /\ rx = "bind"
  /\ \/ sock = "unbound" /\ sock' = "bound" /\ UNCHANGED errors
     \/ sock = "unbound" /\ Fails /\ UNCHANGED sock
     \/ sock = "none" /\ UNCHANGED <<sock, errors>>
  /\ rx' = "read"
  /\ UNCHANGED <<bus, queue, frame, msg, mutex, tx, pub, fds>>

\* Reading waits for a frame, for ever if the socket could not be bound.  A read
\* that fails leaves the old frame in place, and it is decoded again.
RxRead ==
  /\ rx = "read"
  /\ \/ frame' \in queue /\ UNCHANGED errors
     \/ sock = "none" /\ UNCHANGED <<frame, errors>>
     \/ sock = "bound" /\ Fails /\ UNCHANGED frame
  /\ rx' = "lock"
  /\ UNCHANGED <<bus, sock, queue, msg, mutex, tx, pub, fds>>

\* MUTANT of RxLock: only the main loop takes the mutex.
RxLockNot ==
  /\ rx = "lock"
  /\ rx' = "decode"
  /\ UNCHANGED <<bus, sock, queue, frame, msg, mutex, tx, pub, fds, errors>>

RxLock ==
  /\ rx = "lock"
  /\ mutex = "free"
  /\ mutex' = "rx"
  /\ rx' = "decode"
  /\ UNCHANGED <<bus, sock, queue, frame, msg, tx, pub, fds, errors>>

\* gps_pos assigns two fields, one after the other.
RxDecode ==
  /\ rx = "decode"
  /\ \/ frame.id = POS /\ msg' = [msg EXCEPT !.longitude = frame.n] /\ rx' = "decode2"
     \/ frame.id = CTRL /\ msg' = [msg EXCEPT !.car_acc = frame.n] /\ rx' = "unlock"
     \/ frame.id = UNKNOWN /\ rx' = "unlock" /\ UNCHANGED msg
  /\ UNCHANGED <<bus, sock, queue, frame, mutex, tx, pub, fds, errors>>

RxDecode2 ==
  /\ rx = "decode2"
  /\ msg' = [msg EXCEPT !.latitude = frame.n]
  /\ rx' = "unlock"
  /\ UNCHANGED <<bus, sock, queue, frame, mutex, tx, pub, fds, errors>>

\* MUTANT of RxUnlock: check_id returns early for an identifier it does not know.
RxUnlockKnown ==
  /\ rx = "unlock"
  /\ mutex' = IF frame.id = UNKNOWN THEN mutex ELSE "free"
  /\ rx' = "close"
  /\ UNCHANGED <<bus, sock, queue, frame, msg, tx, pub, fds, errors>>

RxUnlock ==
  /\ rx = "unlock"
  /\ mutex' = "free"
  /\ rx' = "close"
  /\ UNCHANGED <<bus, sock, queue, frame, msg, tx, pub, fds, errors>>

\* MUTANT of RxClose: a frame that is not decoded is skipped with "continue".
RxCloseKnown ==
  /\ rx = "close"
  /\ fds' = IF sock = "none" \/ frame.id = UNKNOWN THEN fds ELSE fds - 1
  /\ sock' = "none" /\ queue' = {}
  /\ rx' = "open"
  /\ UNCHANGED <<bus, frame, msg, mutex, tx, pub, errors>>

\* MUTANT of RxClose: a socket that could not be opened leaves the old descriptor
\* in s, which is closed a second time.
RxCloseAgain ==
  /\ rx = "close"
  /\ fds' = fds - 1
  /\ sock' = "none" /\ queue' = {}
  /\ rx' = "open"
  /\ UNCHANGED <<bus, frame, msg, mutex, tx, pub, errors>>

\* close fails on a socket that could not be opened, and on no other.
RxClose ==
  /\ rx = "close"
  /\ fds' = IF sock = "none" THEN fds ELSE fds - 1
  /\ sock' = "none" /\ queue' = {}
  /\ rx' = "open"
  /\ UNCHANGED <<bus, frame, msg, mutex, tx, pub, errors>>

Rx == RxOpen \/ RxBind \/ RxRead \/ RxLock \/ RxDecode \/ RxDecode2 \/ RxUnlock \/ RxClose

-------------------------------------------------------------------------------
(* main and txcan                                                          *)

\* MUTANT of MainLock: the message is published without the mutex.
MainLockNot ==
  /\ tx = "lock"
  /\ tx' = "publish"
  /\ UNCHANGED <<bus, sock, queue, frame, msg, mutex, rx, pub, fds, errors>>

MainLock ==
  /\ tx = "lock"
  /\ mutex = "free"
  /\ mutex' = "main"
  /\ tx' = "publish"
  /\ UNCHANGED <<bus, sock, queue, frame, msg, rx, pub, fds, errors>>

\* publish serialises the message field by field.
MainPublish ==
  /\ tx = "publish"
  /\ pub' = [pub EXCEPT !.longitude = msg.longitude]
  /\ tx' = "publish2"
  /\ UNCHANGED <<bus, sock, queue, frame, msg, mutex, rx, fds, errors>>

MainPublish2 ==
  /\ tx = "publish2"
  /\ pub' = [pub EXCEPT !.latitude = msg.latitude, !.car_acc = msg.car_acc]
  /\ tx' = "unlock"
  /\ UNCHANGED <<bus, sock, queue, frame, msg, mutex, rx, fds, errors>>

MainUnlock ==
  /\ tx = "unlock"
  /\ mutex' = "free"
  /\ tx' = "socket"
  /\ UNCHANGED <<bus, sock, queue, frame, msg, rx, pub, fds, errors>>

TxSocket ==
  /\ tx = "socket"
  /\ \/ fds' = fds + 1 /\ tx' = "bind" /\ UNCHANGED errors
     \/ Fails /\ tx' = "sleep" /\ UNCHANGED fds
  /\ UNCHANGED <<bus, sock, queue, frame, msg, mutex, rx, pub>>

\* txcan returns without closing its socket when bind or write fails.
TxBind ==
  /\ tx = "bind"
  /\ \/ tx' = "write" /\ UNCHANGED errors
     \/ Fails /\ tx' = "sleep"
  /\ UNCHANGED <<bus, sock, queue, frame, msg, mutex, rx, pub, fds>>

\* The command 0x80 carries 0 (nothing ever sets test_flag: the subscriber of
\* monitor_comm_callback is never created).
TxWrite ==
  /\ tx = "write"
  /\ \/ queue' = Deliver([id |-> CTRL, n |-> 0]) /\ tx' = "close" /\ UNCHANGED errors
     \/ Fails /\ tx' = "sleep" /\ UNCHANGED queue
  /\ UNCHANGED <<bus, sock, frame, msg, mutex, rx, pub, fds>>

TxClose ==
  /\ tx = "close"
  /\ fds' = fds - 1
  /\ tx' = "sleep"
  /\ UNCHANGED <<bus, sock, queue, frame, msg, mutex, rx, pub, errors>>

MainSleep ==
  /\ tx = "sleep"
  /\ tx' = "lock"
  /\ UNCHANGED <<bus, sock, queue, frame, msg, mutex, rx, pub, fds, errors>>

Main ==
  \/ MainLock \/ MainPublish \/ MainPublish2 \/ MainUnlock
  \/ TxSocket \/ TxBind \/ TxWrite \/ TxClose \/ MainSleep

Next == VehicleSends \/ Rx \/ Main

Spec == Init /\ [][Next]_vars

\* Both threads are scheduled, and a mutex that is free again and again is got
\* at last.  The vehicle need not send anything and no call need fail, so a read
\* may wait for ever.
FairSpec ==
  /\ Spec
  /\ WF_vars(Rx /\ errors' = errors) /\ WF_vars(Main /\ errors' = errors)
  /\ SF_vars(MainLock)

-------------------------------------------------------------------------------
(* Properties                                                              *)

TypeOK ==
  /\ bus \in Number
  /\ sock \in {"none", "unbound", "bound"}
  /\ queue \subseteq Frames
  /\ frame \in Frames
  /\ msg \in Status /\ pub \in Status
  /\ mutex \in {"free", "rx", "main"}
  /\ rx \in {"open", "bind", "read", "lock", "decode", "decode2", "unlock", "close"}
  /\ tx \in {"lock", "publish", "publish2", "unlock", "socket", "bind", "write", "close", "sleep"}
  /\ fds \in Nat
  /\ errors \in 0 .. MaxErrors

\* A position that is published is one the vehicle sent (or the zeros before the
\* first): its longitude and its latitude come from the same frame, whatever the
\* receiving thread decodes while the message is serialised.
PositionIsWhole == tx # "publish2" => pub.longitude = pub.latitude

\* A position is decoded with its second field, a message published with its last
\* one; until then the topic shows the message before.
topic == INSTANCE StatusTopic WITH
  value <- [pos |-> msg.latitude, acc |-> msg.car_acc],
  shown <- [pub EXCEPT !.longitude = IF tx = "publish2" THEN pub.latitude ELSE @]

\* The node implements the register its subscribers see: every message shows the
\* status of one moment, the whole frames decoded until then and no other, with
\* two threads, sockets and failing calls behind it.
TopicIsRegister == topic!Spec

\* Opening a socket for every frame leaks none: there is at most one of each
\* thread, and one more for every call of txcan that failed.
SocketsAreClosed == fds <= 2 + errors

\* The main loop publishes for ever, however many frames keep the receiving
\* thread and the mutex busy and whatever fails.
PublishesForever == []<>(tx = "sleep")
===============================================================================
