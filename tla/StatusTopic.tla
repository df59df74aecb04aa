------------------------------ MODULE StatusTopic ------------------------------
(***************************************************************************)
(* What the can_driver node promises its subscribers: the status topic is  *)
(* a register.  A frame of the vehicle replaces a whole part of the        *)
(* status, and a message that is published shows the status of one         *)
(* moment.  No thread, mutex, socket or failing call is seen here.         *)
(***************************************************************************)
EXTENDS Integers

CONSTANT Numbers

VARIABLES
  value,  \* the status: the last position and the last acceleration
  shown   \* the message that was published last

vars == <<value, shown>>

Number == 0 .. Numbers - 1

Message(v) == [longitude |-> v.pos, latitude |-> v.pos, car_acc |-> v.acc]

Init ==
  /\ value = [pos |-> 0, acc |-> 0]
  /\ shown = Message(value)

Position(n) ==
  /\ value' = [value EXCEPT !.pos = n]
  /\ UNCHANGED shown

Control(n) ==
  /\ value' = [value EXCEPT !.acc = n]
  /\ UNCHANGED shown

Publish ==
  /\ shown' = Message(value)
  /\ UNCHANGED value

Next == Publish \/ \E n \in Number : Position(n) \/ Control(n)

Spec == Init /\ [][Next]_vars
===============================================================================
