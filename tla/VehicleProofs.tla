---------------------------- MODULE VehicleProofs ----------------------------
(***************************************************************************)
(* The vehicle's own nodes: the safety properties of CanDriver for any     *)
(* number of frames and of failing system calls, and SafeZone's for any    *)
(* grid and any number of vertices.                                        *)
(*                                                                         *)
(* For CanDriver the strengthening IInv says what each thread owns: the    *)
(* mutex, the message while it is half decoded or half serialised, and its *)
(* socket.                                                                 *)
(***************************************************************************)
EXTENDS CanDriver, SafeZone, TLAPS

\* The mutex is held exactly from the lock to the unlock.
Locked ==
  /\ mutex = "rx" <=> rx \in {"decode", "decode2", "unlock"}
  /\ mutex = "main" <=> tx \in {"publish", "publish2", "unlock"}

\* The message holds one position except between the two assignments, and what
\* is serialised first is still in the message when the rest is.
Whole ==
  /\ rx # "decode2" => msg.longitude = msg.latitude
  /\ rx = "decode2" => msg.longitude = frame.n
  /\ tx = "publish2" => pub.longitude = msg.longitude
  /\ PositionIsWhole

RxFds == IF sock = "none" THEN 0 ELSE 1
TxFds == IF tx \in {"bind", "write", "close"} THEN 1 ELSE 0

\* Every socket is one a thread is using, or was given up by a call that failed.
Counted ==
  /\ rx = "open" => sock = "none"
  /\ RxFds + TxFds <= fds
  /\ fds <= RxFds + TxFds + errors

IInv == TypeOK /\ Locked /\ Whole /\ Counted

-------------------------------------------------------------------------------

LEMMA InitIInv == ASSUME CanDriverAssumption PROVE Init => IInv
  BY Z3T(30) DEF CanDriverAssumption, Init, IInv, TypeOK, Locked, Whole, PositionIsWhole,
    Counted, RxFds, TxFds, Number, Frames, Status, Zero, UNKNOWN, POS, CTRL

LEMMA VehicleIInv == ASSUME CanDriverAssumption, IInv, VehicleSends PROVE IInv'
<1> USE DEF CanDriverAssumption, IInv, VehicleSends
<1>1. (bus + 1) % Numbers \in Number
  BY DEF TypeOK, Number
<1>2. TypeOK'
  BY <1>1 DEF TypeOK, Deliver, Frames
<1>3. Locked' /\ Whole' /\ Counted'
  BY DEF Locked, Whole, PositionIsWhole, Counted, RxFds, TxFds
<1> QED BY <1>2, <1>3

LEMMA RxIInv == ASSUME CanDriverAssumption, IInv, Rx PROVE IInv'
<1> USE DEF CanDriverAssumption, IInv, TypeOK, Locked, Whole, PositionIsWhole, Counted,
            RxFds, TxFds, Fails
<1>1. CASE RxOpen
  BY <1>1 DEF RxOpen
<1>2. CASE RxBind
  BY <1>2 DEF RxBind
<1>3. CASE RxRead
  BY <1>3 DEF RxRead
<1>4. CASE RxLock
  BY <1>4 DEF RxLock
<1>5. CASE RxDecode
  BY <1>5 DEF RxDecode, Frames, Status
<1>6. CASE RxDecode2
  BY <1>6 DEF RxDecode2, Frames, Status
<1>7. CASE RxUnlock
  BY <1>7 DEF RxUnlock
<1>8. CASE RxClose
  BY <1>8 DEF RxClose
<1> QED
  BY <1>1, <1>2, <1>3, <1>4, <1>5, <1>6, <1>7, <1>8 DEF Rx

LEMMA MainIInv == ASSUME CanDriverAssumption, IInv, Main PROVE IInv'
<1> USE DEF CanDriverAssumption, IInv, TypeOK, Locked, Whole, PositionIsWhole, Counted,
            RxFds, TxFds, Fails
<1>1. CASE MainLock
  BY <1>1 DEF MainLock
<1>2. CASE MainPublish
  BY <1>2 DEF MainPublish, Status
<1>3. CASE MainPublish2
  BY <1>3 DEF MainPublish2, Status
<1>4. CASE MainUnlock
  BY <1>4 DEF MainUnlock
<1>5. CASE TxSocket
  BY <1>5 DEF TxSocket
<1>6. CASE TxBind
  BY <1>6 DEF TxBind
<1>7. CASE TxWrite
  <2>1. [id |-> CTRL, n |-> 0] \in Frames
    BY DEF Frames, Number, CTRL
  <2>2. queue' \subseteq Frames
    BY <1>7, <2>1 DEF TxWrite, Deliver
  <2> QED
    BY <1>7, <2>2 DEF TxWrite
<1>8. CASE TxClose
  BY <1>8 DEF TxClose
<1>9. CASE MainSleep
  BY <1>9 DEF MainSleep
<1> QED
  BY <1>1, <1>2, <1>3, <1>4, <1>5, <1>6, <1>7, <1>8, <1>9 DEF Main

LEMMA NextIInv == ASSUME CanDriverAssumption, IInv, [Next]_vars PROVE IInv'
<1>1. CASE UNCHANGED vars
  BY <1>1 DEF vars, IInv, TypeOK, Locked, Whole, PositionIsWhole, Counted, RxFds, TxFds
<1> QED
  BY <1>1, VehicleIInv, RxIInv, MainIInv DEF Next

\* The node's state keeps its types; a socket's count never goes below zero.
THEOREM CanDriverTypeOK == ASSUME CanDriverAssumption PROVE Spec => []TypeOK
<1>1. Init => IInv BY InitIInv
<1>2. IInv /\ [Next]_vars => IInv' BY NextIInv
<1>3. IInv => TypeOK BY DEF IInv
<1> QED BY <1>1, <1>2, <1>3, PTL DEF Spec

\* A position that is published comes from one frame, for any traffic on the bus.
THEOREM PositionIsWholeHolds == ASSUME CanDriverAssumption PROVE Spec => []PositionIsWhole
<1>1. Init => IInv BY InitIInv
<1>2. IInv /\ [Next]_vars => IInv' BY NextIInv
<1>3. IInv => PositionIsWhole BY DEF IInv, Whole
<1> QED BY <1>1, <1>2, <1>3, PTL DEF Spec

\* Each call that fails leaks at most one socket, and nothing else leaks any.
THEOREM SocketsAreClosedHolds == ASSUME CanDriverAssumption PROVE Spec => []SocketsAreClosed
<1>1. Init => IInv BY InitIInv
<1>2. IInv /\ [Next]_vars => IInv' BY NextIInv
<1>3. IInv => SocketsAreClosed
  BY DEF IInv, Counted, SocketsAreClosed, RxFds, TxFds, TypeOK
<1> QED BY <1>1, <1>2, <1>3, PTL DEF Spec

-------------------------------------------------------------------------------
(* Refinement: a position is decoded by RxDecode2, an acceleration by        *)
(* RxDecode and a message is published by MainPublish2; every other step     *)
(* leaves the register and the topic as they are.                            *)

LEMMA RxImplements ==
  ASSUME IInv, Rx
  PROVE  UNCHANGED topic!vars \/ \E n \in topic!Number : topic!Position(n) \/ topic!Control(n)
<1> USE DEF topic!vars, topic!Position, topic!Control
<1>1. CASE RxDecode
  <2>1. CASE frame.id = CTRL
    <3>1. msg' = [msg EXCEPT !.car_acc = frame.n]
      BY <1>1, <2>1 DEF RxDecode, CTRL, POS, UNKNOWN
    <3>2. frame.n \in topic!Number
      BY DEF IInv, TypeOK, Frames, Number, topic!Number
    <3>3. topic!Control(frame.n)
      BY <1>1, <3>1 DEF RxDecode, IInv, TypeOK, Status
    <3> QED BY <3>2, <3>3
  <2>2. CASE frame.id # CTRL
    BY <1>1, <2>2 DEF RxDecode, IInv, TypeOK, Status
  <2> QED BY <2>1, <2>2
<1>2. CASE RxDecode2
  <2>1. frame.n \in topic!Number
    BY DEF IInv, TypeOK, Frames, Number, topic!Number
  <2>2. topic!Position(frame.n)
    BY <1>2 DEF RxDecode2, IInv, TypeOK, Status
  <2> QED BY <2>1, <2>2
<1>3. CASE RxOpen \/ RxBind \/ RxRead \/ RxLock \/ RxUnlock \/ RxClose
  BY <1>3 DEF RxOpen, RxBind, RxRead, RxLock, RxUnlock, RxClose
<1> QED BY <1>1, <1>2, <1>3 DEF Rx

\* What was serialised first is still the message's position when the rest is.
LEMMA MainImplements ==
  ASSUME IInv, Main
  PROVE  UNCHANGED topic!vars \/ topic!Publish
<1> USE DEF topic!vars, topic!Publish, topic!Message
<1>1. CASE MainPublish
  BY <1>1 DEF MainPublish, IInv, Whole, PositionIsWhole, TypeOK, Status
<1>2. CASE MainPublish2
  <2>1. pub.longitude = msg.latitude
    BY <1>2 DEF MainPublish2, IInv, Whole, Locked
  <2>2. topic!Publish
    BY <1>2, <2>1 DEF MainPublish2, IInv, TypeOK, Status
  <2> QED BY <2>2
<1>3. CASE MainLock \/ MainUnlock \/ TxSocket \/ TxBind \/ TxWrite \/ TxClose \/ MainSleep
  BY <1>3 DEF MainLock, MainUnlock, TxSocket, TxBind, TxWrite, TxClose, MainSleep
<1> QED BY <1>1, <1>2, <1>3 DEF Main

\* For any traffic and any failing calls the status topic is a register: each
\* message shows the status of one moment, made of whole frames.
THEOREM ImplementsTopic == ASSUME CanDriverAssumption PROVE Spec => TopicIsRegister
<1>1. Init => IInv BY InitIInv
<1>2. IInv /\ [Next]_vars => IInv' BY NextIInv
<1>3. Init => topic!Init
  BY DEF Init, topic!Init, topic!Message, Zero
<1>4. IInv /\ [Next]_vars => [topic!Next]_(topic!vars)
  <2> SUFFICES ASSUME IInv, [Next]_vars PROVE topic!Next \/ UNCHANGED topic!vars
    OBVIOUS
  <2>1. CASE VehicleSends \/ UNCHANGED vars
    BY <2>1 DEF VehicleSends, vars, topic!vars
  <2>2. CASE Rx
    BY <2>2, RxImplements DEF topic!Next
  <2>3. CASE Main
    BY <2>3, MainImplements DEF topic!Next
  <2> QED BY <2>1, <2>2, <2>3 DEF Next
<1> QED BY <1>1, <1>2, <1>3, <1>4, PTL DEF Spec, TopicIsRegister, topic!Spec

-------------------------------------------------------------------------------
(* SafeZone.  Both ways of counting see the same edges: the quotient that  *)
(* isinner compares with is off by less than one, and in general position  *)
(* the ray's margin is at least that.                                      *)

\* Multiplication keeps the order.
LEMMA Times ==
  ASSUME NEW x \in Int, NEW y \in Int, NEW b \in Nat \ {0}, x <= y
  PROVE  x * b <= y * b
OBVIOUS

\* What is left of a division is smaller than the divisor.
LEMMA Division ==
  ASSUME NEW a \in Nat, NEW b \in Nat \ {0}
  PROVE  /\ a \div b \in Nat
         /\ (a \div b) * b <= a /\ a < (a \div b) * b + b
OBVIOUS

\* Rounded up or down, a quotient is off by less than one.
LEMMA Rounding ==
  ASSUME NEW a \in Int, NEW b \in Nat \ {0}, NEW n \in Int
  PROVE  /\ Quotient(a, b) \in Int /\ Quotient(-a, -b) = Quotient(a, b)
         /\ a >= n * b + b => n < Quotient(a, b)
         /\ a <= n * b - b => ~(n < Quotient(a, b))
<1>1. CASE a >= 0
  <2> DEFINE q == a \div b
  <2>1. q \in Nat /\ q * b <= a /\ a < q * b + b
    BY <1>1, Division
  <2>2. Quotient(a, b) = q
    BY <1>1 DEF Quotient, Abs
  <2>3. Quotient(-a, -b) = q
    BY <1>1, <2>1, Division DEF Quotient, Abs
  <2> HIDE DEF q
  <2>4. q <= n => q * b <= n * b
    BY <2>1, Times
  <2>5. n < q => n * b <= q * b
    BY <2>1, Times
  <2> QED
    BY <2>1, <2>2, <2>3, <2>4, <2>5
<1>2. CASE a < 0
  <2> DEFINE k == (-a) \div b
  <2>1. k \in Nat /\ k * b <= -a /\ -a < k * b + b
    BY <1>2, Division
  <2>2. Quotient(a, b) = -k
    BY <1>2 DEF Quotient, Abs
  <2>3. Quotient(-a, -b) = -k
    BY <1>2 DEF Quotient, Abs
  <2> HIDE DEF k
  <2>4. -k <= n => (-k) * b <= n * b
    BY <2>1, Times
  <2>5. n + 1 <= -k => (n + 1) * b <= (-k) * b
    BY <2>1, Times
  <2>6. (-k) * b = -(k * b) /\ (n + 1) * b = n * b + b
    BY <2>1
  <2> QED
    BY <2>1, <2>2, <2>3, <2>4, <2>5, <2>6
<1> QED
  BY <1>1, <1>2

\* An edge the ray meets a unit away from p crosses the ray for isinner if and only
\* if it does.
LEMMA EdgeIsRight ==
  ASSUME NEW p \in POINT, NEW v \in Seq(POINT), NEW i \in DOMAIN v,
         Straddles(p, v, i),
         Abs(Margin(p, v, i)) >= Abs(To(v, i).y - v[i].y)
  PROVE  p.x < ItsPosX(p, v, i) <=> Margin(p, v, i) > 0
<1> DEFINE rise == To(v, i).y - v[i].y
           a == (To(v, i).x - v[i].x) * (p.y - v[i].y)
           n == p.x - v[i].x
           m == n * rise
<1>1. v[i] \in POINT /\ To(v, i) \in POINT
  <2>1. (i % Len(v)) + 1 \in DOMAIN v
    OBVIOUS
  <2> QED
    BY <2>1 DEF To
<1>2. rise \in Int /\ rise # 0 /\ a \in Int /\ n \in Int /\ p.x \in Int /\ v[i].x \in Int
  <2>1. /\ To(v, i).x \in Int /\ To(v, i).y \in Int /\ v[i].x \in Int /\ v[i].y \in Int
        /\ p.x \in Int /\ p.y \in Int
    BY <1>1 DEF POINT
  <2>2. To(v, i).y # v[i].y
    BY <2>1 DEF Straddles
  <2>3. rise \in Int /\ n \in Int /\ rise # 0
    BY <2>1, <2>2
  <2>4. a \in Int
    BY <2>1
  <2> QED
    BY <2>1, <2>3, <2>4
<1>3. ItsPosX(p, v, i) = Quotient(a, rise) + v[i].x
  BY DEF ItsPosX
<1>4. Margin(p, v, i) = IF rise > 0 THEN a - m ELSE -(a - m)
  BY DEF Margin
<1>5. Abs(Margin(p, v, i)) >= Abs(rise)
  OBVIOUS
<1> HIDE DEF rise, a, n
<1>6. m \in Int
  BY <1>2
<1> HIDE DEF m
<1>7. CASE rise > 0
  <2>1. /\ Quotient(a, rise) \in Int
        /\ a >= m + rise => n < Quotient(a, rise)
        /\ a <= m - rise => ~(n < Quotient(a, rise))
    <3>1. rise \in Nat \ {0}
      BY <1>2, <1>7
    <3> QED
      BY <1>2, <3>1, Rounding DEF m
  <2>2. p.x < ItsPosX(p, v, i) <=> n < Quotient(a, rise)
    BY <1>2, <1>3, <2>1 DEF n
  <2> QED
    BY <1>2, <1>4, <1>5, <1>7, <1>6, <2>1, <2>2 DEF Abs
<1>8. CASE rise < 0
  <2> DEFINE b == -rise
             c == -a
  <2>1. b \in Nat \ {0} /\ c \in Int /\ n * b = -m /\ -b = rise /\ -c = a
    BY <1>2, <1>8 DEF m
  <2> HIDE DEF b, c
  <2>2. /\ Quotient(c, b) \in Int /\ Quotient(a, rise) = Quotient(c, b)
        /\ c >= -m + b => n < Quotient(c, b)
        /\ c <= -m - b => ~(n < Quotient(c, b))
    BY <1>2, <2>1, Rounding
  <2>3. p.x < ItsPosX(p, v, i) <=> n < Quotient(a, rise)
    BY <1>2, <1>3, <2>2 DEF n
  <2> QED
    BY <1>2, <1>4, <1>5, <1>8, <1>6, <2>1, <2>2, <2>3 DEF Abs
<1> QED
  BY <1>2, <1>7, <1>8

\* isinner decides a position in general position by the even-odd rule.
LEMMA IsinnerIsInside ==
  ASSUME NEW p \in POINT, NEW v \in Seq(POINT), InGeneralPosition(p, v)
  PROVE  isinner(p, v) = Inside(p, v) /\ isinner(p, v) \in BOOLEAN
<1> DEFINE Crossed == {i \in DOMAIN v : \/ p.y = v[i].y
                                        \/ /\ Straddles(p, v, i)
                                           /\ p.x < ItsPosX(p, v, i)}
           LeftOf == {i \in DOMAIN v : Straddles(p, v, i) /\ Margin(p, v, i) > 0}
<1>1. Crossed = LeftOf
  <2>1. ASSUME NEW i \in DOMAIN v
        PROVE  (p.y = v[i].y \/ (Straddles(p, v, i) /\ p.x < ItsPosX(p, v, i)))
                 <=> (Straddles(p, v, i) /\ Margin(p, v, i) > 0)
    BY <2>1, EdgeIsRight DEF InGeneralPosition
  <2> QED
    BY <2>1
<1> QED
  BY <1>1 DEF isinner, Inside

\* Only a whole zone is asked about, and none is changed after it was.
Asked == safe_zone_msg # -1 => Len(vV) = Size

ZoneInv == vV \in Seq(POINT) /\ ptPos \in POINT /\ Asked /\ PublishedIsRight

\* For every grid and every number of vertices, whatever the shape of the zone: what is
\* published is what the even-odd rule says, for positions in general position.
THEOREM PublishedIsRightHolds == ZoneSpec => []PublishedIsRight
<1>1. InitZone => ZoneInv
  BY DEF InitZone, ZoneInv, Asked, PublishedIsRight
<1>2. ASSUME ZoneInv, [NextZone]_zoneVars PROVE ZoneInv'
  <2>1. CASE PushBack
    <3>1. PICK pt \in POINT : vV' = Append(vV, pt)
      BY <2>1 DEF PushBack
    <3>2. safe_zone_msg = -1
      BY <1>2, <2>1 DEF ZoneInv, Asked, PushBack
    <3> QED
      BY <1>2, <2>1, <3>1, <3>2 DEF ZoneInv, Asked, PublishedIsRight, PushBack
  <2>2. CASE Publish
    <3>1. vV' = vV /\ ptPos' = ptPos /\ Asked'
      BY <1>2, <2>2 DEF ZoneInv, Asked, Publish
    <3>2. safe_zone_msg' = IF isinner(ptPos, vV) THEN 1 ELSE 0
      BY <2>2 DEF Publish
    <3>3. ASSUME InGeneralPosition(ptPos, vV)
          PROVE  (safe_zone_msg' = 1) = Inside(ptPos, vV)
      <4>1. /\ isinner(ptPos, vV) = Inside(ptPos, vV)
            /\ isinner(ptPos, vV) \in BOOLEAN
        BY <1>2, <3>3, IsinnerIsInside DEF ZoneInv
      <4> QED
        BY <3>2, <4>1
    <3>4. PublishedIsRight'
      BY <3>1, <3>3 DEF PublishedIsRight
    <3> QED
      BY <1>2, <3>1, <3>4 DEF ZoneInv
  <2>3. CASE UNCHANGED zoneVars
    BY <1>2, <2>3 DEF ZoneInv, Asked, PublishedIsRight, zoneVars
  <2> QED
    BY <1>2, <2>1, <2>2, <2>3 DEF NextZone
<1>3. ZoneInv => PublishedIsRight
  BY DEF ZoneInv
<1> QED
  BY <1>1, <1>2, <1>3, PTL DEF ZoneSpec
===============================================================================
