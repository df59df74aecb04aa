------------------------------- MODULE SafeZone -------------------------------
(***************************************************************************)
(* The safe-zone node: main builds the zone by push_back and then tells,   *)
(* ten times a second, whether the vehicle's position lies inside it.      *)
(* isinner counts the edges of the zone that a ray to the right crosses,   *)
(* in int arithmetic, whose division truncates towards zero.               *)
(*                                                                         *)
(* The position and the vertices are fixed in main; here they range over a *)
(* grid.  int overflow of S[0] * S[2] lies outside the grid.               *)
(***************************************************************************)
EXTENDS Integers, Sequences, FiniteSets

CONSTANTS
  GridMax,  \* bound: coordinates are 0 .. GridMax
  Size      \* POS_MAX, the number of vertices

ASSUME SafeZoneAssumption == GridMax \in Nat /\ Size \in Nat \ {0}

VARIABLES
  vV,             \* the vertices of the zone
  ptPos,          \* the position that is asked about
  safe_zone_msg   \* what was published last: 1 inside, 0 outside, -1 nothing yet

zoneVars == <<vV, ptPos, safe_zone_msg>>

POINT == [x : 0 .. GridMax, y : 0 .. GridMax]

Abs(n) == IF n < 0 THEN -n ELSE n

\* The quotient of two ints.
Quotient(a, b) == IF (a < 0) = (b < 0) THEN Abs(a) \div Abs(b) ELSE -(Abs(a) \div Abs(b))

\* The vertex an edge leads to.
To(v, i) == v[(i % Len(v)) + 1]

\* The edge from vertex i passes the height of p.
Straddles(p, v, i) == (p.y > v[i].y) # (p.y > To(v, i).y)

\* itsPosX, where the edge passes that height.
ItsPosX(p, v, i) ==
  Quotient((To(v, i).x - v[i].x) * (p.y - v[i].y), To(v, i).y - v[i].y) + v[i].x

\* MUTANT of isinner: the zone is left open, j does not wrap around.
isinnerOpen(p, v) ==
  Cardinality({i \in DOMAIN v :
     \/ p.y = v[i].y
     \/ i < Len(v) /\ Straddles(p, v, i) /\ p.x < ItsPosX(p, v, i)}) % 2 # 0

\* A vertex at the height of p counts for itself, and then its edge does not
\* count any more (flag).
isinner(p, v) ==
  Cardinality({i \in DOMAIN v :
     \/ p.y = v[i].y
     \/ Straddles(p, v, i) /\ p.x < ItsPosX(p, v, i)}) % 2 # 0

InitZone == vV = << >> /\ ptPos \in POINT /\ safe_zone_msg = -1

PushBack ==
  /\ Len(vV) < Size
  /\ \E pt \in POINT : vV' = Append(vV, pt)
  /\ UNCHANGED <<ptPos, safe_zone_msg>>

Publish ==
  /\ Len(vV) = Size
  /\ safe_zone_msg' = IF isinner(ptPos, vV) THEN 1 ELSE 0
  /\ UNCHANGED <<vV, ptPos>>

NextZone == PushBack \/ Publish

ZoneSpec == InitZone /\ [][NextZone]_zoneVars

-------------------------------------------------------------------------------
(* Properties                                                              *)

\* Twice the area by which p lies to the left of the edge from vertex i, so
\* oriented that it is positive when the ray from p crosses the edge.
Margin(p, v, i) ==
  LET rise == To(v, i).y - v[i].y
      m    == (To(v, i).x - v[i].x) * (p.y - v[i].y) - (p.x - v[i].x) * rise
  IN IF rise > 0 THEN m ELSE -m

\* The reference: the exact even-odd rule, with edges closed at one end.
Inside(p, v) == Cardinality({i \in DOMAIN v : Straddles(p, v, i) /\ Margin(p, v, i) > 0}) % 2 # 0

\* p is at least one unit away, in x, from every edge it sees, and at no
\* vertex's height.
InGeneralPosition(p, v) ==
  \A i \in DOMAIN v :
     /\ p.y # v[i].y
     /\ Straddles(p, v, i) => Abs(Margin(p, v, i)) >= Abs(To(v, i).y - v[i].y)

\* isinner decides the zone by the even-odd rule for every position in general
\* position, whatever the shape of the zone: the truncating division is off by
\* less than one unit of x.
PublishedIsRight ==
  safe_zone_msg # -1 /\ InGeneralPosition(ptPos, vV)
    => (safe_zone_msg = 1) = Inside(ptPos, vV)
===============================================================================
