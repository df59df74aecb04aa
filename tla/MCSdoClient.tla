------------------------------ MODULE MCSdoClient -----------------------------
(* Two objects of every kind of size; the bounds are in the .cfg file. *)
EXTENDS SdoClient

\* "word" fits the first frame, "pair" takes two segments, "text" is a string of
\* two segments, of "wide" the device sends more than the client's type holds, and
\* "long" is a string whose size (6 in bytes of 4 values) is read as 2.
word == [dev |-> 1, type |-> 1]
pair == [dev |-> 3, type |-> 3]
text == [dev |-> 3, type |-> 0]
wide == [dev |-> 3, type |-> 1]
long == [dev |-> 6, type |-> 0]

KindsOfObjects ==
  {[a |-> word, b |-> word], [a |-> pair, b |-> text], [a |-> wide, b |-> word],
   [a |-> long, b |-> word]}
===============================================================================
