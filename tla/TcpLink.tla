-------------------------------- MODULE TcpLink --------------------------------
(***************************************************************************)
(* The TCP link between the control station (server_folder/server.cpp) and *)
(* the vehicle's tcp_client node.                                          *)
(*                                                                         *)
(* The server greets, then takes a status from the client and answers it   *)
(* with the waypoint document data0.json, over and over.  The client's     *)
(* main loop sends a status every two seconds and does not wait for the    *)
(* answer; its receiving thread publishes the waypoint list it finds in    *)
(* whatever one recv returns.                                              *)
(*                                                                         *)
(* TCP is a stream: a status and a document are two units each, which recv *)
(* may cut or join anywhere, and send waits unit by unit for room.         *)
(***************************************************************************)
EXTENDS Naturals, Sequences

CONSTANTS
  Docs,      \* bound: how often data0.json is written
  Room,      \* units in flight in one direction
  BufUnits   \* units that fit the client's buffer

ASSUME TcpLinkAssumption == {Docs, Room, BufUnits} \subseteq Nat \ {0}

VARIABLES
  srv,     \* where the server is
  main,    \* where the client's main thread is
  rx,      \* where the client's receiving thread is
  doc,     \* data0.json, as its number
  unsent,  \* units of the document the server is sending
  status,  \* units of the status the client is sending
  toCli,   \* units in flight to the client
  toSrv,   \* units in flight to the server
  buf,     \* buf
  pub      \* the waypoint list published last

vars == <<srv, main, rx, doc, unsent, status, toCli, toSrv, buf, pub>>

Unit  == [doc : 0 .. Docs, half : {1, 2}]
Hello == [doc |-> 0, half |-> 2]   \* "Hello World!": no document begins with it

\* A list is the documents its two halves come from.
Lists  == (0 .. Docs) \X (0 .. Docs)
NoList == <<0, 0>>                \* waypoint_no 0, and one waypoint of zeros

Init ==
  /\ srv = "off" /\ main = "connect" /\ rx = "off"
  /\ doc = 1
  /\ unsent = << >> /\ status = 0
  /\ toCli = << >> /\ toSrv = 0
  /\ buf = << >>
  /\ pub = NoList

-------------------------------------------------------------------------------
(* The server                                                              *)

SrvListen ==
  /\ srv = "off" /\ srv' = "accept"
  /\ UNCHANGED <<main, rx, doc, unsent, status, toCli, toSrv, buf, pub>>

SrvHello ==
  /\ srv = "accept" /\ main # "connect"
  /\ toCli' = Append(toCli, Hello)
  /\ srv' = "recv"
  /\ UNCHANGED <<main, rx, doc, unsent, status, toSrv, buf, pub>>

\* Any part of a status will do.
SrvRecv ==
  /\ srv = "recv"
  /\ \E k \in 1 .. 2 : k <= toSrv /\ toSrv' = toSrv - k
  /\ srv' = "read"
  /\ UNCHANGED <<main, rx, doc, unsent, status, toCli, buf, pub>>

SrvRead ==
  /\ srv = "read"
  /\ unsent' = <<[doc |-> doc, half |-> 1], [doc |-> doc, half |-> 2]>>
  /\ srv' = "send"
  /\ UNCHANGED <<main, rx, doc, status, toCli, toSrv, buf, pub>>

SrvSend ==
  /\ srv = "send"
  /\ Len(toCli) < Room
  /\ toCli' = Append(toCli, Head(unsent))
  /\ unsent' = Tail(unsent)
  /\ srv' = IF unsent' = << >> THEN "sleep" ELSE "send"
  /\ UNCHANGED <<main, rx, doc, status, toSrv, buf, pub>>

SrvSleep ==
  /\ srv = "sleep" /\ srv' = "recv"
  /\ UNCHANGED <<main, rx, doc, unsent, status, toCli, toSrv, buf, pub>>

Srv == SrvListen \/ SrvHello \/ SrvRecv \/ SrvRead \/ SrvSend \/ SrvSleep

\* The operator writes a new data0.json.
NewDoc ==
  /\ doc < Docs
  /\ doc' = doc + 1
  /\ UNCHANGED <<srv, main, rx, unsent, status, toCli, toSrv, buf, pub>>

\* The server is stopped; what it has sent may be lost.
SrvDies ==
  /\ srv \notin {"off", "gone"}
  /\ srv' = "gone"
  /\ unsent' = << >>
  /\ toCli' \in {toCli, << >>}
  /\ UNCHANGED <<main, rx, doc, status, toSrv, buf, pub>>

-------------------------------------------------------------------------------
(* The client                                                              *)

\* Connecting is retried, for ever if nobody listens.
ConnectAgain ==
  /\ main = "connect" /\ srv # "accept"
  /\ UNCHANGED vars

\* Once connected the receiving thread is created.
Connect ==
  /\ main = "connect" /\ srv = "accept"
  /\ main' = "write"
  /\ rx' = "recv"
  /\ UNCHANGED <<srv, doc, unsent, status, toCli, toSrv, buf, pub>>

MainWrite ==
  /\ main = "write" /\ main' = "send"
  /\ status' = 2
  /\ UNCHANGED <<srv, rx, doc, unsent, toCli, toSrv, buf, pub>>

\* What send returns is not looked at: without a server it fails at once.
MainSend ==
  /\ main = "send"
  /\ \/ /\ srv = "gone"
        /\ status' = 0
        /\ UNCHANGED toSrv
     \/ /\ srv # "gone" /\ toSrv < Room
        /\ toSrv' = toSrv + 1
        /\ status' = status - 1
  /\ main' = IF status' = 0 THEN "sleep" ELSE "send"
  /\ UNCHANGED <<srv, rx, doc, unsent, toCli, buf, pub>>

MainSleep ==
  /\ main = "sleep" /\ main' = "write"
  /\ UNCHANGED <<srv, rx, doc, unsent, status, toCli, toSrv, buf, pub>>

Main == ConnectAgain \/ Connect \/ MainWrite \/ MainSend \/ MainSleep

\* MUTANT of RxRecv: buf is not cleared before recv.
RxRecvDirty ==
  /\ rx = "recv"
  /\ \/ \E k \in 1 .. BufUnits :
           /\ k <= Len(toCli)
           /\ buf' = SubSeq(toCli, 1, k) \o SubSeq(buf, k + 1, Len(buf))
           /\ toCli' = SubSeq(toCli, k + 1, Len(toCli))
     \/ srv = "gone" /\ toCli = << >> /\ UNCHANGED <<buf, toCli>>
  /\ rx' = "publish"
  /\ UNCHANGED <<srv, main, doc, unsent, status, toSrv, pub>>

\* MUTANT of RxRecv: the main loop receives, between two statuses.
RxRecvInMain ==
  /\ rx = "recv" /\ main = "sleep"
  /\ \/ \E k \in 1 .. BufUnits :
           /\ k <= Len(toCli)
           /\ buf' = SubSeq(toCli, 1, k)
           /\ toCli' = SubSeq(toCli, k + 1, Len(toCli))
     \/ srv = "gone" /\ toCli = << >> /\ buf' = << >> /\ UNCHANGED toCli
  /\ rx' = "publish"
  /\ UNCHANGED <<srv, main, doc, unsent, status, toSrv, pub>>

\* recv returns what there is of the stream, or nothing once the server is gone:
\* what recv returns is not looked at either.
RxRecv ==
  /\ rx = "recv"
  /\ \/ \E k \in 1 .. BufUnits :
           /\ k <= Len(toCli)
           /\ buf' = SubSeq(toCli, 1, k)
           /\ toCli' = SubSeq(toCli, k + 1, Len(toCli))
     \/ srv = "gone" /\ toCli = << >> /\ buf' = << >> /\ UNCHANGED toCli
  /\ rx' = "publish"
  /\ UNCHANGED <<srv, main, doc, unsent, status, toSrv, pub>>

\* A list is found in a buffer that begins with a document; what follows the
\* document is ignored.
ListIn(b) ==
  IF Len(b) >= 2 /\ b[1].half = 1 /\ b[2].half = 2 THEN <<b[1].doc, b[2].doc>> ELSE NoList

RxPublish ==
  /\ rx = "publish"
  /\ pub' = ListIn(buf)
  /\ rx' = "recv"
  /\ UNCHANGED <<srv, main, doc, unsent, status, toCli, toSrv, buf>>

Rx == RxRecv \/ RxPublish

-------------------------------------------------------------------------------

Next == Srv \/ NewDoc \/ SrvDies \/ Main \/ Rx

Spec == Init /\ [][Next]_vars

\* The server and the client's two threads are scheduled; nobody need write a
\* document or stop the server.
FairSpec == Spec /\ WF_vars(Srv) /\ WF_vars(Main) /\ WF_vars(Rx)

-------------------------------------------------------------------------------
(* Properties                                                              *)

TypeOK ==
  /\ srv \in {"off", "accept", "recv", "read", "send", "sleep", "gone"}
  /\ main \in {"connect", "write", "send", "sleep"}
  /\ rx \in {"off", "recv", "publish"}
  /\ doc \in 1 .. Docs
  /\ unsent \in Seq(Unit) /\ Len(unsent) <= 2
  /\ status \in 0 .. 2
  /\ toCli \in Seq(Unit) /\ Len(toCli) <= Room
  /\ toSrv \in 0 .. Room
  /\ buf \in Seq(Unit) /\ Len(buf) <= BufUnits
  /\ pub \in Lists

\* However the stream is cut and joined, and whenever the file is rewritten, the
\* waypoints that are published all come from one document, or there are none.
WholeLists == pub[1] = pub[2]

\* Server and client each send without regard to the other, through channels that
\* fill up; yet they never wait for each other's send: as long as the server
\* lives it answers again and again.
ServerKeepsAnswering == []<>(srv \in {"sleep", "gone"})
===============================================================================
