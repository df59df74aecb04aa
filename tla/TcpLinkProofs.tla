----------------------------- MODULE TcpLinkProofs ----------------------------
(***************************************************************************)
(* For any number of documents, any room in the channels and any buffer:   *)
(* however the stream is cut and joined, a published list comes from one   *)
(* document.                                                               *)
(*                                                                         *)
(* WholeLists is about what was published; what makes it inductive is the  *)
(* stream.  In it the first half of a document is followed by its second   *)
(* half (Paired), or it is the last unit and the server is about to send   *)
(* the other half (Rest).  Any piece of such a stream is Paired too.       *)
(***************************************************************************)
EXTENDS TcpLink, SequenceTheorems, TLAPS

First(d)  == [doc |-> d, half |-> 1]
Second(d) == [doc |-> d, half |-> 2]

Paired(s) == \A i \in 1 .. Len(s) - 1 : s[i].half = 1 => s[i + 1] = Second(s[i].doc)

\* The server is in the middle of a document, or at its beginning.
Sending ==
  srv = "send" => \E d \in 0 .. Docs : unsent \in {<<First(d), Second(d)>>, <<Second(d)>>}

\* A first half at the end of the stream waits for the other one.
Rest ==
  srv # "gone" /\ toCli # << >> /\ toCli[Len(toCli)].half = 1 =>
    srv = "send" /\ unsent = <<Second(toCli[Len(toCli)].doc)>>

\* Before the server greets nothing is in flight, and the client has nothing to send
\* in any other place than "send".
Quiet ==
  /\ srv \in {"off", "accept"} => toCli = << >>
  /\ main = "send" => status # 0

IInv == TypeOK /\ Paired(toCli) /\ Paired(buf) /\ Sending /\ Rest /\ Quiet /\ WholeLists

-------------------------------------------------------------------------------
(* Streams                                                                 *)

LEMMA UnitShape ==
  ASSUME NEW u \in Unit PROVE u = [doc |-> u.doc, half |-> u.half] /\ u.half \in {1, 2}
BY DEF Unit

LEMMA DocUnits ==
  ASSUME NEW d \in 0 .. Docs
  PROVE  First(d) \in Unit /\ Second(d) \in Unit /\ First(d).half = 1 /\ Second(d).half = 2
         /\ First(d).doc = d
BY DEF Unit, First, Second

\* A unit that goes with the last one keeps the stream paired.
LEMMA AppendPaired ==
  ASSUME NEW s \in Seq(Unit), Paired(s), NEW u \in Unit,
         s # << >> /\ s[Len(s)].half = 1 => u = Second(s[Len(s)].doc)
  PROVE  Append(s, u) \in Seq(Unit) /\ Len(Append(s, u)) = Len(s) + 1
         /\ Append(s, u)[Len(s) + 1] = u /\ Append(s, u) # << >> /\ Paired(Append(s, u))
<1>1. /\ Append(s, u) \in Seq(Unit) /\ Len(Append(s, u)) = Len(s) + 1
      /\ \A i \in 1 .. Len(s) : Append(s, u)[i] = s[i]
      /\ Append(s, u)[Len(s) + 1] = u
  BY AppendProperties
<1>2. Len(s) \in Nat /\ (s = << >> <=> Len(s) = 0)
  OBVIOUS
<1>3. Paired(Append(s, u))
  <2> SUFFICES ASSUME NEW i \in 1 .. Len(s), Append(s, u)[i].half = 1
               PROVE  Append(s, u)[i + 1] = Second(Append(s, u)[i].doc)
    BY <1>1, <1>2 DEF Paired
  <2>1. CASE i = Len(s)
    BY <2>1, <1>1, <1>2
  <2>2. CASE i < Len(s)
    BY <2>2, <1>1, <1>2 DEF Paired
  <2> QED
    BY <2>1, <2>2, <1>2
<1> QED
  BY <1>1, <1>2, <1>3

\* A piece of a paired stream is paired.
LEMMA PiecePaired ==
  ASSUME NEW s \in Seq(Unit), Paired(s), NEW m \in Nat \ {0}, NEW n \in 0 .. Len(s)
  PROVE  SubSeq(s, m, n) \in Seq(Unit) /\ Paired(SubSeq(s, m, n))
         /\ Len(SubSeq(s, m, n)) = IF m <= n THEN n - m + 1 ELSE 0
<1>1. /\ SubSeq(s, m, n) \in Seq(Unit)
      /\ Len(SubSeq(s, m, n)) = IF m <= n THEN n - m + 1 ELSE 0
      /\ \A i \in 1 .. n - m + 1 : SubSeq(s, m, n)[i] = s[m + i - 1]
  BY SubSeqProperties
<1>2. Paired(SubSeq(s, m, n))
  <2> SUFFICES ASSUME NEW i \in 1 .. Len(SubSeq(s, m, n)) - 1, SubSeq(s, m, n)[i].half = 1
               PROVE  SubSeq(s, m, n)[i + 1] = Second(SubSeq(s, m, n)[i].doc)
    BY DEF Paired
  <2>0. i \in 1 .. n - m
    BY <1>1
  <2>1. SubSeq(s, m, n)[i] = s[m + i - 1] /\ SubSeq(s, m, n)[i + 1] = s[m + i]
    BY <1>1, <2>0
  <2>2. m + i - 1 \in 1 .. Len(s) - 1 /\ (m + i - 1) + 1 = m + i
    BY <2>0
  <2> QED
    BY <2>1, <2>2 DEF Paired
<1> QED
  BY <1>1, <1>2

\* A piece at the end of a stream ends as the stream does.
LEMMA PieceEnds ==
  ASSUME NEW s \in Seq(Unit), NEW k \in Nat, k <= Len(s), SubSeq(s, k + 1, Len(s)) # << >>
  PROVE  s # << >> /\ SubSeq(s, k + 1, Len(s))[Len(SubSeq(s, k + 1, Len(s)))] = s[Len(s)]
<1>1. /\ Len(SubSeq(s, k + 1, Len(s))) = IF k + 1 <= Len(s) THEN Len(s) - k ELSE 0
      /\ \A i \in 1 .. Len(s) - k : SubSeq(s, k + 1, Len(s))[i] = s[k + i]
  BY SubSeqProperties
<1>2. k + 1 <= Len(s)
  BY <1>1, SubSeqEmpty
<1> QED
  BY <1>1, <1>2

\* The list found in a paired buffer is whole.
LEMMA ListIsWhole ==
  ASSUME NEW b \in Seq(Unit), Paired(b)
  PROVE  ListIn(b) \in Lists /\ ListIn(b)[1] = ListIn(b)[2]
<1>1. CASE Len(b) >= 2 /\ b[1].half = 1 /\ b[2].half = 2
  <2>1. b[1] \in Unit /\ b[2] \in Unit
    BY <1>1, ElementOfSeq
  <2>2. b[2] = Second(b[1].doc)
    BY <1>1 DEF Paired
  <2> QED
    BY <1>1, <2>1, <2>2 DEF ListIn, Lists, Unit, Second
<1>2. CASE ~(Len(b) >= 2 /\ b[1].half = 1 /\ b[2].half = 2)
  BY <1>2, TcpLinkAssumption DEF ListIn, Lists, NoList
<1> QED
  BY <1>1, <1>2

-------------------------------------------------------------------------------
(* Steps that leave both streams alone                                      *)

LEMMA InitIInv == Init => IInv
<1> SUFFICES ASSUME Init PROVE IInv
  OBVIOUS
<1>1. TypeOK
  BY TcpLinkAssumption DEF Init, TypeOK, Lists, NoList
<1>2. Paired(toCli) /\ Paired(buf)
  BY DEF Init, Paired
<1>3. Sending /\ Rest /\ Quiet /\ WholeLists
  BY DEF Init, Sending, Rest, Quiet, WholeLists, NoList
<1> QED
  BY <1>1, <1>2, <1>3 DEF IInv

\* A server that does not send, and is not about to, has ended a document.
LEMMA StreamRests ==
  ASSUME IInv, UNCHANGED <<toCli, buf, pub>>, TypeOK', Sending', Quiet',
         srv' # "gone" => srv # "gone" /\ (srv # "send" \/ UNCHANGED <<srv, unsent>>)
  PROVE  IInv'
<1>1. Paired(toCli)' /\ Paired(buf)' /\ WholeLists'
  BY DEF IInv, WholeLists
<1>2. Rest'
  BY DEF IInv, Rest
<1> QED
  BY <1>1, <1>2 DEF IInv

-------------------------------------------------------------------------------
(* The server                                                              *)

LEMMA SrvKeeps == IInv /\ Srv => IInv'
<1> SUFFICES ASSUME IInv, Srv PROVE IInv'
  OBVIOUS
<1> USE TcpLinkAssumption DEF TcpLinkAssumption
<1>1. CASE SrvListen
  <2>1. TypeOK' /\ Sending' /\ Quiet'
    BY <1>1 DEF SrvListen, IInv, TypeOK, Sending, Quiet
  <2> QED
    BY <1>1, <2>1, StreamRests DEF SrvListen
<1>2. CASE SrvHello
  <2>1. toCli = << >> /\ Hello \in Unit
    BY <1>2 DEF SrvHello, IInv, Quiet, Hello, Unit
  <2>2. toCli' = <<Hello>> /\ toCli' \in Seq(Unit) /\ Len(toCli') = 1 /\ toCli'[1] = Hello
    BY <1>2, <2>1 DEF SrvHello
  <2>3. TypeOK'
    BY <1>2, <2>2 DEF SrvHello, IInv, TypeOK
  <2>4. Paired(toCli)' /\ Rest'
    BY <2>2 DEF Paired, Rest, Hello
  <2>5. Paired(buf)' /\ Sending' /\ Quiet' /\ WholeLists'
    BY <1>2 DEF SrvHello, IInv, Sending, Quiet, WholeLists
  <2> QED
    BY <2>3, <2>4, <2>5 DEF IInv
<1>3. CASE SrvRecv
  <2>1. TypeOK' /\ Sending' /\ Quiet'
    BY <1>3 DEF SrvRecv, IInv, TypeOK, Sending, Quiet
  <2> QED
    BY <1>3, <2>1, StreamRests DEF SrvRecv
<1>4. CASE SrvRead
  <2>1. doc \in 0 .. Docs /\ unsent' = <<First(doc), Second(doc)>>
    BY <1>4 DEF SrvRead, IInv, TypeOK, First, Second
  <2>2. unsent' \in Seq(Unit) /\ Len(unsent') = 2
    BY <2>1, DocUnits
  <2>3. TypeOK' /\ Sending' /\ Quiet'
    BY <1>4, <2>1, <2>2 DEF SrvRead, IInv, TypeOK, Sending, Quiet
  <2> QED
    BY <1>4, <2>3, StreamRests DEF SrvRead
<1>5. CASE SrvSend
  <2>1. PICK d \in 0 .. Docs : unsent \in {<<First(d), Second(d)>>, <<Second(d)>>}
    BY <1>5 DEF SrvSend, IInv, Sending
  <2>2. First(d) \in Unit /\ Second(d) \in Unit /\ First(d).half = 1 /\ Second(d).half = 2
        /\ First(d).doc = d
    BY DocUnits
  <2>3. toCli \in Seq(Unit) /\ Paired(toCli)
    BY DEF IInv, TypeOK
  <2>4. toCli # << >> /\ toCli[Len(toCli)].half = 1
          => unsent = <<Second(toCli[Len(toCli)].doc)>>
    BY <1>5 DEF SrvSend, IInv, Rest
  <2>5. CASE unsent = <<First(d), Second(d)>>
    <3>1. /\ Head(unsent) = First(d) /\ Tail(unsent) = <<Second(d)>> /\ Len(unsent) = 2
          /\ <<Second(d)>> # << >>
      BY <2>5
    <3>2. ~(toCli # << >> /\ toCli[Len(toCli)].half = 1)
      BY <2>4, <3>1
    <3>3. /\ toCli' \in Seq(Unit) /\ Len(toCli') = Len(toCli) + 1 /\ toCli' # << >>
          /\ toCli'[Len(toCli) + 1] = First(d) /\ Paired(toCli')
      BY <1>5, <3>1, <3>2, <2>2, <2>3, AppendPaired DEF SrvSend
    <3>4. srv' = "send" /\ unsent' = <<Second(d)>>
      BY <1>5, <3>1 DEF SrvSend
    <3>5. unsent' \in Seq(Unit) /\ Len(unsent') = 1
      BY <3>4, <2>2
    <3>6. TypeOK'
      BY <1>5, <3>3, <3>4, <3>5 DEF SrvSend, IInv, TypeOK
    <3>7. Rest'
      BY <3>3, <3>4, <2>2 DEF Rest
    <3> QED
      BY <1>5, <3>3, <3>4, <3>6, <3>7 DEF SrvSend, IInv, Sending, Quiet, WholeLists, Paired
  <2>6. CASE unsent = <<Second(d)>>
    <3>1. Head(unsent) = Second(d) /\ Tail(unsent) = << >>
      BY <2>6
    <3>2. /\ toCli' \in Seq(Unit) /\ Len(toCli') = Len(toCli) + 1
          /\ toCli'[Len(toCli) + 1] = Second(d) /\ Paired(toCli')
      <4>1. toCli # << >> /\ toCli[Len(toCli)].half = 1
              => Second(d) = Second(toCli[Len(toCli)].doc)
        BY <2>4, <2>6
      <4> QED
        BY <1>5, <3>1, <4>1, <2>2, <2>3, AppendPaired DEF SrvSend
    <3>3. srv' = "sleep" /\ unsent' = << >>
      BY <1>5, <3>1 DEF SrvSend
    <3>4. TypeOK'
      <4>1. unsent' \in Seq(Unit) /\ Len(unsent') = 0
        BY <3>3
      <4> QED
        BY <1>5, <3>2, <3>3, <4>1 DEF SrvSend, IInv, TypeOK
    <3>5. Rest'
      BY <3>2, <2>2 DEF Rest
    <3> QED
      BY <1>5, <3>2, <3>3, <3>4, <3>5 DEF SrvSend, IInv, Sending, Quiet, WholeLists, Paired
  <2> QED
    BY <2>1, <2>5, <2>6
<1>6. CASE SrvSleep
  <2>1. TypeOK' /\ Sending' /\ Quiet'
    BY <1>6 DEF SrvSleep, IInv, TypeOK, Sending, Quiet
  <2> QED
    BY <1>6, <2>1, StreamRests DEF SrvSleep
<1> QED
  BY <1>1, <1>2, <1>3, <1>4, <1>5, <1>6 DEF Srv

LEMMA OperatorKeeps == IInv /\ (NewDoc \/ SrvDies) => IInv'
<1> SUFFICES ASSUME IInv, NewDoc \/ SrvDies PROVE IInv'
  OBVIOUS
<1> USE TcpLinkAssumption DEF TcpLinkAssumption
<1>1. CASE NewDoc
  <2>1. TypeOK' /\ Sending' /\ Quiet'
    BY <1>1 DEF NewDoc, IInv, TypeOK, Sending, Quiet
  <2> QED
    BY <1>1, <2>1, StreamRests DEF NewDoc
<1>2. CASE SrvDies
  <2>0. << >> \in Seq(Unit) /\ Len(<< >>) = 0
    BY EmptySeq
  <2>a. toCli' \in Seq(Unit) /\ Len(toCli') <= Room
    <3>1. toCli' = toCli \/ toCli' = << >>
      BY <1>2 DEF SrvDies
    <3>2. toCli \in Seq(Unit) /\ Len(toCli) <= Room /\ Room \in Nat
      BY DEF IInv, TypeOK
    <3>3. CASE toCli' = << >>
      <4>1. Len(toCli') = 0
        BY <3>3
      <4> QED
        BY <3>2, <3>3, <4>1
    <3> QED
      BY <3>1, <3>2, <3>3
  <2>b. unsent' \in Seq(Unit) /\ Len(unsent') <= 2
    BY <1>2, <2>0 DEF SrvDies
  <2>1. TypeOK' /\ Sending' /\ Quiet'
    BY <1>2, <2>a, <2>b DEF SrvDies, IInv, TypeOK, Sending, Quiet
  <2>2. Paired(toCli')
    BY <1>2 DEF SrvDies, IInv, Paired
  <2> QED
    BY <1>2, <2>1, <2>2 DEF SrvDies, IInv, Rest, WholeLists, Paired
<1> QED
  BY <1>1, <1>2

-------------------------------------------------------------------------------
(* The client                                                              *)

LEMMA MainKeeps == IInv /\ Main => IInv'
<1> SUFFICES ASSUME IInv, Main PROVE IInv'
  OBVIOUS
<1> USE TcpLinkAssumption DEF TcpLinkAssumption
<1>1. CASE ConnectAgain
  <2>1. TypeOK' /\ Sending' /\ Quiet'
    BY <1>1 DEF ConnectAgain, vars, IInv, TypeOK, Sending, Quiet
  <2> QED
    BY <1>1, <2>1, StreamRests DEF ConnectAgain, vars
<1>2. CASE Connect \/ MainWrite \/ MainSleep
  <2>1. TypeOK' /\ Sending' /\ Quiet'
    BY <1>2 DEF Connect, MainWrite, MainSleep, IInv, TypeOK, Sending, Quiet
  <2> QED
    BY <1>2, <2>1, StreamRests DEF Connect, MainWrite, MainSleep
<1>3. CASE MainSend
  <2>1. status \in 1 .. 2
    BY <1>3 DEF MainSend, IInv, TypeOK, Quiet
  <2>2. TypeOK' /\ Sending' /\ Quiet'
    BY <1>3, <2>1 DEF MainSend, IInv, TypeOK, Sending, Quiet
  <2> QED
    BY <1>3, <2>2, StreamRests DEF MainSend
<1> QED
  BY <1>1, <1>2, <1>3 DEF Main

LEMMA RxKeeps == IInv /\ Rx => IInv'
<1> SUFFICES ASSUME IInv, Rx PROVE IInv'
  OBVIOUS
<1> USE TcpLinkAssumption DEF TcpLinkAssumption
<1>1. toCli \in Seq(Unit) /\ Paired(toCli) /\ Len(toCli) \in Nat
  BY DEF IInv, TypeOK
<1>2. ASSUME RxRecv, NEW k \in 1 .. BufUnits, k <= Len(toCli),
             buf' = SubSeq(toCli, 1, k), toCli' = SubSeq(toCli, k + 1, Len(toCli))
      PROVE  IInv'
  <2>1. k \in Nat /\ k \in 0 .. Len(toCli) /\ k + 1 \in Nat \ {0} /\ Len(toCli) \in 0 .. Len(toCli)
    BY <1>1, <1>2
  <2>2. buf' \in Seq(Unit) /\ Paired(buf') /\ Len(buf') = k
    BY <1>1, <1>2, <2>1, PiecePaired
  <2>3. toCli' \in Seq(Unit) /\ Paired(toCli') /\ Len(toCli') <= Len(toCli)
    BY <1>1, <1>2, <2>1, PiecePaired
  <2>4. toCli' # << >> => toCli # << >> /\ toCli'[Len(toCli')] = toCli[Len(toCli)]
    BY <1>1, <1>2, <2>1, PieceEnds
  <2>5. TypeOK'
    BY <1>2, <2>2, <2>3, <1>1 DEF RxRecv, IInv, TypeOK
  <2>6. Rest' /\ Quiet'
    <3>1. UNCHANGED <<srv, main, unsent, status>>
      BY <1>2 DEF RxRecv
    <3>2. Rest'
      BY <3>1, <2>4 DEF IInv, Rest
    <3>3. Quiet'
      BY <3>1, <1>2, <2>4 DEF IInv, Quiet
    <3> QED
      BY <3>2, <3>3
  <2> QED
    BY <1>2, <2>2, <2>3, <2>5, <2>6 DEF RxRecv, IInv, Sending, WholeLists, Paired
<1>3. ASSUME RxRecv, buf' = << >>, UNCHANGED toCli PROVE IInv'
  <2>1. TypeOK' /\ Sending' /\ Rest' /\ Quiet' /\ WholeLists'
    BY <1>3 DEF RxRecv, IInv, TypeOK, Sending, Rest, Quiet, WholeLists
  <2>2. Paired(toCli)' /\ Paired(buf)'
    BY <1>3 DEF IInv, Paired
  <2> QED
    BY <2>1, <2>2 DEF IInv
<1>4. CASE RxPublish
  <2>1. pub' \in Lists /\ pub'[1] = pub'[2]
    BY <1>4, ListIsWhole DEF RxPublish, IInv, TypeOK
  <2>2. TypeOK' /\ Sending' /\ Rest' /\ Quiet' /\ WholeLists'
    BY <1>4, <2>1 DEF RxPublish, IInv, TypeOK, Sending, Rest, Quiet, WholeLists
  <2> QED
    BY <1>4, <2>2 DEF RxPublish, IInv, Paired
<1> QED
  BY <1>2, <1>3, <1>4 DEF Rx, RxRecv

LEMMA NextIInv == IInv /\ [Next]_vars => IInv'
<1> SUFFICES ASSUME IInv, [Next]_vars PROVE IInv'
  OBVIOUS
<1>1. CASE UNCHANGED vars
  BY <1>1 DEF vars, IInv, TypeOK, Paired, Sending, Rest, Quiet, WholeLists
<1> QED
  BY <1>1, SrvKeeps, OperatorKeeps, MainKeeps, RxKeeps DEF Next

-------------------------------------------------------------------------------

\* The types, with the lengths of the stream and the buffer: the greeting is sent
\* without regard to Room, but into an empty stream.
THEOREM TcpLinkTypeOK == Spec => []TypeOK
<1>1. IInv => TypeOK
  BY DEF IInv
<1> QED
  BY <1>1, InitIInv, NextIInv, PTL DEF Spec

\* However the stream is cut and joined, whenever data0.json is rewritten and the server
\* stopped: the waypoints that are published come from one document, or there are none.
THEOREM WholeListsHolds == Spec => []WholeLists
<1>1. IInv => WholeLists
  BY DEF IInv
<1> QED
  BY <1>1, InitIInv, NextIInv, PTL DEF Spec
===============================================================================
