---------------------------- MODULE SdoClientProofs ----------------------------
(***************************************************************************)
(* For objects and values of any size, and any number of frames on their   *)
(* way: what the device takes over is whole, a write that returns in time  *)
(* has arrived, and what a read returns is a value of its object.          *)
(*                                                                         *)
(* The first needs the order of the requests: frames carry no number of    *)
(* their transfer, but every segment was sent right after the request it   *)
(* follows (Stream), and a server that lost one goes on with no other.     *)
(* For the others, a transfer that found no leftovers has one frame on its *)
(* way at most (OneFrame), which belongs to it (Good).                     *)
(***************************************************************************)
EXTENDS SdoClient, SequenceTheorems, TLAPS

Writing == pc = "wait" /\ call.op = "write"
Reading == pc = "wait" /\ call.op = "read"

\* s consists of the units of version v of object o that come after the n-th.
Run(s, o, v, n) == \A i \in 1 .. Len(s) : s[i] = <<o, v, n + i>>

-------------------------------------------------------------------------------
(* The requests                                                            *)

\* m is the segment from position n on of a write of version v to object o.
SegmentOf(m, o, v, n) ==
  /\ m.cmd = "dnseg" /\ n < CallSize(o) /\ Run(m.units, o, v, n)
  /\ IF CallSize(o) - n <= Segment
     THEN m.last = TRUE /\ Len(m.units) = CallSize(o) - n
     ELSE m.last = FALSE /\ Len(m.units) = Segment

\* A segment k carries on after m, the request before it.
Follows(m, k) ==
  k.cmd = "dnseg" =>
    \E o \in Objects, v \in Versions, n \in Nat :
      /\ SegmentOf(k, o, v, n)
      /\ \/ n = 0 /\ k.toggle = FALSE /\ m.cmd = "download" /\ m.obj = o /\ m.units = << >>
         \/ n >= Segment /\ SegmentOf(m, o, v, n - Segment) /\ m.toggle = ~k.toggle

\* The server that took m expects the segment after it.
After(m, s) ==
  s.cmd = "dnseg" =>
    \/ /\ m.cmd = "download" /\ m.obj = s.obj /\ m.units = << >>
       /\ s.units = << >> /\ s.toggle = FALSE
    \/ \E v \in Versions, n \in Nat :
         /\ SegmentOf(m, s.obj, v, n) /\ m.last = FALSE /\ m.toggle = ~s.toggle
         /\ Run(s.units, s.obj, v, 0) /\ Len(s.units) = n + Segment

\* A segment k is the one the server expects, if it expects any.
Continues(k, s) ==
  k.cmd = "dnseg" /\ s.cmd = "dnseg" =>
    \E v \in Versions :
      SegmentOf(k, s.obj, v, Len(s.units)) /\ Run(s.units, s.obj, v, 0)

\* What comes in one frame is the start of a version.
Whole(m) ==
  m.cmd = "download" /\ m.units # << >> => \E v \in Versions : Run(m.units, m.obj, v, 0)

Stream ==
  /\ toDev # << >> => toDev[Len(toDev)] = last
  /\ \A i \in 1 .. Len(toDev) : Whole(toDev[i])
  /\ \A i \in 1 .. Len(toDev) : i > 1 => Follows(toDev[i - 1], toDev[i])
  /\ IF toDev = << >> THEN After(last, srv) ELSE Continues(toDev[1], srv)

-------------------------------------------------------------------------------
(* The client                                                              *)

\* A write has sent as much as offset says.
Sent ==
  Writing =>
    /\ total = CallSize(call.obj)
    /\ Len(data) = total /\ Run(data, call.obj, call.version, 0)
    /\ \/ /\ last.cmd = "download" /\ last.obj = call.obj
          /\ IF total <= Expedited THEN last.units = data /\ offset = total
                                   ELSE last.units = << >> /\ offset = 0
       \/ \E n \in Nat : /\ SegmentOf(last, call.obj, call.version, n)
                         /\ offset = n + Len(last.units)

\* A read has asked for its object, and then for segments.
Asked ==
  Reading =>
    /\ Len(data) = (IF total = 0 THEN offset ELSE total) /\ offset <= Len(data)
    /\ offset = 0 \/ offset # total
    /\ total = 0 \/ total = ReadSize(call.obj)
    /\ \/ /\ last.cmd = "upload" /\ last.obj = call.obj /\ offset = 0
          /\ total = dict[call.obj].type
       \/ last.cmd = "upseg" /\ dict[call.obj].dev > Expedited

OneFrame == pc = "wait" /\ clean => Len(toDev) + Len(toClient) + Len(frame) <= 1

\* What the read has got so far is of version v.
Moved(v) == \A i \in 1 .. offset : data[i] = <<call.obj, v, i>>

\* What the server still has to send is what comes after the n-th unit of v.
Remains(v, n) ==
  srv.cmd = "upseg" =>
    /\ n < dict[call.obj].dev /\ Len(srv.units) = dict[call.obj].dev - n
    /\ Run(srv.units, call.obj, v, n)

\* The request of a read finds the server where the read is.
Asks ==
  Reading /\ clean /\ last.cmd = "upseg" /\ toDev # << >> =>
    \E v \in seen : Moved(v) /\ Remains(v, offset)

-------------------------------------------------------------------------------
(* The answers                                                             *)

\* An upload is answered with a value of the object or with its size.
ValueOrSize(r) ==
  r.cmd = "upload" =>
    /\ r.size = 0 \/ r.size = dict[r.obj].dev
    /\ IF dict[r.obj].dev <= Expedited
       THEN Len(r.units) = dict[r.obj].dev /\ \E v \in Versions : Run(r.units, r.obj, v, 0)
       ELSE r.units = << >>

\* The answer to the last request of a write: the write has arrived.
Confirms(r) ==
  Writing /\ clean /\ r.cmd \in {"download", "dnseg"} /\ offset = total =>
    call.version \in seen

\* The answers to a read's requests.
Begins(r) ==
  Reading /\ clean /\ r.cmd = "upload" /\ last.cmd = "upload" =>
    \E v \in seen : IF r.units # << >> THEN Run(r.units, call.obj, v, 0) ELSE Remains(v, 0)

Brings(r) ==
  Reading /\ clean /\ r.cmd = "upseg" /\ last.cmd = "upseg" =>
    \E v \in seen :
      /\ Moved(v) /\ Run(r.units, call.obj, v, offset) /\ Len(r.units) > 0
      /\ Remains(v, offset + Len(r.units))

Good(r) == ValueOrSize(r) /\ Confirms(r) /\ Begins(r) /\ Brings(r)

AllGood ==
  /\ \A i \in 1 .. Len(toClient) : Good(toClient[i])
  /\ \A i \in 1 .. Len(frame) : Good(frame[i])

-------------------------------------------------------------------------------
(* The results                                                             *)

SeenNow == pc # "idle" => val[call.obj] \in seen

Moves == offset # 0 /\ offset = total

ReadEnds ==
  pc # "wait" /\ call.op = "read" /\ Moves =>
    /\ clean => \E v \in seen : data = Units(call.obj, v, ReadSize(call.obj))
    /\ dict[call.obj].dev <= Expedited =>
         \E v \in Versions : data = Units(call.obj, v, CallSize(call.obj))

WriteEnds ==
  pc # "wait" /\ call.op = "write" /\ Moves /\ ~gaveUp /\ clean => call.version \in seen

Returned == pc = "idle" /\ outcome = "ok" => Moves

IInv ==
  /\ TypeOK /\ Stream /\ Sent /\ Asked /\ OneFrame /\ Asks /\ AllGood
  /\ SeenNow /\ WrittenIsWhole /\ ReadEnds /\ WriteEnds /\ Returned

-------------------------------------------------------------------------------
(* Frames and units                                                        *)

LEMMA RequestFields ==
  ASSUME NEW m \in Requests
  PROVE  /\ m.cmd \in {"upload", "download", "upseg", "dnseg", "abort"}
         /\ m.cmd = "upload" => m.obj \in Objects /\ "obj" \in DOMAIN m
         /\ m.cmd = "download" => m.obj \in Objects /\ m.size \in Nat /\ m.units \in Seq(Unit)
                                  /\ "obj" \in DOMAIN m
         /\ m.cmd = "upseg" => m.toggle \in BOOLEAN
         /\ m.cmd = "dnseg" => /\ m.toggle \in BOOLEAN /\ m.last \in BOOLEAN
                               /\ m.units \in Seq(Unit)
  BY DEF Requests, Abort

LEMMA ReplyFields ==
  ASSUME NEW r \in Replies
  PROVE  /\ r.cmd \in {"upload", "download", "upseg", "dnseg", "abort"}
         /\ r.cmd = "upload" => r.obj \in Objects /\ r.size \in Nat /\ r.units \in Seq(Unit)
         /\ r.cmd = "download" => r.obj \in Objects
         /\ r.cmd = "upseg" => /\ r.toggle \in BOOLEAN /\ r.last \in BOOLEAN
                               /\ r.units \in Seq(Unit)
         /\ r.cmd = "dnseg" => r.toggle \in BOOLEAN
  BY DEF Replies, Abort

LEMMA TransferFields ==
  ASSUME NEW s \in Transfers
  PROVE  /\ s.cmd \in {"upseg", "dnseg", "idle"}
         /\ s.cmd = "upseg" => s.units \in Seq(Unit) /\ s.toggle \in BOOLEAN
         /\ s.cmd = "dnseg" => /\ s.obj \in Objects /\ s.units \in Seq(Unit)
                               /\ s.toggle \in BOOLEAN
  BY DEF Transfers, Idle

LEMMA CallFields ==
  ASSUME NEW c \in Calls
  PROVE  /\ c.op \in {"read", "write", "none"} /\ (c.op = "none") = (c = NoCall)
         /\ c.op \in {"read", "write"} => c.obj \in Objects
         /\ c.op = "write" => c.version \in Versions
  BY DEF Calls, NoCall

LEMMA EmptyRun == << >> \in Seq(Unit) /\ Len(<< >>) = 0
  OBVIOUS

LEMMA UnitsAre ==
  ASSUME NEW o \in Objects, NEW v \in Versions \cup {0}, NEW n \in Nat
  PROVE  /\ Units(o, v, n) \in Seq(Unit) /\ Len(Units(o, v, n)) = n
         /\ Run(Units(o, v, n), o, v, 0)
         /\ \A i \in 1 .. n : Units(o, v, n)[i] = <<o, v, i>>
<1>1. Units(o, v, n) \in [1 .. n -> Unit]
  BY DEF Units, Unit
<1>2. Units(o, v, n) \in Seq(Unit) /\ DOMAIN Units(o, v, n) = 1 .. n
  BY <1>1, SeqDef
<1>3. Len(Units(o, v, n)) = n
  BY <1>2, LenProperties
<1> QED
  BY <1>2, <1>3 DEF Units, Run

\* A run of known length from the start is the value.
LEMMA RunIsUnits ==
  ASSUME NEW s \in Seq(Unit), NEW o \in Objects, NEW v \in Versions, Run(s, o, v, 0)
  PROVE  s = Units(o, v, Len(s))
<1>1. Len(s) \in Nat /\ DOMAIN s = 1 .. Len(s)
  BY LenProperties
<1>2. /\ Units(o, v, Len(s)) \in Seq(Unit) /\ Len(Units(o, v, Len(s))) = Len(s)
      /\ \A i \in 1 .. Len(s) : Units(o, v, Len(s))[i] = <<o, v, i>>
  BY <1>1, UnitsAre
<1>3. \A i \in 1 .. Len(s) : s[i] = <<o, v, i>>
  BY <1>1 DEF Run
<1> QED
  BY <1>2, <1>3, SeqEqual

LEMMA PartOf ==
  ASSUME NEW s \in Seq(Unit), NEW m \in Nat, NEW n \in Nat, 1 <= m, m <= n, m <= Len(s)
  PROVE  /\ Part(s, m, n) \in Seq(Unit)
         /\ Len(Part(s, m, n)) = IF n < Len(s) THEN n - m + 1 ELSE Len(s) - m + 1
         /\ \A i \in 1 .. Len(Part(s, m, n)) : Part(s, m, n)[i] = s[m + i - 1]
<1> DEFINE e == IF n < Len(s) THEN n ELSE Len(s)
<1>1. /\ Len(s) \in Nat /\ m \in 1 .. Len(s) + 1
      /\ e \in m - 1 .. Len(s) /\ e - m + 1 = IF n < Len(s) THEN n - m + 1 ELSE Len(s) - m + 1
  BY LenProperties
<1>2. Part(s, m, n) = SubSeq(s, m, e)
  BY DEF Part
<1> HIDE DEF e
<1>3. /\ SubSeq(s, m, e) \in Seq(Unit)
      /\ Len(SubSeq(s, m, e)) = e - m + 1
      /\ \A i \in 1 .. e - m + 1 : SubSeq(s, m, e)[i] = s[m + i - 1]
  BY <1>1, SubSeqProperties
<1> QED
  BY <1>1, <1>2, <1>3

\* A part of a run is a run.
LEMMA PartOfRun ==
  ASSUME NEW s \in Seq(Unit), NEW o, NEW v, NEW k \in Nat, Run(s, o, v, k),
         NEW m \in Nat, NEW n \in Nat, 1 <= m, m <= n, m <= Len(s)
  PROVE  Run(Part(s, m, n), o, v, k + m - 1)
<1>1. /\ Part(s, m, n) \in Seq(Unit) /\ Len(s) \in Nat
      /\ Len(Part(s, m, n)) = IF n < Len(s) THEN n - m + 1 ELSE Len(s) - m + 1
      /\ \A i \in 1 .. Len(Part(s, m, n)) : Part(s, m, n)[i] = s[m + i - 1]
  BY PartOf, LenProperties
<1>2. \A j \in 1 .. Len(s) : s[j] = <<o, v, k + j>>
  BY DEF Run
<1> SUFFICES ASSUME NEW i \in 1 .. Len(Part(s, m, n))
             PROVE  Part(s, m, n)[i] = <<o, v, (k + m - 1) + i>>
  BY DEF Run
<1>3. m + i - 1 \in 1 .. Len(s) /\ k + (m + i - 1) = (k + m - 1) + i
  BY <1>1
<1> QED
  BY <1>1, <1>2, <1>3

LEMMA RestOfRun ==
  ASSUME NEW s \in Seq(Unit), NEW o, NEW v, NEW k \in Nat, Run(s, o, v, k),
         NEW m \in Nat, m < Len(s)
  PROVE  /\ SubSeq(s, m + 1, Len(s)) \in Seq(Unit)
         /\ Len(SubSeq(s, m + 1, Len(s))) = Len(s) - m
         /\ Run(SubSeq(s, m + 1, Len(s)), o, v, k + m)
<1>1. Len(s) \in Nat /\ m + 1 \in Nat /\ 1 <= m + 1 /\ m + 1 <= Len(s)
  BY LenProperties
<1>2. Part(s, m + 1, Len(s)) = SubSeq(s, m + 1, Len(s))
  BY <1>1 DEF Part
<1>3. /\ Part(s, m + 1, Len(s)) \in Seq(Unit)
      /\ Len(Part(s, m + 1, Len(s))) = Len(s) - (m + 1) + 1
  BY <1>1, PartOf
<1>4. Run(Part(s, m + 1, Len(s)), o, v, k + (m + 1) - 1)
  BY <1>1, PartOfRun
<1>5. Len(s) - (m + 1) + 1 = Len(s) - m /\ k + (m + 1) - 1 = k + m
  BY <1>1
<1> QED
  BY <1>2, <1>3, <1>4, <1>5

LEMMA JoinedRuns ==
  ASSUME NEW s \in Seq(Unit), NEW t \in Seq(Unit), NEW o, NEW v, NEW n \in Nat,
         Run(s, o, v, n), Run(t, o, v, n + Len(s))
  PROVE  /\ s \o t \in Seq(Unit) /\ Len(s \o t) = Len(s) + Len(t)
         /\ Run(s \o t, o, v, n)
<1>1. /\ s \o t \in Seq(Unit) /\ Len(s \o t) = Len(s) + Len(t)
      /\ \A i \in 1 .. Len(s) + Len(t) :
           (s \o t)[i] = IF i <= Len(s) THEN s[i] ELSE t[i - Len(s)]
  BY ConcatProperties
<1>2. Len(s) \in Nat /\ Len(t) \in Nat
  BY LenProperties
<1> SUFFICES ASSUME NEW i \in 1 .. Len(s) + Len(t)
             PROVE  (s \o t)[i] = <<o, v, n + i>>
  BY <1>1 DEF Run
<1>3. CASE i <= Len(s)
  BY <1>1, <1>2, <1>3 DEF Run
<1>4. CASE ~(i <= Len(s))
  <2>1. i - Len(s) \in 1 .. Len(t) /\ (n + Len(s)) + (i - Len(s)) = n + i
    BY <1>2, <1>4
  <2>2. t[i - Len(s)] = <<o, v, (n + Len(s)) + (i - Len(s))>>
    BY <2>1 DEF Run
  <2> QED
    BY <1>1, <1>4, <2>1, <2>2
<1> QED
  BY <1>3, <1>4

-------------------------------------------------------------------------------
(* Sending, taking and answering                                           *)

LEMMA CallSizes ==
  ASSUME TypeOK, NEW o \in Objects
  PROVE  /\ CallSize(o) \in Nat /\ CallSize(o) > 0
         /\ dict[o].dev \in Nat /\ dict[o].dev > 0 /\ dict[o].type \in Nat
  BY DEF CallSize, TypeOK

\* The two bytes of an indicated size are a number, and the size itself if it has
\* no more than the first.
LEMMA DataSizes ==
  ASSUME NEW w \in Nat
  PROVE  DataSize(w) \in Nat /\ DataSize(0) = 0 /\ (w < Byte => DataSize(w) = w)
<1> DEFINE c == Byte * Byte * Byte
           h(n) == (n \div c) % Byte
<1>1. Byte \in Nat /\ Byte > 0
  BY SdoAssumption
<1>2. c \in Nat /\ c >= Byte
  <2>1. Byte * Byte \in Nat /\ Byte * Byte >= Byte
    BY <1>1
  <2> QED
    BY <1>1, <2>1
<1>3. \A n \in Nat : DataSize(n) = (n % Byte) + h(n) * Byte
  BY DEF DataSize
<1> HIDE DEF c
<1>4. \A n \in Nat : n \div c \in Nat /\ (n < c => n \div c = 0)
  BY <1>1, <1>2
<1>5. \A n \in Nat : n % Byte \in Nat /\ (n < Byte => n % Byte = n)
  BY <1>1
<1>6. \A n \in Nat : h(n) \in Nat /\ (n < c => h(n) = 0)
  BY <1>1, <1>4, <1>5
<1> HIDE DEF h
<1>7. ASSUME NEW n \in Nat, n < Byte PROVE DataSize(n) = n
  <2>1. n < c /\ n % Byte = n
    BY <1>1, <1>2, <1>5, <1>7
  <2>2. h(n) = 0 /\ 0 * Byte = 0
    BY <1>1, <1>6, <2>1
  <2>3. DataSize(n) = n + 0
    BY <1>3, <2>1, <2>2
  <2> QED
    BY <2>3
<1>8. h(w) * Byte \in Nat
  BY <1>1, <1>6
<1>9. DataSize(w) \in Nat
  BY <1>3, <1>5, <1>8
<1> QED
  BY <1>1, <1>7, <1>9

LEMMA SizeFields ==
  ASSUME NEW n \in Nat
  PROVE  SizeField(n) \in Nat
<1> DEFINE c == Byte * Byte * Byte
<1>1. Byte \in Nat /\ Byte > 0
  BY SdoAssumption
<1>2. Byte * Byte \in Nat /\ c \in Nat
  BY <1>1
<1> HIDE DEF c
<1>3. n % Byte \in Nat /\ n \div Byte \in Nat
  BY <1>1
<1>4. (n \div Byte) % Byte \in Nat
  BY <1>1, <1>3
<1>5. ((n \div Byte) % Byte) * c \in Nat
  BY <1>2, <1>4
<1> QED
  BY <1>3, <1>5 DEF SizeField, c

\* What is read has its own size, unless it is a string of Byte units or more.
LEMMA ReadSizes ==
  ASSUME TypeOK, NEW o \in Objects
  PROVE  /\ ReadSize(o) \in Nat
         /\ dict[o].dev <= Expedited => ReadSize(o) = CallSize(o)
         /\ dict[o].type # 0 => ReadSize(o) = dict[o].type
         /\ dict[o].dev < Byte => ReadSize(o) = CallSize(o)
<1>1. CallSize(o) \in Nat /\ dict[o].dev \in Nat
  BY CallSizes
<1>2. /\ DataSize(dict[o].dev) \in Nat
      /\ dict[o].dev < Byte => DataSize(dict[o].dev) = dict[o].dev
  BY <1>1, DataSizes
<1> QED
  BY <1>1, <1>2 DEF ReadSize, CallSize, Expedited

LEMMA SendIs ==
  ASSUME TypeOK, NEW m \in Requests, Send(m)
  PROVE  /\ last' = m /\ toDev' \in Seq(Requests) /\ toDev' # << >>
         /\ Len(toDev') = Len(toDev) + 1 /\ Len(toDev') <= MaxRequests
         /\ \A i \in 1 .. Len(toDev) : toDev'[i] = toDev[i]
         /\ toDev'[Len(toDev) + 1] = m
<1>1. toDev \in Seq(Requests) /\ toDev' = Append(toDev, m) /\ last' = m /\ Len(toDev) < MaxRequests
  BY DEF TypeOK, Send
<1>2. /\ toDev' \in Seq(Requests) /\ Len(toDev') = Len(toDev) + 1
      /\ \A i \in 1 .. Len(toDev) : toDev'[i] = toDev[i]
      /\ toDev'[Len(toDev) + 1] = m
  BY <1>1, AppendProperties
<1>3. Len(toDev) \in Nat /\ MaxRequests \in Nat
  BY <1>1, LenProperties, SdoAssumption
<1> QED
  BY <1>1, <1>2, <1>3

LEMMA TakeIs ==
  ASSUME TypeOK, Take
  PROVE  /\ toDev # << >> /\ Head(toDev) = toDev[1] /\ toDev[1] \in Requests
         /\ Len(toDev) > 0 /\ toDev' \in Seq(Requests) /\ Len(toDev') = Len(toDev) - 1
         /\ Len(toDev') <= MaxRequests
         /\ \A i \in 1 .. Len(toDev') : toDev'[i] = toDev[i + 1]
         /\ (toDev' = << >>) = (Len(toDev) = 1)
<1>1. toDev \in Seq(Requests) /\ toDev # << >> /\ toDev' = Tail(toDev) /\ Len(toDev) <= MaxRequests
  BY DEF TypeOK, Take
<1>2. /\ toDev' \in Seq(Requests) /\ Len(toDev') = Len(toDev) - 1
      /\ \A i \in 1 .. Len(toDev) - 1 : toDev'[i] = toDev[i + 1]
      /\ Head(toDev) \in Requests
  BY <1>1, HeadTailProperties
<1>3. Len(toDev) \in Nat /\ Len(toDev) # 0 /\ Head(toDev) = toDev[1] /\ MaxRequests \in Nat
  BY <1>1, EmptySeq, LenProperties, SdoAssumption
<1>4. (toDev' = << >>) = (Len(toDev') = 0)
  BY <1>2, EmptySeq
<1> QED
  BY <1>1, <1>2, <1>3, <1>4

LEMMA ReplyIs ==
  ASSUME TypeOK, NEW r \in Replies, Reply(r)
  PROVE  /\ toClient' \in Seq(Replies) /\ Len(toClient') = Len(toClient) + 1
         /\ Len(toClient') <= MaxReplies
         /\ \A i \in 1 .. Len(toClient) : toClient'[i] = toClient[i]
         /\ toClient'[Len(toClient) + 1] = r
<1>1. toClient \in Seq(Replies) /\ toClient' = Append(toClient, r) /\ Len(toClient) < MaxReplies
  BY DEF TypeOK, Reply
<1>2. /\ toClient' \in Seq(Replies) /\ Len(toClient') = Len(toClient) + 1
      /\ \A i \in 1 .. Len(toClient) : toClient'[i] = toClient[i]
      /\ toClient'[Len(toClient) + 1] = r
  BY <1>1, AppendProperties
<1>3. Len(toClient) \in Nat /\ MaxReplies \in Nat
  BY <1>1, LenProperties, SdoAssumption
<1> QED
  BY <1>1, <1>2, <1>3

LEMMA QueueLengths ==
  ASSUME TypeOK
  PROVE  /\ Len(toDev) \in Nat /\ Len(toClient) \in Nat /\ Len(frame) \in Nat
         /\ (toDev = << >>) = (Len(toDev) = 0) /\ (toClient = << >>) = (Len(toClient) = 0)
         /\ (frame = << >>) = (Len(frame) = 0)
<1>1. toDev \in Seq(Requests) /\ toClient \in Seq(Replies) /\ frame \in Seq(Replies)
  BY DEF TypeOK
<1> QED
  BY <1>1, LenProperties, EmptySeq

\* The frame in the reader.
LEMMA FrameIs ==
  ASSUME TypeOK, frame # << >>
  PROVE  Head(frame) \in Replies /\ Len(frame) = 1 /\ Head(frame) = frame[1]
<1>1. frame \in Seq(Replies) /\ Len(frame) <= 1
  BY DEF TypeOK
<1>2. Head(frame) \in Replies
  BY <1>1, HeadTailProperties
<1>3. Len(frame) \in Nat
  BY <1>1, LenProperties
<1>4. Len(frame) # 0
  BY <1>1, EmptySeq
<1>5. Len(frame) = 1
  <2> DEFINE n == Len(frame)
  <2>1. n \in Nat /\ n # 0 /\ n <= 1
    BY <1>1, <1>3, <1>4
  <2> HIDE DEF n
  <2>2. n = 1
    BY <2>1
  <2> QED
    BY <2>2 DEF n
<1>6. Head(frame) = frame[1]
  BY <1>1
<1> QED
  BY <1>2, <1>5, <1>6

-------------------------------------------------------------------------------
(* The stream of requests                                                  *)

LEMMA SegmentFields ==
  ASSUME TypeOK, NEW m \in Requests, NEW o \in Objects, NEW v, NEW n \in Nat,
         SegmentOf(m, o, v, n)
  PROVE  /\ m.cmd = "dnseg" /\ m.units \in Seq(Unit) /\ Len(m.units) \in Nat
         /\ Len(m.units) > 0 /\ m.units[1] = <<o, v, n + 1>>
<1>1. CallSize(o) \in Nat /\ m.units \in Seq(Unit) /\ m.cmd = "dnseg" /\ n < CallSize(o)
  BY CallSizes, RequestFields DEF SegmentOf
<1>2. Len(m.units) \in Nat /\ Len(m.units) > 0
  <2>1. Len(m.units) \in Nat
    BY <1>1, LenProperties
  <2>2. CASE CallSize(o) - n <= Segment
    <3>1. Len(m.units) = CallSize(o) - n /\ CallSize(o) - n > 0
      BY <1>1, <2>2 DEF SegmentOf
    <3> QED
      BY <2>1, <3>1
  <2>3. CASE ~(CallSize(o) - n <= Segment)
    <3>1. Len(m.units) = 2
      BY <2>3 DEF SegmentOf, Segment
    <3> QED
      BY <2>1, <3>1
  <2> QED
    BY <2>2, <2>3
<1>3. m.units[1] = <<o, v, n + 1>>
  BY <1>2 DEF SegmentOf, Run
<1> QED
  BY <1>1, <1>2, <1>3

\* A segment tells by its units where it belongs.
LEMMA SegmentIsUnique ==
  ASSUME TypeOK, NEW m \in Requests,
         NEW o \in Objects, NEW v, NEW n \in Nat, SegmentOf(m, o, v, n),
         NEW p \in Objects, NEW w, NEW k \in Nat, SegmentOf(m, p, w, k)
  PROVE  o = p /\ v = w /\ n = k
<1>1. m.units[1] = <<o, v, n + 1>> /\ m.units[1] = <<p, w, k + 1>>
  BY SegmentFields
<1>2. o = p /\ v = w /\ n + 1 = k + 1
  BY <1>1
<1> QED
  BY <1>2

LEMMA CarriesOn ==
  ASSUME TypeOK, NEW m \in Requests, NEW k \in Requests, NEW s \in Transfers,
         Follows(m, k), After(m, s)
  PROVE  Continues(k, s)
<1> SUFFICES ASSUME k.cmd = "dnseg", s.cmd = "dnseg"
             PROVE  \E v \in Versions :
                      SegmentOf(k, s.obj, v, Len(s.units)) /\ Run(s.units, s.obj, v, 0)
  BY DEF Continues
<1>1. s.obj \in Objects /\ s.units \in Seq(Unit)
  BY TransferFields
<1>2. PICK o \in Objects, v \in Versions, n \in Nat :
        /\ SegmentOf(k, o, v, n)
        /\ \/ n = 0 /\ k.toggle = FALSE /\ m.cmd = "download" /\ m.obj = o /\ m.units = << >>
           \/ n >= Segment /\ SegmentOf(m, o, v, n - Segment) /\ m.toggle = ~k.toggle
  BY DEF Follows
<1>3. CASE m.cmd = "download"
  <2>1. n = 0 /\ m.obj = o /\ s.obj = m.obj /\ s.units = << >>
    BY <1>2, <1>3 DEF After, SegmentOf
  <2>2. Len(s.units) = 0 /\ Run(s.units, s.obj, v, 0)
    BY <2>1 DEF Run
  <2> QED
    BY <1>2, <2>1, <2>2
<1>4. CASE m.cmd # "download"
  <2>1. n >= Segment /\ SegmentOf(m, o, v, n - Segment)
    BY <1>2, <1>4
  <2>2. PICK w \in Versions, j \in Nat :
          SegmentOf(m, s.obj, w, j) /\ Run(s.units, s.obj, w, 0) /\ Len(s.units) = j + Segment
    BY <1>4 DEF After
  <2>3. n - Segment \in Nat
    BY <2>1 DEF Segment
  <2>4. o = s.obj /\ v = w /\ n - Segment = j
    BY <1>1, <2>1, <2>2, <2>3, SegmentIsUnique
  <2>5. Len(s.units) = n
    BY <2>2, <2>4 DEF Segment
  <2> QED
    BY <1>2, <2>2, <2>4, <2>5
<1> QED
  BY <1>3, <1>4

\* None of this depends on anything but the frames and the dictionary.
LEMMA FollowsKept ==
  ASSUME NEW m, NEW k, UNCHANGED dict, Follows(m, k)
  PROVE  Follows(m, k)'
  BY DEF Follows, SegmentOf, CallSize

LEMMA AfterKept ==
  ASSUME NEW m, NEW s, UNCHANGED dict, After(m, s)
  PROVE  After(m, s)'
  BY DEF After, SegmentOf, CallSize

LEMMA ContinuesKept ==
  ASSUME NEW k, NEW s, UNCHANGED dict, Continues(k, s)
  PROVE  Continues(k, s)'
  BY DEF Continues, SegmentOf, CallSize

LEMMA StreamSend ==
  ASSUME TypeOK, Stream, NEW m \in Requests, Send(m), Follows(last, m), Whole(m),
         UNCHANGED <<dict, srv>>
  PROVE  Stream'
<1>1. /\ last' = m /\ toDev' # << >> /\ Len(toDev') = Len(toDev) + 1
      /\ \A i \in 1 .. Len(toDev) : toDev'[i] = toDev[i]
      /\ toDev'[Len(toDev) + 1] = m
  BY SendIs
<1>2. Len(toDev) \in Nat /\ (toDev = << >>) = (Len(toDev) = 0)
  BY QueueLengths
<1>3. toDev'[Len(toDev')]= last'
  BY <1>1
<1>4. \A i \in 1 .. Len(toDev') : Whole(toDev'[i])
  BY <1>1, <1>2 DEF Stream
<1>5. ASSUME NEW i \in 1 .. Len(toDev'), i > 1
      PROVE  Follows(toDev'[i - 1], toDev'[i])
  <2>1. CASE i <= Len(toDev)
    <3>1. i \in 1 .. Len(toDev) /\ i - 1 \in 1 .. Len(toDev)
      BY <1>2, <1>5, <2>1
    <3> QED
      BY <1>1, <1>5, <3>1 DEF Stream
  <2>2. CASE ~(i <= Len(toDev))
    <3>1. i = Len(toDev) + 1 /\ i - 1 = Len(toDev) /\ i - 1 \in 1 .. Len(toDev)
      BY <1>1, <1>2, <1>5, <2>2
    <3>2. toDev'[i - 1] = last /\ toDev'[i] = m
      BY <1>1, <1>2, <3>1 DEF Stream
    <3> QED
      BY <3>2
  <2> QED
    BY <2>1, <2>2
<1>6. Continues(toDev'[1], srv)
  <2>1. CASE toDev = << >>
    <3>1. toDev'[1] = m /\ After(last, srv)
      BY <1>1, <1>2, <2>1 DEF Stream
    <3>2. last \in Requests /\ srv \in Transfers
      BY DEF TypeOK
    <3> QED
      BY <3>1, <3>2, CarriesOn
  <2>2. CASE toDev # << >>
    BY <1>1, <1>2, <2>2 DEF Stream
  <2> QED
    BY <2>1, <2>2
<1>7. (\A i \in 1 .. Len(toDev) : i > 1 => Follows(toDev[i - 1], toDev[i]))'
  BY <1>5, FollowsKept
<1>8. Continues(toDev[1], srv)'
  BY <1>6, ContinuesKept
<1>9. (\A i \in 1 .. Len(toDev) : Whole(toDev[i]))'
  BY <1>4
<1> QED
  BY <1>1, <1>3, <1>7, <1>8, <1>9 DEF Stream

LEMMA StreamTake ==
  ASSUME TypeOK, Stream, Take, After(toDev[1], srv'), srv' \in Transfers,
         UNCHANGED <<dict, last>>
  PROVE  Stream'
<1>1. /\ toDev[1] \in Requests /\ toDev # << >> /\ Len(toDev') = Len(toDev) - 1
      /\ \A i \in 1 .. Len(toDev') : toDev'[i] = toDev[i + 1]
      /\ (toDev' = << >>) = (Len(toDev) = 1) /\ toDev' \in Seq(Requests)
  BY TakeIs
<1>2. Len(toDev) \in Nat /\ Len(toDev) # 0 /\ toDev[Len(toDev)] = last /\ toDev \in Seq(Requests)
  BY <1>1, QueueLengths DEF Stream, TypeOK
<1>3. toDev' # << >> => toDev'[Len(toDev')] = last
  BY <1>1, <1>2
<1>4. \A i \in 1 .. Len(toDev') : Whole(toDev'[i])
  BY <1>1, <1>2 DEF Stream
<1>5. ASSUME NEW i \in 1 .. Len(toDev'), i > 1
      PROVE  Follows(toDev'[i - 1], toDev'[i])
  <2>1. /\ i - 1 \in 1 .. Len(toDev') /\ (i - 1) + 1 = i
        /\ i + 1 \in 1 .. Len(toDev) /\ (i + 1) - 1 = i /\ i + 1 > 1
    BY <1>1, <1>2, <1>5
  <2>2. Follows(toDev[(i + 1) - 1], toDev[i + 1])
    BY <2>1 DEF Stream
  <2> QED
    BY <1>1, <2>1, <2>2
<1>6. IF toDev' = << >> THEN After(last, srv') ELSE Continues(toDev'[1], srv')
  <2>1. CASE toDev' = << >>
    BY <1>1, <1>2, <2>1
  <2>2. CASE toDev' # << >>
    <3>1. 2 \in 1 .. Len(toDev) /\ 1 \in 1 .. Len(toDev') /\ toDev'[1] = toDev[2]
      BY <1>1, <1>2, <2>2
    <3>2. Follows(toDev[2 - 1], toDev[2]) /\ toDev[2] \in Requests
      BY <1>2, <3>1, ElementOfSeq DEF Stream
    <3>3. Follows(toDev[1], toDev[2])
      BY <3>2
    <3> QED
      BY <1>1, <2>2, <3>1, <3>2, <3>3, CarriesOn
  <2> QED
    BY <2>1, <2>2
<1>7. (\A i \in 1 .. Len(toDev) : i > 1 => Follows(toDev[i - 1], toDev[i]))'
  BY <1>5, FollowsKept
<1>8. (toDev = << >> => After(last, srv))' /\ (toDev # << >> => Continues(toDev[1], srv))'
  BY <1>6, AfterKept, ContinuesKept
<1>9. (\A i \in 1 .. Len(toDev) : Whole(toDev[i]))'
  BY <1>4
<1> QED
  BY <1>3, <1>7, <1>8, <1>9 DEF Stream

-------------------------------------------------------------------------------
(* What the client does with a frame                                       *)

\* The transfer is given up.
Quits ==
  /\ pc' = "end" /\ offset' = 0
  /\ Send(Abort) \/ UNCHANGED <<last, toDev>>
  /\ UNCHANGED <<data, total, done>>

\* The last request of a write is confirmed.
WriteDone(r) ==
  /\ Writing /\ r.cmd \in {"download", "dnseg"} /\ offset = total
  /\ pc' = "end" /\ done' = TRUE /\ UNCHANGED <<last, toDev, data, offset, total>>

\* A write sends its next segment.
WriteOn ==
  /\ Writing /\ offset < total
  /\ \E t \in BOOLEAN : LET m == DownloadSegment(t, data, offset) IN
       /\ Send(m) /\ Follows(last, m)
       /\ offset' = offset + Len(m.units)
  /\ pc' = "wait" /\ UNCHANGED <<data, total, done>>

\* The size a read has after the first answer.
SizeFrom(r) == IF total = 0 THEN Indicated(r) ELSE total

IsFirst(r) ==
  /\ Reading /\ last.cmd = "upload" /\ r.cmd = "upload" /\ r.obj = call.obj
  /\ total' = SizeFrom(r)

\* The first answer holds the value.
ReadDone(r) ==
  /\ IsFirst(r) /\ r.units # << >> /\ SizeFrom(r) <= Expedited
  /\ data' = SubSeq(r.units, 1, SizeFrom(r)) /\ offset' = SizeFrom(r)
  /\ pc' = "end" /\ done' = TRUE /\ UNCHANGED <<last, toDev>>

\* It does not: the first segment is asked for.
ReadOn(r) ==
  /\ IsFirst(r) /\ r.units = << >>
  /\ data' = IF total = 0 THEN Units(call.obj, 0, SizeFrom(r)) ELSE data
  /\ pc' = "wait" /\ Send(UploadSegment(FALSE)) /\ UNCHANGED <<offset, done>>

\* A segment of a read.
SegmentRead(r) ==
  /\ Reading /\ last.cmd = "upseg" /\ r.cmd = "upseg"
  /\ total = 0 \/ offset + Len(r.units) <= Len(data)
  /\ data' = SubSeq(data, 1, offset) \o r.units
               \o SubSeq(data, offset + Len(r.units) + 1, Len(data))
  /\ offset' = offset + Len(r.units) /\ UNCHANGED total
  /\ \/ pc' = "end" /\ done' = TRUE /\ UNCHANGED <<last, toDev>>
     \/ /\ offset' # total /\ pc' = "wait" /\ UNCHANGED done
        /\ \E t \in BOOLEAN : Send(UploadSegment(t))

FrameKeeps == UNCHANGED <<dict, call, outcome, enabled, history, device, toClient>>

LEMMA OtherRequests ==
  /\ Abort \in Requests /\ Abort.cmd = "abort"
  /\ \A o \in Objects : /\ UploadRequest(o) \in Requests /\ UploadRequest(o).cmd = "upload"
                        /\ UploadRequest(o).obj = o
  /\ \A t \in BOOLEAN : UploadSegment(t) \in Requests /\ UploadSegment(t).cmd = "upseg"
  BY DEF Requests, Abort, UploadRequest, UploadSegment

\* What is no segment follows whatever was sent before.
LEMMA NoSegment ==
  ASSUME NEW m \in Requests, m.cmd \in {"upload", "upseg", "abort"}
  PROVE  Whole(m) /\ \A k : Follows(k, m)
  BY DEF Whole, Follows

LEMMA SegmentIs ==
  ASSUME TypeOK, Sent, Writing, offset < total, NEW t \in BOOLEAN,
         NEW m, m = DownloadSegment(t, data, offset)
  PROVE  /\ m \in Requests /\ m.cmd = "dnseg" /\ m.toggle = t /\ Whole(m)
         /\ SegmentOf(m, call.obj, call.version, offset)
         /\ Len(m.units) \in Nat /\ Len(m.units) > 0 /\ offset + Len(m.units) <= total
<1>1. /\ call \in Calls /\ data \in Seq(Unit) /\ offset \in Nat /\ total \in Nat
      /\ total = CallSize(call.obj) /\ Len(data) = total
      /\ Run(data, call.obj, call.version, 0)
  BY DEF TypeOK, Sent
<1> DEFINE u == Part(data, offset + 1, offset + Segment)
<1>2. /\ offset + 1 \in Nat /\ offset + Segment \in Nat /\ 1 <= offset + 1
      /\ offset + 1 <= offset + Segment /\ offset + 1 <= Len(data)
  <2> DEFINE n == Len(data)
  <2>1. n = total
    BY <1>1
  <2> HIDE DEF n
  <2>2. offset + 1 <= n
    BY <1>1, <2>1
  <2> QED
    BY <1>1, <2>2 DEF Segment, n
<1>3. /\ u \in Seq(Unit)
      /\ Len(u) = IF offset + Segment < Len(data) THEN (offset + Segment) - (offset + 1) + 1
                                               ELSE Len(data) - (offset + 1) + 1
  BY <1>1, <1>2, PartOf
<1>4. Run(u, call.obj, call.version, 0 + (offset + 1) - 1)
  BY <1>1, <1>2, PartOfRun
<1>5. Len(u) = IF total - offset <= 2 THEN total - offset ELSE 2
  <2> HIDE DEF u
  <2>1. Len(u) = IF offset + 2 < total THEN (offset + 2) - (offset + 1) + 1
                                     ELSE total - (offset + 1) + 1
    BY <1>1, <1>3 DEF Segment
  <2> QED
    BY <1>1, <2>1
<1>6. Run(u, call.obj, call.version, offset)
  <2>1. 0 + (offset + 1) - 1 = offset
    BY <1>1
  <2> QED
    BY <1>4, <2>1
<1>7. /\ m.cmd = "dnseg" /\ m.toggle = t /\ m.units = u
      /\ m.last = (total - offset <= Segment) /\ m.last \in BOOLEAN
  BY <1>1 DEF DownloadSegment
<1> HIDE DEF u
<1>8. m \in Requests
  <2>1. m = [cmd |-> "dnseg", toggle |-> t, last |-> Len(data) - offset <= Segment, units |-> u]
    BY DEF DownloadSegment, u
  <2>2. (Len(data) - offset <= Segment) \in BOOLEAN
    OBVIOUS
  <2> QED
    BY <1>3, <2>1, <2>2 DEF Requests
<1>9. SegmentOf(m, call.obj, call.version, offset)
  BY <1>1, <1>5, <1>6, <1>7 DEF SegmentOf, Segment
<1>10. Len(m.units) \in Nat /\ Len(m.units) > 0 /\ offset + Len(m.units) <= total
  <2> DEFINE k == Len(m.units)
  <2>1. k = IF total - offset <= 2 THEN total - offset ELSE 2
    BY <1>5, <1>7
  <2> HIDE DEF k
  <2>2. k \in Nat /\ k > 0 /\ offset + k <= total
    BY <1>1, <2>1
  <2> QED
    BY <2>2 DEF k
<1>11. Whole(m)
  BY <1>7 DEF Whole
<1> QED
  BY <1>7, <1>8, <1>9, <1>10, <1>11

\* A write never sends more than it has.
LEMMA OffsetOfWrite ==
  ASSUME TypeOK, Sent, Writing
  PROVE  /\ offset <= total /\ total > 0 /\ last.cmd \in {"download", "dnseg"}
         /\ last.cmd = "download" => last.obj = call.obj
         /\ last.cmd = "download" /\ offset < total => last.units = << >> /\ offset = 0
         /\ last.cmd = "download" /\ offset = total => last.units = data
         /\ last.cmd = "dnseg" /\ offset < total =>
              \E n \in Nat : /\ SegmentOf(last, call.obj, call.version, n)
                             /\ offset = n + Segment /\ last.last = FALSE
         /\ last.cmd = "dnseg" /\ offset = total =>
              \E n \in Nat : /\ SegmentOf(last, call.obj, call.version, n)
                             /\ last.last = TRUE /\ total = n + Len(last.units)
<1>1. /\ call \in Calls /\ offset \in Nat /\ total \in Nat /\ total = CallSize(call.obj)
      /\ last \in Requests /\ call.op = "write" /\ data \in Seq(Unit)
  BY DEF TypeOK, Sent, Writing
<1>2. call.obj \in Objects /\ total > 0
  <2>1. call.obj \in Objects
    BY <1>1, CallFields
  <2>2. CallSize(call.obj) > 0
    BY <2>1, CallSizes
  <2> QED
    BY <1>1, <2>1, <2>2
<1>3. CASE last.cmd = "download" /\ last.obj = call.obj
  <2>1. IF total <= Expedited THEN last.units = data /\ offset = total
                              ELSE last.units = << >> /\ offset = 0
    BY <1>3 DEF Sent, SegmentOf
  <2> QED
    BY <1>1, <1>2, <1>3, <2>1
<1>4. ASSUME NEW n \in Nat, SegmentOf(last, call.obj, call.version, n),
             offset = n + Len(last.units)
      PROVE  /\ offset <= total /\ last.cmd = "dnseg"
             /\ offset < total => offset = n + Segment /\ last.last = FALSE
             /\ offset = total => last.last = TRUE
  <2>1. n < total /\ last.cmd = "dnseg"
    BY <1>1, <1>4 DEF SegmentOf
  <2>2. CASE total - n <= 2
    <3>1. Len(last.units) = total - n /\ last.last = TRUE
      BY <1>1, <1>4, <2>2 DEF SegmentOf, Segment
    <3>2. offset = n + (total - n)
      BY <1>4, <3>1
    <3>3. offset = total
      BY <1>1, <3>2
    <3> QED
      BY <1>1, <2>1, <3>1, <3>3
  <2>3. CASE ~(total - n <= 2)
    <3>1. Len(last.units) = 2 /\ last.last = FALSE
      BY <1>1, <1>4, <2>3 DEF SegmentOf, Segment
    <3>2. offset = n + 2
      BY <1>4, <3>1
    <3>3. offset < total
      BY <1>1, <2>3, <3>2
    <3> QED
      BY <1>1, <2>1, <3>1, <3>2, <3>3 DEF Segment
  <2> QED
    BY <2>2, <2>3
<1>5. CASE ~(last.cmd = "download" /\ last.obj = call.obj)
  <2>1. PICK n \in Nat : /\ SegmentOf(last, call.obj, call.version, n)
                         /\ offset = n + Len(last.units)
    BY <1>5 DEF Sent
  <2> QED
    BY <1>2, <1>4, <2>1
<1> QED
  BY <1>3, <1>5

\* Whose transfer it is tells which requests it sends.
LEMMA ReadOrWrite ==
  ASSUME TypeOK, Sent, Asked, pc = "wait"
  PROVE  /\ Reading \/ Writing
         /\ Reading => last.cmd \in {"upload", "upseg"}
         /\ Writing => last.cmd \in {"download", "dnseg"}
<1>1. call \in Calls /\ call # NoCall
  BY DEF TypeOK
<1>2. call.op \in {"read", "write"}
  BY <1>1, CallFields
<1>3. Reading => last.cmd \in {"upload", "upseg"}
  BY DEF Asked
<1>4. Writing => last.cmd \in {"download", "dnseg"}
  BY OffsetOfWrite
<1> QED
  BY <1>2, <1>3, <1>4 DEF Reading, Writing

LEMMA GivesUp ==
  ASSUME NEW b \in BOOLEAN, GiveUp(b)
  PROVE  Quits
  BY DEF GiveUp, Quits

\* A segment that is sent now follows the last request.
LEMMA NextFollows ==
  ASSUME TypeOK, Sent, Writing, offset < total, NEW t \in BOOLEAN,
         last.cmd = "download" => t = FALSE,
         last.cmd = "dnseg" => t = ~last.toggle
  PROVE  Follows(last, DownloadSegment(t, data, offset))
<1> DEFINE m == DownloadSegment(t, data, offset)
<1>1. /\ m.cmd = "dnseg" /\ m.toggle = t /\ SegmentOf(m, call.obj, call.version, offset)
  BY SegmentIs
<1>2. call \in Calls /\ offset \in Nat /\ last \in Requests /\ call.op = "write"
  BY DEF TypeOK, Writing
<1>3. call.obj \in Objects /\ call.version \in Versions
  BY <1>2, CallFields
<1> HIDE DEF m
<1>4. CASE last.cmd = "download"
  <2>1. last.obj = call.obj /\ last.units = << >> /\ offset = 0 /\ m.toggle = FALSE
    BY <1>1, <1>4, OffsetOfWrite
  <2> QED
    BY <1>1, <1>2, <1>3, <1>4, <2>1 DEF Follows, m
<1>5. CASE last.cmd = "dnseg"
  <2>1. PICK n \in Nat : SegmentOf(last, call.obj, call.version, n) /\ offset = n + Segment
    BY <1>5, OffsetOfWrite
  <2>2. offset >= Segment /\ offset - Segment = n
    BY <2>1 DEF Segment
  <2>3. last.toggle \in BOOLEAN
    BY <1>2, <1>5, RequestFields
  <2>4. last.toggle = ~m.toggle
    BY <1>1, <1>5, <2>3, Zenon
  <2>5. SegmentOf(last, call.obj, call.version, offset - Segment)
    BY <2>1, <2>2
  <2> QED
    BY <1>1, <1>2, <1>3, <2>2, <2>4, <2>5 DEF Follows, m
<1> QED
  BY <1>4, <1>5, OffsetOfWrite

LEMMA DownloadCases ==
  ASSUME TypeOK, Sent, Asked, pc = "wait",
         NEW r \in Replies, \/ r.cmd = "download" /\ DownloadInitiated(r)
                            \/ r.cmd = "dnseg" /\ DownloadSegmented(r)
  PROVE  Quits \/ WriteDone(r) \/ WriteOn
<1>1. offset \in Nat /\ total \in Nat
  BY DEF TypeOK
<1>2. CASE r.cmd = "download" /\ DownloadInitiated(r)
  <2>1. CASE last.cmd = "download" /\ SameObject(r)
    <3>1. Writing /\ offset <= total
      BY <2>1, ReadOrWrite, OffsetOfWrite
    <3>2. CASE offset < total
      <4>1. /\ GoOn(DownloadSegment(FALSE, data, offset))
            /\ offset' = offset + Len(DownloadSegment(FALSE, data, offset).units)
            /\ UNCHANGED <<data, total>>
        BY <1>2, <2>1, <3>2 DEF DownloadInitiated
      <4>2. Follows(last, DownloadSegment(FALSE, data, offset))
        BY <2>1, <3>1, <3>2, NextFollows
      <4> QED
        BY <3>1, <3>2, <4>1, <4>2 DEF WriteOn, GoOn
    <3>3. CASE ~(offset < total)
      <4>1. Finished /\ UNCHANGED <<data, offset, total>>
        BY <1>2, <2>1, <3>3 DEF DownloadInitiated
      <4> QED
        BY <1>1, <1>2, <3>1, <3>3, <4>1 DEF WriteDone, Finished
    <3> QED
      BY <3>2, <3>3
  <2>2. CASE ~(last.cmd = "download" /\ SameObject(r))
    <3>1. GiveUp(TRUE)
      BY <1>2, <2>2 DEF DownloadInitiated
    <3> QED
      BY <3>1, GivesUp
  <2> QED
    BY <2>1, <2>2
<1>3. CASE r.cmd = "dnseg" /\ DownloadSegmented(r)
  <2>1. CASE last.cmd = "dnseg" /\ last.toggle = r.toggle
    <3>1. Writing /\ offset <= total
      BY <2>1, ReadOrWrite, OffsetOfWrite
    <3>2. r.toggle \in BOOLEAN /\ (~r.toggle) \in BOOLEAN
      BY <1>3, ReplyFields
    <3>3. CASE offset < total
      <4>1. /\ GoOn(DownloadSegment(~r.toggle, data, offset))
            /\ offset' = offset + Len(DownloadSegment(~r.toggle, data, offset).units)
            /\ UNCHANGED <<data, total>>
        BY <1>3, <2>1, <3>3 DEF DownloadSegmented
      <4>2. Follows(last, DownloadSegment(~r.toggle, data, offset))
        <5>1. last.cmd # "download" /\ ~r.toggle = ~last.toggle
          BY <2>1
        <5> QED
          BY <2>1, <3>1, <3>2, <3>3, <5>1, NextFollows
      <4> QED
        BY <3>1, <3>2, <3>3, <4>1, <4>2 DEF WriteOn, GoOn
    <3>4. CASE ~(offset < total)
      <4>1. Finished /\ UNCHANGED <<data, offset, total>>
        BY <1>3, <2>1, <3>4 DEF DownloadSegmented
      <4> QED
        BY <1>1, <1>3, <3>1, <3>4, <4>1 DEF WriteDone, Finished
    <3> QED
      BY <3>3, <3>4
  <2>2. CASE ~(last.cmd = "dnseg" /\ last.toggle = r.toggle)
    <3>1. GiveUp(TRUE)
      BY <1>3, <2>2 DEF DownloadSegmented
    <3> QED
      BY <3>1, GivesUp
  <2> QED
    BY <2>1, <2>2
<1> QED
  BY <1>2, <1>3

LEMMA UploadCases ==
  ASSUME TypeOK, Sent, Asked, pc = "wait",
         NEW r \in Replies, r.cmd = "upload", UploadInitiated(r)
  PROVE  Quits \/ ReadDone(r) \/ ReadOn(r)
<1> DEFINE Fits == last.cmd = "upload" /\ SameObject(r) /\ SizeFits(r)
<1>1. CASE ~Fits
  <2>1. GiveUp(TRUE)
    BY <1>1 DEF UploadInitiated
  <2> QED
    BY <2>1, GivesUp
<1>2. CASE Fits
  <2>1. Reading /\ r.obj = call.obj
    BY <1>2, ReadOrWrite DEF Asked, SameObject
  <2>2. /\ total' = SizeFrom(r)
        /\ IF r.units # << >>
           THEN /\ Finished /\ data' = SubSeq(r.units, 1, SizeFrom(r))
                /\ offset' = SizeFrom(r)
           ELSE /\ GoOn(UploadSegment(FALSE))
                /\ data' = IF total = 0 THEN Units(call.obj, 0, SizeFrom(r)) ELSE data
                /\ UNCHANGED offset
    BY <1>2 DEF UploadInitiated, SizeFrom
  <2>3. r.units # << >> => SizeFrom(r) <= Expedited
    BY <1>2 DEF SizeFits, SizeFrom, Indicated
  <2>4. IsFirst(r)
    BY <1>2, <2>1, <2>2 DEF IsFirst
  <2>5. CASE r.units # << >>
    <3>1. /\ Finished /\ data' = SubSeq(r.units, 1, SizeFrom(r)) /\ offset' = SizeFrom(r)
      BY <2>2, <2>5
    <3> QED
      BY <2>3, <2>4, <2>5, <3>1 DEF ReadDone, Finished
  <2>6. CASE r.units = << >>
    <3>1. /\ GoOn(UploadSegment(FALSE)) /\ UNCHANGED offset
          /\ data' = IF total = 0 THEN Units(call.obj, 0, SizeFrom(r)) ELSE data
      BY <2>2, <2>6
    <3> QED
      BY <2>4, <2>6, <3>1 DEF ReadOn, GoOn
  <2> QED
    BY <2>5, <2>6
<1> QED
  BY <1>1, <1>2

LEMMA SegmentCases ==
  ASSUME TypeOK, Sent, Asked, pc = "wait",
         NEW r \in Replies, r.cmd = "upseg", UploadSegmented(r)
  PROVE  Quits \/ SegmentRead(r)
<1> DEFINE Fits == /\ last.cmd = "upseg" /\ last.toggle = r.toggle
                   /\ total = 0 \/ offset + Len(r.units) <= Len(data)
<1>1. CASE ~Fits
  <2>1. GiveUp(TRUE)
    BY <1>1 DEF UploadSegmented
  <2> QED
    BY <2>1, GivesUp
<1>2. CASE Fits
  <2>1. Reading
    BY <1>2, ReadOrWrite
  <2>2. /\ data' = SubSeq(data, 1, offset) \o r.units
                     \o SubSeq(data, offset + Len(r.units) + 1, Len(data))
        /\ offset' = offset + Len(r.units) /\ UNCHANGED total
        /\ IF r.last \/ offset' = total THEN Finished ELSE GoOn(UploadSegment(~r.toggle))
    BY <1>2 DEF UploadSegmented
  <2>3. (~r.toggle) \in BOOLEAN
    BY ReplyFields
  <2>4. \/ Finished
        \/ offset' # total /\ GoOn(UploadSegment(~r.toggle))
    BY <2>2
  <2>5. \/ pc' = "end" /\ done' = TRUE /\ UNCHANGED <<last, toDev>>
        \/ /\ offset' # total /\ pc' = "wait" /\ UNCHANGED done
           /\ \E t \in BOOLEAN : Send(UploadSegment(t))
    BY <2>3, <2>4 DEF Finished, GoOn
  <2> QED
    BY <1>2, <2>1, <2>2, <2>5 DEF SegmentRead
<1> QED
  BY <1>1, <1>2

LEMMA FrameCases ==
  ASSUME TypeOK, Sent, Asked, ProcessFrame
  PROVE  /\ pc = "wait" /\ frame # << >> /\ frame' = << >> /\ FrameKeeps
         /\ Head(frame) \in Replies /\ Len(frame) = 1 /\ Head(frame) = frame[1]
         /\ \/ Quits \/ WriteDone(Head(frame)) \/ WriteOn
            \/ ReadDone(Head(frame)) \/ ReadOn(Head(frame)) \/ SegmentRead(Head(frame))
<1> DEFINE r == Head(frame)
<1>1. pc = "wait" /\ frame # << >> /\ frame' = << >> /\ FrameKeeps
  BY DEF ProcessFrame, FrameKeeps
<1>2. r \in Replies /\ Len(frame) = 1 /\ r = frame[1]
  BY <1>1, FrameIs
<1>3. r.cmd \in {"upload", "download", "upseg", "dnseg", "abort"}
  BY <1>2, ReplyFields
<1>4. /\ r.cmd = "download" => DownloadInitiated(r)
      /\ r.cmd = "dnseg" => DownloadSegmented(r)
      /\ r.cmd = "upload" => UploadInitiated(r)
      /\ r.cmd = "upseg" => UploadSegmented(r)
      /\ r.cmd = "abort" => GiveUp(FALSE)
  BY <1>3 DEF ProcessFrame, Aborted
<1> HIDE DEF r
<1>5. Quits \/ WriteDone(r) \/ WriteOn \/ ReadDone(r) \/ ReadOn(r) \/ SegmentRead(r)
  <2>1. CASE r.cmd \in {"download", "dnseg"}
    BY <1>1, <1>2, <1>4, <2>1, DownloadCases
  <2>2. CASE r.cmd = "upload"
    BY <1>1, <1>2, <1>4, <2>2, UploadCases
  <2>3. CASE r.cmd = "upseg"
    BY <1>1, <1>2, <1>4, <2>3, SegmentCases
  <2>4. CASE r.cmd = "abort"
    BY <1>4, <2>4, GivesUp
  <2> QED
    BY <1>3, <2>1, <2>2, <2>3, <2>4
<1> QED
  BY <1>1, <1>2, <1>5 DEF r

-------------------------------------------------------------------------------
(* What a read gets                                                        *)

\* Where the buffer of a read ends.
LEMMA BufferOfRead ==
  ASSUME TypeOK, Asked, Reading
  PROVE  /\ data \in Seq(Unit) /\ offset \in Nat /\ total \in Nat /\ Len(data) \in Nat
         /\ offset <= Len(data) /\ (total = 0 => Len(data) = offset)
         /\ (total # 0 => Len(data) = total) /\ call.obj \in Objects
<1>1. data \in Seq(Unit) /\ offset \in Nat /\ total \in Nat /\ call \in Calls
  BY DEF TypeOK
<1>2. call.obj \in Objects
  BY <1>1, CallFields DEF Reading
<1>3. Len(data) \in Nat
  BY <1>1, LenProperties
<1> QED
  BY <1>1, <1>2, <1>3 DEF Asked

LEMMA SegmentReadIs ==
  ASSUME TypeOK, Asked, NEW r \in Replies, SegmentRead(r)
  PROVE  /\ r.units \in Seq(Unit) /\ Len(r.units) \in Nat
         /\ offset' = offset + Len(r.units) /\ offset' \in Nat /\ total' = total
         /\ data' \in Seq(Unit) /\ Len(data') = (IF total = 0 THEN offset' ELSE total)
         /\ offset' <= Len(data')
         /\ \A i \in 1 .. offset : data'[i] = data[i]
         /\ \A i \in 1 .. Len(r.units) : data'[offset + i] = r.units[i]
<1> DEFINE n == Len(data)
           k == Len(r.units)
           a == SubSeq(data, 1, offset)
           z == SubSeq(data, offset + k + 1, n)
<1>1. /\ data \in Seq(Unit) /\ offset \in Nat /\ total \in Nat /\ n \in Nat
      /\ offset <= n /\ (total = 0 => n = offset) /\ (total # 0 => n = total)
  BY BufferOfRead DEF SegmentRead
<1>2. r.units \in Seq(Unit) /\ k \in Nat
  BY ReplyFields, LenProperties DEF SegmentRead
<1>3. /\ total = 0 \/ offset + k <= n
      /\ data' = a \o r.units \o z /\ offset' = offset + k /\ total' = total
  BY DEF SegmentRead
<1>4. a \in Seq(Unit) /\ Len(a) = offset /\ \A i \in 1 .. offset : a[i] = data[i]
  <2>1. 1 \in 1 .. n + 1 /\ offset \in 1 - 1 .. n
    BY <1>1
  <2>2. /\ a \in Seq(Unit) /\ Len(a) = offset - 1 + 1
        /\ \A i \in 1 .. offset - 1 + 1 : a[i] = data[1 + i - 1]
    BY <1>1, <2>1, SubSeqProperties
  <2>3. offset - 1 + 1 = offset /\ \A i \in 1 .. offset : 1 + i - 1 = i
    BY <1>1
  <2> QED
    BY <2>2, <2>3
<1>5. z \in Seq(Unit) /\ Len(z) = IF offset + k <= n THEN n - (offset + k) ELSE 0
  <2>1. offset + k + 1 \in Int /\ n \in Int /\ \A i \in offset + k + 1 .. n : i \in 1 .. n
    BY <1>1, <1>2
  <2>2. \A i \in offset + k + 1 .. n : data[i] \in Unit
    BY <1>1, <2>1, ElementOfSeq
  <2> HIDE DEF n, k
  <2>3. /\ z \in Seq(Unit)
        /\ Len(z) = IF offset + k + 1 <= n THEN n - (offset + k + 1) + 1 ELSE 0
    BY <2>1, <2>2, SubSeqProperties
  <2>4. (IF offset + k + 1 <= n THEN n - (offset + k + 1) + 1 ELSE 0)
          = (IF offset + k <= n THEN n - (offset + k) ELSE 0)
    BY <1>1, <1>2
  <2> QED
    BY <2>3, <2>4
<1> HIDE DEF a, z
<1>6. /\ a \o r.units \in Seq(Unit) /\ Len(a \o r.units) = Len(a) + k
      /\ \A i \in 1 .. Len(a) + k :
           (a \o r.units)[i] = IF i <= Len(a) THEN a[i] ELSE r.units[i - Len(a)]
  BY <1>2, <1>4, ConcatProperties
<1>7. /\ data' \in Seq(Unit) /\ Len(data') = Len(a \o r.units) + Len(z)
      /\ \A i \in 1 .. Len(a \o r.units) + Len(z) :
           data'[i] = IF i <= Len(a \o r.units) THEN (a \o r.units)[i]
                                               ELSE z[i - Len(a \o r.units)]
  <2> DEFINE b == a \o r.units
  <2>1. b \in Seq(Unit) /\ z \in Seq(Unit) /\ data' = b \o z
    BY <1>3, <1>5, <1>6
  <2> HIDE DEF b
  <2>2. /\ data' \in Seq(Unit) /\ Len(data') = Len(b) + Len(z)
        /\ \A i \in 1 .. Len(b) + Len(z) :
             data'[i] = IF i <= Len(b) THEN b[i] ELSE z[i - Len(b)]
    BY <2>1, ConcatProperties
  <2> QED
    BY <2>2 DEF b
<1> HIDE DEF n, k
<1>8. Len(a \o r.units) = offset + k
  BY <1>4, <1>6
<1>9. Len(data') = offset + k + (IF offset + k <= n THEN n - (offset + k) ELSE 0)
  BY <1>5, <1>7, <1>8
<1>10. Len(data') = (IF total = 0 THEN offset + k ELSE total) /\ offset + k <= Len(data')
  <2> DEFINE d == Len(data')
  <2>1. d = offset + k + (IF offset + k <= n THEN n - (offset + k) ELSE 0)
    BY <1>9
  <2> HIDE DEF d
  <2>2. d = (IF total = 0 THEN offset + k ELSE total) /\ offset + k <= d
    BY <1>1, <1>2, <1>3, <2>1
  <2> QED
    BY <2>2 DEF d
<1>11. /\ Len(z) \in Nat
       /\ \A i \in 1 .. offset + k : i \in 1 .. offset + k + Len(z) /\ i <= offset + k
  BY <1>1, <1>2, <1>5
<1>12. \A i \in 1 .. offset + k :
         data'[i] = IF i <= offset THEN a[i] ELSE r.units[i - offset]
  BY <1>4, <1>6, <1>7, <1>8, <1>11
<1>13. \A i \in 1 .. offset : data'[i] = data[i]
  <2>1. \A i \in 1 .. offset : i \in 1 .. offset + k /\ i <= offset
    BY <1>1, <1>2
  <2> QED
    BY <1>4, <1>12, <2>1
<1>14. \A i \in 1 .. k : data'[offset + i] = r.units[i]
  <2>1. \A i \in 1 .. k : /\ offset + i \in 1 .. offset + k /\ ~(offset + i <= offset)
                          /\ (offset + i) - offset = i
    BY <1>1, <1>2
  <2> QED
    BY <1>12, <2>1
<1>15. offset + k \in Nat
  BY <1>1, <1>2
<1> QED
  BY <1>2, <1>3, <1>7, <1>10, <1>13, <1>14, <1>15 DEF k

LEMMA SizeIsNat ==
  ASSUME TypeOK, NEW r \in Replies, IsFirst(r)
  PROVE  SizeFrom(r) \in Nat /\ total' = SizeFrom(r) /\ r.units \in Seq(Unit)
<1>1. total \in Nat /\ r.size \in Nat /\ r.units \in Seq(Unit)
  BY ReplyFields DEF TypeOK, IsFirst
<1>2. DataSize(r.size) \in Nat
  BY <1>1, DataSizes
<1> QED
  BY <1>1, <1>2 DEF SizeFrom, Indicated, IsFirst

LEMMA ReadDoneIs ==
  ASSUME TypeOK, NEW r \in Replies, ReadDone(r)
  PROVE  /\ total' = SizeFrom(r) /\ offset' = SizeFrom(r) /\ SizeFrom(r) \in Nat
         /\ SizeFrom(r) = 0 \/ SizeFrom(r) = 1
         /\ data' \in Seq(Unit) /\ Len(data') = SizeFrom(r)
         /\ Len(r.units) \in Nat /\ Len(r.units) > 0 /\ r.units \in Seq(Unit)
         /\ \A i \in 1 .. SizeFrom(r) : data'[i] = r.units[i]
<1> DEFINE n == SizeFrom(r)
<1>1. /\ n \in Nat /\ total' = n /\ r.units \in Seq(Unit) /\ r.units # << >> /\ n <= 1
      /\ data' = SubSeq(r.units, 1, n) /\ offset' = n
  BY SizeIsNat DEF ReadDone, Expedited
<1>2. Len(r.units) \in Nat /\ Len(r.units) # 0
  BY <1>1, LenProperties, EmptySeq
<1>3. n = 0 \/ n = 1
  BY <1>1
<1>4. 1 \in 1 .. Len(r.units) + 1 /\ n \in 1 - 1 .. Len(r.units)
  BY <1>1, <1>2
<1> HIDE DEF n
<1>5. /\ SubSeq(r.units, 1, n) \in Seq(Unit) /\ Len(SubSeq(r.units, 1, n)) = n - 1 + 1
      /\ \A i \in 1 .. n - 1 + 1 : SubSeq(r.units, 1, n)[i] = r.units[1 + i - 1]
  BY <1>1, <1>4, SubSeqProperties
<1>6. n - 1 + 1 = n /\ \A i \in 1 .. n : 1 + i - 1 = i
  BY <1>1
<1>7. Len(r.units) > 0
  BY <1>2
<1> QED
  BY <1>1, <1>2, <1>3, <1>5, <1>6, <1>7 DEF n

LEMMA ReadOnIs ==
  ASSUME TypeOK, Asked, NEW r \in Replies, ReadOn(r)
  PROVE  /\ total' = SizeFrom(r) /\ SizeFrom(r) \in Nat /\ offset = 0 /\ offset' = 0
         /\ data' \in Seq(Unit) /\ Len(data') = SizeFrom(r)
<1>1. /\ SizeFrom(r) \in Nat /\ total' = SizeFrom(r) /\ Reading /\ last.cmd = "upload"
      /\ data' = (IF total = 0 THEN Units(call.obj, 0, SizeFrom(r)) ELSE data)
      /\ offset' = offset
  BY SizeIsNat DEF ReadOn, IsFirst
<1>2. /\ data \in Seq(Unit) /\ (total # 0 => Len(data) = total) /\ call.obj \in Objects
      /\ offset = 0
  BY <1>1, BufferOfRead DEF Asked
<1>3. CASE total = 0
  BY <1>1, <1>2, <1>3, UnitsAre
<1>4. CASE total # 0
  BY <1>1, <1>2, <1>4 DEF SizeFrom
<1> QED
  BY <1>1, <1>2, <1>3, <1>4

-------------------------------------------------------------------------------
(* Types                                                                   *)

LEMMA InitTypes == Init => TypeOK
<1> SUFFICES ASSUME Init PROVE TypeOK
  OBVIOUS
<1>1. /\ << >> \in Seq(Unit) /\ << >> \in Seq(Requests) /\ << >> \in Seq(Replies)
      /\ Len(<< >>) = 0 /\ Len(<< >>) <= 1
      /\ Len(<< >>) <= MaxRequests /\ Len(<< >>) <= MaxReplies
  BY SdoAssumption
<1>2. /\ dict \in [Objects -> [dev : Nat \ {0}, type : Nat]] /\ last \in Requests
      /\ call \in Calls /\ srv \in Transfers
  BY SdoAssumption, OtherRequests DEF Init, Calls, Transfers
<1>3. val \in [Objects -> Versions \cup {0}]
  BY DEF Init
<1> QED
  BY <1>1, <1>2, <1>3 DEF Init, TypeOK

LEMMA FrameTypes ==
  ASSUME TypeOK, Sent, Asked, ProcessFrame
  PROVE  /\ last' \in Requests /\ toDev' \in Seq(Requests) /\ Len(toDev') <= MaxRequests
         /\ data' \in Seq(Unit) /\ offset' \in Nat /\ total' \in Nat /\ done' \in BOOLEAN
         /\ pc' \in {"wait", "end"}
<1>1. /\ last \in Requests /\ toDev \in Seq(Requests) /\ Len(toDev) <= MaxRequests
      /\ data \in Seq(Unit) /\ offset \in Nat /\ total \in Nat /\ done \in BOOLEAN
  BY DEF TypeOK
<1>2. Head(frame) \in Replies
  BY FrameCases
<1>3. CASE Quits
  <2>1. CASE Send(Abort)
    <3>1. Abort \in Requests
      BY OtherRequests
    <3>2. last' = Abort /\ toDev' \in Seq(Requests) /\ Len(toDev') <= MaxRequests
      BY <2>1, <3>1, SendIs
    <3> QED
      BY <1>1, <1>3, <3>1, <3>2 DEF Quits
  <2>2. CASE UNCHANGED <<last, toDev>>
    BY <1>1, <1>3, <2>2 DEF Quits
  <2> QED
    BY <1>3, <2>1, <2>2 DEF Quits
<1>4. CASE WriteDone(Head(frame))
  BY <1>1, <1>4 DEF WriteDone
<1>5. CASE WriteOn
  <2>1. PICK t \in BOOLEAN : /\ Send(DownloadSegment(t, data, offset))
                             /\ offset' = offset + Len(DownloadSegment(t, data, offset).units)
    BY <1>5 DEF WriteOn
  <2>2. /\ DownloadSegment(t, data, offset) \in Requests
        /\ Len(DownloadSegment(t, data, offset).units) \in Nat
    BY <1>5, SegmentIs DEF WriteOn
  <2>3. last' \in Requests /\ toDev' \in Seq(Requests) /\ Len(toDev') <= MaxRequests
    BY <2>1, <2>2, SendIs
  <2>4. offset' \in Nat
    BY <1>1, <2>1, <2>2
  <2> QED
    BY <1>1, <1>5, <2>3, <2>4 DEF WriteOn
<1>6. CASE ReadDone(Head(frame))
  <2>1. data' \in Seq(Unit) /\ offset' \in Nat /\ total' \in Nat
    BY <1>2, <1>6, ReadDoneIs
  <2> QED
    BY <1>1, <1>6, <2>1 DEF ReadDone
<1>7. CASE ReadOn(Head(frame))
  <2>1. data' \in Seq(Unit) /\ offset' \in Nat /\ total' \in Nat
    BY <1>2, <1>7, ReadOnIs
  <2>2. UploadSegment(FALSE) \in Requests
    BY OtherRequests
  <2>3. last' \in Requests /\ toDev' \in Seq(Requests) /\ Len(toDev') <= MaxRequests
    BY <1>7, <2>2, SendIs DEF ReadOn
  <2> QED
    BY <1>1, <1>7, <2>1, <2>3 DEF ReadOn
<1>8. CASE SegmentRead(Head(frame))
  <2>1. data' \in Seq(Unit) /\ offset' \in Nat /\ total' \in Nat
    BY <1>1, <1>2, <1>8, SegmentReadIs
  <2>2. CASE pc' = "end" /\ done' = TRUE /\ UNCHANGED <<last, toDev>>
    BY <1>1, <2>1, <2>2
  <2>3. CASE pc' = "wait" /\ UNCHANGED done /\ \E t \in BOOLEAN : Send(UploadSegment(t))
    <3>1. PICK t \in BOOLEAN : Send(UploadSegment(t))
      BY <2>3
    <3>2. UploadSegment(t) \in Requests
      BY OtherRequests
    <3>3. last' \in Requests /\ toDev' \in Seq(Requests) /\ Len(toDev') <= MaxRequests
      BY <3>1, <3>2, SendIs
    <3> QED
      BY <1>1, <2>1, <2>3, <3>3
  <2> QED
    BY <1>8, <2>2, <2>3 DEF SegmentRead
<1> QED
  BY <1>3, <1>4, <1>5, <1>6, <1>7, <1>8, FrameCases

\* What the device takes over is typed, whole or not.
LEMMA AdoptTypes ==
  ASSUME TypeOK, NEW o \in Objects, NEW u, Adopt(o, u)
  PROVE  val' \in [Objects -> Versions \cup {0}] /\ seen' \subseteq Versions \cup {0}
<1> DEFINE w == {x \in Versions : u = Units(o, x, dict[o].dev)}
           n == IF w = {} THEN 0 ELSE CHOOSE x \in w : TRUE
<1>1. n \in Versions \cup {0}
  <2>1. w # {} => (CHOOSE x \in w : TRUE) \in w
    OBVIOUS
  <2> QED
    BY <2>1
<1>2. /\ val \in [Objects -> Versions \cup {0}] /\ seen \subseteq Versions \cup {0}
  BY DEF TypeOK
<1>3. /\ val' = [val EXCEPT ![o] = n]
      /\ seen' = IF pc # "idle" /\ call.obj = o THEN seen \cup {val'[o]} ELSE seen
  BY DEF Adopt
<1> HIDE DEF n
<1>4. val' \in [Objects -> Versions \cup {0}] /\ val'[o] \in Versions \cup {0}
  BY <1>1, <1>2, <1>3
<1> QED
  BY <1>2, <1>3, <1>4

LEMMA UploadReplies ==
  ASSUME TypeOK, NEW o \in Objects, NEW size \in {0, dict[o].dev}
  PROVE  /\ Units(o, val[o], dict[o].dev) \in Seq(Unit)
         /\ [cmd |-> "upload", obj |-> o, size |-> size,
             units |-> Units(o, val[o], dict[o].dev)] \in Replies
         /\ [cmd |-> "upload", obj |-> o, size |-> size, units |-> << >>] \in Replies
         /\ [cmd |-> "upseg", units |-> Units(o, val[o], dict[o].dev), toggle |-> FALSE]
              \in Transfers
<1>1. val[o] \in Versions \cup {0} /\ dict[o].dev \in Nat /\ size \in Nat
  BY CallSizes DEF TypeOK
<1>2. Units(o, val[o], dict[o].dev) \in Seq(Unit)
  BY <1>1, UnitsAre
<1> QED
  BY <1>1, <1>2, EmptyRun DEF Replies, Transfers

LEMMA UploadSegmentIs ==
  ASSUME TypeOK, SrvUploadSegment
  PROVE  /\ srv.cmd = "upseg" /\ srv.units \in Seq(Unit) /\ toDev[1].cmd = "upseg"
         /\ \E r \in Replies : /\ Reply(r) /\ r.cmd = "upseg"
                               /\ r.units = Part(srv.units, 1, Segment)
         /\ srv' \in Transfers
         /\ \/ srv' = Idle
            \/ /\ Len(srv.units) > Segment /\ srv'.cmd = "upseg"
               /\ srv'.units = SubSeq(srv.units, Segment + 1, Len(srv.units))
<1> DEFINE u == srv.units
           r == [cmd |-> "upseg", toggle |-> srv.toggle, last |-> Len(u) <= Segment,
                 units |-> Part(u, 1, Segment)]
<1>1. srv \in Transfers /\ srv.cmd = "upseg" /\ Take /\ Head(toDev).cmd = "upseg" /\ Reply(r)
  BY DEF TypeOK, SrvUploadSegment
<1>2. u \in Seq(Unit) /\ srv.toggle \in BOOLEAN /\ Len(u) \in Nat
  BY <1>1, TransferFields, LenProperties
<1>3. Part(u, 1, Segment) \in Seq(Unit)
  <2>1. CASE Len(u) = 0
    <3>1. Part(u, 1, Segment) = SubSeq(u, 1, 0)
      BY <2>1 DEF Part, Segment
    <3> QED
      BY <3>1, SubSeqEmpty, EmptyRun
  <2>2. CASE Len(u) # 0
    <3>1. Segment \in Nat /\ 1 <= Segment /\ 1 <= Len(u)
      BY <1>2, <2>2 DEF Segment
    <3> QED
      BY <1>2, <3>1, PartOf
  <2> QED
    BY <2>1, <2>2
<1>4. r \in Replies
  BY <1>2, <1>3 DEF Replies
<1>5. srv' = IF Len(u) <= Segment THEN Idle
             ELSE [srv EXCEPT !.toggle = ~@, !.units = SubSeq(u, Segment + 1, Len(u))]
  BY DEF SrvUploadSegment
<1>6. CASE Len(u) <= Segment
  BY <1>1, <1>2, <1>4, <1>5, <1>6, TakeIs DEF Transfers
<1>7. CASE ~(Len(u) <= Segment)
  <2>1. /\ Segment + 1 \in Int /\ Len(u) \in Int /\ Len(u) > Segment
        /\ \A i \in Segment + 1 .. Len(u) : i \in 1 .. Len(u)
    BY <1>2, <1>7 DEF Segment
  <2>2. \A i \in Segment + 1 .. Len(u) : u[i] \in Unit
    BY <1>2, <2>1, ElementOfSeq
  <2>3. SubSeq(u, Segment + 1, Len(u)) \in Seq(Unit)
    BY <2>1, <2>2, SubSeqProperties
  <2>4. srv \in [cmd : {"upseg"}, units : Seq(Unit), toggle : BOOLEAN]
    BY <1>1 DEF Transfers, Idle
  <2>5. /\ srv' \in [cmd : {"upseg"}, units : Seq(Unit), toggle : BOOLEAN]
        /\ srv'.units = SubSeq(u, Segment + 1, Len(u)) /\ srv'.cmd = "upseg"
    BY <1>5, <1>7, <2>3, <2>4
  <2> QED
    BY <1>1, <1>2, <1>4, <2>1, <2>5, TakeIs DEF Transfers
<1> QED
  BY <1>6, <1>7

LEMMA DownloadIs ==
  ASSUME TypeOK, SrvDownload
  PROVE  /\ Take /\ toDev[1] \in Requests /\ toDev[1].cmd = "download"
         /\ toDev[1].obj \in Objects /\ toDev[1].units \in Seq(Unit)
         /\ \E r \in Replies : Reply(r) /\ r.cmd = "download"
         /\ srv' \in Transfers
         /\ \/ /\ toDev[1].units # << >>
               /\ Adopt(toDev[1].obj, toDev[1].units) /\ srv' = Idle
            \/ /\ toDev[1].units = << >> /\ UNCHANGED <<val, seen>>
               /\ srv' = [cmd |-> "dnseg", obj |-> toDev[1].obj, units |-> << >>,
                          toggle |-> FALSE]
<1>1. Take /\ Head(toDev).cmd = "download"
  BY DEF SrvDownload
<1>2. Head(toDev) = toDev[1] /\ toDev[1] \in Requests
  BY <1>1, TakeIs
<1>3. toDev[1].obj \in Objects /\ toDev[1].units \in Seq(Unit) /\ toDev[1].cmd = "download"
  BY <1>1, <1>2, RequestFields
<1>4. /\ Reply([cmd |-> "download", obj |-> toDev[1].obj])
      /\ [cmd |-> "download", obj |-> toDev[1].obj] \in Replies
  BY <1>2, <1>3 DEF SrvDownload, Replies
<1>5. \/ /\ toDev[1].units # << >>
         /\ Adopt(toDev[1].obj, toDev[1].units) /\ srv' = Idle
      \/ /\ toDev[1].units = << >> /\ UNCHANGED <<val, seen>>
         /\ srv' = [cmd |-> "dnseg", obj |-> toDev[1].obj, units |-> << >>, toggle |-> FALSE]
  BY <1>2 DEF SrvDownload
<1>6. srv' \in Transfers
  <2>1. Idle \in Transfers
    BY DEF Transfers
  <2>2. [cmd |-> "dnseg", obj |-> toDev[1].obj, units |-> << >>, toggle |-> FALSE]
          \in [cmd : {"dnseg"}, obj : Objects, units : Seq(Unit), toggle : BOOLEAN]
    BY <1>3, EmptyRun
  <2> QED
    BY <1>5, <2>1, <2>2 DEF Transfers
<1> QED
  BY <1>1, <1>2, <1>3, <1>4, <1>5, <1>6

LEMMA DownloadSegmentIs ==
  ASSUME TypeOK, SrvDownloadSegment
  PROVE  /\ Take /\ toDev[1] \in Requests /\ toDev[1].cmd = "dnseg"
         /\ toDev[1].units \in Seq(Unit) /\ toDev[1].toggle = srv.toggle
         /\ srv.cmd = "dnseg" /\ srv.obj \in Objects /\ srv.units \in Seq(Unit)
         /\ srv.units \o toDev[1].units \in Seq(Unit)
         /\ \E r \in Replies : Reply(r) /\ r.cmd = "dnseg"
         /\ srv' \in Transfers
         /\ \/ /\ toDev[1].last = TRUE /\ srv' = Idle
               /\ Adopt(srv.obj, srv.units \o toDev[1].units)
            \/ /\ toDev[1].last = FALSE /\ UNCHANGED <<val, seen>>
               /\ srv' = [srv EXCEPT !.toggle = ~@, !.units = srv.units \o toDev[1].units]
               /\ srv'.cmd = "dnseg" /\ srv'.obj = srv.obj /\ srv'.toggle = ~srv.toggle
               /\ srv'.units = srv.units \o toDev[1].units
<1>1. Take /\ Head(toDev).cmd = "dnseg" /\ srv.cmd = "dnseg" /\ srv.toggle = Head(toDev).toggle
      /\ srv \in Transfers
  BY DEF SrvDownloadSegment, TypeOK
<1>2. Head(toDev) = toDev[1] /\ toDev[1] \in Requests
  BY <1>1, TakeIs
<1>3. /\ toDev[1].units \in Seq(Unit) /\ toDev[1].toggle \in BOOLEAN
      /\ toDev[1].last \in BOOLEAN /\ toDev[1].cmd = "dnseg" /\ toDev[1].toggle = srv.toggle
  BY <1>1, <1>2, RequestFields
<1>4. srv.obj \in Objects /\ srv.units \in Seq(Unit) /\ srv.toggle \in BOOLEAN
  BY <1>1, TransferFields
<1>5. srv.units \o toDev[1].units \in Seq(Unit)
  BY <1>3, <1>4, ConcatProperties
<1>6. /\ Reply([cmd |-> "dnseg", toggle |-> toDev[1].toggle])
      /\ [cmd |-> "dnseg", toggle |-> toDev[1].toggle] \in Replies
  BY <1>2, <1>3 DEF SrvDownloadSegment, Replies
<1>7. IF toDev[1].last
      THEN Adopt(srv.obj, srv.units \o toDev[1].units) /\ srv' = Idle
      ELSE /\ srv' = [srv EXCEPT !.toggle = ~@, !.units = srv.units \o toDev[1].units]
           /\ UNCHANGED <<val, seen>>
  BY <1>2 DEF SrvDownloadSegment
<1>8. CASE toDev[1].last = TRUE
  <2>1. srv' \in Transfers
    BY <1>7, <1>8 DEF Transfers
  <2> QED
    BY <1>1, <1>2, <1>3, <1>4, <1>5, <1>6, <1>7, <1>8, <2>1
<1>9. CASE toDev[1].last = FALSE
  <2>1. srv \in [cmd : {"dnseg"}, obj : Objects, units : Seq(Unit), toggle : BOOLEAN]
    BY <1>1 DEF Transfers, Idle
  <2>2. /\ srv' = [srv EXCEPT !.toggle = ~@, !.units = srv.units \o toDev[1].units]
        /\ UNCHANGED <<val, seen>>
    BY <1>7, <1>9
  <2>3. /\ srv' \in [cmd : {"dnseg"}, obj : Objects, units : Seq(Unit), toggle : BOOLEAN]
        /\ srv'.cmd = "dnseg" /\ srv'.obj = srv.obj /\ srv'.toggle = ~srv.toggle
        /\ srv'.units = srv.units \o toDev[1].units
    BY <1>5, <2>1, <2>2
  <2>4. srv' \in Transfers
    BY <2>3 DEF Transfers
  <2> QED
    BY <1>1, <1>2, <1>3, <1>4, <1>5, <1>6, <1>9, <2>2, <2>3, <2>4
<1> QED
  BY <1>3, <1>8, <1>9

LEMMA BeginReadIs ==
  ASSUME TypeOK, NEW o \in Objects, BeginRead(o)
  PROVE  /\ UploadRequest(o) \in Requests /\ Send(UploadRequest(o))
         /\ call' = [op |-> "read", obj |-> o] /\ call' \in Calls /\ call' # NoCall
         /\ call'.op = "read" /\ call'.obj = o
         /\ data' \in Seq(Unit) /\ Len(data') = dict[o].type /\ total' = dict[o].type
         /\ total' \in Nat /\ offset' = 0 /\ pc = "idle" /\ pc' = "wait"
         /\ last' = UploadRequest(o)
         /\ seen' = {val[o]} /\ clean' = NothingLeft /\ gaveUp' = FALSE
<1>1. dict[o].type \in Nat
  BY CallSizes
<1>2. Units(o, 0, dict[o].type) \in Seq(Unit) /\ Len(Units(o, 0, dict[o].type)) = dict[o].type
  BY <1>1, UnitsAre
<1>3. [op |-> "read", obj |-> o] \in Calls /\ [op |-> "read", obj |-> o] # NoCall
  BY DEF Calls, NoCall
<1> QED
  BY <1>1, <1>2, <1>3, OtherRequests DEF BeginRead, Send

LEMMA BeginWriteIs ==
  ASSUME TypeOK, NEW o \in Objects, NEW v \in Versions, BeginWrite(o, v)
  PROVE  /\ call' = [op |-> "write", obj |-> o, version |-> v] /\ call' \in Calls
         /\ call' # NoCall /\ call'.op = "write" /\ call'.obj = o /\ call'.version = v
         /\ data' \in Seq(Unit) /\ Len(data') = CallSize(o) /\ total' = CallSize(o)
         /\ Run(data', o, v, 0) /\ total' \in Nat /\ offset' \in Nat
         /\ offset' = (IF CallSize(o) <= Expedited THEN CallSize(o) ELSE 0)
         /\ pc = "idle" /\ pc' = "wait"
         /\ last' \in Requests /\ Send(last') /\ last'.cmd = "download" /\ last'.obj = o
         /\ last'.units = (IF CallSize(o) <= Expedited THEN data' ELSE << >>)
         /\ seen' = {val[o]} /\ clean' = NothingLeft /\ gaveUp' = FALSE
<1> DEFINE u == Units(o, v, CallSize(o))
           m == DownloadRequest(o, u)
<1>1. CallSize(o) \in Nat
  BY CallSizes
<1>2. u \in Seq(Unit) /\ Len(u) = CallSize(o) /\ Run(u, o, v, 0)
  BY <1>1, UnitsAre
<1>3. /\ [op |-> "write", obj |-> o, version |-> v] \in Calls
      /\ [op |-> "write", obj |-> o, version |-> v] # NoCall
  BY DEF Calls, NoCall
<1>4. /\ pc = "idle" /\ pc' = "wait" /\ call' = [op |-> "write", obj |-> o, version |-> v]
      /\ data' = u /\ total' = CallSize(o) /\ Send(m)
      /\ offset' = (IF CallSize(o) <= Expedited THEN CallSize(o) ELSE 0)
      /\ seen' = {val[o]} /\ clean' = NothingLeft /\ gaveUp' = FALSE
  BY DEF BeginWrite
<1> HIDE DEF u
<1>5. /\ m.cmd = "download" /\ m.obj = o
      /\ m.units = (IF CallSize(o) <= Expedited THEN u ELSE << >>)
  BY <1>2 DEF DownloadRequest
<1>6. Len(u) \in Nat /\ u \in Seq(Unit) /\ << >> \in Seq(Unit)
  BY <1>1, <1>2, EmptyRun
<1>7. m \in [cmd : {"download"}, obj : Objects, size : Nat, units : Seq(Unit)]
  BY <1>6, SizeFields DEF DownloadRequest
<1> HIDE DEF m
<1>8. m \in Requests
  BY <1>7 DEF Requests
<1>9. last' = m
  BY <1>4 DEF Send
<1>10. offset' \in Nat
  BY <1>1, <1>4
<1> QED
  BY <1>1, <1>2, <1>3, <1>4, <1>5, <1>8, <1>9, <1>10

LEMMA TypeStep == ASSUME TypeOK, Sent, Asked, Next PROVE TypeOK'
<1>1. ASSUME NEW o \in Objects, BeginRead(o) PROVE TypeOK'
  <2>1. last' \in Requests /\ toDev' \in Seq(Requests) /\ Len(toDev') <= MaxRequests
    BY <1>1, BeginReadIs, SendIs
  <2>2. /\ call' \in Calls /\ call' # NoCall /\ data' \in Seq(Unit) /\ total' \in Nat
        /\ offset' = 0 /\ pc' = "wait" /\ seen' = {val[o]} /\ clean' = NothingLeft
        /\ gaveUp' = FALSE
    BY <1>1, BeginReadIs
  <2>3. clean' \in BOOLEAN /\ gaveUp' \in BOOLEAN /\ offset' \in Nat
    BY <2>2 DEF NothingLeft
  <2>4. seen' \subseteq Versions \cup {0}
    BY <2>2 DEF TypeOK
  <2>5. /\ done' = FALSE /\ enabled' = TRUE /\ outcome' = "none"
        /\ UNCHANGED <<dict, frame, val, srv, toClient>>
    BY <1>1 DEF BeginRead, device
  <2> QED
    BY <2>1, <2>2, <2>3, <2>4, <2>5 DEF TypeOK
<1>2. ASSUME NEW o \in Objects, NEW v \in Versions, BeginWrite(o, v) PROVE TypeOK'
  <2>1. /\ last' \in Requests /\ Send(last')
        /\ call' \in Calls /\ call' # NoCall /\ data' \in Seq(Unit) /\ total' \in Nat
        /\ offset' \in Nat /\ pc' = "wait" /\ seen' = {val[o]} /\ clean' = NothingLeft
        /\ gaveUp' = FALSE
    BY <1>2, BeginWriteIs
  <2>2. toDev' \in Seq(Requests) /\ Len(toDev') <= MaxRequests
    BY <2>1, SendIs
  <2>3. NothingLeft \in BOOLEAN
    BY DEF NothingLeft
  <2>4. seen' \subseteq Versions \cup {0}
    BY <2>1 DEF TypeOK
  <2> QED
    BY <1>2, <2>1, <2>2, <2>3, <2>4 DEF TypeOK, BeginWrite, device
<1>3. CASE ProcessFrame
  <2>1. /\ last' \in Requests /\ toDev' \in Seq(Requests) /\ Len(toDev') <= MaxRequests
        /\ data' \in Seq(Unit) /\ offset' \in Nat /\ total' \in Nat /\ done' \in BOOLEAN
        /\ pc' \in {"wait", "end"}
    BY <1>3, FrameTypes
  <2>2. << >> \in Seq(Replies) /\ Len(<< >>) <= 1 /\ frame' = << >> /\ FrameKeeps /\ pc = "wait"
    BY <1>3, FrameCases
  <2> QED
    BY <2>1, <2>2 DEF TypeOK, FrameKeeps, history, device
<1>4. CASE Timeout
  <2>1. Send(Abort) /\ Abort \in Requests
    BY <1>4, OtherRequests DEF Timeout
  <2>2. last' \in Requests /\ toDev' \in Seq(Requests) /\ Len(toDev') <= MaxRequests
    BY <2>1, SendIs
  <2> QED
    BY <1>4, <2>2 DEF TypeOK, Timeout, reader, device
<1>5. CASE Return
  BY <1>5 DEF TypeOK, Return, client, history, device
<1>6. CASE HandleFrame
  <2>1. toClient \in Seq(Replies) /\ toClient # << >> /\ Len(toClient) <= MaxReplies
    BY <1>6 DEF HandleFrame, TypeOK
  <2>2. /\ Head(toClient) \in Replies /\ Tail(toClient) \in Seq(Replies)
        /\ Len(Tail(toClient)) = Len(toClient) - 1
    BY <2>1, HeadTailProperties
  <2>3. Len(Tail(toClient)) <= MaxReplies
    BY <2>1, <2>2, QueueLengths, SdoAssumption
  <2>4. frame' \in Seq(Replies) /\ Len(frame') <= 1
    <3>1. <<Head(toClient)>> \in Seq(Replies) /\ Len(<<Head(toClient)>>) = 1
      BY <2>2
    <3> QED
      BY <1>6, <3>1 DEF HandleFrame, TypeOK
  <2> QED
    BY <1>6, <2>2, <2>3, <2>4 DEF TypeOK, HandleFrame, client, history, device
<1> DEFINE Queues == /\ toDev' \in Seq(Requests) /\ Len(toDev') <= MaxRequests
                     /\ toClient' \in Seq(Replies) /\ Len(toClient') <= MaxReplies
<1>7. CASE SrvUpload
  <2>1. Take /\ Head(toDev).cmd = "upload"
    BY <1>7 DEF SrvUpload
  <2>2. toDev[1] = Head(toDev) /\ toDev[1].obj \in Objects
    BY <2>1, TakeIs, RequestFields
  <2>3. PICK size \in {0, dict[toDev[1].obj].dev} :
          LET o == toDev[1].obj
              u == Units(o, val[o], dict[o].dev) IN
          IF dict[o].dev <= Expedited
          THEN /\ Reply([cmd |-> "upload", obj |-> o, size |-> size, units |-> u])
               /\ srv' = Idle
          ELSE /\ Reply([cmd |-> "upload", obj |-> o, size |-> size, units |-> << >>])
               /\ srv' = [cmd |-> "upseg", units |-> u, toggle |-> FALSE]
    BY <1>7, <2>2 DEF SrvUpload
  <2>4. (\E r \in Replies : Reply(r)) /\ srv' \in Transfers
    BY <2>2, <2>3, UploadReplies DEF Transfers
  <2>5. Queues
    BY <2>1, <2>4, TakeIs, ReplyIs
  <2> QED
    BY <1>7, <2>4, <2>5 DEF TypeOK, SrvUpload, client, reader, history
<1>8. CASE SrvUploadSegment
  <2>1. (\E r \in Replies : Reply(r)) /\ srv' \in Transfers /\ Take
    BY <1>8, UploadSegmentIs DEF SrvUploadSegment
  <2>2. Queues
    BY <2>1, TakeIs, ReplyIs
  <2> QED
    BY <1>8, <2>1, <2>2 DEF TypeOK, SrvUploadSegment, client, reader, history
<1>9. CASE SrvDownload
  <2>1. (\E r \in Replies : Reply(r)) /\ srv' \in Transfers /\ Take
    BY <1>9, DownloadIs
  <2>2. Queues
    BY <2>1, TakeIs, ReplyIs
  <2>3. val' \in [Objects -> Versions \cup {0}] /\ seen' \subseteq Versions \cup {0}
    BY <1>9, DownloadIs, AdoptTypes DEF TypeOK
  <2> QED
    BY <1>9, <2>1, <2>2, <2>3 DEF TypeOK, SrvDownload, client, reader
<1>10. CASE SrvDownloadSegment
  <2>1. (\E r \in Replies : Reply(r)) /\ srv' \in Transfers /\ Take
    BY <1>10, DownloadSegmentIs
  <2>2. Queues
    BY <2>1, TakeIs, ReplyIs
  <2>3. val' \in [Objects -> Versions \cup {0}] /\ seen' \subseteq Versions \cup {0}
    BY <1>10, DownloadSegmentIs, AdoptTypes DEF TypeOK
  <2> QED
    BY <1>10, <2>1, <2>2, <2>3 DEF TypeOK, SrvDownloadSegment, client, reader
<1>11. CASE SrvRefuse
  <2>1. Abort \in Replies /\ Idle \in Transfers
    BY DEF Replies, Transfers
  <2>2. Queues
    BY <1>11, <2>1, TakeIs, ReplyIs DEF SrvRefuse
  <2> QED
    BY <1>11, <2>1, <2>2 DEF TypeOK, SrvRefuse, client, reader, history
<1>12. CASE SrvDrop
  <2>1. Idle \in Transfers
    BY DEF Transfers
  <2>2. toDev' \in Seq(Requests) /\ Len(toDev') <= MaxRequests
    BY <1>12, TakeIs DEF SrvDrop
  <2> QED
    BY <1>12, <2>1, <2>2 DEF TypeOK, SrvDrop, client, reader, history
<1>13. ASSUME NEW o \in Objects, NEW v \in Versions, DevChange(o, v) PROVE TypeOK'
  <2>1. val' \in [Objects -> Versions \cup {0}] /\ seen' \subseteq Versions \cup {0}
    BY <1>13 DEF TypeOK, DevChange
  <2> QED
    BY <1>13, <2>1 DEF TypeOK, DevChange, client, reader
<1> QED
  BY <1>1, <1>2, <1>3, <1>4, <1>5, <1>6, <1>7, <1>8, <1>9, <1>10, <1>11, <1>12, <1>13
  DEF Next, Begin, Client, Device, Server

LEMMA StutterTypes == ASSUME TypeOK, UNCHANGED vars PROVE TypeOK'
  BY DEF TypeOK, vars, client, reader, history, device

-------------------------------------------------------------------------------
(* The device takes over whole values                                      *)

LEMMA StreamKept ==
  ASSUME Stream, UNCHANGED <<dict, srv, toDev, last>>
  PROVE  Stream'
<1>1. (\A i \in 1 .. Len(toDev) : i > 1 => Follows(toDev[i - 1], toDev[i]))'
  BY FollowsKept DEF Stream
<1>2. (toDev = << >> => After(last, srv))' /\ (toDev # << >> => Continues(toDev[1], srv))'
  BY AfterKept, ContinuesKept DEF Stream
<1>3. (\A i \in 1 .. Len(toDev) : Whole(toDev[i]))'
  BY DEF Stream
<1> QED
  BY <1>1, <1>2, <1>3 DEF Stream

\* A server that does not expect a segment goes on with none.
LEMMA ExpectsNone ==
  ASSUME NEW m, NEW s, s.cmd # "dnseg"
  PROVE  After(m, s)
  BY DEF After

\* The segment the server takes is the one after what it has.
LEMMA DownloadSegmentRun ==
  ASSUME TypeOK, Stream, SrvDownloadSegment
  PROVE  \E v \in Versions :
           /\ SegmentOf(toDev[1], srv.obj, v, Len(srv.units))
           /\ Run(srv.units, srv.obj, v, 0)
           /\ Run(srv.units \o toDev[1].units, srv.obj, v, 0)
           /\ Len(srv.units \o toDev[1].units) = Len(srv.units) + Len(toDev[1].units)
<1>1. /\ Take /\ toDev[1].cmd = "dnseg" /\ srv.cmd = "dnseg"
      /\ srv.units \in Seq(Unit) /\ toDev[1].units \in Seq(Unit)
  BY DownloadSegmentIs
<1>2. toDev # << >>
  BY <1>1, TakeIs
<1>3. PICK v \in Versions :
        SegmentOf(toDev[1], srv.obj, v, Len(srv.units)) /\ Run(srv.units, srv.obj, v, 0)
  BY <1>1, <1>2 DEF Stream, Continues
<1>4. Run(toDev[1].units, srv.obj, v, 0 + Len(srv.units))
  <2>1. 0 + Len(srv.units) = Len(srv.units)
    BY <1>1, LenProperties
  <2> QED
    BY <1>3, <2>1 DEF SegmentOf
<1> QED
  BY <1>1, <1>3, <1>4, JoinedRuns

LEMMA StreamStep == ASSUME TypeOK, Stream, Sent, Asked, Next PROVE Stream'
<1>1. ASSUME NEW o \in Objects, BeginRead(o) PROVE Stream'
  <2>1. /\ UploadRequest(o) \in Requests /\ Send(UploadRequest(o))
        /\ UploadRequest(o).cmd = "upload"
    BY <1>1, BeginReadIs, OtherRequests
  <2>2. Whole(UploadRequest(o)) /\ Follows(last, UploadRequest(o))
    BY <2>1, NoSegment
  <2>3. UNCHANGED <<dict, srv>>
    BY <1>1 DEF BeginRead, device
  <2> QED
    BY <2>1, <2>2, <2>3, StreamSend
<1>2. ASSUME NEW o \in Objects, NEW v \in Versions, BeginWrite(o, v) PROVE Stream'
  <2>1. /\ last' \in Requests /\ Send(last') /\ last'.cmd = "download" /\ last'.obj = o
        /\ last'.units = (IF CallSize(o) <= Expedited THEN data' ELSE << >>)
        /\ Run(data', o, v, 0)
    BY <1>2, BeginWriteIs
  <2>2. Whole(last') /\ Follows(last, last')
    BY <2>1 DEF Whole, Follows
  <2>3. UNCHANGED <<dict, srv>>
    BY <1>2 DEF BeginWrite, device
  <2> QED
    BY <2>1, <2>2, <2>3, StreamSend
<1>3. CASE ProcessFrame
  <2>1. UNCHANGED <<dict, srv>>
    BY <1>3, FrameCases DEF FrameKeeps, device
  <2>2. CASE UNCHANGED <<last, toDev>>
    BY <2>1, <2>2, StreamKept
  <2>3. ASSUME NEW m \in Requests, m.cmd \in {"upseg", "abort"}, Send(m)
        PROVE  Stream'
    <3>1. Whole(m) /\ Follows(last, m)
      BY <2>3, NoSegment
    <3> QED
      BY <2>1, <2>3, <3>1, StreamSend
  <2>4. CASE WriteOn
    <3>1. PICK t \in BOOLEAN : /\ Send(DownloadSegment(t, data, offset))
                               /\ Follows(last, DownloadSegment(t, data, offset))
      BY <2>4 DEF WriteOn
    <3>2. /\ DownloadSegment(t, data, offset) \in Requests
          /\ Whole(DownloadSegment(t, data, offset))
      BY <2>4, SegmentIs DEF WriteOn
    <3> QED
      BY <2>1, <3>1, <3>2, StreamSend
  <2>5. CASE Quits
    BY <2>2, <2>3, <2>5, OtherRequests DEF Quits
  <2>6. CASE ReadOn(Head(frame))
    BY <2>3, <2>6, OtherRequests DEF ReadOn
  <2>7. CASE SegmentRead(Head(frame))
    <3>1. UNCHANGED <<last, toDev>> \/ \E t \in BOOLEAN : Send(UploadSegment(t))
      BY <2>7 DEF SegmentRead
    <3> QED
      BY <2>2, <2>3, <3>1, OtherRequests
  <2>8. CASE WriteDone(Head(frame)) \/ ReadDone(Head(frame))
    BY <2>2, <2>8 DEF WriteDone, ReadDone
  <2> QED
    BY <1>3, <2>4, <2>5, <2>6, <2>7, <2>8, FrameCases
<1>4. CASE Timeout
  <2>1. Send(Abort) /\ Abort \in Requests /\ UNCHANGED <<dict, srv>>
    BY <1>4, OtherRequests DEF Timeout, device
  <2>2. Whole(Abort) /\ Follows(last, Abort)
    BY <2>1, OtherRequests, NoSegment
  <2> QED
    BY <2>1, <2>2, StreamSend
<1>5. CASE Return
  BY <1>5, StreamKept DEF Return, client, device
<1>6. CASE HandleFrame
  BY <1>6, StreamKept DEF HandleFrame, client, device
<1>7. CASE SrvUpload \/ SrvUploadSegment \/ SrvRefuse \/ SrvDrop
  <2>1. Take /\ UNCHANGED <<dict, last>>
    BY <1>7 DEF SrvUpload, SrvUploadSegment, SrvRefuse, SrvDrop, client
  <2>2. srv'.cmd # "dnseg"
    <3>1. CASE SrvUpload
      BY <3>1 DEF SrvUpload, Idle
    <3>2. CASE SrvUploadSegment
      BY <3>2, UploadSegmentIs DEF Idle
    <3>3. CASE SrvRefuse \/ SrvDrop
      BY <3>3 DEF SrvRefuse, SrvDrop, Idle
    <3> QED
      BY <1>7, <3>1, <3>2, <3>3
  <2>3. srv' \in Transfers
    BY <1>7, TypeStep DEF Next, Device, Server, TypeOK
  <2> QED
    BY <2>1, <2>2, <2>3, ExpectsNone, StreamTake
<1>8. CASE SrvDownload
  <2>1. Take /\ UNCHANGED <<dict, last>> /\ srv' \in Transfers /\ toDev[1].cmd = "download"
    BY <1>8, DownloadIs DEF SrvDownload, client
  <2>2. After(toDev[1], srv')
    <3>1. CASE srv' = Idle
      BY <3>1, ExpectsNone DEF Idle
    <3>2. CASE /\ toDev[1].units = << >>
               /\ srv' = [cmd |-> "dnseg", obj |-> toDev[1].obj, units |-> << >>,
                          toggle |-> FALSE]
      BY <2>1, <3>2 DEF After
    <3> QED
      BY <1>8, <3>1, <3>2, DownloadIs
  <2> QED
    BY <2>1, <2>2, StreamTake
<1>9. CASE SrvDownloadSegment
  <2>1. Take /\ UNCHANGED <<dict, last>> /\ srv' \in Transfers /\ srv.units \in Seq(Unit)
    BY <1>9, DownloadSegmentIs DEF SrvDownloadSegment, client
  <2>2. After(toDev[1], srv')
    <3>1. CASE srv' = Idle
      BY <3>1, ExpectsNone DEF Idle
    <3>2. CASE /\ toDev[1].last = FALSE /\ srv'.obj = srv.obj /\ srv'.toggle = ~srv.toggle
               /\ srv'.units = srv.units \o toDev[1].units
      <4>1. PICK v \in Versions :
              /\ SegmentOf(toDev[1], srv.obj, v, Len(srv.units))
              /\ Run(srv.units \o toDev[1].units, srv.obj, v, 0)
              /\ Len(srv.units \o toDev[1].units) = Len(srv.units) + Len(toDev[1].units)
        BY <1>9, DownloadSegmentRun
      <4>2. Len(toDev[1].units) = Segment
        BY <3>2, <4>1 DEF SegmentOf
      <4>3. toDev[1].toggle = srv.toggle /\ srv.toggle \in BOOLEAN /\ Len(srv.units) \in Nat
        BY <1>9, <2>1, DownloadSegmentIs, TransferFields, LenProperties DEF TypeOK
      <4>4. toDev[1].toggle = ~srv'.toggle
        BY <3>2, <4>3
      <4>5. /\ SegmentOf(toDev[1], srv'.obj, v, Len(srv.units))
            /\ Run(srv'.units, srv'.obj, v, 0) /\ Len(srv'.units) = Len(srv.units) + Segment
        BY <3>2, <4>1, <4>2
      <4> QED
        BY <3>2, <4>3, <4>4, <4>5 DEF After
    <3> QED
      BY <1>9, <3>1, <3>2, DownloadSegmentIs
  <2> QED
    BY <2>1, <2>2, StreamTake
<1>10. ASSUME NEW o \in Objects, NEW v \in Versions, DevChange(o, v) PROVE Stream'
  BY <1>10, StreamKept DEF DevChange, client
<1> QED
  BY <1>1, <1>2, <1>3, <1>4, <1>5, <1>6, <1>7, <1>8, <1>9, <1>10
  DEF Next, Begin, Client, Device, Server

\* What is taken over is the version its units belong to.
LEMMA AdoptIs ==
  ASSUME TypeOK, NEW o \in Objects, NEW u \in Seq(Unit), NEW v \in Versions,
         Run(u, o, v, 0), Adopt(o, u)
  PROVE  /\ val' = [val EXCEPT ![o] = v] /\ Len(u) = dict[o].dev
         /\ seen' = IF pc # "idle" /\ call.obj = o THEN seen \cup {v} ELSE seen
<1> DEFINE n == dict[o].dev
           w == {x \in Versions : u = Units(o, x, n)}
<1>1. n \in Nat /\ n > 0 /\ Len(u) = n
  BY CallSizes DEF Adopt
<1>2. u = Units(o, v, n)
  BY <1>1, RunIsUnits
<1>3. ASSUME NEW x \in Versions, u = Units(o, x, n) PROVE x = v
  <2>1. 1 \in 1 .. n
    BY <1>1
  <2>2. Units(o, v, n)[1] = <<o, v, 1>> /\ Units(o, x, n)[1] = <<o, x, 1>>
    BY <2>1 DEF Units
  <2> QED
    BY <1>2, <1>3, <2>2
<1>4. w = {v} /\ (CHOOSE x \in w : TRUE) = v
  BY <1>2, <1>3
<1>5. /\ val' = [val EXCEPT ![o] = IF w = {} THEN 0 ELSE CHOOSE x \in w : TRUE]
      /\ seen' = IF pc # "idle" /\ call.obj = o THEN seen \cup {val'[o]} ELSE seen
  BY DEF Adopt
<1>6. val \in [Objects -> Versions \cup {0}]
  BY DEF TypeOK
<1> HIDE DEF w
<1>7. val' = [val EXCEPT ![o] = v]
  BY <1>4, <1>5
<1>8. val'[o] = v
  BY <1>6, <1>7
<1> QED
  BY <1>1, <1>5, <1>7, <1>8

LEMMA WholeStep ==
  ASSUME TypeOK, Stream, Sent, Asked, WrittenIsWhole, Next
  PROVE  WrittenIsWhole'
<1>1. val \in [Objects -> Versions \cup {0}]
  BY DEF TypeOK
<1>2. CASE SrvDownload
  <2>1. CASE UNCHANGED val
    BY <2>1 DEF WrittenIsWhole
  <2>2. CASE toDev[1].units # << >> /\ Adopt(toDev[1].obj, toDev[1].units)
    <3>1. /\ Take /\ toDev[1].obj \in Objects /\ toDev[1].units \in Seq(Unit)
          /\ toDev[1].cmd = "download"
      BY <1>2, DownloadIs
    <3>2. 1 \in 1 .. Len(toDev)
      BY <3>1, TakeIs, QueueLengths
    <3>3. PICK v \in Versions : Run(toDev[1].units, toDev[1].obj, v, 0)
      BY <2>2, <3>1, <3>2 DEF Stream, Whole
    <3>4. val' = [val EXCEPT ![toDev[1].obj] = v]
      BY <2>2, <3>1, <3>3, AdoptIs
    <3> QED
      BY <1>1, <3>4 DEF WrittenIsWhole
  <2> QED
    BY <1>2, <2>1, <2>2, DownloadIs
<1>3. CASE SrvDownloadSegment
  <2>1. CASE UNCHANGED val
    BY <2>1 DEF WrittenIsWhole
  <2>2. CASE Adopt(srv.obj, srv.units \o toDev[1].units)
    <3>1. srv.obj \in Objects /\ srv.units \o toDev[1].units \in Seq(Unit)
      BY <1>3, DownloadSegmentIs
    <3>2. PICK v \in Versions : Run(srv.units \o toDev[1].units, srv.obj, v, 0)
      BY <1>3, DownloadSegmentRun
    <3>3. val' = [val EXCEPT ![srv.obj] = v]
      BY <2>2, <3>1, <3>2, AdoptIs
    <3> QED
      BY <1>1, <3>3 DEF WrittenIsWhole
  <2> QED
    BY <1>3, <2>1, <2>2, DownloadSegmentIs
<1>4. ASSUME NEW o \in Objects, NEW v \in Versions, DevChange(o, v) PROVE WrittenIsWhole'
  BY <1>1, <1>4 DEF WrittenIsWhole, DevChange
<1>5. CASE Begin \/ Client \/ HandleFrame \/ SrvUpload \/ SrvUploadSegment \/ SrvRefuse \/ SrvDrop
  BY <1>5 DEF WrittenIsWhole, Begin, Client, BeginRead, BeginWrite, ProcessFrame, Timeout, Return,
              HandleFrame, SrvUpload, SrvUploadSegment, SrvRefuse, SrvDrop, device
<1> QED
  BY <1>2, <1>3, <1>4, <1>5 DEF Next, Device, Server

-------------------------------------------------------------------------------
(* Where the client is in its transfer                                     *)

\* Steps of the strand and the device, which leave the client alone.
ClientKeeps == UNCHANGED <<dict, pc, call, last, data, offset, total>>

LEMMA OthersKeep ==
  ASSUME HandleFrame \/ Device
  PROVE  ClientKeeps /\ gaveUp' = gaveUp /\ clean' = clean /\ outcome' = outcome
  BY DEF ClientKeeps, HandleFrame, Device, Server, SrvUpload, SrvUploadSegment, SrvDownload,
         SrvDownloadSegment, SrvRefuse, SrvDrop, DevChange, client, history

LEMMA SentStep ==
  ASSUME TypeOK, Sent, Asked, Next
  PROVE  Sent'
<1>1. ASSUME NEW o \in Objects, BeginRead(o) PROVE Sent'
  BY <1>1, BeginReadIs DEF Sent, Writing
<1>2. ASSUME NEW o \in Objects, NEW v \in Versions, BeginWrite(o, v) PROVE Sent'
  <2>1. /\ call'.obj = o /\ call'.version = v
        /\ Len(data') = CallSize(o) /\ total' = CallSize(o) /\ Run(data', o, v, 0)
        /\ offset' = (IF CallSize(o) <= Expedited THEN CallSize(o) ELSE 0)
        /\ last'.cmd = "download" /\ last'.obj = o
        /\ last'.units = (IF CallSize(o) <= Expedited THEN data' ELSE << >>)
    BY <1>2, BeginWriteIs
  <2>2. dict' = dict
    BY <1>2 DEF BeginWrite
  <2>3. (CallSize(call.obj))' = CallSize(o)
    BY <2>1, <2>2 DEF CallSize
  <2>4. (IF total <= Expedited THEN last.units = data /\ offset = total
                               ELSE last.units = << >> /\ offset = 0)'
    BY <2>1 DEF Expedited
  <2>5. (Len(data) = total /\ Run(data, call.obj, call.version, 0))'
    BY <2>1
  <2> QED
    BY <2>1, <2>3, <2>4, <2>5 DEF Sent
<1>3. CASE ProcessFrame
  <2>1. UNCHANGED <<dict, call>>
    BY <1>3, FrameCases DEF FrameKeeps
  <2>2. CASE pc' = "end" \/ Reading
    BY <2>1, <2>2 DEF Sent, Writing, Reading
  <2>3. CASE WriteOn
    <3>1. PICK t \in BOOLEAN : /\ Send(DownloadSegment(t, data, offset))
                               /\ offset' = offset + Len(DownloadSegment(t, data, offset).units)
      BY <2>3 DEF WriteOn
    <3>2. /\ DownloadSegment(t, data, offset) \in Requests
          /\ SegmentOf(DownloadSegment(t, data, offset), call.obj, call.version, offset)
      BY <2>3, SegmentIs DEF WriteOn
    <3>3. last' = DownloadSegment(t, data, offset) /\ offset \in Nat
      BY <3>1, <3>2, SendIs DEF TypeOK
    <3>4. /\ total = CallSize(call.obj) /\ Len(data) = total
          /\ Run(data, call.obj, call.version, 0)
      BY <2>3 DEF Sent, WriteOn
    <3>5. SegmentOf(last', call.obj, call.version, offset) /\ offset' = offset + Len(last'.units)
      BY <3>1, <3>2, <3>3
    <3>6. (\E n \in Nat : /\ SegmentOf(last, call.obj, call.version, n)
                          /\ offset = n + Len(last.units))'
      BY <2>1, <3>3, <3>5 DEF SegmentOf, CallSize
    <3>7. (/\ total = CallSize(call.obj) /\ Len(data) = total
           /\ Run(data, call.obj, call.version, 0))'
      BY <2>1, <2>3, <3>4 DEF WriteOn, CallSize
    <3> QED
      BY <3>6, <3>7 DEF Sent
  <2>4. Quits \/ WriteDone(Head(frame)) \/ ReadDone(Head(frame)) => pc' = "end"
    BY DEF Quits, WriteDone, ReadDone
  <2>5. ReadOn(Head(frame)) \/ SegmentRead(Head(frame)) => Reading
    BY DEF ReadOn, SegmentRead, IsFirst
  <2> QED
    BY <1>3, <2>2, <2>3, <2>4, <2>5, FrameCases
<1>4. CASE Timeout \/ Return
  BY <1>4 DEF Timeout, Return, Sent, Writing
<1>5. CASE HandleFrame \/ Device
  <2>1. ClientKeeps
    BY <1>5, OthersKeep
  <2> QED
    BY <2>1 DEF ClientKeeps, Sent, Writing, SegmentOf, CallSize
<1> QED
  BY <1>1, <1>2, <1>3, <1>4, <1>5 DEF Next, Begin, Client

LEMMA AskedStep ==
  ASSUME TypeOK, Sent, Asked, AllGood, Next
  PROVE  Asked'
<1>1. ASSUME NEW o \in Objects, BeginRead(o) PROVE Asked'
  <2>1. /\ call'.obj = o /\ Len(data') = dict[o].type /\ total' = dict[o].type
        /\ offset' = 0 /\ last' = UploadRequest(o)
    BY <1>1, BeginReadIs
  <2>2. dict' = dict /\ last'.cmd = "upload" /\ last'.obj = o
    BY <1>1, <2>1, OtherRequests DEF BeginRead
  <2>3. dict[o].type \in Nat
    BY CallSizes
  <2>4. (total = 0 \/ total = ReadSize(call.obj))'
    BY <2>1, <2>2 DEF ReadSize, CallSize
  <2>5. (/\ Len(data) = (IF total = 0 THEN offset ELSE total) /\ offset <= Len(data)
         /\ offset = 0)'
    BY <2>1, <2>3
  <2> QED
    BY <2>1, <2>2, <2>4, <2>5 DEF Asked
<1>2. ASSUME NEW o \in Objects, NEW v \in Versions, BeginWrite(o, v) PROVE Asked'
  BY <1>2, BeginWriteIs DEF Asked, Reading
<1>3. CASE ProcessFrame
  <2> DEFINE r == Head(frame)
  <2>1. UNCHANGED <<dict, call>> /\ r \in Replies /\ ValueOrSize(r)
    <3>1. FrameKeeps /\ r \in Replies /\ Len(frame) = 1 /\ r = frame[1]
      BY <1>3, FrameCases
    <3>2. 1 \in 1 .. Len(frame)
      BY <3>1
    <3> QED
      BY <3>1, <3>2 DEF FrameKeeps, AllGood, Good
  <2> HIDE DEF r
  <2>2. CASE pc' = "end" \/ Writing
    BY <2>1, <2>2 DEF Asked, Writing, Reading
  <2>3. CASE ReadOn(r)
    <3>1. /\ total' = SizeFrom(r) /\ SizeFrom(r) \in Nat /\ offset' = 0
          /\ Len(data') = SizeFrom(r)
      BY <2>1, <2>3, ReadOnIs
    <3>2. /\ r.cmd = "upload" /\ r.obj = call.obj /\ r.units = << >> /\ Reading
          /\ last.cmd = "upload"
      BY <2>3 DEF ReadOn, IsFirst
    <3>3. call.obj \in Objects /\ dict[call.obj].dev \in Nat /\ dict[call.obj].dev > 0
      BY <3>2, BufferOfRead, CallSizes
    <3>4. dict[call.obj].dev > Expedited /\ (r.size = 0 \/ r.size = dict[call.obj].dev)
      BY <2>1, <3>2, <3>3, EmptyRun DEF ValueOrSize, Expedited
    <3>5. total = dict[call.obj].type /\ (total = 0 \/ total = ReadSize(call.obj))
      BY <3>2 DEF Asked
    <3>6. SizeFrom(r) = 0 \/ SizeFrom(r) = ReadSize(call.obj)
      <4>1. Indicated(r) = 0 \/ Indicated(r) = DataSize(dict[call.obj].dev)
        BY <3>2, <3>4, DataSizes DEF Indicated
      <4> QED
        BY <3>4, <3>5, <4>1 DEF SizeFrom, ReadSize
    <3>7. last'.cmd = "upseg"
      BY <2>3, OtherRequests DEF ReadOn, Send
    <3>8. (/\ Len(data) = (IF total = 0 THEN offset ELSE total) /\ offset <= Len(data)
           /\ offset = 0)'
      BY <3>1
    <3>9. (total = 0 \/ total = ReadSize(call.obj))' /\ (dict[call.obj].dev > Expedited)'
      BY <2>1, <3>1, <3>4, <3>6 DEF ReadSize, CallSize
    <3> QED
      BY <3>7, <3>8, <3>9 DEF Asked
  <2>4. CASE SegmentRead(r) /\ pc' # "end"
    <3>1. /\ total' = total /\ Len(data') = (IF total = 0 THEN offset' ELSE total)
          /\ offset' <= Len(data')
      BY <2>1, <2>4, SegmentReadIs
    <3>2. offset' # total /\ last'.cmd = "upseg" /\ Reading /\ last.cmd = "upseg"
      BY <2>4, OtherRequests DEF SegmentRead, Send
    <3>3. (total = 0 \/ total = ReadSize(call.obj)) /\ dict[call.obj].dev > Expedited
      BY <3>2 DEF Asked
    <3>4. (/\ Len(data) = (IF total = 0 THEN offset ELSE total) /\ offset <= Len(data)
           /\ offset # total)'
      BY <3>1, <3>2
    <3>5. (total = 0 \/ total = ReadSize(call.obj))' /\ (dict[call.obj].dev > Expedited)'
      BY <2>1, <3>1, <3>3 DEF ReadSize, CallSize
    <3> QED
      BY <3>2, <3>4, <3>5 DEF Asked
  <2>5. Quits \/ WriteDone(r) \/ ReadDone(r) => pc' = "end"
    BY DEF Quits, WriteDone, ReadDone
  <2>6. WriteOn => Writing
    BY DEF WriteOn
  <2>7. Quits \/ WriteDone(r) \/ WriteOn \/ ReadDone(r) \/ ReadOn(r) \/ SegmentRead(r)
    BY <1>3, FrameCases DEF r
  <2> QED
    BY <2>2, <2>3, <2>4, <2>5, <2>6, <2>7
<1>4. CASE Timeout \/ Return
  BY <1>4 DEF Timeout, Return, Asked, Reading
<1>5. CASE HandleFrame \/ Device
  <2>1. ClientKeeps
    BY <1>5, OthersKeep
  <2> QED
    BY <2>1 DEF ClientKeeps, Asked, Reading, ReadSize, CallSize
<1> QED
  BY <1>1, <1>2, <1>3, <1>4, <1>5 DEF Next, Begin, Client

LEMMA FrameSends ==
  ASSUME TypeOK, Sent, Asked, ProcessFrame
  PROVE  Len(toDev') \in Nat /\ Len(toDev') <= Len(toDev) + 1
<1>1. Len(toDev) \in Nat
  BY QueueLengths
<1>2. ASSUME NEW m \in Requests, Send(m)
      PROVE  Len(toDev') \in Nat /\ Len(toDev') <= Len(toDev) + 1
  <2>1. Len(toDev') = Len(toDev) + 1
    BY <1>2, SendIs
  <2> QED
    BY <1>1, <2>1
<1>3. CASE UNCHANGED toDev
  BY <1>1, <1>3
<1>4. UNCHANGED toDev \/ \E m \in Requests : Send(m)
  <2>1. CASE WriteOn
    BY <2>1, SegmentIs DEF WriteOn
  <2>2. CASE SegmentRead(Head(frame))
    BY <2>2, OtherRequests DEF SegmentRead
  <2>3. CASE Quits \/ WriteDone(Head(frame)) \/ ReadDone(Head(frame)) \/ ReadOn(Head(frame))
    BY <2>3, OtherRequests DEF Quits, WriteDone, ReadDone, ReadOn
  <2> QED
    BY <2>1, <2>2, <2>3, FrameCases
<1> QED
  BY <1>2, <1>3, <1>4

\* A transfer that found nothing left has one frame on its way at most.
LEMMA OneFrameStep ==
  ASSUME TypeOK, Sent, Asked, OneFrame, Next
  PROVE  OneFrame'
<1> USE QueueLengths
<1>1. CASE Begin
  <2>1. /\ pc = "idle" /\ clean' = NothingLeft /\ UNCHANGED <<frame, toClient>>
        /\ Len(toDev') = Len(toDev) + 1
    <3>1. ASSUME NEW o \in Objects, BeginRead(o)
          PROVE  /\ clean' = NothingLeft /\ UNCHANGED <<frame, toClient>>
                 /\ Len(toDev') = Len(toDev) + 1 /\ pc = "idle"
      BY <3>1, BeginReadIs, SendIs DEF BeginRead
    <3>2. ASSUME NEW o \in Objects, NEW v \in Versions, BeginWrite(o, v)
          PROVE  /\ clean' = NothingLeft /\ UNCHANGED <<frame, toClient>>
                 /\ Len(toDev') = Len(toDev) + 1 /\ pc = "idle"
      BY <3>2, BeginWriteIs, SendIs DEF BeginWrite
    <3> QED
      BY <1>1, <3>1, <3>2 DEF Begin
  <2>2. clean' => Len(toDev) = 0 /\ Len(toClient) = 0 /\ Len(frame) = 0
    BY <2>1 DEF NothingLeft
  <2> QED
    BY <2>1, <2>2 DEF OneFrame
<1>2. CASE ProcessFrame
  <2>1. /\ pc = "wait" /\ Len(frame) = 1 /\ frame' = << >> /\ clean' = clean
        /\ toClient' = toClient /\ Len(toDev') \in Nat /\ Len(toDev') <= Len(toDev) + 1
    BY <1>2, FrameCases, FrameSends DEF FrameKeeps, history
  <2>2. Len(frame') = 0
    BY <2>1
  <2> DEFINE a == Len(toDev)
             b == Len(toClient)
             c == Len(frame)
             d == Len(toDev')
  <2>3. clean' => a + b + c <= 1 /\ c = 1 /\ d \in Nat /\ d <= a + 1 /\ a \in Nat /\ b \in Nat
    BY <2>1 DEF OneFrame
  <2>4. Len(toClient') = b /\ Len(frame') = 0
    BY <2>1, <2>2
  <2> HIDE DEF a, b, c, d
  <2>5. clean' => d + b + 0 <= 1
    BY <2>3
  <2> QED
    BY <2>4, <2>5 DEF OneFrame, d
<1>3. CASE Timeout \/ Return
  BY <1>3 DEF Timeout, Return, OneFrame
<1>4. CASE HandleFrame
  <2> SUFFICES ASSUME pc' = "wait", clean'
               PROVE  Len(toDev') + Len(toClient') + Len(frame') <= 1
    BY DEF OneFrame
  <2>1. /\ toClient \in Seq(Replies) /\ toClient # << >> /\ toDev' = toDev
        /\ toClient' = Tail(toClient) /\ pc = "wait" /\ clean
    BY <1>4 DEF HandleFrame, client, history, TypeOK
  <2>2. enabled /\ frame' = <<Head(toClient)>> /\ Len(frame') = 1
    BY <1>4, <2>1 DEF HandleFrame, TypeOK
  <2>3. Len(toClient') = Len(toClient) - 1
    BY <2>1, HeadTailProperties
  <2>4. Len(toDev) + Len(toClient) + Len(frame) <= 1 /\ Len(toClient) # 0
    BY <2>1 DEF OneFrame
  <2>5. Len(toDev) = 0 /\ Len(toClient) = 1
    BY <2>4
  <2>6. Len(toDev') = 0 /\ Len(toClient') = 0
    BY <2>1, <2>3, <2>5
  <2> QED
    BY <2>2, <2>6
<1>5. CASE Device
  <2> SUFFICES ASSUME pc' = "wait", clean'
               PROVE  Len(toDev') + Len(toClient') + Len(frame') <= 1
    BY DEF OneFrame
  <2>1. pc = "wait" /\ clean /\ Len(toDev) + Len(toClient) + Len(frame) <= 1
    BY <1>5, OthersKeep DEF ClientKeeps, OneFrame
  <2>2. frame' = frame
    BY <1>5 DEF Device, Server, SrvUpload, SrvUploadSegment, SrvDownload, SrvDownloadSegment,
                SrvRefuse, SrvDrop, DevChange, reader
  <2>3. CASE \E o \in Objects, v \in Versions : DevChange(o, v)
    BY <2>1, <2>2, <2>3 DEF DevChange
  <2>4. CASE Server
    <3>1. Take
      BY <2>4 DEF Server, SrvUpload, SrvUploadSegment, SrvDownload, SrvDownloadSegment,
                  SrvRefuse, SrvDrop
    <3>2. toClient' = toClient \/ \E r \in Replies : Reply(r)
      <4>1. CASE SrvUpload
        <5>1. toDev[1] = Head(toDev) /\ toDev[1].obj \in Objects
          BY <3>1, <4>1, TakeIs, RequestFields DEF SrvUpload
        <5> QED
          BY <4>1, <5>1, UploadReplies DEF SrvUpload
      <4>2. CASE SrvUploadSegment \/ SrvDownload \/ SrvDownloadSegment
        BY <4>2, UploadSegmentIs, DownloadIs, DownloadSegmentIs
      <4>3. CASE SrvRefuse
        BY <4>3 DEF SrvRefuse, Replies
      <4>4. CASE SrvDrop
        BY <4>4 DEF SrvDrop
      <4> QED
        BY <2>4, <4>1, <4>2, <4>3, <4>4 DEF Server
    <3>3. Len(toDev') = Len(toDev) - 1
      BY <3>1, TakeIs
    <3>4. Len(toClient') = Len(toClient) \/ Len(toClient') = Len(toClient) + 1
      BY <3>2, ReplyIs
    <3>5. Len(frame') = Len(frame)
      BY <2>2
    <3> QED
      BY <2>1, <3>3, <3>4, <3>5
  <2> QED
    BY <1>5, <2>3, <2>4 DEF Device
<1> QED
  BY <1>1, <1>2, <1>3, <1>4, <1>5 DEF Next, Client

\* The versions seen during a call only grow.
LEMMA SeenGrows ==
  ASSUME ProcessFrame \/ Timeout \/ Return \/ HandleFrame \/ Device
  PROVE  seen \subseteq seen'
  BY DEF ProcessFrame, Timeout, Return, HandleFrame, Device, Server, SrvUpload,
         SrvUploadSegment, SrvDownload, SrvDownloadSegment, SrvRefuse, SrvDrop, DevChange,
         history, Adopt

LEMMA SeenNowStep ==
  ASSUME TypeOK, SeenNow, Next
  PROVE  SeenNow'
<1>1. val \in [Objects -> Versions \cup {0}]
  BY DEF TypeOK
<1>2. CASE Begin
  <2>1. ASSUME NEW o \in Objects, BeginRead(o) PROVE SeenNow'
    BY <2>1, BeginReadIs DEF BeginRead, device, SeenNow
  <2>2. ASSUME NEW o \in Objects, NEW v \in Versions, BeginWrite(o, v) PROVE SeenNow'
    BY <2>2, BeginWriteIs DEF BeginWrite, device, SeenNow
  <2> QED
    BY <1>2, <2>1, <2>2 DEF Begin
<1>3. CASE ProcessFrame \/ Timeout \/ Return
  <2>1. UNCHANGED <<call, val, seen>> /\ pc # "idle"
    BY <1>3 DEF ProcessFrame, Timeout, Return, client, history, device
  <2> QED
    BY <2>1 DEF SeenNow
<1>4. CASE HandleFrame \/ SrvUpload \/ SrvUploadSegment \/ SrvRefuse \/ SrvDrop
  BY <1>4 DEF HandleFrame, SrvUpload, SrvUploadSegment, SrvRefuse, SrvDrop, client, history,
              device, SeenNow
<1>5. ASSUME NEW o \in Objects, NEW u, Adopt(o, u), UNCHANGED <<pc, call>>
      PROVE  SeenNow'
  <2>1. PICK x : val' = [val EXCEPT ![o] = x]
    BY <1>5 DEF Adopt
  <2>2. seen' = IF pc # "idle" /\ call.obj = o THEN seen \cup {val'[o]} ELSE seen
    BY <1>5 DEF Adopt
  <2>3. CASE pc # "idle" /\ call.obj = o
    BY <1>5, <2>2, <2>3 DEF SeenNow
  <2>4. CASE pc # "idle" /\ call.obj # o
    <3>1. call.obj \in Objects
      BY <2>4, CallFields DEF TypeOK
    <3>2. val'[call.obj] = val[call.obj]
      BY <1>1, <2>1, <2>4, <3>1
    <3> QED
      BY <1>5, <2>2, <2>4, <3>2 DEF SeenNow
  <2>5. CASE pc = "idle"
    BY <1>5, <2>5 DEF SeenNow
  <2> QED
    BY <2>3, <2>4, <2>5
<1>6. CASE SrvDownload
  <2>1. UNCHANGED <<pc, call>>
    BY <1>6 DEF SrvDownload, client
  <2>2. CASE UNCHANGED <<val, seen>>
    BY <2>1, <2>2 DEF SeenNow
  <2> QED
    BY <1>5, <1>6, <2>1, <2>2, DownloadIs
<1>7. CASE SrvDownloadSegment
  <2>1. UNCHANGED <<pc, call>>
    BY <1>7 DEF SrvDownloadSegment, client
  <2>2. CASE UNCHANGED <<val, seen>>
    BY <2>1, <2>2 DEF SeenNow
  <2> QED
    BY <1>5, <1>7, <2>1, <2>2, DownloadSegmentIs
<1>8. ASSUME NEW o \in Objects, NEW v \in Versions, DevChange(o, v) PROVE SeenNow'
  <2>1. /\ val' = [val EXCEPT ![o] = v] /\ UNCHANGED <<pc, call>>
        /\ seen' = IF pc # "idle" /\ call.obj = o THEN seen \cup {v} ELSE seen
    BY <1>8 DEF DevChange, client
  <2>2. pc # "idle" => call.obj \in Objects
    BY CallFields DEF TypeOK
  <2>3. pc # "idle" /\ call.obj = o => val'[call.obj] = v
    BY <1>1, <2>1
  <2>4. pc # "idle" /\ call.obj # o => val'[call.obj] = val[call.obj]
    BY <1>1, <2>1, <2>2
  <2> QED
    BY <2>1, <2>3, <2>4 DEF SeenNow
<1> QED
  BY <1>2, <1>3, <1>4, <1>6, <1>7, <1>8 DEF Next, Client, Device, Server

-------------------------------------------------------------------------------
(* The answers belong to the transfer                                      *)

\* What is known of an answer stays true while the client rests and the server goes
\* on with no upload.
LEMMA GoodKept ==
  ASSUME NEW r, Good(r), ClientKeeps, clean' = clean, seen \subseteq seen',
         srv' = srv \/ srv'.cmd # "upseg"
  PROVE  Good(r)'
<1>1. ValueOrSize(r)'
  BY DEF Good, ValueOrSize, ClientKeeps
<1>2. Confirms(r)'
  BY DEF Good, Confirms, ClientKeeps, Writing
<1>3. ASSUME NEW v, NEW n, Remains(v, n) PROVE Remains(v, n)'
  BY <1>3 DEF Remains, ClientKeeps
<1>4. Begins(r)'
  <2> SUFFICES ASSUME (Reading /\ clean /\ r.cmd = "upload" /\ last.cmd = "upload")'
               PROVE  (\E v \in seen : IF r.units # << >> THEN Run(r.units, call.obj, v, 0)
                                                         ELSE Remains(v, 0))'
    BY DEF Begins
  <2>1. PICK v \in seen : IF r.units # << >> THEN Run(r.units, call.obj, v, 0)
                                            ELSE Remains(v, 0)
    BY DEF Good, Begins, ClientKeeps, Reading
  <2>2. (IF r.units # << >> THEN Run(r.units, call.obj, v, 0) ELSE Remains(v, 0))'
    BY <1>3, <2>1 DEF ClientKeeps
  <2> QED
    BY <2>2
<1>5. Brings(r)'
  <2> SUFFICES ASSUME (Reading /\ clean /\ r.cmd = "upseg" /\ last.cmd = "upseg")'
               PROVE  (\E v \in seen :
                         /\ Moved(v) /\ Run(r.units, call.obj, v, offset) /\ Len(r.units) > 0
                         /\ Remains(v, offset + Len(r.units)))'
    BY DEF Brings
  <2>1. PICK v \in seen :
          /\ Moved(v) /\ Run(r.units, call.obj, v, offset) /\ Len(r.units) > 0
          /\ Remains(v, offset + Len(r.units))
    BY DEF Good, Brings, ClientKeeps, Reading
  <2>2. Remains(v, offset + Len(r.units))'
    BY <1>3, <2>1 DEF ClientKeeps
  <2>3. (Moved(v) /\ Run(r.units, call.obj, v, offset) /\ Len(r.units) > 0)'
    BY <2>1 DEF ClientKeeps, Moved
  <2> QED
    BY <2>2, <2>3
<1> QED
  BY <1>1, <1>2, <1>4, <1>5 DEF Good

\* In a call that is over, or that found something left, only the values count.
LEMMA GoodLater ==
  ASSUME NEW r, ValueOrSize(r), dict' = dict, ~(pc' = "wait" /\ clean')
  PROVE  Good(r)'
  BY DEF Good, ValueOrSize, Confirms, Begins, Brings, Reading, Writing

\* The request the server takes is the last one.
LEMMA LastIsTaken ==
  ASSUME TypeOK, Stream, OneFrame, Take, pc = "wait", clean
  PROVE  /\ toDev[1] = last /\ toDev # << >> /\ toDev' = << >>
         /\ Len(toClient) = 0 /\ Len(frame) = 0
<1>1. /\ Len(toDev) > 0 /\ Len(toDev) + Len(toClient) + Len(frame) <= 1
      /\ toDev # << >> /\ Len(toDev') = Len(toDev) - 1 /\ (toDev' = << >>) = (Len(toDev) = 1)
  BY TakeIs DEF OneFrame
<1>2. Len(toDev) = 1 /\ Len(toClient) = 0 /\ Len(frame) = 0
  BY <1>1, QueueLengths
<1>3. toDev[Len(toDev)] = last
  BY <1>1 DEF Stream
<1> QED
  BY <1>1, <1>2, <1>3

LEMMA AllGoodReply ==
  ASSUME TypeOK, Stream, OneFrame, AllGood, Take, ClientKeeps, clean' = clean, frame' = frame,
         NEW r \in Replies, Reply(r), ValueOrSize(r),
         pc = "wait" /\ clean => (Confirms(r) /\ Begins(r) /\ Brings(r))'
  PROVE  AllGood'
<1>1. /\ Len(toClient') = Len(toClient) + 1 /\ toClient'[Len(toClient) + 1] = r
      /\ \A i \in 1 .. Len(toClient) : toClient'[i] = toClient[i]
  BY ReplyIs
<1>2. Len(toClient) \in Nat /\ Len(frame) \in Nat
  BY QueueLengths
<1>3. CASE pc = "wait" /\ clean
  <2>1. Len(toClient) = 0 /\ Len(frame) = 0
    BY <1>3, LastIsTaken
  <2>2. Good(r)'
    <3>1. ValueOrSize(r)'
      BY DEF ValueOrSize, ClientKeeps
    <3> QED
      BY <1>3, <3>1 DEF Good
  <2>3. (\A i \in 1 .. Len(toClient) : Good(toClient[i]))'
    <3>1. Len(toClient') = 1 /\ toClient'[1] = r
      BY <1>1, <2>1
    <3> QED
      BY <2>2, <3>1
  <2>4. (\A i \in 1 .. Len(frame) : Good(frame[i]))'
    <3>1. Len(frame') = 0
      BY <2>1
    <3> QED
      BY <3>1
  <2> QED
    BY <2>3, <2>4 DEF AllGood
<1>4. CASE ~(pc = "wait" /\ clean)
  <2>1. ~(pc' = "wait" /\ clean') /\ dict' = dict
    BY <1>4 DEF ClientKeeps
  <2>2. /\ \A i \in 1 .. Len(toClient') : ValueOrSize(toClient'[i])
        /\ \A i \in 1 .. Len(frame') : ValueOrSize(frame'[i])
    <3>1. /\ \A i \in 1 .. Len(toClient) : ValueOrSize(toClient[i])
          /\ \A i \in 1 .. Len(frame) : ValueOrSize(frame[i])
      BY DEF AllGood, Good
    <3>2. \A i \in 1 .. Len(toClient') : i \in 1 .. Len(toClient) \/ i = Len(toClient) + 1
      BY <1>1, <1>2
    <3> QED
      BY <1>1, <3>1, <3>2
  <2>3. (\A i \in 1 .. Len(toClient) : Good(toClient[i]))'
    BY <2>1, <2>2, GoodLater
  <2>4. (\A i \in 1 .. Len(frame) : Good(frame[i]))'
    BY <2>1, <2>2, GoodLater
  <2> QED
    BY <2>3, <2>4 DEF AllGood
<1> QED
  BY <1>3, <1>4

\* Only a read is answered with "upload" or "upseg", only a write with the others.
LEMMA OtherAnswer ==
  ASSUME NEW r
  PROVE  /\ r.cmd \notin {"download", "dnseg"} => Confirms(r)'
         /\ r.cmd # "upload" => Begins(r)'
         /\ r.cmd # "upseg" => Brings(r)'
         /\ r.cmd # "upload" => ValueOrSize(r)
  BY DEF Confirms, Begins, Brings, ValueOrSize

-------------------------------------------------------------------------------
(* The answers of the server                                               *)

LEMMA GoodUpload ==
  ASSUME TypeOK, Stream, Asked, OneFrame, AllGood, SeenNow, WrittenIsWhole, SrvUpload
  PROVE  AllGood'
<1>1. /\ Take /\ Head(toDev).cmd = "upload" /\ ClientKeeps /\ clean' = clean
      /\ frame' = frame /\ seen' = seen
  BY DEF SrvUpload, ClientKeeps, client, reader, history
<1>2. toDev[1] = Head(toDev) /\ toDev[1].obj \in Objects
  BY <1>1, TakeIs, RequestFields
<1>3. PICK o \in Objects, v \in Versions : o = toDev[1].obj /\ v = val[o]
  BY <1>2 DEF WrittenIsWhole
<1> DEFINE u == Units(o, v, dict[o].dev)
<1>4. PICK size \in {0, dict[o].dev} :
        IF dict[o].dev <= Expedited
        THEN /\ Reply([cmd |-> "upload", obj |-> o, size |-> size, units |-> u])
             /\ srv' = Idle
        ELSE /\ Reply([cmd |-> "upload", obj |-> o, size |-> size, units |-> << >>])
             /\ srv' = [cmd |-> "upseg", units |-> u, toggle |-> FALSE]
  BY <1>2, <1>3 DEF SrvUpload
<1>5. /\ dict[o].dev \in Nat /\ dict[o].dev > 0
      /\ u \in Seq(Unit) /\ Len(u) = dict[o].dev /\ Run(u, o, v, 0)
  <2>1. dict[o].dev \in Nat /\ dict[o].dev > 0
    BY <1>2, CallSizes
  <2>2. v \in Versions \cup {0}
    OBVIOUS
  <2> QED
    BY <2>1, <2>2, UnitsAre
<1> HIDE DEF u
<1>6. Reading /\ clean /\ last.cmd = "upload" => call.obj = o /\ v \in seen
  <2> SUFFICES ASSUME Reading, clean, last.cmd = "upload"
               PROVE  call.obj = o /\ v \in seen
    OBVIOUS
  <2>1. toDev[1] = last /\ pc = "wait"
    BY <1>1, LastIsTaken DEF Reading
  <2>2. last.obj = call.obj
    BY DEF Asked
  <2> QED
    BY <1>3, <2>1, <2>2 DEF SeenNow
<1>7. ASSUME NEW r \in Replies, Reply(r), r.cmd = "upload", ValueOrSize(r),
             Reading /\ clean /\ last.cmd = "upload" =>
               (IF r.units # << >> THEN Run(r.units, call.obj, v, 0)
                                   ELSE Remains(v, 0)')
      PROVE  AllGood'
  <2>1. Confirms(r)' /\ Brings(r)'
    BY <1>7, OtherAnswer
  <2>2. Begins(r)'
    <3> SUFFICES ASSUME (Reading /\ clean /\ r.cmd = "upload" /\ last.cmd = "upload")'
                 PROVE  (\E w \in seen : IF r.units # << >> THEN Run(r.units, call.obj, w, 0)
                                                           ELSE Remains(w, 0))'
      BY DEF Begins
    <3>1. Reading /\ clean /\ last.cmd = "upload"
      BY <1>1 DEF ClientKeeps, Reading
    <3>2. v \in seen' /\ call' = call
      BY <1>1, <1>6, <3>1 DEF ClientKeeps
    <3> QED
      BY <1>7, <3>1, <3>2
  <2> QED
    BY <1>1, <1>7, <2>1, <2>2, AllGoodReply
<1>8. CASE dict[o].dev <= Expedited
  <2> DEFINE r == [cmd |-> "upload", obj |-> o, size |-> size, units |-> u]
  <2>1. r \in Replies /\ Reply(r) /\ r.cmd = "upload" /\ r.units = u /\ r.obj = o /\ r.size = size
    BY <1>3, <1>4, <1>8, UploadReplies DEF u
  <2>2. u # << >>
    BY <1>5, EmptyRun
  <2> HIDE DEF r
  <2>3. ValueOrSize(r)
    BY <1>5, <1>8, <2>1 DEF ValueOrSize
  <2>4. Reading /\ clean /\ last.cmd = "upload" => Run(r.units, call.obj, v, 0)
    BY <1>5, <1>6, <2>1
  <2> QED
    BY <1>7, <2>1, <2>2, <2>3, <2>4
<1>9. CASE ~(dict[o].dev <= Expedited)
  <2> DEFINE r == [cmd |-> "upload", obj |-> o, size |-> size, units |-> << >>]
  <2>1. /\ r \in Replies /\ Reply(r) /\ r.cmd = "upload" /\ r.units = << >> /\ r.obj = o
        /\ r.size = size
    BY <1>3, <1>4, <1>9, UploadReplies DEF u
  <2> HIDE DEF r
  <2>2. ValueOrSize(r)
    BY <1>9, <2>1 DEF ValueOrSize
  <2>3. srv'.cmd = "upseg" /\ srv'.units = u
    BY <1>4, <1>9
  <2>4. Reading /\ clean /\ last.cmd = "upload" => Remains(v, 0)'
    BY <1>1, <1>5, <1>6, <2>3 DEF Remains, ClientKeeps
  <2> QED
    BY <1>7, <2>1, <2>2, <2>4
<1> QED
  BY <1>8, <1>9

LEMMA GoodUploadSegment ==
  ASSUME TypeOK, Stream, OneFrame, AllGood, Asks, SrvUploadSegment
  PROVE  AllGood'
<1>1. Take /\ ClientKeeps /\ clean' = clean /\ frame' = frame /\ seen' = seen
  BY DEF SrvUploadSegment, ClientKeeps, client, reader, history
<1>2. /\ srv.cmd = "upseg" /\ srv.units \in Seq(Unit)
      /\ \/ srv' = Idle
         \/ /\ Len(srv.units) > Segment /\ srv'.cmd = "upseg"
            /\ srv'.units = SubSeq(srv.units, Segment + 1, Len(srv.units))
  BY UploadSegmentIs
<1>3. PICK r \in Replies : Reply(r) /\ r.cmd = "upseg" /\ r.units = Part(srv.units, 1, Segment)
  BY UploadSegmentIs
<1>4. ValueOrSize(r) /\ Confirms(r)' /\ Begins(r)'
  BY <1>3, OtherAnswer
<1>5. ASSUME Reading, clean, last.cmd = "upseg"
      PROVE  (\E v \in seen :
                /\ Moved(v) /\ Run(r.units, call.obj, v, offset) /\ Len(r.units) > 0
                /\ Remains(v, offset + Len(r.units)))'
  <2>1. toDev # << >>
    BY <1>1, TakeIs
  <2>2. PICK v \in seen : Moved(v) /\ Remains(v, offset)
    BY <1>5, <2>1 DEF Asks
  <2>3. /\ offset < dict[call.obj].dev /\ Len(srv.units) = dict[call.obj].dev - offset
        /\ Run(srv.units, call.obj, v, offset)
    BY <1>2, <2>2 DEF Remains
  <2>4. /\ offset \in Nat /\ call.obj \in Objects /\ dict[call.obj].dev \in Nat
        /\ Len(srv.units) \in Nat
    BY <1>2, <1>5, LenProperties, CallSizes, CallFields DEF TypeOK, Reading
  <2>5. Len(srv.units) > 0
    BY <2>3, <2>4
  <2>6. /\ Len(r.units) = IF Segment < Len(srv.units) THEN Segment - 1 + 1
                                                     ELSE Len(srv.units) - 1 + 1
        /\ Run(r.units, call.obj, v, offset + 1 - 1)
    <3>1. Segment \in Nat /\ 1 \in Nat /\ 1 <= Segment /\ 1 <= Len(srv.units)
      BY <2>4, <2>5 DEF Segment
    <3>2. Len(Part(srv.units, 1, Segment)) = IF Segment < Len(srv.units) THEN Segment - 1 + 1
                                                                        ELSE Len(srv.units) - 1 + 1
      BY <1>2, <3>1, PartOf
    <3>3. Run(Part(srv.units, 1, Segment), call.obj, v, offset + 1 - 1)
      <4>1. srv.units \in Seq(Unit) /\ offset \in Nat /\ Run(srv.units, call.obj, v, offset)
        BY <1>2, <2>3, <2>4
      <4> QED
        BY <3>1, <4>1, PartOfRun
    <3> QED
      BY <1>3, <3>2, <3>3
  <2>7. Run(r.units, call.obj, v, offset)
    <3>1. offset + 1 - 1 = offset
      BY <2>4
    <3> QED
      BY <2>6, <3>1
  <2>8. Len(r.units) > 0
    BY <2>4, <2>5, <2>6 DEF Segment
  <2>9. Remains(v, offset + Len(r.units))'
    <3>1. CASE srv' = Idle
      BY <3>1 DEF Remains, Idle
    <3>2. CASE /\ Len(srv.units) > Segment /\ srv'.cmd = "upseg"
               /\ srv'.units = SubSeq(srv.units, Segment + 1, Len(srv.units))
      <4>1. Len(r.units) = Segment
        <5>1. Len(r.units) = Segment - 1 + 1
          BY <2>4, <2>6, <3>2 DEF Segment
        <5> QED
          BY <5>1 DEF Segment
      <4>2. /\ Len(srv'.units) = Len(srv.units) - Segment
            /\ Run(srv'.units, call.obj, v, offset + Segment)
        <5>1. Segment \in Nat /\ Segment < Len(srv.units)
          BY <2>4, <3>2 DEF Segment
        <5>2. srv.units \in Seq(Unit) /\ offset \in Nat /\ Run(srv.units, call.obj, v, offset)
          BY <1>2, <2>3, <2>4
        <5>3. /\ Len(SubSeq(srv.units, Segment + 1, Len(srv.units))) = Len(srv.units) - Segment
              /\ Run(SubSeq(srv.units, Segment + 1, Len(srv.units)), call.obj, v, offset + Segment)
          BY <5>1, <5>2, RestOfRun
        <5> QED
          BY <3>2, <5>3
      <4>3. /\ offset + Segment < dict[call.obj].dev
            /\ Len(srv'.units) = dict[call.obj].dev - (offset + Segment)
        <5> DEFINE n == Len(srv.units)
                   k == Len(srv'.units)
        <5>1. n = dict[call.obj].dev - offset /\ n > 2 /\ k = n - 2 /\ n \in Nat
          BY <2>3, <2>4, <3>2, <4>2 DEF Segment
        <5> HIDE DEF n, k
        <5>2. offset + 2 < dict[call.obj].dev /\ k = dict[call.obj].dev - (offset + 2)
          BY <2>4, <5>1
        <5> QED
          BY <5>2 DEF Segment, k
      <4> QED
        BY <1>1, <4>1, <4>2, <4>3 DEF Remains, ClientKeeps
    <3> QED
      BY <1>2, <3>1, <3>2
  <2>10. (Moved(v) /\ Run(r.units, call.obj, v, offset))' /\ v \in seen'
    BY <1>1, <2>2, <2>7 DEF Moved, ClientKeeps
  <2> QED
    BY <2>8, <2>9, <2>10
<1>6. Brings(r)'
  BY <1>1, <1>5 DEF Brings, ClientKeeps, Reading
<1> QED
  BY <1>1, <1>3, <1>4, <1>6, AllGoodReply

LEMMA GoodDownload ==
  ASSUME TypeOK, Stream, Sent, OneFrame, AllGood, SrvDownload
  PROVE  AllGood'
<1>1. Take /\ ClientKeeps /\ clean' = clean /\ frame' = frame
  BY DEF SrvDownload, ClientKeeps, client, reader
<1>2. PICK r \in Replies : Reply(r) /\ r.cmd = "download"
  BY DownloadIs
<1>3. ValueOrSize(r) /\ Begins(r)' /\ Brings(r)'
  BY <1>2, OtherAnswer
<1>4. ASSUME Writing, clean, offset = total
      PROVE  call.version \in seen'
  <2>1. toDev[1] = last /\ last.cmd = "download" /\ pc = "wait"
    BY <1>1, <1>4, LastIsTaken, DownloadIs DEF Writing
  <2>2. last.units = data /\ last.obj = call.obj /\ total > 0
    BY <1>4, <2>1, OffsetOfWrite
  <2>3. Run(data, call.obj, call.version, 0) /\ Len(data) = total /\ data \in Seq(Unit)
    BY <1>4 DEF Sent, TypeOK
  <2>4. total \in Nat /\ call.obj \in Objects /\ call.version \in Versions
    BY <1>4, CallFields DEF TypeOK, Writing
  <2>5. data # << >>
    BY <2>2, <2>3, EmptyRun
  <2>6. Adopt(call.obj, data)
    BY <2>1, <2>2, <2>5, DownloadIs
  <2> QED
    BY <2>1, <2>3, <2>4, <2>6, AdoptIs
<1>5. Confirms(r)'
  BY <1>1, <1>4 DEF Confirms, ClientKeeps, Writing
<1> QED
  BY <1>1, <1>2, <1>3, <1>5, AllGoodReply

LEMMA GoodDownloadSegment ==
  ASSUME TypeOK, Stream, Sent, OneFrame, AllGood, SrvDownloadSegment
  PROVE  AllGood'
<1>1. Take /\ ClientKeeps /\ clean' = clean /\ frame' = frame
  BY DEF SrvDownloadSegment, ClientKeeps, client, reader
<1>2. PICK r \in Replies : Reply(r) /\ r.cmd = "dnseg"
  BY DownloadSegmentIs
<1>3. ValueOrSize(r) /\ Begins(r)' /\ Brings(r)'
  BY <1>2, OtherAnswer
<1>4. ASSUME Writing, clean, offset = total
      PROVE  call.version \in seen'
  <2>1. /\ toDev[1] = last /\ last.cmd = "dnseg" /\ pc = "wait" /\ last \in Requests
        /\ srv.obj \in Objects /\ srv.units \in Seq(Unit)
        /\ srv.units \o last.units \in Seq(Unit)
    BY <1>1, <1>4, LastIsTaken, DownloadSegmentIs DEF Writing
  <2>2. PICK n \in Nat : SegmentOf(last, call.obj, call.version, n) /\ last.last = TRUE
    BY <1>4, <2>1, OffsetOfWrite
  <2>3. PICK v \in Versions :
          /\ SegmentOf(last, srv.obj, v, Len(srv.units))
          /\ Run(srv.units \o last.units, srv.obj, v, 0)
    BY <2>1, DownloadSegmentRun
  <2>4. call.obj \in Objects /\ call.version \in Versions /\ Len(srv.units) \in Nat
    BY <1>4, <2>1, CallFields, LenProperties DEF TypeOK, Writing
  <2>5. srv.obj = call.obj /\ v = call.version
    BY <2>1, <2>2, <2>3, <2>4, SegmentIsUnique
  <2>6. Adopt(srv.obj, srv.units \o last.units)
    BY <2>1, <2>2, DownloadSegmentIs
  <2>7. seen' = IF pc # "idle" /\ call.obj = srv.obj THEN seen \cup {v} ELSE seen
    BY <2>1, <2>3, <2>6, AdoptIs
  <2> QED
    BY <2>1, <2>5, <2>7
<1>5. Confirms(r)'
  BY <1>1, <1>4 DEF Confirms, ClientKeeps, Writing
<1> QED
  BY <1>1, <1>2, <1>3, <1>5, AllGoodReply

LEMMA AllGoodStep ==
  ASSUME TypeOK, Stream, Sent, Asked, OneFrame, Asks, AllGood, SeenNow, WrittenIsWhole, Next
  PROVE  AllGood'
<1>1. /\ \A i \in 1 .. Len(toClient) : ValueOrSize(toClient[i])
      /\ \A i \in 1 .. Len(frame) : ValueOrSize(frame[i])
  BY DEF AllGood, Good
<1>2. CASE Begin
  <2>1. /\ clean' = NothingLeft /\ UNCHANGED <<dict, frame, toClient>>
    BY <1>2 DEF Begin, BeginRead, BeginWrite
  <2>2. CASE clean'
    <3>1. Len(toClient') = 0 /\ Len(frame') = 0
      BY <2>1, <2>2, QueueLengths DEF NothingLeft
    <3> QED
      BY <3>1 DEF AllGood
  <2>3. CASE ~clean'
    <3>1. (\A i \in 1 .. Len(toClient) : Good(toClient[i]))'
      BY <1>1, <2>1, <2>3, GoodLater
    <3>2. (\A i \in 1 .. Len(frame) : Good(frame[i]))'
      BY <1>1, <2>1, <2>3, GoodLater
    <3> QED
      BY <3>1, <3>2 DEF AllGood
  <2> QED
    BY <2>2, <2>3
<1>3. CASE ProcessFrame
  <2>1. /\ dict' = dict /\ toClient' = toClient /\ frame' = << >> /\ clean' = clean
        /\ pc = "wait" /\ Len(frame) = 1
    BY <1>3, FrameCases DEF FrameKeeps, history
  <2>2. (\A i \in 1 .. Len(frame) : Good(frame[i]))'
    BY <2>1
  <2>3. CASE clean
    <3>1. Len(toDev) + Len(toClient) + Len(frame) <= 1
      BY <2>1, <2>3 DEF OneFrame
    <3>2. Len(toClient) = 0
      BY <2>1, <3>1, QueueLengths
    <3>3. Len(toClient') = 0
      BY <2>1, <3>2
    <3> QED
      BY <2>2, <3>3 DEF AllGood
  <2>4. CASE ~clean
    <3>1. (\A i \in 1 .. Len(toClient) : Good(toClient[i]))'
      BY <1>1, <2>1, <2>4, GoodLater
    <3> QED
      BY <2>2, <3>1 DEF AllGood
  <2> QED
    BY <2>3, <2>4
<1>4. CASE Timeout \/ Return
  <2>1. UNCHANGED <<dict, frame, toClient>> /\ pc' # "wait"
    BY <1>4 DEF Timeout, Return, reader
  <2>2. (\A i \in 1 .. Len(toClient) : Good(toClient[i]))'
    BY <1>1, <2>1, GoodLater
  <2>3. (\A i \in 1 .. Len(frame) : Good(frame[i]))'
    BY <1>1, <2>1, GoodLater
  <2> QED
    BY <2>2, <2>3 DEF AllGood
<1>5. CASE HandleFrame
  <2>1. /\ ClientKeeps /\ clean' = clean /\ seen' = seen /\ srv' = srv
        /\ toClient # << >> /\ toClient' = Tail(toClient) /\ toClient \in Seq(Replies)
        /\ frame' = <<Head(toClient)>> \/ frame' = frame
    BY <1>5 DEF HandleFrame, ClientKeeps, client, history, device, TypeOK
  <2>2. \A r : Good(r) => Good(r)'
    BY <2>1, GoodKept
  <2>3. /\ Len(toClient) \in Nat /\ Len(toClient) # 0 /\ Head(toClient) = toClient[1]
        /\ Len(toClient') = Len(toClient) - 1
        /\ \A i \in 1 .. Len(toClient) - 1 : toClient'[i] = toClient[i + 1]
    BY <2>1, HeadTailProperties, QueueLengths
  <2>4. \A i \in 1 .. Len(toClient') : Good(toClient'[i])
    <3> SUFFICES ASSUME NEW i \in 1 .. Len(toClient') PROVE Good(toClient'[i])
      OBVIOUS
    <3>1. i \in 1 .. Len(toClient) - 1 /\ i + 1 \in 1 .. Len(toClient)
      BY <2>3
    <3> QED
      BY <2>3, <3>1 DEF AllGood
  <2>5. \A i \in 1 .. Len(frame') : Good(frame'[i])
    <3>1. CASE frame' = frame
      BY <3>1 DEF AllGood
    <3>2. CASE frame' = <<Head(toClient)>>
      <4>1. Len(frame') = 1 /\ frame'[1] = Head(toClient) /\ 1 \in 1 .. Len(toClient)
        BY <2>3, <3>2
      <4> QED
        BY <2>3, <4>1 DEF AllGood
    <3> QED
      BY <2>1, <3>1, <3>2
  <2>6. (\A i \in 1 .. Len(toClient) : Good(toClient[i]))'
    BY <2>2, <2>4
  <2>7. (\A i \in 1 .. Len(frame) : Good(frame[i]))'
    BY <2>2, <2>5
  <2> QED
    BY <2>6, <2>7 DEF AllGood
<1>6. CASE SrvRefuse
  <2>1. /\ Take /\ ClientKeeps /\ clean' = clean /\ frame' = frame
        /\ Reply(Abort) /\ Abort \in Replies /\ Abort.cmd = "abort"
    BY <1>6 DEF SrvRefuse, ClientKeeps, client, reader, history, Replies, Abort
  <2>2. ValueOrSize(Abort) /\ (Confirms(Abort) /\ Begins(Abort) /\ Brings(Abort))'
    BY <2>1, OtherAnswer
  <2> QED
    BY <2>1, <2>2, AllGoodReply
<1>7. CASE SrvDrop \/ \E o \in Objects, v \in Versions : DevChange(o, v)
  <2>1. /\ ClientKeeps /\ clean' = clean /\ UNCHANGED <<frame, toClient>>
        /\ srv' = srv \/ srv' = Idle
    BY <1>7 DEF SrvDrop, DevChange, ClientKeeps, client, reader, history
  <2>2. seen \subseteq seen'
    BY <1>7, SeenGrows DEF Device, Server
  <2>3. \A r : Good(r) => Good(r)'
    BY <2>1, <2>2, GoodKept DEF Idle
  <2>4. (\A i \in 1 .. Len(toClient) : Good(toClient[i]))'
    BY <2>1, <2>3 DEF AllGood
  <2>5. (\A i \in 1 .. Len(frame) : Good(frame[i]))'
    BY <2>1, <2>3 DEF AllGood
  <2> QED
    BY <2>4, <2>5 DEF AllGood
<1> QED
  BY <1>2, <1>3, <1>4, <1>5, <1>6, <1>7, GoodUpload, GoodUploadSegment, GoodDownload,
     GoodDownloadSegment
  DEF Next, Client, Device, Server

-------------------------------------------------------------------------------
(* The requests of a read find the server where the read is                *)

LEMMA FrameIsGood ==
  ASSUME TypeOK, Sent, Asked, AllGood, ProcessFrame
  PROVE  Good(Head(frame)) /\ Head(frame) \in Replies
<1>1. Head(frame) = frame[1] /\ Len(frame) = 1 /\ Head(frame) \in Replies
  BY FrameCases
<1>2. 1 \in 1 .. Len(frame)
  BY <1>1
<1> QED
  BY <1>1, <1>2 DEF AllGood

LEMMA RemainsKept ==
  ASSUME NEW v, NEW n, Remains(v, n), UNCHANGED <<dict, call, srv>>
  PROVE  Remains(v, n)'
  BY DEF Remains

LEMMA AsksStep ==
  ASSUME TypeOK, Stream, Sent, Asked, OneFrame, Asks, AllGood, Next
  PROVE  Asks'
<1>1. CASE Begin
  <2>1. ASSUME NEW o \in Objects, BeginRead(o) PROVE last'.cmd # "upseg"
    BY <2>1, BeginReadIs, OtherRequests
  <2>2. ASSUME NEW o \in Objects, NEW v \in Versions, BeginWrite(o, v)
        PROVE  last'.cmd # "upseg"
    BY <2>2, BeginWriteIs
  <2> QED
    BY <1>1, <2>1, <2>2 DEF Begin, Asks
<1>2. CASE ProcessFrame
  <2> DEFINE r == Head(frame)
  <2>1. Good(r) /\ r \in Replies /\ UNCHANGED <<dict, call, srv, clean, seen>>
    BY <1>2, FrameIsGood, FrameCases DEF FrameKeeps, history, device
  <2>2. Quits \/ WriteDone(r) \/ WriteOn \/ ReadDone(r) \/ ReadOn(r) \/ SegmentRead(r)
    BY <1>2, FrameCases
  <2> HIDE DEF r
  <2> SUFFICES ASSUME Reading', clean
               PROVE  (\E v \in seen : Moved(v) /\ Remains(v, offset))'
    BY <2>1 DEF Asks
  <2>3. CASE ReadOn(r)
    <3>1. /\ Reading /\ last.cmd = "upload" /\ r.cmd = "upload" /\ r.units = << >>
          /\ offset' = 0
      BY <2>1, <2>3, ReadOnIs DEF ReadOn, IsFirst
    <3>2. PICK v \in seen : Remains(v, 0)
      BY <2>1, <3>1 DEF Good, Begins
    <3>3. Remains(v, 0)' /\ v \in seen'
      BY <2>1, <3>2, RemainsKept
    <3>4. Moved(v)'
      BY <3>1 DEF Moved
    <3>5. Remains(v, offset)'
      BY <3>1, <3>3
    <3> QED
      BY <3>3, <3>4, <3>5
  <2>4. CASE SegmentRead(r)
    <3>1. Reading /\ last.cmd = "upseg" /\ r.cmd = "upseg"
      BY <2>4 DEF SegmentRead
    <3>2. PICK v \in seen :
            /\ Moved(v) /\ Run(r.units, call.obj, v, offset)
            /\ Remains(v, offset + Len(r.units))
      BY <2>1, <3>1 DEF Good, Brings
    <3>3. /\ offset' = offset + Len(r.units) /\ Len(r.units) \in Nat /\ offset \in Nat
          /\ \A i \in 1 .. offset : data'[i] = data[i]
          /\ \A i \in 1 .. Len(r.units) : data'[offset + i] = r.units[i]
      BY <2>1, <2>4, SegmentReadIs DEF TypeOK
    <3>4. Moved(v)'
      <4> SUFFICES ASSUME NEW i \in 1 .. offset'
                   PROVE  data'[i] = <<call.obj, v, i>>
        BY <2>1 DEF Moved
      <4>1. CASE i <= offset
        BY <3>2, <3>3, <4>1 DEF Moved
      <4>2. CASE ~(i <= offset)
        <5>1. i - offset \in 1 .. Len(r.units) /\ offset + (i - offset) = i
          BY <3>3, <4>2
        <5>2. data'[offset + (i - offset)] = r.units[i - offset]
          BY <3>3, <5>1
        <5>3. r.units[i - offset] = <<call.obj, v, offset + (i - offset)>>
          BY <3>2, <5>1 DEF Run
        <5> QED
          BY <5>1, <5>2, <5>3
      <4> QED
        BY <4>1, <4>2
    <3>5. Remains(v, offset + Len(r.units))
      BY <3>2
    <3>6. Remains(v, offset)'
      BY <2>1, <3>3, <3>5 DEF Remains
    <3> QED
      BY <2>1, <3>2, <3>4, <3>6
  <2>5. CASE Quits \/ WriteDone(r) \/ ReadDone(r) \/ WriteOn
    <3>1. pc' = "end" \/ Writing
      BY <2>5 DEF Quits, WriteDone, ReadDone, WriteOn
    <3> QED
      BY <2>1, <3>1 DEF Reading, Writing
  <2> QED
    BY <2>2, <2>3, <2>4, <2>5
<1>3. CASE Timeout \/ Return
  BY <1>3 DEF Timeout, Return, Asks, Reading
<1>4. CASE HandleFrame \/ \E o \in Objects, v \in Versions : DevChange(o, v)
  <2>1. ClientKeeps /\ clean' = clean /\ toDev' = toDev /\ srv' = srv
    BY <1>4 DEF ClientKeeps, HandleFrame, DevChange, client, history, device
  <2>2. seen \subseteq seen'
    BY <1>4, SeenGrows DEF Device
  <2> SUFFICES ASSUME Reading, clean, last.cmd = "upseg", toDev # << >>
               PROVE  (\E v \in seen : Moved(v) /\ Remains(v, offset))'
    BY <2>1 DEF Asks, Reading, ClientKeeps
  <2>3. PICK v \in seen : Moved(v) /\ Remains(v, offset)
    BY DEF Asks
  <2>4. Moved(v)' /\ Remains(v, offset)'
    BY <2>1, <2>3 DEF Moved, Remains, ClientKeeps
  <2> QED
    BY <2>2, <2>3, <2>4
<1>5. CASE Server
  <2>1. Take /\ ClientKeeps /\ clean' = clean
    BY <1>5, OthersKeep
    DEF Device, Server, SrvUpload, SrvUploadSegment, SrvDownload, SrvDownloadSegment, SrvRefuse,
        SrvDrop
  <2>2. pc = "wait" /\ clean => toDev' = << >>
    BY <2>1, LastIsTaken
  <2> QED
    BY <2>1, <2>2 DEF Asks, Reading, ClientKeeps
<1> QED
  BY <1>1, <1>2, <1>3, <1>4, <1>5 DEF Next, Client, Device

-------------------------------------------------------------------------------
(* The results                                                             *)

LEMMA ReadDoneRight ==
  ASSUME TypeOK, Asked, NEW r \in Replies, Good(r), ReadDone(r),
         UNCHANGED <<dict, call, clean, seen>>
  PROVE  ReadEnds'
<1> SUFFICES ASSUME Moves'
             PROVE  /\ clean => \E v \in seen : data' = Units(call.obj, v, ReadSize(call.obj))
                    /\ dict[call.obj].dev <= Expedited =>
                         \E v \in Versions : data' = Units(call.obj, v, CallSize(call.obj))
  BY DEF ReadEnds, Units, ReadSize, CallSize
<1>1. /\ total' = SizeFrom(r) /\ offset' = SizeFrom(r)
      /\ SizeFrom(r) = 0 \/ SizeFrom(r) = 1
      /\ data' \in Seq(Unit) /\ Len(data') = SizeFrom(r)
      /\ Len(r.units) \in Nat /\ Len(r.units) > 0
      /\ \A i \in 1 .. SizeFrom(r) : data'[i] = r.units[i]
  BY ReadDoneIs
<1>2. /\ Reading /\ r.cmd = "upload" /\ r.obj = call.obj /\ r.units # << >>
      /\ last.cmd = "upload"
  BY DEF ReadDone, IsFirst
<1>3. SizeFrom(r) = 1
  BY <1>1 DEF Moves
<1>4. /\ r.size = 0 \/ r.size = dict[call.obj].dev
      /\ dict[call.obj].dev <= Expedited
      /\ \E v \in Versions : Run(r.units, call.obj, v, 0)
  BY <1>2 DEF Good, ValueOrSize
<1>5. SizeFrom(r) = CallSize(call.obj) /\ ReadSize(call.obj) = CallSize(call.obj)
  <2>1. total = dict[call.obj].type /\ call.obj \in Objects
    BY <1>2, BufferOfRead DEF Asked
  <2> QED
    BY <1>2, <1>3, <1>4, <2>1, ReadSizes DEF SizeFrom, Indicated, CallSize
<1>6. ASSUME NEW v \in Versions \cup {0}, Run(r.units, call.obj, v, 0)
      PROVE  data' = Units(call.obj, v, ReadSize(call.obj))
  <2>1. call.obj \in Objects
    BY <1>2, BufferOfRead
  <2>2. 1 \in 1 .. Len(r.units) /\ r.units[1] = data'[1]
    BY <1>1, <1>3
  <2>3. r.units[1] = <<call.obj, v, 0 + 1>>
    BY <1>6, <2>2 DEF Run
  <2>4. /\ Units(call.obj, v, 1) \in Seq(Unit) /\ Len(Units(call.obj, v, 1)) = 1
        /\ \A i \in 1 .. 1 : Units(call.obj, v, 1)[i] = <<call.obj, v, i>>
    <3>1. 1 \in Nat /\ v \in Versions \cup {0}
      BY <1>6
    <3> QED
      BY <2>1, <3>1, UnitsAre
  <2>5. Len(data') = 1 /\ data'[1] = <<call.obj, v, 1>>
    BY <1>1, <1>3, <2>2, <2>3
  <2>6. \A i \in 1 .. 1 : data'[i] = Units(call.obj, v, 1)[i]
    BY <2>4, <2>5
  <2>7. data' = Units(call.obj, v, 1)
    BY <1>1, <2>4, <2>5, <2>6, SeqEqual
  <2> QED
    BY <1>3, <1>5, <2>7
<1>7. clean => \E v \in seen : data' = Units(call.obj, v, ReadSize(call.obj))
  <2> SUFFICES ASSUME clean
               PROVE  \E v \in seen : data' = Units(call.obj, v, ReadSize(call.obj))
    OBVIOUS
  <2>1. PICK v \in seen : Run(r.units, call.obj, v, 0)
    BY <1>2 DEF Good, Begins
  <2>2. v \in Versions \cup {0}
    BY DEF TypeOK
  <2> QED
    BY <1>6, <2>1, <2>2
<1>8. dict[call.obj].dev <= Expedited =>
        \E v \in Versions : data' = Units(call.obj, v, CallSize(call.obj))
  BY <1>4, <1>5, <1>6
<1> QED
  BY <1>7, <1>8

LEMMA SegmentsRight ==
  ASSUME TypeOK, Asked, NEW r \in Replies, Good(r), SegmentRead(r),
         UNCHANGED <<dict, call, clean, seen>>
  PROVE  ReadEnds'
<1> SUFFICES ASSUME Moves'
             PROVE  /\ clean => \E v \in seen : data' = Units(call.obj, v, ReadSize(call.obj))
                    /\ ~(dict[call.obj].dev <= Expedited)
  BY DEF ReadEnds, Units, ReadSize, CallSize
<1>1. Reading /\ last.cmd = "upseg" /\ r.cmd = "upseg"
  BY DEF SegmentRead
<1>2. /\ call.obj \in Objects /\ dict[call.obj].dev \in Nat /\ offset \in Nat
      /\ dict[call.obj].dev > Expedited /\ (total = 0 \/ total = ReadSize(call.obj))
  BY <1>1, BufferOfRead, CallSizes DEF Asked
<1>3. ~(dict[call.obj].dev <= Expedited)
  BY <1>2 DEF Expedited
<1>4. /\ offset' = offset + Len(r.units) /\ offset' \in Nat /\ total' = total
      /\ Len(r.units) \in Nat
      /\ data' \in Seq(Unit) /\ Len(data') = (IF total = 0 THEN offset' ELSE total)
      /\ \A i \in 1 .. offset : data'[i] = data[i]
      /\ \A i \in 1 .. Len(r.units) : data'[offset + i] = r.units[i]
  BY SegmentReadIs
<1>5. offset' = ReadSize(call.obj) /\ Len(data') = offset'
  BY <1>2, <1>4 DEF Moves
<1>6. ASSUME clean
      PROVE  \E v \in seen : data' = Units(call.obj, v, ReadSize(call.obj))
  <2>1. PICK v \in seen : Moved(v) /\ Run(r.units, call.obj, v, offset)
    BY <1>1, <1>6 DEF Good, Brings
  <2>2. v \in Versions \cup {0}
    BY DEF TypeOK
  <2>3. /\ Units(call.obj, v, offset') \in Seq(Unit)
        /\ Len(Units(call.obj, v, offset')) = offset'
        /\ \A i \in 1 .. offset' : Units(call.obj, v, offset')[i] = <<call.obj, v, i>>
    BY <1>2, <1>4, <2>2, UnitsAre
  <2>4. ASSUME NEW i \in 1 .. offset' PROVE data'[i] = <<call.obj, v, i>>
    <3>1. CASE i <= offset
      BY <1>2, <1>4, <2>1, <2>4, <3>1 DEF Moved
    <3>2. CASE ~(i <= offset)
      <4>1. i - offset \in 1 .. Len(r.units) /\ offset + (i - offset) = i
        BY <1>2, <1>4, <2>4, <3>2
      <4>2. data'[offset + (i - offset)] = r.units[i - offset]
        BY <1>4, <4>1
      <4>3. r.units[i - offset] = <<call.obj, v, offset + (i - offset)>>
        BY <2>1, <4>1 DEF Run
      <4> QED
        BY <4>1, <4>2, <4>3
    <3> QED
      BY <3>1, <3>2
  <2>5. \A i \in 1 .. Len(data') : data'[i] = Units(call.obj, v, offset')[i]
    BY <1>5, <2>3, <2>4
  <2>6. data' = Units(call.obj, v, offset')
    BY <1>4, <1>5, <2>3, <2>5, SeqEqual
  <2> QED
    BY <1>5, <2>6
<1> QED
  BY <1>3, <1>6

LEMMA ReadEndsKept ==
  ASSUME ReadEnds, UNCHANGED <<dict, call, data, offset, total, clean>>, seen \subseteq seen',
         pc # "wait"
  PROVE  ReadEnds'
<1> SUFFICES ASSUME call.op = "read", Moves
             PROVE  /\ clean => \E v \in seen' : data = Units(call.obj, v, ReadSize(call.obj))
                    /\ dict[call.obj].dev <= Expedited =>
                         \E v \in Versions : data = Units(call.obj, v, CallSize(call.obj))
  BY DEF ReadEnds, Moves, Units, ReadSize, CallSize
<1> QED
  BY DEF ReadEnds

LEMMA ReadEndsStep ==
  ASSUME TypeOK, Sent, Asked, AllGood, ReadEnds, Next
  PROVE  ReadEnds'
<1>1. CASE Begin
  BY <1>1 DEF Begin, BeginRead, BeginWrite, ReadEnds
<1>2. CASE ProcessFrame
  <2> DEFINE r == Head(frame)
  <2>1. /\ Good(r) /\ r \in Replies /\ UNCHANGED <<dict, call, clean, seen>>
        /\ Quits \/ WriteDone(r) \/ WriteOn \/ ReadDone(r) \/ ReadOn(r) \/ SegmentRead(r)
    BY <1>2, FrameIsGood, FrameCases DEF FrameKeeps, history
  <2> HIDE DEF r
  <2>2. CASE ReadDone(r)
    BY <2>1, <2>2, ReadDoneRight
  <2>3. CASE SegmentRead(r)
    BY <2>1, <2>3, SegmentsRight
  <2>4. CASE WriteOn \/ ReadOn(r)
    BY <2>4 DEF WriteOn, ReadOn, ReadEnds
  <2>5. CASE Quits
    BY <2>5 DEF Quits, ReadEnds, Moves
  <2>6. CASE WriteDone(r)
    <3>1. call'.op # "read"
      BY <2>1, <2>6 DEF WriteDone, Writing
    <3> QED
      BY <3>1 DEF ReadEnds
  <2> QED
    BY <2>1, <2>2, <2>3, <2>4, <2>5, <2>6
<1>3. CASE Timeout
  <2>1. pc = "wait" /\ UNCHANGED <<call, offset, total>>
    BY <1>3 DEF Timeout
  <2>2. call.op = "read" => ~Moves
    BY <2>1 DEF Asked, Reading, Moves
  <2> QED
    BY <2>1, <2>2 DEF ReadEnds, Moves
<1>4. CASE Return
  <2>1. UNCHANGED <<dict, call, data, offset, total, clean>> /\ seen' = seen /\ pc # "wait"
    BY <1>4 DEF Return, client, history
  <2> QED
    BY <2>1, ReadEndsKept
<1>5. CASE HandleFrame \/ Device
  <2>1. UNCHANGED <<dict, call, data, offset, total, clean>> /\ pc' = pc
    BY <1>5, OthersKeep DEF ClientKeeps
  <2>2. seen \subseteq seen'
    BY <1>5, SeenGrows
  <2>3. CASE pc = "wait"
    BY <2>1, <2>3 DEF ReadEnds
  <2>4. CASE pc # "wait"
    BY <2>1, <2>2, <2>4, ReadEndsKept
  <2> QED
    BY <2>3, <2>4
<1> QED
  BY <1>1, <1>2, <1>3, <1>4, <1>5 DEF Next, Client

LEMMA WriteEndsStep ==
  ASSUME TypeOK, Sent, Asked, AllGood, WriteEnds, Next
  PROVE  WriteEnds'
<1>1. CASE Begin
  BY <1>1 DEF Begin, BeginRead, BeginWrite, WriteEnds
<1>2. CASE ProcessFrame
  <2> DEFINE r == Head(frame)
  <2>1. /\ Good(r) /\ UNCHANGED <<call, clean, seen>>
        /\ Quits \/ WriteDone(r) \/ WriteOn \/ ReadDone(r) \/ ReadOn(r) \/ SegmentRead(r)
    BY <1>2, FrameIsGood, FrameCases DEF FrameKeeps, history
  <2> HIDE DEF r
  <2>2. CASE WriteDone(r)
    <3>1. clean => call.version \in seen
      BY <2>1, <2>2 DEF WriteDone, Good, Confirms
    <3> QED
      BY <2>1, <3>1 DEF WriteEnds
  <2>3. CASE WriteOn
    BY <2>3 DEF WriteOn, WriteEnds
  <2>4. CASE Quits
    BY <2>4 DEF Quits, WriteEnds, Moves
  <2>5. CASE ReadDone(r) \/ ReadOn(r) \/ SegmentRead(r)
    <3>1. call'.op # "write"
      BY <2>1, <2>5 DEF ReadDone, ReadOn, SegmentRead, IsFirst, Reading
    <3> QED
      BY <3>1 DEF WriteEnds
  <2> QED
    BY <2>1, <2>2, <2>3, <2>4, <2>5
<1>3. CASE Timeout
  BY <1>3 DEF Timeout, WriteEnds
<1>4. CASE Return
  BY <1>4 DEF Return, client, history, WriteEnds, Moves
<1>5. CASE HandleFrame \/ Device
  <2>1. UNCHANGED <<pc, call, offset, total, clean, gaveUp>>
    BY <1>5, OthersKeep DEF ClientKeeps
  <2>2. seen \subseteq seen'
    BY <1>5, SeenGrows
  <2> QED
    BY <2>1, <2>2 DEF WriteEnds, Moves
<1> QED
  BY <1>1, <1>2, <1>3, <1>4, <1>5 DEF Next, Client

LEMMA ReturnedStep ==
  ASSUME TypeOK, Sent, Asked, Returned, Next
  PROVE  Returned'
<1>1. CASE Begin
  BY <1>1 DEF Begin, BeginRead, BeginWrite, Returned
<1>2. CASE ProcessFrame
  <2>1. pc' \in {"wait", "end"}
    BY <1>2, FrameTypes
  <2> QED
    BY <2>1 DEF Returned
<1>3. CASE Timeout
  BY <1>3 DEF Timeout, Returned
<1>4. CASE Return
  BY <1>4 DEF Return, client, Returned, Moves
<1>5. CASE HandleFrame \/ Device
  <2>1. UNCHANGED <<pc, offset, total, outcome>>
    BY <1>5, OthersKeep DEF ClientKeeps
  <2> QED
    BY <2>1 DEF Returned, Moves
<1> QED
  BY <1>1, <1>2, <1>3, <1>4, <1>5 DEF Next, Client

LEMMA IInvHolds == Spec => []IInv
<1>1. Init => IInv
  <2> SUFFICES ASSUME Init PROVE IInv
    OBVIOUS
  <2>1. TypeOK
    BY InitTypes
  <2>2. /\ toDev = << >> /\ toClient = << >> /\ frame = << >> /\ pc = "idle" /\ srv = Idle
        /\ call = NoCall /\ outcome = "none" /\ val \in [Objects -> Versions]
    BY DEF Init
  <2>3. Len(toDev) = 0 /\ Len(toClient) = 0 /\ Len(frame) = 0
    BY <2>2
  <2>4. Stream
    BY <2>2, <2>3 DEF Stream, After, Idle
  <2>5. Sent /\ Asked /\ OneFrame /\ Asks /\ SeenNow
    BY <2>2 DEF Sent, Asked, OneFrame, Asks, SeenNow, Writing, Reading
  <2>6. AllGood
    BY <2>3 DEF AllGood
  <2>7. ReadEnds /\ WriteEnds /\ Returned /\ WrittenIsWhole
    BY <2>2 DEF ReadEnds, WriteEnds, Returned, WrittenIsWhole, NoCall
  <2> QED
    BY <2>1, <2>4, <2>5, <2>6, <2>7 DEF IInv
<1>2. IInv /\ [Next]_vars => IInv'
  <2> SUFFICES ASSUME IInv, [Next]_vars PROVE IInv'
    OBVIOUS
  <2> USE DEF IInv
  <2>1. CASE Next
    BY <2>1, TypeStep, StreamStep, SentStep, AskedStep, OneFrameStep, AsksStep, AllGoodStep,
       SeenNowStep, WholeStep, ReadEndsStep, WriteEndsStep, ReturnedStep
  <2>2. CASE UNCHANGED vars
    <3>1. /\ ClientKeeps /\ UNCHANGED <<clean, gaveUp, outcome, toDev, toClient, frame, srv>>
          /\ UNCHANGED <<seen, val>>
      BY <2>2 DEF vars, client, reader, history, device, ClientKeeps
    <3>2. TypeOK'
      BY <2>2, StutterTypes
    <3>3. Stream'
      BY <3>1, StreamKept DEF ClientKeeps
    <3>4. Sent' /\ Asked'
      BY <3>1 DEF Sent, Asked, Writing, Reading, SegmentOf, CallSize, ReadSize, ClientKeeps
    <3>5. OneFrame' /\ SeenNow' /\ WrittenIsWhole' /\ WriteEnds' /\ Returned'
      BY <3>1 DEF OneFrame, SeenNow, WrittenIsWhole, WriteEnds, Returned, Moves, ClientKeeps
    <3>6. Asks'
      BY <3>1 DEF Asks, Moved, Remains, Reading, ClientKeeps
    <3>7. AllGood'
      <4>1. \A r : Good(r) => Good(r)'
        BY <3>1, GoodKept
      <4> QED
        BY <3>1, <4>1 DEF AllGood
    <3>8. ReadEnds'
      BY <3>1 DEF ReadEnds, Moves, Units, CallSize, ReadSize, ClientKeeps
    <3> QED
      BY <3>2, <3>3, <3>4, <3>5, <3>6, <3>7, <3>8
  <2> QED
    BY <2>1, <2>2
<1> QED
  BY <1>1, <1>2, PTL DEF Spec

\* The variables of the client, the device and the bus keep their types.
THEOREM SdoTypeOK == Spec => []TypeOK
<1>1. IInv => TypeOK
  BY DEF IInv
<1> QED
  BY <1>1, IInvHolds, PTL

\* Whatever transfers are cut off, refused or mixed up, the device takes over nothing
\* but whole values.
THEOREM WrittenIsWholeHolds == Spec => []WrittenIsWhole
<1>1. IInv => WrittenIsWhole
  BY DEF IInv
<1> QED
  BY <1>1, IInvHolds, PTL

\* A write that found nothing left of an earlier call and returns in time has arrived.
THEOREM WriteHasArrivedHolds == Spec => []WriteHasArrived
<1>1. IInv => WriteHasArrived
  BY DEF IInv, WriteEnds, Returned, WriteHasArrived, Succeeded
<1> QED
  BY <1>1, IInvHolds, PTL

\* What a read returns is of one value the object had during the call, if it found
\* nothing left of an earlier one: as many of its units as the indicated size says in
\* the two bytes the client reads of it, which is the whole value below Byte units.
\* And if the device sends the object in one frame, it is a value of that object.
THEOREM ReadIsRightHolds == Spec => []ReadIsRight
<1>1. IInv => ReadIsRight
  <2> SUFFICES ASSUME IInv, Succeeded("read") PROVE ReadIsRight
    BY DEF ReadIsRight
  <2>1. call.op = "read" /\ pc # "wait" /\ Moves /\ TypeOK /\ ReadEnds
    BY DEF IInv, Returned, Succeeded
  <2>2. call.obj \in Objects
    BY <2>1, CallFields DEF TypeOK
  <2>3. dict[call.obj].dev < Byte => ReadSize(call.obj) = CallSize(call.obj)
    BY <2>1, <2>2, ReadSizes
  <2> QED
    BY <2>1, <2>3 DEF ReadEnds, ReadIsRight
<1> QED
  BY <1>1, IInvHolds, PTL

===============================================================================
