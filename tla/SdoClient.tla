------------------------------- MODULE SdoClient ------------------------------
(***************************************************************************)
(* The SDO client of a node (class SDOClient) with its BufferedReader: it  *)
(* reads and writes the objects of a device, in one frame or in segments.  *)
(*                                                                         *)
(* One transfer runs at a time, in the thread that asked for it and under  *)
(* the client's mutex; pc says where it is.  The strand of the CAN driver  *)
(* puts what the device answers into the reader, which keeps one frame and *)
(* takes frames only during a transfer.  Neither a transfer that was given *)
(* up nor the next one empties the reader, and frames carry no number of   *)
(* their transfer: an answer that comes late meets the next transfer.      *)
(*                                                                         *)
(* Data is counted in units.  An initiate frame holds one (the code: four  *)
(* bytes), a segment two (seven bytes), and a byte of the size that an     *)
(* initiate frame indicates has Byte values (256).  Version v of object o  *)
(* consists of the units <<o, v, 1>>, <<o, v, 2>>, ...; version 0 is what  *)
(* a buffer held before.                                                   *)
(***************************************************************************)
EXTENDS Naturals, Sequences

CONSTANTS
  Objects,    \* the objects of the device that are accessed
  Dicts,      \* the object dictionaries to consider: for every object the units the
              \* device stores and those the client's type has, 0 for a string
  Versions,   \* the values an object can have
  Byte,       \* the values of one byte of an indicated size
  MaxRequests, MaxReplies   \* bounds: frames on their way to the device and from it

ASSUME SdoAssumption ==
  /\ Dicts \subseteq [Objects -> [dev : Nat \ {0}, type : Nat]]
  /\ Versions # {} /\ 0 \notin Versions
  /\ Byte \in Nat \ {0}
  /\ {MaxRequests, MaxReplies} \subseteq Nat \ {0}

VARIABLES
  dict,      \* the object dictionary
  pc,        \* "idle", "wait" for a frame, "end" of the loop
  call,      \* the transfer: read or write, its object and the value to write
  last,      \* last_msg
  data,      \* buffer
  offset,
  total,
  done,
  enabled,   \* the reader takes frames
  frame,     \* the frames in the reader, one at most
  outcome,   \* "none" yet, "ok" or "throws"
  toDev,     \* frames on their way to the device
  toClient,  \* and from it
  val,       \* [Objects -> the version the device has], 0 for none of them
  srv,       \* the transfer the device's server is in
  seen,      \* history: the versions of the object the device had during this call
  gaveUp,    \* history: this call has timed out
  clean      \* history: no frame of an earlier call was left when this one began

client  == <<call, last, data, offset, total, done>>
reader  == <<enabled, frame>>
history == <<seen, gaveUp, clean>>
device  == <<val, srv>>
vars == <<dict, pc, client, outcome, reader, history, device, toDev, toClient>>

Expedited == 1     \* the units an initiate frame holds
Segment   == 2     \* and a segment

Units(o, v, n) == [i \in 1 .. n |-> <<o, v, i>>]

\* The size of what a call moves; a string has the size it has in the device.
CallSize(o) == IF dict[o].type = 0 THEN dict[o].dev ELSE dict[o].type

\* The sizes of segmented data go into four bytes, of which the client uses the
\* first and the last: as the low and the high byte of the size it reads, and of
\* the size it writes.
DataSize(w)  == (w % Byte) + ((w \div (Byte * Byte * Byte)) % Byte) * Byte
SizeField(n) == (n % Byte) + ((n \div Byte) % Byte) * (Byte * Byte * Byte)

\* The size of what a read moves: that of a string in segments is what the client
\* makes of the indicated one.
ReadSize(o) ==
  IF dict[o].type = 0 /\ dict[o].dev > Expedited THEN DataSize(dict[o].dev) ELSE CallSize(o)

\* The units m to n, as far as there are so many.
Part(s, m, n) == SubSeq(s, m, IF n < Len(s) THEN n ELSE Len(s))

NoCall == [op |-> "none"]
Idle == [cmd |-> "idle"]
Abort == [cmd |-> "abort"]

Init ==
  /\ dict \in Dicts
  /\ pc = "idle" /\ call = NoCall /\ last = Abort /\ outcome = "none"
  /\ data = << >> /\ offset = 0 /\ total = 0 /\ done = FALSE
  /\ enabled = FALSE /\ frame = << >>
  /\ toDev = << >> /\ toClient = << >>
  /\ val \in [Objects -> Versions] /\ srv = Idle
  /\ seen = {} /\ gaveUp = FALSE /\ clean = TRUE

NothingLeft == toDev = << >> /\ toClient = << >> /\ frame = << >>

Send(msg) == Len(toDev) < MaxRequests /\ toDev' = Append(toDev, msg) /\ last' = msg

-------------------------------------------------------------------------------
(* The client                                                              *)

UploadRequest(o) == [cmd |-> "upload", obj |-> o]

DownloadRequest(o, value) ==
  IF Len(value) <= Expedited
  THEN [cmd |-> "download", obj |-> o, size |-> Len(value), units |-> value]
  ELSE [cmd |-> "download", obj |-> o, size |-> SizeField(Len(value)), units |-> << >>]

UploadSegment(t) == [cmd |-> "upseg", toggle |-> t]

\* MUTANT of DownloadSegment: the data is taken from the start of the buffer.
DownloadSegmentFirst(t, value, n) ==
  [cmd |-> "dnseg", toggle |-> t, last |-> Len(value) - n <= Segment,
   units |-> Part(value, 1, IF Len(value) - n <= Segment THEN Len(value) - n ELSE Segment)]

\* The next segment of value from position n on.
DownloadSegment(t, value, n) ==
  [cmd |-> "dnseg", toggle |-> t, last |-> Len(value) - n <= Segment,
   units |-> Part(value, n + 1, n + Segment)]

BeginRead(o) ==
  /\ pc = "idle" /\ pc' = "wait"
  /\ call' = [op |-> "read", obj |-> o]
  /\ data' = Units(o, 0, dict[o].type) /\ total' = dict[o].type
  /\ offset' = 0 /\ done' = FALSE /\ outcome' = "none"
  /\ enabled' = TRUE
  /\ Send(UploadRequest(o))
  /\ seen' = {val[o]} /\ gaveUp' = FALSE /\ clean' = NothingLeft
  /\ UNCHANGED <<dict, frame, device, toClient>>

\* What fits in the first frame counts as moved when that frame is sent.
BeginWrite(o, v) ==
  /\ pc = "idle" /\ pc' = "wait"
  /\ call' = [op |-> "write", obj |-> o, version |-> v]
  /\ data' = Units(o, v, CallSize(o)) /\ total' = CallSize(o)
  /\ offset' = (IF CallSize(o) <= Expedited THEN CallSize(o) ELSE 0)
  /\ done' = FALSE /\ outcome' = "none"
  /\ enabled' = TRUE
  /\ Send(DownloadRequest(o, Units(o, v, CallSize(o))))
  /\ seen' = {val[o]} /\ gaveUp' = FALSE /\ clean' = NothingLeft
  /\ UNCHANGED <<dict, frame, device, toClient>>

\* The transfer ends here; an abort is sent unless the device sent one.
GiveUp(abort) ==
  /\ offset' = 0 /\ pc' = "end"
  /\ IF abort THEN Send(Abort) ELSE UNCHANGED <<last, toDev>>
  /\ UNCHANGED <<data, total, done>>

Finished == pc' = "end" /\ done' = TRUE /\ UNCHANGED <<last, toDev>>

GoOn(msg) == pc' = "wait" /\ Send(msg) /\ UNCHANGED done

\* MUTANT of SameObject: the object of the response is not compared.
SameObjectAny(msg) == "obj" \in DOMAIN last

SameObject(msg) == "obj" \in DOMAIN last /\ last.obj = msg.obj

DownloadInitiated(msg) ==
  IF last.cmd = "download" /\ SameObject(msg)
  THEN IF offset < total
       THEN /\ GoOn(DownloadSegment(FALSE, data, offset))
            /\ offset' = offset + Len(DownloadSegment(FALSE, data, offset).units)
            /\ UNCHANGED <<data, total>>
       ELSE Finished /\ UNCHANGED <<data, offset, total>>
  ELSE GiveUp(TRUE)

DownloadSegmented(msg) ==
  IF last.cmd = "dnseg" /\ last.toggle = msg.toggle
  THEN IF offset < total
       THEN /\ GoOn(DownloadSegment(~msg.toggle, data, offset))
            /\ offset' = offset + Len(DownloadSegment(~msg.toggle, data, offset).units)
            /\ UNCHANGED <<data, total>>
       ELSE Finished /\ UNCHANGED <<data, offset, total>>
  ELSE GiveUp(TRUE)

\* The size the device indicates, 0 if it does not, as the client reads it.
Indicated(msg) == IF msg.units = << >> THEN DataSize(msg.size) ELSE msg.size

\* Against the client's own.
SizeFits(msg) ==
  /\ Indicated(msg) = 0 \/ total = 0 \/ Indicated(msg) >= total
  /\ msg.units = << >> \/ (msg.size <= Expedited /\ total <= Expedited)

\* A string gets the size the device indicates; data in this frame fills the
\* buffer as it is.
UploadInitiated(msg) ==
  IF last.cmd = "upload" /\ SameObject(msg) /\ SizeFits(msg)
  THEN LET n == IF total = 0 THEN Indicated(msg) ELSE total IN
       /\ total' = n
       /\ IF msg.units # << >>
          THEN Finished /\ data' = SubSeq(msg.units, 1, n) /\ offset' = n
          ELSE /\ GoOn(UploadSegment(FALSE))
               /\ data' = IF total = 0 THEN Units(call.obj, 0, n) ELSE data
               /\ UNCHANGED offset
  ELSE GiveUp(TRUE)

\* A string of unknown size grows; another value must not.
UploadSegmented(msg) ==
  IF last.cmd = "upseg" /\ last.toggle = msg.toggle
       /\ (total = 0 \/ offset + Len(msg.units) <= Len(data))
  THEN /\ data' = SubSeq(data, 1, offset) \o msg.units
                    \o SubSeq(data, offset + Len(msg.units) + 1, Len(data))
       /\ offset' = offset + Len(msg.units)
       /\ UNCHANGED total
       /\ IF msg.last \/ offset' = total THEN Finished ELSE GoOn(UploadSegment(~msg.toggle))
  ELSE GiveUp(TRUE)

\* MUTANT of Aborted: the device's abort leaves the offset alone.
AbortedKeepsOffset(msg) ==
  pc' = "end" /\ UNCHANGED <<last, toDev, data, offset, total, done>>

Aborted(msg) == GiveUp(FALSE)

ProcessFrame ==
  /\ pc = "wait" /\ frame # << >>
  /\ LET msg == Head(frame) IN
     CASE msg.cmd = "download" -> DownloadInitiated(msg)
       [] msg.cmd = "dnseg"    -> DownloadSegmented(msg)
       [] msg.cmd = "upload"   -> UploadInitiated(msg)
       [] msg.cmd = "upseg"    -> UploadSegmented(msg)
       [] msg.cmd = "abort"    -> Aborted(msg)
  /\ frame' = << >>
  /\ UNCHANGED <<dict, call, outcome, enabled, history, device, toClient>>

\* MUTANT of Timeout: the reader waits without a limit.
TimeoutNever == FALSE /\ UNCHANGED vars

\* One second has passed.  The abort does not change the offset.
Timeout ==
  /\ pc = "wait" /\ frame = << >>
  /\ pc' = "end"
  /\ Send(Abort)
  /\ gaveUp' = TRUE
  /\ UNCHANGED <<dict, call, data, offset, total, done, outcome, reader, seen, clean, device, toClient>>

\* A transfer counts as done if it moved all of something.
Return ==
  /\ pc = "end" /\ pc' = "idle"
  /\ outcome' = IF offset = 0 \/ offset # total THEN "throws" ELSE "ok"
  /\ enabled' = FALSE
  /\ UNCHANGED <<dict, client, frame, history, device, toDev, toClient>>

Client == ProcessFrame \/ Timeout \/ Return

\* The strand hands a frame to the reader, which drops an older one.
HandleFrame ==
  /\ toClient # << >>
  /\ frame' = IF enabled THEN <<Head(toClient)>> ELSE frame
  /\ toClient' = Tail(toClient)
  /\ UNCHANGED <<dict, pc, client, outcome, enabled, history, device, toDev>>

-------------------------------------------------------------------------------
(* The device and its SDO server                                           *)

Reply(msg) == Len(toClient) < MaxReplies /\ toClient' = Append(toClient, msg)

Take == toDev # << >> /\ toDev' = Tail(toDev)

\* A value that is complete and has the right size becomes the object's.
Adopt(o, units) ==
  LET v == {w \in Versions : units = Units(o, w, dict[o].dev)} IN
  /\ Len(units) = dict[o].dev
  /\ val' = [val EXCEPT ![o] = IF v = {} THEN 0 ELSE CHOOSE w \in v : TRUE]
  /\ seen' = IF pc # "idle" /\ call.obj = o THEN seen \cup {val'[o]} ELSE seen

\* An upload reads the object when it begins.  The size may be left out.
SrvUpload ==
  /\ Take /\ Head(toDev).cmd = "upload"
  /\ LET o == Head(toDev).obj
         u == Units(o, val[o], dict[o].dev)
     IN \E size \in {0, dict[o].dev} :
        IF dict[o].dev <= Expedited
        THEN /\ Reply([cmd |-> "upload", obj |-> o, size |-> size, units |-> u])
             /\ srv' = Idle
        ELSE /\ Reply([cmd |-> "upload", obj |-> o, size |-> size, units |-> << >>])
             /\ srv' = [cmd |-> "upseg", units |-> u, toggle |-> FALSE]
  /\ UNCHANGED <<dict, pc, client, outcome, reader, history, val>>

SrvUploadSegment ==
  /\ Take /\ Head(toDev).cmd = "upseg"
  /\ srv.cmd = "upseg" /\ srv.toggle = Head(toDev).toggle
  /\ LET end == Len(srv.units) <= Segment IN
     /\ Reply([cmd |-> "upseg", toggle |-> srv.toggle, last |-> end,
               units |-> Part(srv.units, 1, Segment)])
     /\ srv' = IF end THEN Idle
               ELSE [srv EXCEPT !.toggle = ~@, !.units = SubSeq(@, Segment + 1, Len(@))]
  /\ UNCHANGED <<dict, pc, client, outcome, reader, history, val>>

SrvDownload ==
  /\ Take /\ Head(toDev).cmd = "download"
  /\ LET m == Head(toDev) IN
     /\ Reply([cmd |-> "download", obj |-> m.obj])
     /\ IF m.units # << >>
        THEN Adopt(m.obj, m.units) /\ srv' = Idle
        ELSE /\ srv' = [cmd |-> "dnseg", obj |-> m.obj, units |-> << >>, toggle |-> FALSE]
             /\ UNCHANGED <<val, seen>>
  /\ UNCHANGED <<dict, pc, client, outcome, reader, gaveUp, clean>>

SrvDownloadSegment ==
  /\ Take /\ Head(toDev).cmd = "dnseg"
  /\ srv.cmd = "dnseg" /\ srv.toggle = Head(toDev).toggle
  /\ LET m == Head(toDev)
         u == srv.units \o m.units
     IN /\ Reply([cmd |-> "dnseg", toggle |-> m.toggle])
        /\ IF m.last
           THEN Adopt(srv.obj, u) /\ srv' = Idle
           ELSE /\ srv' = [srv EXCEPT !.toggle = ~@, !.units = u]
                /\ UNCHANGED <<val, seen>>
  /\ UNCHANGED <<dict, pc, client, outcome, reader, gaveUp, clean>>

\* The server may refuse any request; one out of turn it must refuse.
SrvRefuse ==
  /\ Take /\ Head(toDev).cmd # "abort"
  /\ Reply(Abort) /\ srv' = Idle
  /\ UNCHANGED <<dict, pc, client, outcome, reader, history, val>>

\* The client's abort; or a request finds a device that serves none now.
SrvDrop ==
  /\ Take /\ srv' = Idle
  /\ UNCHANGED <<dict, pc, client, outcome, reader, history, val, toClient>>

\* The object changes by itself.
DevChange(o, v) ==
  /\ val[o] # v /\ val' = [val EXCEPT ![o] = v]
  /\ seen' = IF pc # "idle" /\ call.obj = o THEN seen \cup {v} ELSE seen
  /\ UNCHANGED <<dict, pc, client, outcome, reader, gaveUp, clean, srv, toDev, toClient>>

Server ==
  \/ SrvUpload \/ SrvUploadSegment \/ SrvDownload \/ SrvDownloadSegment
  \/ SrvRefuse \/ SrvDrop

Device ==
  \/ Server
  \/ \E o \in Objects, v \in Versions : DevChange(o, v)

Begin == \E o \in Objects : BeginRead(o) \/ \E v \in Versions : BeginWrite(o, v)

Next == Begin \/ Client \/ HandleFrame \/ Device

Spec == Init /\ [][Next]_vars

\* The calling thread and the strand are scheduled; time passes for a thread that
\* waits (Timeout is a step of Client); the bus takes every frame.  The device
\* need not answer.
FairSpec == Spec /\ WF_vars(Client) /\ WF_vars(Server) /\ WF_vars(HandleFrame)

-------------------------------------------------------------------------------
(* Properties                                                              *)

Unit == Objects \X (Versions \cup {0}) \X Nat

Requests ==
  [cmd : {"upload"}, obj : Objects]
    \cup [cmd : {"download"}, obj : Objects, size : Nat, units : Seq(Unit)]
    \cup [cmd : {"upseg"}, toggle : BOOLEAN]
    \cup [cmd : {"dnseg"}, toggle : BOOLEAN, last : BOOLEAN, units : Seq(Unit)]
    \cup {Abort}

Replies ==
  [cmd : {"upload"}, obj : Objects, size : Nat, units : Seq(Unit)]
    \cup [cmd : {"download"}, obj : Objects]
    \cup [cmd : {"upseg"}, toggle : BOOLEAN, last : BOOLEAN, units : Seq(Unit)]
    \cup [cmd : {"dnseg"}, toggle : BOOLEAN]
    \cup {Abort}

Calls ==
  [op : {"read"}, obj : Objects]
    \cup [op : {"write"}, obj : Objects, version : Versions]
    \cup {NoCall}

Transfers ==
  [cmd : {"upseg"}, units : Seq(Unit), toggle : BOOLEAN]
    \cup [cmd : {"dnseg"}, obj : Objects, units : Seq(Unit), toggle : BOOLEAN]
    \cup {Idle}

TypeOK ==
  /\ dict \in [Objects -> [dev : Nat \ {0}, type : Nat]]
  /\ pc \in {"idle", "wait", "end"} /\ outcome \in {"none", "ok", "throws"}
  /\ call \in Calls /\ (pc # "idle" => call # NoCall)
  /\ last \in Requests /\ data \in Seq(Unit) /\ offset \in Nat /\ total \in Nat
  /\ {done, enabled, gaveUp, clean} \subseteq BOOLEAN
  /\ enabled <=> pc # "idle"
  /\ frame \in Seq(Replies) /\ Len(frame) <= 1
  /\ toDev \in Seq(Requests) /\ Len(toDev) <= MaxRequests
  /\ toClient \in Seq(Replies) /\ Len(toClient) <= MaxReplies
  /\ val \in [Objects -> Versions \cup {0}] /\ srv \in Transfers
  /\ seen \subseteq Versions \cup {0}

Succeeded(op) == pc = "idle" /\ call.op = op /\ outcome = "ok"

\* A read that returns moved a value the object had during the read, not torn and
\* from its first unit on, if it met no answer to an earlier transfer: the whole
\* value, unless it is a string of Byte units or more, of which the client takes
\* as many as it reads in the indicated size.  And if the device sends the object
\* in the first frame, a whole value of that object whatever it met.
ReadIsRight ==
  Succeeded("read") =>
    /\ clean => \E v \in seen :
         /\ data = Units(call.obj, v, ReadSize(call.obj))
         /\ dict[call.obj].dev < Byte => data = Units(call.obj, v, CallSize(call.obj))
    /\ dict[call.obj].dev <= Expedited =>
         \E v \in Versions : data = Units(call.obj, v, CallSize(call.obj))

\* Whatever transfers are given up, refused or mixed up: the device never takes
\* over a value that is put together wrongly.
WrittenIsWhole == \A o \in Objects : val[o] \in Versions

\* A write that returns without having timed out has arrived, if it met no answer to
\* an earlier transfer.
WriteHasArrived == (Succeeded("write") /\ ~gaveUp /\ clean) => call.version \in seen

\* Every call returns, in spite of a device that answers late or not at all.
CallsReturn == pc # "idle" ~> pc = "idle"

\* A transfer that timed out throws.
TimeoutThrows == pc = "idle" /\ gaveUp => outcome = "throws"
===============================================================================
