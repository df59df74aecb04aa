---------------------------- MODULE PdoMapperProofs ----------------------------
(***************************************************************************)
(* For any mapping, any values and any number of initialisations: what is  *)
(* read is what was received last, what is sent is current, and what       *)
(* nobody set is sent as the device has it.                                *)
(*                                                                         *)
(* The first is about the received objects (Listens), the second about the *)
(* pass of TPDO::sync over its buffers (Current), the third about what the *)
(* last initialisation left in cache and buffer (Kept).  All of them lean  *)
(* on Alone: while init maps, the run thread rests.                        *)
(***************************************************************************)
EXTENDS PdoMapper, SequenceTheorems, TLAPS

NR == Len(setup.rx)
Mapping == init \in {"attach", "force", "delegate", "clean"}

\* The run thread is joined before init and started after it.
Alone == init # "idle" => run = "read" /\ ~up

\* Where init is in which object, which has a buffer from MapAttach on.
AtObject ==
  /\ init = "delegate" => k <= NR
  /\ init = "listen" => k = IF setup.tx = << >> THEN 1 ELSE NR + 1
  /\ init \in {"force", "delegate", "clean"} => buf[All[k]].alive

\* The i-th received object is mapped; the j-th one sent is mapped and was read.
MappedRX(i) ==
  listening \/ init = "listen" \/ (Mapping /\ i < k) \/ (init = "clean" /\ i = k)
MappedTX(j) ==
  up \/ init \in {"all", "start"} \/ (Mapping /\ NR + j < k) \/ (init = "clean" /\ NR + j = k)

\* Frames are handled while all objects of the PDO are connected to their buffers.
Listens ==
  /\ strand # 0 => listening
  /\ listening => init # "listen" /\ ~(Mapping /\ k <= NR)
  /\ ~listening => \A o \in RX : received[o] = None
  /\ \A i \in DOMAIN setup.rx :
       MappedRX(i) => buf[setup.rx[i]].alive /\ store[setup.rx[i]].rd = "pdo"

\* The current TPDO::sync has read the buffer of o.
WasRead(o) == \E j \in 1 .. (next - 1) : setup.tx[j] = o

Current ==
  /\ run # "sync" => next = 1
  /\ \A o \in TX : WasRead(o) => buf[o].empty \/ o \in late \/ frame[o] = buf[o].value

\* The objects the device has a say in.
Theirs == {o \in TX : o \in untouched \cap setup.readable /\ setup.def[o] = None}

Kept ==
  /\ \A o \in TX : store[o].rd = "sdo"
  /\ \A o \in Theirs : /\ store[o].valid => store[o].value = dev[o]
                       /\ up /\ WasRead(o) => frame[o] = dev[o]
  /\ \A j \in DOMAIN setup.tx :
       setup.tx[j] \in Theirs /\ MappedTX(j) =>
         ~buf[setup.tx[j]].empty /\ buf[setup.tx[j]].value = dev[setup.tx[j]]

IInv == TypeOK /\ Alone /\ AtObject /\ Listens /\ ReceivedIsRead /\ Current /\ Kept

-------------------------------------------------------------------------------
(* The mapping                                                             *)

\* The objects in the order init maps them: first those received, then those sent.
LEMMA Shape ==
  ASSUME setup \in Setups
  PROVE  /\ NR \in Nat /\ Len(setup.tx) \in Nat
         /\ DOMAIN setup.rx = 1 .. NR /\ DOMAIN setup.tx = 1 .. Len(setup.tx)
         /\ (setup.rx = << >>) = (NR = 0) /\ (setup.tx = << >>) = (Len(setup.tx) = 0)
         /\ Len(All) = NR + Len(setup.tx) /\ Len(All) >= 1
         /\ \A i \in 1 .. NR : All[i] = setup.rx[i]
         /\ \A j \in 1 .. Len(setup.tx) : All[NR + j] = setup.tx[j]
         /\ \A i, j \in 1 .. Len(All) : All[i] = All[j] => i = j
<1> DEFINE S == RX \cup TX
<1> USE PdoMapperAssumption
<1>1. setup.rx \in Seq(S) /\ setup.tx \in Seq(S)
  BY SeqMonotonic DEF RX, TX
<1>2. /\ All \in Seq(S) /\ Len(All) = Len(setup.rx) + Len(setup.tx)
      /\ \A i \in 1 .. Len(setup.rx) + Len(setup.tx) :
           All[i] = IF i <= Len(setup.rx) THEN setup.rx[i] ELSE setup.tx[i - Len(setup.rx)]
  <2> DEFINE r == setup.rx
             s == setup.tx
  <2>1. r \in Seq(S) /\ s \in Seq(S) /\ All = r \o s
    BY <1>1 DEF All
  <2> HIDE DEF S, r, s
  <2>2. /\ r \o s \in Seq(S) /\ Len(r \o s) = Len(r) + Len(s)
        /\ \A i \in 1 .. Len(r) + Len(s) :
             (r \o s)[i] = IF i <= Len(r) THEN r[i] ELSE s[i - Len(r)]
    BY <2>1, ConcatProperties
  <2>3. /\ All \in Seq(S) /\ Len(All) = Len(r) + Len(s)
        /\ \A i \in 1 .. Len(r) + Len(s) :
             All[i] = IF i <= Len(r) THEN r[i] ELSE s[i - Len(r)]
    BY <2>1, <2>2
  <2> QED
    BY <2>3 DEF r, s
<1>3. Len(setup.rx) \in Nat /\ Len(setup.tx) \in Nat
      /\ DOMAIN setup.rx = 1 .. Len(setup.rx) /\ DOMAIN setup.tx = 1 .. Len(setup.tx)
      /\ DOMAIN All = 1 .. Len(All)
  BY <1>1, <1>2
<1>4. (setup.rx = << >>) = (Len(setup.rx) = 0) /\ (setup.tx = << >>) = (Len(setup.tx) = 0)
  BY <1>1
<1>5. Len(All) >= 1
  <2>1. All # << >>
    BY DEF All
  <2>2. Len(All) \in Nat \ {0}
    <3> HIDE DEF S
    <3> QED
      BY <2>1, <1>2, EmptySeq
  <2> QED
    BY <2>2
<1>6. \A i, j \in 1 .. Len(All) : All[i] = All[j] => i = j
  <2>1. IsInjective(All)
    BY DEF All
  <2> QED
    BY <2>1, <1>3 DEF IsInjective
<1> HIDE PdoMapperAssumption DEF S
<1>7. NR = Len(setup.rx) /\ NR \in Nat /\ Len(setup.tx) \in Nat
  BY <1>3 DEF NR
<1>8. \A i \in 1 .. NR + Len(setup.tx) :
        All[i] = IF i <= NR THEN setup.rx[i] ELSE setup.tx[i - NR]
  BY <1>2, <1>7
<1>9. NR \in Nat /\ Len(setup.tx) \in Nat
  BY <1>7
<1>10. ASSUME NEW i \in 1 .. NR PROVE All[i] = setup.rx[i]
  <2>1. i \in 1 .. NR + Len(setup.tx) /\ i <= NR
    BY <1>9
  <2> QED
    BY <2>1, <1>8
<1>11. ASSUME NEW j \in 1 .. Len(setup.tx) PROVE All[NR + j] = setup.tx[j]
  <2>1. NR + j \in 1 .. NR + Len(setup.tx) /\ ~(NR + j <= NR) /\ (NR + j) - NR = j
    BY <1>9
  <2> QED
    BY <2>1, <1>8
<1> QED
  BY <1>2, <1>3, <1>4, <1>5, <1>6, <1>7, <1>10, <1>11

\* Which of them are received and which sent.
LEMMA Split ==
  ASSUME setup \in Setups
  PROVE  /\ \A i \in 1 .. NR : setup.rx[i] \in RX /\ setup.rx[i] \notin TX
         /\ \A j \in 1 .. Len(setup.tx) : setup.tx[j] \in TX /\ setup.tx[j] \notin RX
         /\ \A i \in 1 .. Len(All) : /\ All[i] \in Objects
                                     /\ (All[i] \in RX) = (i <= NR)
                                     /\ (All[i] \in TX) = (i > NR)
         /\ \A o \in RX : \E i \in 1 .. NR : o = setup.rx[i]
         /\ \A o \in TX : \E j \in 1 .. Len(setup.tx) : o = setup.tx[j]
         /\ \A o \in Objects : (o \in TX) = (o \notin RX)
         /\ {setup.def, setup.init} \subseteq [Objects -> Values \cup {None}]
         /\ setup.readable \subseteq Objects /\ setup.inits \in Nat
<1>1. /\ NR \in Nat /\ Len(setup.tx) \in Nat
      /\ DOMAIN setup.rx = 1 .. NR /\ DOMAIN setup.tx = 1 .. Len(setup.tx)
      /\ Len(All) = NR + Len(setup.tx)
      /\ \A i \in 1 .. NR : All[i] = setup.rx[i]
      /\ \A j \in 1 .. Len(setup.tx) : All[NR + j] = setup.tx[j]
      /\ \A i, j \in 1 .. Len(All) : All[i] = All[j] => i = j
  BY Shape
<1>2. \A o \in RX : \E i \in 1 .. NR : o = setup.rx[i]
  BY <1>1 DEF RX, Range
<1>3. \A o \in TX : \E j \in 1 .. Len(setup.tx) : o = setup.tx[j]
  BY <1>1 DEF TX, Range
<1>4. ASSUME NEW i \in 1 .. NR PROVE setup.rx[i] \in RX /\ setup.rx[i] \notin TX
  <2>1. setup.rx[i] \in RX
    BY <1>1 DEF RX, Range
  <2>2. ASSUME NEW j \in 1 .. Len(setup.tx) PROVE setup.rx[i] # setup.tx[j]
    <3>1. i \in 1 .. Len(All) /\ NR + j \in 1 .. Len(All) /\ i # NR + j
      BY <1>1
    <3> QED
      BY <3>1, <1>1
  <2> QED
    BY <2>1, <2>2, <1>3
<1>5. ASSUME NEW j \in 1 .. Len(setup.tx) PROVE setup.tx[j] \in TX /\ setup.tx[j] \notin RX
  <2>1. setup.tx[j] \in TX
    BY <1>1 DEF TX, Range
  <2> QED
    BY <2>1, <1>2, <1>4
<1>6. ASSUME NEW i \in 1 .. Len(All)
      PROVE  All[i] \in Objects /\ (All[i] \in RX) = (i <= NR) /\ (All[i] \in TX) = (i > NR)
  <2>1. CASE i <= NR
    BY <2>1, <1>1, <1>4 DEF Objects
  <2>2. CASE i > NR
    <3>1. i - NR \in 1 .. Len(setup.tx) /\ All[i] = setup.tx[i - NR]
      <4>1. i - NR \in 1 .. Len(setup.tx) /\ NR + (i - NR) = i
        BY <2>2, <1>1
      <4> QED
        BY <4>1, <1>1
    <3> QED
      BY <2>2, <3>1, <1>1, <1>5 DEF Objects
  <2> QED
    BY <2>1, <2>2, <1>1
<1>7. \A o \in Objects : (o \in TX) = (o \notin RX)
  BY <1>2, <1>3, <1>4, <1>5 DEF Objects
<1>8. Range(setup.rx \o setup.tx) = Objects
  <2>1. All \in Seq(RX \cup TX)
    <3>1. setup.rx \in Seq(RX \cup TX) /\ setup.tx \in Seq(RX \cup TX)
      BY PdoMapperAssumption, SeqMonotonic DEF RX, TX
    <3> QED
      BY <3>1, ConcatProperties DEF All
  <2>2. DOMAIN All = 1 .. Len(All)
    BY <2>1
  <2>3. ASSUME NEW o \in Objects PROVE \E i \in 1 .. Len(All) : All[i] = o
    <3>1. CASE o \in RX
      <4>1. PICK i \in 1 .. NR : o = setup.rx[i]
        BY <3>1, <1>2
      <4> QED
        BY <4>1, <1>1
    <3>2. CASE o \in TX
      <4>1. PICK j \in 1 .. Len(setup.tx) : o = setup.tx[j]
        BY <3>2, <1>3
      <4>2. NR + j \in 1 .. Len(All)
        BY <1>1
      <4> QED
        BY <4>1, <4>2, <1>1
    <3> QED
      BY <3>1, <3>2 DEF Objects
  <2> QED
    BY <2>2, <2>3, <1>6 DEF All, Range
<1> QED
  BY <1>2, <1>3, <1>4, <1>5, <1>6, <1>7, <1>8, PdoMapperAssumption

-------------------------------------------------------------------------------
(* Types                                                                   *)

\* No step changes the mapping.
LEMMA SameSetup ==
  ASSUME [Next]_vars
  PROVE  /\ setup' = setup /\ RX' = RX /\ TX' = TX /\ Objects' = Objects /\ All' = All
         /\ NR' = NR
<1>1. setup' = setup
  BY DEF Next, vars, pdo, rpdo, tpdo, svc, node, hist, Strand, HandleFrame, HandleBuffer,
         HandleEnd, Run, RunRead, RunWrite, SyncRead, SyncSend, Initialisation, InitReset,
         InitClear, MapAttach, MapForce, MapFails, MapDelegate, MapClean, InitListen, InitAll,
         InitStart, InitFails, Shutdown, Device, DevSends, DevStops, Calls, GetSdo, GetPdo, Set
<1> QED
  BY <1>1 DEF RX, TX, Objects, All, NR

Datum  == [value : Values, valid : BOOLEAN, rd : {"sdo", "pdo"}, wd : {"sdo", "pdo"}]
Buffer == [value : Values, dirty : BOOLEAN, empty : BOOLEAN, alive : BOOLEAN]

\* The step changes a value and no delegate; the object itself is valid afterwards.
SetsValue(o, v) ==
  store' = [store EXCEPT ![o].value = v, ![o].valid = TRUE]

LEMMA ValueSet ==
  ASSUME store \in [Objects -> Datum], NEW o \in Objects, NEW v \in Values, SetsValue(o, v)
  PROVE  /\ store' \in [Objects -> Datum]
         /\ store'[o].value = v /\ store'[o].valid = TRUE
         /\ \A x \in Objects : /\ store'[x].rd = store[x].rd /\ store'[x].wd = store[x].wd
                               /\ x # o => store'[x] = store[x]
BY DEF SetsValue, Datum

LEMMA BufferWritten ==
  ASSUME buf \in [Objects -> Buffer], NEW o \in Objects, NEW v \in Values,
         buf' = [buf EXCEPT ![o] = BufferWrite(@, v)],
         buf[o].dirty => ~buf[o].empty
  PROVE  /\ buf' \in [Objects -> Buffer]
         /\ buf[o].alive => buf'[o].value = v /\ buf'[o].dirty = TRUE /\ buf'[o].empty = FALSE
         /\ ~buf[o].alive => buf'[o] = buf[o]
         /\ buf'[o].dirty => ~buf'[o].empty
         /\ \A x \in Objects : /\ buf'[x].alive = buf[x].alive
                               /\ x # o => buf'[x] = buf[x]
BY DEF BufferWrite, Buffer

LEMMA BufferCleaned ==
  ASSUME buf \in [Objects -> Buffer], NEW o \in Objects,
         buf' = [buf EXCEPT ![o].dirty = FALSE]
  PROVE  /\ buf' \in [Objects -> Buffer]
         /\ \A x \in Objects : /\ buf'[x].alive = buf[x].alive /\ buf'[x].value = buf[x].value
                               /\ buf'[x].empty = buf[x].empty
                               /\ buf'[x].dirty = (x # o /\ buf[x].dirty)
                               /\ x # o => buf'[x] = buf[x]
BY DEF Buffer

LEMMA BuffersFreed ==
  ASSUME buf \in [Objects -> Buffer], NEW S, buf' = Freed(S)
  PROVE  /\ buf' \in [Objects -> Buffer]
         /\ \A x \in Objects : /\ x \in S => buf'[x] = NoBuffer
                               /\ x \notin S => buf'[x] = buf[x]
BY PdoMapperAssumption DEF Buffer, Freed, NoBuffer, NewBuffer

LEMMA NoBufferFields ==
  /\ NewBuffer \in Buffer /\ NewBuffer.alive = TRUE /\ NewBuffer.empty = TRUE
  /\ NewBuffer.dirty = FALSE
  /\ NoBuffer \in Buffer /\ NoBuffer.alive = FALSE /\ NoBuffer.empty = TRUE
  /\ NoBuffer.dirty = FALSE
BY PdoMapperAssumption DEF Buffer, NoBuffer, NewBuffer

LEMMA Forgotten ==
  ASSUME NEW S, NEW T, NEW h \in [T -> Values \cup {None}]
  PROVE  /\ Forget(S, h) \in [T -> Values \cup {None}]
         /\ \A x \in T : Forget(S, h)[x] = IF x \in S THEN None ELSE h[x]
BY DEF Forget

\* A value is written: into the buffer, or into the device's object.
LEMMA Written ==
  ASSUME TypeOK, NEW o \in Objects, NEW v \in Values, Write(o, v)
  PROVE  /\ store' \in [Objects -> Datum] /\ buf' \in [Objects -> Buffer]
         /\ dev' \in [TX -> Values] /\ late' \subseteq Objects
         /\ wanted' \in [TX -> Values \cup {None}]
         /\ received' = Forget({o}, received) /\ untouched' = untouched \ {o}
         /\ late \subseteq late'
         /\ \A x \in Objects :
              /\ store'[x].rd = store[x].rd /\ store'[x].wd = store[x].wd
              /\ buf'[x].alive = buf[x].alive
              /\ buf'[x].dirty => ~buf'[x].empty
              /\ x # o => store'[x] = store[x] /\ buf'[x] = buf[x]
         /\ \A x \in TX : x # o => dev'[x] = dev[x]
         /\ run = "sync" => o \in late' \/ buf'[o] = buf[o]
<1>1. /\ store \in [Objects -> Datum] /\ buf \in [Objects -> Buffer] /\ dev \in [TX -> Values]
      /\ late \subseteq Objects /\ wanted \in [TX -> Values \cup {None}]
      /\ \A x \in Objects : buf[x].dirty => ~buf[x].empty
  BY DEF TypeOK, Datum, Buffer
<1>2. SetsValue(o, v) /\ received' = Forget({o}, received) /\ untouched' = untouched \ {o}
  BY DEF Write, SetsValue
<1>3. /\ store' \in [Objects -> Datum]
      /\ \A x \in Objects : /\ store'[x].rd = store[x].rd /\ store'[x].wd = store[x].wd
                            /\ x # o => store'[x] = store[x]
  BY <1>1, <1>2, ValueSet
<1>4. CASE /\ buf' = [buf EXCEPT ![o] = BufferWrite(@, v)]
           /\ wanted' = IF o \in TX /\ buf[o].alive THEN [wanted EXCEPT ![o] = v] ELSE wanted
           /\ late' = IF run = "sync" THEN late \cup {o} ELSE late
           /\ dev' = dev
  <2>1. /\ buf' \in [Objects -> Buffer]
        /\ \A x \in Objects : /\ buf'[x].alive = buf[x].alive
                              /\ x # o => buf'[x] = buf[x]
        /\ buf'[o].dirty => ~buf'[o].empty
    BY <1>1, <1>4, BufferWritten
  <2>2. wanted' \in [TX -> Values \cup {None}]
    BY <1>1, <1>4
  <2>3. late' \subseteq Objects /\ late \subseteq late' /\ (run = "sync" => o \in late')
    BY <1>1, <1>4
  <2>4. ASSUME NEW x \in Objects PROVE buf'[x].dirty => ~buf'[x].empty
    BY <2>1, <1>1
  <2> QED
    BY <1>1, <1>2, <1>3, <1>4, <2>1, <2>2, <2>3, <2>4
<1>5. CASE /\ dev' = dev \/ (o \in TX /\ dev' = [dev EXCEPT ![o] = v])
           /\ UNCHANGED <<buf, wanted, late>>
  <2>1. dev' \in [TX -> Values] /\ \A x \in TX : x # o => dev'[x] = dev[x]
    BY <1>1, <1>5
  <2> QED
    BY <1>1, <1>2, <1>3, <1>5, <2>1
<1> QED
  BY <1>4, <1>5 DEF Write

\* What init does to one object or PDO stays within the types.
LEMMA MapTypes ==
  ASSUME TypeOK, MapAttach \/ MapForce \/ MapFails \/ MapDelegate \/ MapClean
  PROVE  TypeOK'
<1>0. [Next]_vars
  BY DEF Next, Initialisation
<1>1. setup' = setup /\ RX' = RX /\ TX' = TX /\ Objects' = Objects /\ All' = All
  BY <1>0, SameSetup
<1>2. /\ NR \in Nat /\ Len(setup.tx) \in Nat /\ Len(All) = NR + Len(setup.tx) /\ Len(All) >= 1
      /\ k \in 1 .. Len(All) /\ All[k] \in Objects
      /\ All[k] \in TX => All[k] \notin RX
  BY Shape, Split DEF TypeOK
<1>3. /\ store \in [Objects -> Datum] /\ buf \in [Objects -> Buffer]
      /\ wanted \in [TX -> Values \cup {None}]
      /\ \A x \in Objects : buf[x].dirty => ~buf[x].empty
  BY DEF TypeOK, Datum, Buffer
<1>4. SUFFICES /\ store' \in [Objects -> Datum] /\ buf' \in [Objects -> Buffer]
               /\ \A x \in Objects : buf'[x].dirty => ~buf'[x].empty
               /\ wanted' \in [TX -> Values \cup {None}] /\ k' \in 1 .. Len(All)
               /\ init' \in {"idle", "attach", "force", "delegate", "clean", "listen", "all"}
               /\ UNCHANGED <<rpdo, tpdo, up, inits, node, received, late, untouched>>
  BY <1>1 DEF TypeOK, Datum, Buffer, rpdo, tpdo, node
<1>5. CASE MapAttach
  BY <1>5, <1>2, <1>3, NoBufferFields DEF MapAttach, hist, Datum
<1>6. CASE MapForce
  <2>1. /\ init' \in {"delegate", "clean"} /\ k' = k
        /\ UNCHANGED <<rpdo, tpdo, up, inits, node, wanted, received, late, untouched>>
    BY <1>6 DEF MapForce, hist
  <2>2. CASE UNCHANGED pdo
    BY <1>2, <1>3, <2>1, <2>2 DEF pdo
  <2>3. CASE \E v \in Forced(All[k]) :
               SetsValue(All[k], v) /\ buf' = [buf EXCEPT ![All[k]] = BufferWrite(@, v)]
    <3>1. PICK v \in Forced(All[k]) :
            SetsValue(All[k], v) /\ buf' = [buf EXCEPT ![All[k]] = BufferWrite(@, v)]
      BY <2>3
    <3>2. v \in Values
      BY <1>2, <1>3 DEF Forced, DevValues, TypeOK, Datum
    <3>3. store' \in [Objects -> Datum]
      BY <1>2, <1>3, <3>1, <3>2, ValueSet
    <3>4. buf' \in [Objects -> Buffer] /\ \A x \in Objects : buf'[x].dirty => ~buf'[x].empty
      BY <1>2, <1>3, <3>1, <3>2, BufferWritten
    <3> QED
      BY <1>2, <1>3, <2>1, <3>3, <3>4
  <2> QED
    BY <1>6, <2>2, <2>3 DEF MapForce, SetsValue
<1>7. CASE MapFails
  <2>1. PICK S : buf' = Freed(S)
    BY <1>7 DEF MapFails
  <2>2. buf' \in [Objects -> Buffer] /\ \A x \in Objects : buf'[x].dirty => ~buf'[x].empty
    BY <1>3, <2>1, BuffersFreed, NoBufferFields
  <2>3. wanted' \in [TX -> Values \cup {None}]
    BY <1>3, <1>7, Forgotten DEF MapFails
  <2> QED
    BY <1>2, <1>3, <1>7, <2>2, <2>3 DEF MapFails
<1>8. CASE MapDelegate
  BY <1>8, <1>2, <1>3 DEF MapDelegate, hist, Datum
<1>9. CASE MapClean
  <2>1. buf' \in [Objects -> Buffer] /\ \A x \in Objects : buf'[x].dirty => ~buf'[x].empty
    BY <1>2, <1>3, <1>9, BufferCleaned DEF MapClean
  <2>2. wanted' \in [TX -> Values \cup {None}]
    BY <1>3, <1>9, Forgotten DEF MapClean
  <2>3. k' \in 1 .. Len(All) /\ init' \in {"listen", "all", "attach"}
    BY <1>2, <1>9 DEF MapClean
  <2> QED
    BY <1>2, <1>3, <1>9, <2>1, <2>2, <2>3 DEF MapClean
<1> QED
  BY <1>5, <1>6, <1>7, <1>8, <1>9

\* So does what the services and controllers do to one object.
LEMMA CallTypes ==
  ASSUME TypeOK, Calls \/ InitAll
  PROVE  TypeOK'
<1>0. [Next]_vars
  BY DEF Next, Initialisation
<1>1. setup' = setup /\ RX' = RX /\ TX' = TX /\ Objects' = Objects /\ All' = All
  BY <1>0, SameSetup
<1>2. /\ NR \in Nat /\ Len(setup.tx) \in Nat /\ Len(All) = NR + Len(setup.tx) /\ Len(All) >= 1
      /\ k \in 1 .. Len(All) /\ All[k] \in Objects
      /\ setup.init \in [Objects -> Values \cup {None}]
  BY Shape, Split DEF TypeOK
<1>3. /\ store \in [Objects -> Datum] /\ buf \in [Objects -> Buffer] /\ dev \in [TX -> Values]
      /\ received \in [RX -> Values \cup {None}] /\ untouched \subseteq TX
      /\ wanted \in [TX -> Values \cup {None}] /\ late \subseteq Objects
      /\ \A x \in Objects : buf[x].dirty => ~buf[x].empty
  BY DEF TypeOK, Datum, Buffer
<1>4. SUFFICES /\ store' \in [Objects -> Datum] /\ buf' \in [Objects -> Buffer]
               /\ \A x \in Objects : buf'[x].dirty => ~buf'[x].empty
               /\ dev' \in [TX -> Values] /\ late' \subseteq Objects
               /\ wanted' \in [TX -> Values \cup {None}]
               /\ received' \in [RX -> Values \cup {None}] /\ untouched' \subseteq TX
               /\ k' \in 1 .. Len(All) /\ init' \in {init, "all", "start"}
               /\ UNCHANGED <<rpdo, tpdo, up, inits, sends, bus>>
  BY <1>1 DEF TypeOK, Datum, Buffer, rpdo, tpdo
<1>5. ASSUME NEW o \in Objects, NEW v \in Values, Write(o, v)
      PROVE  /\ store' \in [Objects -> Datum] /\ buf' \in [Objects -> Buffer]
             /\ \A x \in Objects : buf'[x].dirty => ~buf'[x].empty
             /\ dev' \in [TX -> Values] /\ late' \subseteq Objects
             /\ wanted' \in [TX -> Values \cup {None}]
             /\ received' \in [RX -> Values \cup {None}] /\ untouched' \subseteq TX
  <2>1. /\ store' \in [Objects -> Datum] /\ buf' \in [Objects -> Buffer]
        /\ dev' \in [TX -> Values] /\ late' \subseteq Objects
        /\ wanted' \in [TX -> Values \cup {None}]
        /\ received' = Forget({o}, received) /\ untouched' = untouched \ {o}
        /\ \A x \in Objects : buf'[x].dirty => ~buf'[x].empty
    BY <1>5, Written
  <2>2. received' \in [RX -> Values \cup {None}] /\ untouched' \subseteq TX
    BY <1>3, <2>1, Forgotten
  <2> QED
    BY <2>1, <2>2
<1>6. ASSUME NEW o \in Objects, NEW v \in Values, Set(o, v) PROVE <1>4!1
  BY <1>2, <1>5, <1>6 DEF Set, svc
<1>7. ASSUME NEW o \in Objects, GetSdo(o) PROVE <1>4!1
  <2>1. DevValues(o) \subseteq Values
    BY <1>3 DEF DevValues
  <2>2. store' \in [Objects -> Datum]
    <3>1. CASE \E v \in DevValues(o) : SetsValue(o, v)
      BY <1>3, <2>1, <3>1, ValueSet
    <3>2. CASE store' = [store EXCEPT ![o].valid = TRUE]
      BY <1>3, <3>2 DEF Datum
    <3> QED
      BY <1>7, <3>1, <3>2 DEF GetSdo, SetsValue
  <2>3. untouched' \subseteq TX
    BY <1>3, <1>7 DEF GetSdo
  <2> QED
    BY <1>2, <1>3, <1>7, <2>2, <2>3 DEF GetSdo, svc, node
<1>8. ASSUME NEW o \in Objects, GetPdo(o) PROVE <1>4!1
  <2>1. store' \in [Objects -> Datum]
    <3>1. store[o].value \in Values /\ buf[o].value \in Values
      BY <1>3 DEF Datum, Buffer
    <3>2. \E v \in Values : SetsValue(o, v)
      BY <1>3, <1>8, <3>1 DEF GetPdo, SetsValue
    <3> QED
      BY <1>3, <3>2, ValueSet
  <2>2. buf' \in [Objects -> Buffer] /\ \A x \in Objects : buf'[x].dirty => ~buf'[x].empty
    <3>1. CASE buf' = [buf EXCEPT ![o].dirty = FALSE]
      BY <1>3, <3>1, BufferCleaned
    <3>2. CASE buf' = buf
      BY <1>3, <3>2
    <3> QED
      BY <1>8, <3>1, <3>2 DEF GetPdo
  <2> QED
    BY <1>2, <1>3, <1>8, <2>1, <2>2 DEF GetPdo, svc, node, hist
<1>9. CASE InitAll
  <2>1. k' \in 1 .. Len(All) /\ init' \in {"all", "start"}
        /\ UNCHANGED <<rpdo, tpdo, up, inits, sends, bus>>
    BY <1>2, <1>9 DEF InitAll
  <2>2. CASE ToInit(All[k]) /\ Write(All[k], setup.init[All[k]])
    <3>1. setup.init[All[k]] \in Values
      BY <1>2, <2>2 DEF ToInit
    <3> QED
      BY <1>2, <1>5, <2>1, <2>2, <3>1
  <2>3. CASE UNCHANGED <<pdo, dev, hist>>
    BY <1>3, <2>1, <2>3 DEF pdo, hist
  <2> QED
    BY <1>9, <2>2, <2>3 DEF InitAll
<1> QED
  BY <1>6, <1>7, <1>8, <1>9 DEF Calls

\* Frames and cycles.
LEMMA PdoTypes ==
  ASSUME TypeOK, Strand \/ Run
  PROVE  TypeOK'
<1>0. [Next]_vars
  BY DEF Next
<1>1. setup' = setup /\ RX' = RX /\ TX' = TX /\ Objects' = Objects /\ All' = All
  BY <1>0, SameSetup
<1>2. /\ NR \in Nat /\ Len(setup.tx) \in Nat /\ NR = Len(setup.rx)
      /\ DOMAIN setup.rx = 1 .. NR /\ DOMAIN setup.tx = 1 .. Len(setup.tx)
      /\ \A i \in 1 .. NR : setup.rx[i] \in RX
      /\ \A j \in 1 .. Len(setup.tx) : setup.tx[j] \in TX
      /\ TransmissionType \in Nat
  BY Shape, Split, PdoMapperAssumption DEF TypeOK, NR
<1>3. /\ store \in [Objects -> Datum] /\ buf \in [Objects -> Buffer] /\ bus \in Seq([RX -> Values])
      /\ \A x \in Objects : buf[x].dirty => ~buf[x].empty
      /\ received \in [RX -> Values \cup {None}]
      /\ frame \in [TX -> Values] /\ dev \in [TX -> Values]
      /\ strand \in 0 .. NR + 1 /\ timeout \in -1 .. TransmissionType + 2
      /\ next \in 1 .. Len(setup.tx) + 1
      /\ strand # 0 => bus # << >>
  BY DEF TypeOK, Datum, Buffer, NR
<1>4. CASE HandleFrame
  <2>1. bus' \in Seq([RX -> Values]) /\ (strand' # 0 => bus' # << >>) /\ strand' \in 0 .. NR + 1
    BY <1>2, <1>3, <1>4 DEF HandleFrame
  <2> QED
    BY <1>1, <1>2, <1>4, <2>1 DEF HandleFrame, TypeOK, pdo, tpdo, svc, hist
<1>5. CASE HandleBuffer
  <2> DEFINE o == setup.rx[strand]
  <2> DEFINE v == Head(bus)[o]
  <2>1. strand \in 1 .. NR /\ o \in RX /\ o \in Objects
    BY <1>2, <1>5 DEF HandleBuffer, Objects
  <2>2. v \in Values
    <3>1. bus # << >>
      <4>1. strand # 0
        BY <1>2, <2>1
      <4> QED
        BY <1>3, <4>1
    <3>2. Head(bus) \in [RX -> Values]
      BY <1>3, <3>1
    <3> QED
      BY <2>1, <3>2
  <2>3. buf' = [buf EXCEPT ![o] = BufferWrite(@, v)] /\ received' = [received EXCEPT ![o] = v]
        /\ strand' = strand + 1
    BY <1>5 DEF HandleBuffer
  <2> HIDE DEF o, v
  <2>4. buf' \in [Objects -> Buffer] /\ \A x \in Objects : buf'[x].dirty => ~buf'[x].empty
    BY <1>3, <2>1, <2>2, <2>3, BufferWritten
  <2>5. received' \in [RX -> Values \cup {None}]
    BY <1>3, <2>1, <2>2, <2>3
  <2>6. strand' \in 0 .. NR + 1 /\ strand # 0
    BY <1>2, <2>1, <2>3
  <2> QED
    BY <1>1, <1>2, <1>3, <1>5, <2>4, <2>5, <2>6 DEF HandleBuffer, TypeOK, tpdo, svc, node, Buffer
<1>6. CASE HandleEnd
  <2>1. bus' \in Seq([RX -> Values]) /\ strand' = 0 /\ timeout' \in -1 .. TransmissionType + 2
    <3>1. bus # << >>
      <4>1. strand # 0
        BY <1>2, <1>6 DEF HandleEnd
      <4> QED
        BY <1>3, <4>1
    <3>2. bus' \in Seq([RX -> Values])
      BY <1>3, <1>6, <3>1 DEF HandleEnd
    <3> QED
      BY <1>2, <1>3, <1>6, <3>2 DEF HandleEnd
  <2>2. UNCHANGED <<setup, store, buf, frame, dev, listening, warned, updated, up, sends, run, next,
                    init, k, inits, wanted, received, late, untouched>>
    BY <1>6 DEF HandleEnd, pdo, tpdo, svc, hist
  <2>3. 0 \in 0 .. Len(setup.rx) + 1
    BY <1>2
  <2> HIDE DEF HandleEnd
  <2> QED
    BY <1>1, <2>1, <2>2, <2>3 DEF TypeOK
<1>7. CASE RunRead
  <2>1. timeout' \in -1 .. TransmissionType + 2 /\ warned' \in BOOLEAN
    BY <1>2, <1>3, <1>7 DEF RunRead
  <2> QED
    BY <1>1, <1>7, <2>1 DEF RunRead, TypeOK, pdo, svc, node, hist
<1>8. CASE RunWrite
  BY <1>1, <1>8 DEF RunWrite, TypeOK, pdo, rpdo, svc, node, hist
<1>9. CASE SyncRead
  <2> DEFINE o == setup.tx[next]
  <2>1. next \in 1 .. Len(setup.tx) /\ o \in TX /\ o \in Objects
    BY <1>2, <1>9 DEF SyncRead, Objects
  <2>2. buf' = [buf EXCEPT ![o].dirty = FALSE] /\ next' = next + 1
        /\ frame' = IF buf[o].empty THEN frame ELSE [frame EXCEPT ![o] = buf[o].value]
    BY <1>9 DEF SyncRead
  <2>6. updated' \in BOOLEAN
    BY <1>9 DEF SyncRead
  <2> HIDE DEF o
  <2>3. buf' \in [Objects -> Buffer] /\ \A x \in Objects : buf'[x].dirty => ~buf'[x].empty
    BY <1>3, <2>1, <2>2, BufferCleaned
  <2>4. frame' \in [TX -> Values]
    <3>1. buf[o].value \in Values
      BY <1>3, <2>1 DEF Buffer
    <3> QED
      BY <1>3, <2>1, <2>2, <3>1
  <2>5. next' \in 1 .. Len(setup.tx) + 1
    BY <1>2, <2>1, <2>2
  <2> QED
    BY <1>1, <1>9, <2>2, <2>3, <2>4, <2>5, <2>6 DEF SyncRead, TypeOK, rpdo, svc, node, hist, Buffer
<1>10. CASE SyncSend
  <2>1. dev' \in [TX -> Values] /\ next' \in 1 .. Len(setup.tx) + 1
    BY <1>2, <1>3, <1>10 DEF SyncSend
  <2> QED
    BY <1>1, <1>10, <2>1 DEF SyncSend, TypeOK, pdo, rpdo, svc
<1> QED
  BY <1>4, <1>5, <1>6, <1>7, <1>8, <1>9, <1>10 DEF Strand, Run

\* The rest of init, and the device.
LEMMA OtherTypes ==
  ASSUME TypeOK,
         InitReset \/ InitClear \/ InitListen \/ InitStart \/ InitFails \/ Shutdown \/ Device
  PROVE  TypeOK'
<1>0. [Next]_vars
  BY DEF Next, Initialisation
<1>1. setup' = setup /\ RX' = RX /\ TX' = TX /\ Objects' = Objects /\ All' = All
  BY <1>0, SameSetup
<1>2. /\ NR \in Nat /\ Len(setup.tx) \in Nat /\ Len(All) = NR + Len(setup.tx) /\ Len(All) >= 1
      /\ setup.def \in [Objects -> Values \cup {None}] /\ setup.inits \in Nat
  BY Shape, Split DEF TypeOK
<1>3. /\ store \in [Objects -> Datum] /\ buf \in [Objects -> Buffer] /\ bus \in Seq([RX -> Values])
      /\ wanted \in [TX -> Values \cup {None}] /\ received \in [RX -> Values \cup {None}]
      /\ \A x \in Objects : buf[x].dirty => ~buf[x].empty
  BY DEF TypeOK, Datum, Buffer
<1>4. ASSUME NEW S, buf' = Freed(S)
      PROVE  buf' \in [Objects -> Buffer] /\ \A x \in Objects : buf'[x].dirty => ~buf'[x].empty
  BY <1>3, <1>4, BuffersFreed, NoBufferFields
<1>5. CASE InitReset
  <2>1. store' \in [Objects -> Datum]
    <3>1. ASSUME NEW o \in Objects PROVE ResetValue(o) \in Datum
      BY <1>2, <1>3 DEF ResetValue, Datum
    <3> QED
      BY <1>5, <3>1 DEF InitReset
  <2>2. received' \in [RX -> Values \cup {None}]
    BY <1>3, <1>5, Forgotten DEF InitReset
  <2>3. inits' \in 0 .. setup.inits
    BY <1>2, <1>5 DEF InitReset, TypeOK
  <2>4. dev' \in [TX -> Values] /\ untouched' = TX /\ init' = "clear"
    BY <1>5 DEF InitReset
  <2> QED
    BY <1>1, <1>5, <2>1, <2>2, <2>3, <2>4 DEF InitReset, TypeOK, rpdo, tpdo, Datum
<1>6. CASE InitClear
  <2>1. buf' \in [Objects -> Buffer] /\ \A x \in Objects : buf'[x].dirty => ~buf'[x].empty
    BY <1>4, <1>6 DEF InitClear
  <2>2. received' \in [RX -> Values \cup {None}]
    BY <1>3, <1>6, Forgotten DEF InitClear
  <2>3. timeout' \in -1 .. TransmissionType + 2 /\ k' \in 1 .. Len(All)
    BY <1>2, <1>6, PdoMapperAssumption DEF InitClear
  <2>4. init' \in {"listen", "attach"} /\ listening' \in BOOLEAN
    BY <1>6 DEF InitClear
  <2> QED
    BY <1>1, <1>6, <2>1, <2>2, <2>3, <2>4 DEF InitClear, TypeOK, tpdo, node, Buffer
<1>7. CASE InitListen
  <2>1. buf' \in [Objects -> Buffer] /\ \A x \in Objects : buf'[x].dirty => ~buf'[x].empty
    BY <1>4, <1>7 DEF InitListen
  <2>2. wanted' \in [TX -> Values \cup {None}]
    BY <1>3, <1>7, Forgotten DEF InitListen
  <2>3. init' \in {"all", "attach"} /\ listening' \in BOOLEAN
    BY <1>7 DEF InitListen
  <2> QED
    BY <1>1, <1>7, <2>1, <2>2, <2>3 DEF InitListen, TypeOK, tpdo, node, Buffer
<1>8. CASE InitStart
  BY <1>1, <1>8 DEF InitStart, TypeOK, pdo, rpdo, tpdo, hist
<1>9. CASE InitFails
  BY <1>1, <1>9 DEF InitFails, TypeOK, pdo, rpdo, tpdo, node, hist
<1>10. CASE Shutdown
  BY <1>1, <1>10 DEF Shutdown, TypeOK, pdo, rpdo, tpdo, hist
<1>11. CASE DevSends
  <2>1. PICK f \in [RX -> Values] : bus' = Append(bus, f)
    BY <1>11 DEF DevSends
  <2>2. bus' \in Seq([RX -> Values]) /\ bus' # << >>
    BY <1>3, <2>1
  <2> QED
    BY <1>1, <1>11, <2>2 DEF DevSends, TypeOK, pdo, rpdo, tpdo, svc, hist
<1>12. CASE DevStops
  BY <1>1, <1>12 DEF DevStops, TypeOK, pdo, rpdo, tpdo, svc, hist
<1> QED
  BY <1>5, <1>6, <1>7, <1>8, <1>9, <1>10, <1>11, <1>12 DEF Device

LEMMA TypeStep ==
  ASSUME TypeOK, [Next]_vars
  PROVE  TypeOK'
<1>1. CASE UNCHANGED vars
  BY <1>1 DEF vars, pdo, rpdo, tpdo, svc, node, hist, TypeOK, RX, TX, Objects, All
<1>2. CASE Next
  BY <1>2, MapTypes, CallTypes, PdoTypes, OtherTypes DEF Next, Initialisation
<1> QED
  BY <1>1, <1>2

LEMMA TypeInit ==
  ASSUME Init
  PROVE  TypeOK
<1>1. setup \in Setups
  BY DEF Init
<1>2. /\ NR \in Nat /\ Len(setup.tx) \in Nat /\ Len(All) = NR + Len(setup.tx) /\ Len(All) >= 1
      /\ setup.def \in [Objects -> Values \cup {None}] /\ setup.inits \in Nat
  BY <1>1, Shape, Split
<1>3. store \in [Objects -> Datum]
  BY <1>2, PdoMapperAssumption DEF Init, Datum
<1>4. buf \in [Objects -> Buffer] /\ \A x \in Objects : buf[x].dirty => ~buf[x].empty
  BY NoBufferFields DEF Init
<1>5. frame \in [TX -> Values] /\ dev \in [TX -> Values] /\ bus \in Seq([RX -> Values])
  BY PdoMapperAssumption DEF Init
<1>6. wanted \in [TX -> Values \cup {None}] /\ received \in [RX -> Values \cup {None}]
      /\ late \subseteq Objects /\ untouched \subseteq TX
  BY DEF Init
<1>7. /\ timeout \in -1 .. TransmissionType + 2 /\ strand \in 0 .. NR + 1
      /\ next \in 1 .. Len(setup.tx) + 1 /\ k \in 1 .. Len(All) /\ inits \in 0 .. setup.inits
  <2>1. /\ timeout = -1 /\ strand = 0 /\ next = 1 /\ k = 1 /\ inits = 0
        /\ TransmissionType \in Nat
    BY PdoMapperAssumption DEF Init
  <2> QED
    BY <1>2, <2>1
<1> QED
  BY <1>1, <1>3, <1>4, <1>5, <1>6, <1>7 DEF Init, TypeOK, Datum, Buffer, NR

-------------------------------------------------------------------------------
(* Where init is                                                           *)

LEMMA AloneStep ==
  ASSUME Alone, [Next]_vars
  PROVE  Alone'
<1>1. CASE Initialisation
  BY <1>1 DEF Alone, Initialisation, InitReset, InitClear, MapAttach, MapForce, MapFails,
       MapDelegate, MapClean, InitListen, InitAll, InitStart, InitFails, Shutdown, tpdo
<1>2. CASE Strand \/ Device \/ Calls \/ UNCHANGED vars
  BY <1>2 DEF Alone, Strand, HandleFrame, HandleBuffer, HandleEnd, Device, DevSends, DevStops,
       Calls, GetSdo, GetPdo, Set, vars, tpdo, svc
<1>3. CASE Run
  BY <1>3 DEF Alone, Run, RunRead, RunWrite, SyncRead, SyncSend, svc
<1> QED
  BY <1>1, <1>2, <1>3 DEF Next

LEMMA DelegatesStay ==
  ASSUME store \in [Objects -> Datum], NEW o \in Objects, NEW v, SetsValue(o, v)
  PROVE  \A x \in Objects : store'[x].rd = store[x].rd
BY DEF SetsValue, Datum

\* Only init frees buffers and moves delegates.
LEMMA Connections ==
  ASSUME TypeOK, Strand \/ Run \/ Device \/ Calls \/ InitReset \/ InitAll \/ InitStart
                   \/ InitFails \/ Shutdown \/ MapForce \/ UNCHANGED vars
  PROVE  \A x \in Objects : buf'[x].alive = buf[x].alive /\ store'[x].rd = store[x].rd
<1>1. /\ store \in [Objects -> Datum] /\ buf \in [Objects -> Buffer]
      /\ \A x \in Objects : buf[x].dirty => ~buf[x].empty
      /\ All[k] \in Objects /\ setup.init \in [Objects -> Values \cup {None}]
  BY Split DEF TypeOK, Datum, Buffer
<1>2. CASE Strand
  <2>1. CASE HandleBuffer
    <3> DEFINE o == setup.rx[strand]
    <3>1. o \in Objects
      <4>1. strand \in 1 .. NR
        BY <2>1, Shape DEF HandleBuffer, TypeOK
      <4> QED
        BY <4>1, Split DEF TypeOK, Objects
    <3>2. \E v : buf' = [buf EXCEPT ![o] = BufferWrite(@, v)]
      BY <2>1 DEF HandleBuffer
    <3>3. store' = store
      BY <2>1 DEF HandleBuffer
    <3> HIDE DEF o
    <3> QED
      BY <1>1, <3>1, <3>2, <3>3 DEF BufferWrite, Buffer
  <2>2. CASE HandleFrame \/ HandleEnd
    BY <2>2 DEF HandleFrame, HandleEnd, pdo
  <2> QED
    BY <1>2, <2>1, <2>2 DEF Strand
<1>3. CASE Run
  <2>1. CASE SyncRead
    <3> DEFINE o == setup.tx[next]
    <3>1. o \in Objects
      <4>1. next \in 1 .. Len(setup.tx)
        BY <2>1, Shape DEF SyncRead, TypeOK
      <4> QED
        BY <4>1, Split DEF TypeOK, Objects
    <3>2. buf' = [buf EXCEPT ![o].dirty = FALSE] /\ store' = store
      BY <2>1 DEF SyncRead
    <3> HIDE DEF o
    <3> QED
      BY <1>1, <3>1, <3>2, BufferCleaned
  <2>2. CASE RunRead \/ RunWrite \/ SyncSend
    BY <2>2 DEF RunRead, RunWrite, SyncSend, pdo
  <2> QED
    BY <1>3, <2>1, <2>2 DEF Run
<1>4. CASE Device \/ InitStart \/ InitFails \/ Shutdown \/ UNCHANGED vars
  BY <1>4 DEF Device, DevSends, DevStops, InitStart, InitFails, Shutdown, vars, pdo
<1>5. ASSUME NEW o \in Objects, NEW v \in Values, Write(o, v)
      PROVE  \A x \in Objects : buf'[x].alive = buf[x].alive /\ store'[x].rd = store[x].rd
  BY <1>5, Written
<1>6. CASE Calls
  <2>1. ASSUME NEW o \in Objects, GetSdo(o)
        PROVE  \A x \in Objects : buf'[x].alive = buf[x].alive /\ store'[x].rd = store[x].rd
    <3>1. CASE \E v \in DevValues(o) : SetsValue(o, v)
      BY <1>1, <2>1, <3>1, DelegatesStay DEF GetSdo
    <3>2. CASE store' = [store EXCEPT ![o].valid = TRUE]
      BY <1>1, <2>1, <3>2 DEF GetSdo, Datum
    <3> QED
      BY <2>1, <3>1, <3>2 DEF GetSdo, SetsValue
  <2>2. ASSUME NEW o \in Objects, GetPdo(o)
        PROVE  \A x \in Objects : buf'[x].alive = buf[x].alive /\ store'[x].rd = store[x].rd
    <3>1. \A x \in Objects : buf'[x].alive = buf[x].alive
      BY <1>1, <2>2 DEF GetPdo, Buffer
    <3>2. \A x \in Objects : store'[x].rd = store[x].rd
      <4>1. \E v : SetsValue(o, v)
        BY <2>2 DEF GetPdo, SetsValue
      <4> QED
        BY <1>1, <4>1, DelegatesStay
    <3> QED
      BY <3>1, <3>2
  <2>3. ASSUME NEW o \in Objects, NEW v \in Values, Set(o, v)
        PROVE  \A x \in Objects : buf'[x].alive = buf[x].alive /\ store'[x].rd = store[x].rd
    BY <1>5, <2>3 DEF Set
  <2> QED
    BY <1>6, <2>1, <2>2, <2>3 DEF Calls
<1>7. CASE InitAll
  <2>1. CASE ToInit(All[k]) /\ Write(All[k], setup.init[All[k]])
    <3>1. setup.init[All[k]] \in Values
      BY <1>1, <2>1 DEF ToInit
    <3> QED
      BY <1>1, <1>5, <2>1, <3>1
  <2>2. CASE UNCHANGED pdo
    BY <2>2 DEF pdo
  <2> QED
    BY <1>7, <2>1, <2>2 DEF InitAll
<1>8. CASE InitReset
  BY <1>1, <1>8 DEF InitReset, ResetValue, Datum
<1>9. CASE MapForce
  <2>1. CASE \E v : SetsValue(All[k], v) /\ buf' = [buf EXCEPT ![All[k]] = BufferWrite(@, v)]
    <3>1. PICK v : SetsValue(All[k], v) /\ buf' = [buf EXCEPT ![All[k]] = BufferWrite(@, v)]
      BY <2>1
    <3>2. \A x \in Objects : buf'[x].alive = buf[x].alive
      BY <1>1, <3>1 DEF BufferWrite, Buffer
    <3> QED
      BY <1>1, <3>1, <3>2, DelegatesStay
  <2>2. CASE UNCHANGED pdo
    BY <2>2 DEF pdo
  <2> QED
    BY <1>9, <2>1, <2>2 DEF MapForce, SetsValue
<1> QED
  BY <1>2, <1>3, <1>4, <1>6, <1>7, <1>8, <1>9

LEMMA AtObjectStep ==
  ASSUME TypeOK, AtObject, [Next]_vars
  PROVE  AtObject'
<1>1. setup' = setup /\ All' = All /\ NR' = NR /\ Objects' = Objects
  BY SameSetup
<1>2. /\ NR \in Nat /\ Len(setup.tx) \in Nat /\ Len(All) = NR + Len(setup.tx)
      /\ k \in 1 .. Len(All) /\ All[k] \in Objects
      /\ (All[k] \in RX) = (k <= NR) /\ (setup.tx = << >>) = (Len(setup.tx) = 0)
      /\ (setup.rx = << >>) = (NR = 0)
      /\ buf \in [Objects -> Buffer]
  BY Shape, Split DEF TypeOK, Buffer
<1>3. CASE Strand \/ Run \/ Device \/ Calls \/ UNCHANGED vars
  <2>1. buf'[All[k]].alive = buf[All[k]].alive
    BY <1>2, <1>3, Connections
  <2>2. init' = init /\ k' = k
    BY <1>3 DEF Strand, HandleFrame, HandleBuffer, HandleEnd, Run, RunRead, RunWrite, SyncRead,
         SyncSend, Device, DevSends, DevStops, Calls, GetSdo, GetPdo, Set, vars, svc
  <2> QED
    BY <1>1, <2>1, <2>2 DEF AtObject
<1>4. CASE InitReset \/ InitAll \/ InitStart \/ InitFails \/ MapFails
  BY <1>4 DEF AtObject, InitReset, InitAll, InitStart, InitFails, MapFails
<1>5. CASE Shutdown
  BY <1>1, <1>5 DEF AtObject, Shutdown, pdo
<1>6. CASE InitClear
  BY <1>1, <1>2, <1>6 DEF AtObject, InitClear
<1>7. CASE MapAttach
  BY <1>1, <1>2, <1>7, NoBufferFields DEF AtObject, MapAttach
<1>8. CASE MapForce
  <2>1. buf'[All[k]].alive = buf[All[k]].alive
    BY <1>2, <1>8, Connections
  <2> QED
    BY <1>1, <1>2, <1>8, <2>1 DEF AtObject, MapForce
<1>9. CASE MapDelegate
  BY <1>1, <1>9 DEF AtObject, MapDelegate
<1>10. CASE MapClean
  <2>1. /\ init' = IF k = NR THEN "listen" ELSE IF k = Len(All) THEN "all" ELSE "attach"
        /\ k' = IF k = Len(All) THEN 1 ELSE k + 1
    BY <1>10 DEF MapClean, NR
  <2> QED
    BY <1>1, <1>2, <2>1 DEF AtObject
<1>11. CASE InitListen
  BY <1>11 DEF AtObject, InitListen
<1> QED
  BY <1>3, <1>4, <1>5, <1>6, <1>7, <1>8, <1>9, <1>10, <1>11 DEF Next, Initialisation

-------------------------------------------------------------------------------
(* What is read is what was received last                                  *)

\* The objects init is not at are left alone.
LEMMA OtherObjects ==
  ASSUME TypeOK, MapAttach \/ MapForce \/ MapDelegate \/ MapClean
  PROVE  \A x \in Objects : x # All[k] => buf'[x] = buf[x] /\ store'[x] = store[x]
<1>1. store \in [Objects -> Datum] /\ buf \in [Objects -> Buffer] /\ All[k] \in Objects
  BY Split DEF TypeOK, Datum, Buffer
<1>2. CASE MapAttach
  BY <1>1, <1>2 DEF MapAttach, Datum, Buffer
<1>3. CASE MapForce
  BY <1>1, <1>3 DEF MapForce, pdo, Datum, Buffer
<1>4. CASE MapDelegate
  BY <1>1, <1>4 DEF MapDelegate, Datum
<1>5. CASE MapClean
  BY <1>1, <1>5 DEF MapClean, Buffer
<1> QED
  BY <1>2, <1>3, <1>4, <1>5

LEMMA ListensStep ==
  ASSUME TypeOK, AtObject, Listens, [Next]_vars
  PROVE  Listens'
<1>1. setup' = setup /\ All' = All /\ NR' = NR /\ Objects' = Objects /\ RX' = RX /\ TX' = TX
  BY SameSetup
<1>2. /\ NR \in Nat /\ Len(setup.tx) \in Nat /\ Len(All) = NR + Len(setup.tx)
      /\ k \in 1 .. Len(All) /\ All[k] \in Objects
      /\ (All[k] \in RX) = (k <= NR) /\ (All[k] \in TX) = (k > NR)
      /\ (setup.rx = << >>) = (NR = 0) /\ (setup.tx = << >>) = (Len(setup.tx) = 0)
      /\ DOMAIN setup.rx = 1 .. NR
  BY Shape, Split DEF TypeOK
<1>3. \A i \in 1 .. NR : /\ setup.rx[i] \in RX /\ setup.rx[i] \in Objects
                         /\ setup.rx[i] \notin TX
                         /\ i # k => setup.rx[i] # All[k]
                         /\ i = k => setup.rx[i] = All[k]
  <2>1. \A i \in 1 .. NR : i \in 1 .. Len(All) /\ setup.rx[i] = All[i] /\ setup.rx[i] \in RX
                           /\ setup.rx[i] \notin TX
    <3>1. setup \in Setups
      BY DEF TypeOK
    <3>2. \A i \in 1 .. NR : setup.rx[i] = All[i]
      BY <3>1, Shape
    <3>3. \A i \in 1 .. Len(All) : (All[i] \in RX) = (i <= NR) /\ (All[i] \in TX) = (i > NR)
      BY <3>1, Split
    <3>4. \A i \in 1 .. NR : i \in 1 .. Len(All) /\ i <= NR /\ ~(i > NR)
      BY <1>2
    <3> QED
      BY <3>2, <3>3, <3>4
  <2> QED
    BY <1>2, <2>1, Shape DEF TypeOK, Objects
<1>4. /\ strand # 0 => listening
      /\ listening => init # "listen" /\ ~(Mapping /\ k <= NR)
      /\ ~listening => \A o \in RX : received[o] = None
      /\ \A i \in 1 .. NR : MappedRX(i) => buf[setup.rx[i]].alive /\ store[setup.rx[i]].rd = "pdo"
      /\ received \in [RX -> Values \cup {None}]
  BY <1>2 DEF Listens, TypeOK
<1>5. SUFFICES /\ strand' # 0 => listening'
               /\ listening' => init' # "listen" /\ ~(Mapping' /\ k' <= NR)
               /\ ~listening' => \A o \in RX : received'[o] = None
               /\ \A i \in 1 .. NR : MappedRX(i)' =>
                    buf'[setup.rx[i]].alive /\ store'[setup.rx[i]].rd = "pdo"
  BY <1>1, <1>2 DEF Listens
<1>6. CASE Run \/ Device \/ Shutdown \/ UNCHANGED vars
  <2>1. UNCHANGED <<strand, listening, init, k, received>>
    BY <1>6 DEF Run, RunRead, RunWrite, SyncRead, SyncSend, Device, DevSends, DevStops, Shutdown,
         vars, rpdo, svc, hist
  <2>2. \A i \in 1 .. NR : /\ buf'[setup.rx[i]].alive = buf[setup.rx[i]].alive
                           /\ store'[setup.rx[i]].rd = store[setup.rx[i]].rd
    BY <1>3, <1>6, Connections
  <2> QED
    BY <1>4, <2>1, <2>2 DEF Mapping, MappedRX
<1>7. CASE Strand
  <2>1. UNCHANGED <<listening, init, k>> /\ (strand' # 0 => listening')
        /\ (~listening => received' = received)
    <3>1. CASE HandleBuffer
      <4>1. strand # 0
        BY <1>2, <3>1 DEF HandleBuffer
      <4> QED
        BY <1>4, <3>1, <4>1 DEF HandleBuffer, svc
    <3>2. CASE HandleFrame \/ HandleEnd
      BY <3>2 DEF HandleFrame, HandleEnd, svc, hist
    <3> QED
      BY <1>7, <3>1, <3>2 DEF Strand
  <2>2. \A i \in 1 .. NR : /\ buf'[setup.rx[i]].alive = buf[setup.rx[i]].alive
                           /\ store'[setup.rx[i]].rd = store[setup.rx[i]].rd
    BY <1>3, <1>7, Connections
  <2> QED
    BY <1>4, <2>1, <2>2 DEF Mapping, MappedRX
<1>8. CASE Calls \/ InitReset \/ InitAll \/ InitStart \/ InitFails
  <2>1. /\ UNCHANGED <<strand, listening>>
        /\ (init' = init /\ k' = k) \/ init' \in {"idle", "clear", "all", "start"}
    BY <1>8 DEF Calls, GetSdo, GetPdo, Set, InitReset, InitAll, InitStart, InitFails, rpdo, svc
  <2>2. \A o \in RX : received[o] = None => received'[o] = None
    <3>1. \/ received' = received
          \/ \E S : received' = Forget(S, received)
      BY <1>8 DEF Calls, GetSdo, GetPdo, Set, Write, InitReset, InitAll, InitStart, InitFails, hist
    <3> QED
      BY <1>4, <3>1, Forgotten
  <2>3. \A i \in 1 .. NR : /\ buf'[setup.rx[i]].alive = buf[setup.rx[i]].alive
                           /\ store'[setup.rx[i]].rd = store[setup.rx[i]].rd
    BY <1>3, <1>8, Connections
  <2> QED
    BY <1>4, <2>1, <2>2, <2>3 DEF Mapping, MappedRX
<1>9. CASE InitClear
  <2>1. listening' = FALSE /\ strand' = 0 /\ k' = 1
        /\ init' = (IF setup.rx = << >> THEN "listen" ELSE "attach")
    BY <1>9 DEF InitClear
  <2>2. \A o \in RX : received'[o] = None
    BY <1>4, <1>9, Forgotten DEF InitClear
  <2> QED
    BY <1>2, <2>1, <2>2 DEF Mapping, MappedRX
<1>10. CASE MapAttach \/ MapForce \/ MapDelegate
  <2>1. UNCHANGED <<strand, listening, k, received>>
    BY <1>10 DEF MapAttach, MapForce, MapDelegate, rpdo, hist
  <2>2. /\ Mapping /\ Mapping' /\ init # "clean" /\ init' # "listen"
        /\ init' = "clean" => MapDelegate \/ k > NR
    BY <1>2, <1>10 DEF MapAttach, MapForce, MapDelegate, Mapping
  <2>3. \A i \in 1 .. NR : i # k => /\ buf'[setup.rx[i]] = buf[setup.rx[i]]
                                    /\ store'[setup.rx[i]] = store[setup.rx[i]]
    BY <1>3, <1>10, OtherObjects
  <2>4. MapDelegate => buf'[All[k]].alive /\ store'[All[k]].rd = "pdo"
    <3>1. store \in [Objects -> Datum]
      BY DEF TypeOK, Datum
    <3> QED
      BY <1>2, <3>1 DEF MapDelegate, AtObject, Datum
  <2>5. ASSUME NEW i \in 1 .. NR, MappedRX(i)'
        PROVE  buf'[setup.rx[i]].alive /\ store'[setup.rx[i]].rd = "pdo"
    <3>1. CASE i = k
      <4>1. MapDelegate \/ listening
        BY <2>1, <2>2, <2>5, <3>1, <1>2 DEF MappedRX
      <4>2. ~listening
        BY <1>4, <2>2, <3>1
      <4> QED
        BY <1>3, <2>4, <3>1, <4>1, <4>2
    <3>2. CASE i # k
      <4>1. MappedRX(i)
        BY <1>2, <2>1, <2>2, <2>5, <3>2 DEF MappedRX
      <4> QED
        BY <1>4, <2>3, <3>2, <4>1
    <3> QED
      BY <3>1, <3>2
  <2> QED
    BY <1>4, <2>1, <2>2, <2>5
<1>11. CASE MapFails
  <2>1. /\ UNCHANGED <<strand, listening, received, store>> /\ init' = "idle" /\ Mapping
        /\ buf' = Freed(IF k <= NR THEN RX ELSE TX)
    BY <1>2, <1>11 DEF MapFails, rpdo, Mapping
  <2>2. ASSUME NEW i \in 1 .. NR, listening PROVE buf'[setup.rx[i]] = buf[setup.rx[i]]
    <3>1. buf' = Freed(TX)
      BY <1>4, <2>1, <2>2
    <3>2. setup.rx[i] \in Objects /\ setup.rx[i] \notin TX
      BY <1>3
    <3> QED
      BY <3>1, <3>2 DEF Freed
  <2> QED
    BY <1>4, <2>1, <2>2 DEF Mapping, MappedRX
<1>12. CASE MapClean
  <2>1. /\ UNCHANGED <<strand, listening, received, store>> /\ init = "clean"
        /\ init' = IF k = NR THEN "listen" ELSE IF k = Len(All) THEN "all" ELSE "attach"
        /\ k' = IF k = Len(All) THEN 1 ELSE k + 1
        /\ buf' = [buf EXCEPT ![All[k]].dirty = FALSE]
    BY <1>12 DEF MapClean, rpdo, NR
  <2>2. \A x \in Objects : buf'[x].alive = buf[x].alive
    <3>1. buf \in [Objects -> Buffer]
      BY DEF TypeOK, Buffer
    <3> QED
      BY <1>2, <2>1, <3>1, BufferCleaned
  <2>3. ASSUME NEW i \in 1 .. NR, MappedRX(i)' PROVE MappedRX(i)
    <3>1. i <= k \/ listening
      BY <1>2, <2>1, <2>3 DEF MappedRX, Mapping
    <3> QED
      BY <1>2, <2>1, <3>1 DEF MappedRX, Mapping
  <2>4. listening => k > NR
    BY <1>2, <1>4, <2>1 DEF Mapping
  <2>5. listening' => init' # "listen" /\ ~(Mapping' /\ k' <= NR)
    BY <1>2, <2>1, <2>4 DEF Mapping
  <2> QED
    BY <1>3, <1>4, <2>1, <2>2, <2>3, <2>5
<1>13. CASE InitListen
  <2>1. /\ UNCHANGED <<strand, received, store, k>> /\ init = "listen"
        /\ listening' = (setup.rx # << >>)
        /\ init' = (IF setup.tx = << >> THEN "all" ELSE "attach")
        /\ buf' = Freed(TX)
    BY <1>13 DEF InitListen
  <2>2. \A i \in 1 .. NR : buf'[setup.rx[i]] = buf[setup.rx[i]]
    BY <1>3, <2>1 DEF Freed
  <2>3. strand = 0
    BY <1>4, <2>1
  <2>4. \A o \in RX : received'[o] = None
    BY <1>4, <2>1
  <2>5. listening' => init' # "listen" /\ ~(Mapping' /\ k' <= NR)
    BY <1>2, <2>1 DEF Mapping, AtObject
  <2>6. \A i \in 1 .. NR : MappedRX(i)
    BY <2>1 DEF MappedRX
  <2> QED
    BY <1>4, <2>1, <2>2, <2>3, <2>4, <2>5, <2>6
<1> QED
  BY <1>6, <1>7, <1>8, <1>9, <1>10, <1>11, <1>12, <1>13 DEF Next, Initialisation

\* What is known of an object as long as nothing is written, received or freed.
Holds(o) ==
  received[o] # None =>
    /\ buf[o].alive /\ store[o].rd = "pdo"
    /\ received[o] = IF buf[o].dirty THEN buf[o].value ELSE store[o].value

LEMMA ReceivedIsReadStep ==
  ASSUME TypeOK, Listens, ReceivedIsRead, [Next]_vars
  PROVE  ReceivedIsRead'
<1>1. setup' = setup /\ RX' = RX /\ TX' = TX /\ All' = All /\ Objects' = Objects
  BY SameSetup
<1>2. /\ store \in [Objects -> Datum] /\ buf \in [Objects -> Buffer]
      /\ received \in [RX -> Values \cup {None}] /\ None \notin Values
      /\ \A x \in Objects : buf[x].dirty => ~buf[x].empty
  BY PdoMapperAssumption DEF TypeOK, Datum, Buffer
<1>3. /\ NR \in Nat /\ k \in 1 .. Len(All) /\ All[k] \in Objects
      /\ (All[k] \in RX) = (k <= NR) /\ (All[k] \in TX) = (k > NR)
      /\ DOMAIN setup.rx = 1 .. NR /\ DOMAIN setup.tx = 1 .. Len(setup.tx)
      /\ Len(setup.tx) \in Nat
      /\ \A i \in 1 .. NR : setup.rx[i] \in RX
      /\ \A j \in 1 .. Len(setup.tx) : setup.tx[j] \in TX
      /\ setup.init \in [Objects -> Values \cup {None}]
  BY Shape, Split DEF TypeOK
<1>4. \A o \in RX : o \in Objects /\ o \notin TX
  BY Split DEF TypeOK, Objects
<1>5. (strand # 0 => listening) /\ (~listening => \A o \in RX : received[o] = None)
      /\ (listening => init # "listen" /\ ~(Mapping /\ k <= NR))
      /\ \A i \in 1 .. NR : listening => buf[setup.rx[i]].alive /\ store[setup.rx[i]].rd = "pdo"
  BY <1>3 DEF Listens, MappedRX
<1>6. SUFFICES ASSUME NEW o \in RX
               PROVE  Holds(o)'
  BY <1>1 DEF ReceivedIsRead, Holds
<1>7. Holds(o)
  BY DEF ReceivedIsRead, Holds
<1>8. (received'[o] = received[o] /\ buf'[o] = buf[o] /\ store'[o] = store[o]) => Holds(o)'
  BY <1>7 DEF Holds
<1>9. received'[o] = None => Holds(o)'
  BY DEF Holds
<1>10. ASSUME NEW x \in Objects, NEW v \in Values, Write(x, v) PROVE Holds(o)'
  <2>1. CASE x = o
    <3>1. received' = Forget({o}, received)
      BY <1>10, <2>1 DEF Write
    <3> QED
      BY <1>2, <1>9, <3>1, Forgotten
  <2>2. CASE x # o
    <3>1. buf'[o] = buf[o] /\ store'[o] = store[o] /\ received' = Forget({x}, received)
      BY <1>4, <1>10, <2>2, Written
    <3>2. received'[o] = received[o]
      BY <1>2, <2>2, <3>1, Forgotten
    <3> QED
      BY <1>8, <3>1, <3>2
  <2> QED
    BY <2>1, <2>2
<1>11. CASE HandleBuffer
  <2> DEFINE x == setup.rx[strand]
  <2> DEFINE v == Head(bus)[x]
  <2>1. strand \in 1 .. NR
    BY <1>3, <1>11 DEF HandleBuffer
  <2>2. x \in RX /\ x \in Objects /\ buf[x].alive /\ store[x].rd = "pdo"
    BY <1>3, <1>4, <1>5, <2>1
  <2>3. v \in Values
    <3>1. strand # 0
      BY <1>3, <2>1
    <3>2. bus # << >> /\ bus \in Seq([RX -> Values])
      BY <3>1 DEF TypeOK
    <3>3. Head(bus) \in [RX -> Values]
      BY <3>2
    <3> QED
      BY <2>2, <3>3
  <2>4. buf' = [buf EXCEPT ![x] = BufferWrite(@, v)] /\ received' = [received EXCEPT ![x] = v]
        /\ store' = store
    BY <1>11 DEF HandleBuffer
  <2> HIDE DEF x, v
  <2>5. /\ buf'[x].value = v /\ buf'[x].dirty = TRUE
        /\ \A y \in Objects : buf'[y].alive = buf[y].alive /\ (y # x => buf'[y] = buf[y])
    BY <1>2, <2>2, <2>3, <2>4, BufferWritten
  <2>6. CASE o = x
    BY <1>2, <2>2, <2>4, <2>5, <2>6 DEF Holds
  <2>7. CASE o # x
    BY <1>2, <1>4, <1>8, <2>2, <2>4, <2>5, <2>7
  <2> QED
    BY <2>6, <2>7
<1>12. CASE HandleFrame \/ HandleEnd \/ RunRead \/ RunWrite \/ SyncSend \/ Device \/ InitStart
              \/ InitFails \/ Shutdown \/ UNCHANGED vars
  BY <1>8, <1>12 DEF HandleFrame, HandleEnd, RunRead, RunWrite, SyncSend, Device, DevSends,
       DevStops, InitStart, InitFails, Shutdown, vars, pdo, hist
<1>13. CASE SyncRead
  <2> DEFINE x == setup.tx[next]
  <2>1. x \in TX /\ x \in Objects /\ x # o
    BY <1>3, <1>4, <1>13 DEF SyncRead, Objects
  <2>2. buf' = [buf EXCEPT ![x].dirty = FALSE] /\ store' = store /\ received' = received
    BY <1>13 DEF SyncRead, hist
  <2> HIDE DEF x
  <2>3. buf'[o] = buf[o]
    BY <1>2, <1>4, <2>1, <2>2, BufferCleaned
  <2> QED
    BY <1>8, <2>2, <2>3
<1>14. CASE Calls
  <2>1. ASSUME NEW x \in Objects, GetSdo(x) PROVE Holds(o)'
    <3>1. buf' = buf /\ received' = received /\ store[x].rd = "sdo"
      BY <2>1 DEF GetSdo
    <3>2. CASE x = o
      BY <1>7, <1>9, <3>1, <3>2 DEF Holds
    <3>3. CASE x # o
      <4>1. store'[o] = store[o]
        BY <1>2, <1>4, <2>1, <3>3 DEF GetSdo, Datum
      <4> QED
        BY <1>8, <3>1, <4>1
    <3> QED
      BY <3>2, <3>3
  <2>2. ASSUME NEW x \in Objects, GetPdo(x) PROVE Holds(o)'
    <3>1. received' = received
      BY <2>2 DEF GetPdo, hist
    <3>2. CASE x # o
      <4>1. buf'[o] = buf[o]
        BY <1>2, <1>4, <2>2, <3>2 DEF GetPdo, Buffer
      <4>2. store'[o] = store[o]
        BY <1>2, <1>4, <2>2, <3>2 DEF GetPdo, Datum
      <4> QED
        BY <1>8, <3>1, <4>1, <4>2
    <3>3. CASE x = o /\ received[o] # None
      <4>1. /\ buf[o].alive
            /\ store' = [store EXCEPT ![o].value = IF buf[o].dirty THEN buf[o].value ELSE @,
                                      ![o].valid = TRUE]
            /\ buf' = [buf EXCEPT ![o].dirty = FALSE]
        BY <1>7, <2>2, <3>3 DEF Holds, GetPdo
      <4>2. buf'[o].alive = buf[o].alive /\ buf'[o].dirty = FALSE
        BY <1>2, <1>4, <4>1 DEF Buffer
      <4>3. store'[o].rd = store[o].rd
            /\ store'[o].value = IF buf[o].dirty THEN buf[o].value ELSE store[o].value
        BY <1>2, <1>4, <4>1 DEF Datum
      <4> QED
        BY <1>7, <3>1, <3>3, <4>1, <4>2, <4>3 DEF Holds
    <3> QED
      BY <1>9, <3>1, <3>2, <3>3
  <2>3. ASSUME NEW x \in Objects, NEW v \in Values, Set(x, v) PROVE Holds(o)'
    BY <1>10, <2>3 DEF Set
  <2> QED
    BY <1>14, <2>1, <2>2, <2>3 DEF Calls
<1>15. CASE InitAll
  <2>1. CASE ToInit(All[k]) /\ Write(All[k], setup.init[All[k]])
    <3>1. setup.init[All[k]] \in Values
      BY <1>3, <2>1 DEF ToInit
    <3> QED
      BY <1>3, <1>10, <2>1, <3>1
  <2>2. CASE UNCHANGED <<pdo, dev, hist>>
    BY <1>8, <2>2 DEF pdo, hist
  <2> QED
    BY <1>15, <2>1, <2>2 DEF InitAll
<1>16. CASE InitReset \/ InitClear
  BY <1>2, <1>9, <1>16, Forgotten DEF InitReset, InitClear
<1>17. CASE MapAttach \/ MapForce \/ MapDelegate \/ MapClean
  <2>1. received' = received /\ Mapping
    BY <1>17 DEF MapAttach, MapForce, MapDelegate, MapClean, Mapping, hist
  <2>2. CASE k <= NR
    BY <1>5, <1>9, <2>1, <2>2
  <2>3. CASE k > NR
    <3>1. o # All[k]
      BY <1>3, <1>4, <2>3
    <3> QED
      BY <1>4, <1>8, <1>17, <2>1, <3>1, OtherObjects
  <2> QED
    BY <1>3, <2>2, <2>3
<1>18. CASE MapFails
  <2>1. received' = received /\ Mapping /\ store' = store
        /\ buf' = Freed(IF All[k] \in RX THEN RX ELSE TX)
    BY <1>18 DEF MapFails, Mapping
  <2>2. CASE k <= NR
    BY <1>5, <1>9, <2>1, <2>2
  <2>3. CASE k > NR
    <3>1. buf' = Freed(TX)
      BY <1>3, <2>1, <2>3
    <3> QED
      BY <1>4, <1>8, <2>1, <3>1 DEF Freed
  <2> QED
    BY <1>3, <2>2, <2>3
<1>19. CASE InitListen
  <2>1. received' = received /\ init = "listen"
    BY <1>19 DEF InitListen
  <2> QED
    BY <1>5, <1>9, <2>1
<1> QED
  BY <1>11, <1>12, <1>13, <1>14, <1>15, <1>16, <1>17, <1>18, <1>19
     DEF Next, Initialisation, Strand, Run

-------------------------------------------------------------------------------
(* What is sent is current                                                 *)

\* The objects of the PDO TPDO::sync reads, one after the other.
LEMMA ReadNext ==
  ASSUME TypeOK, Current, run = "sync" => next' = next + 1, run # "sync" => next' = next,
         setup' = setup, NEW o \in TX, WasRead(o)'
  PROVE  WasRead(o) \/ (run = "sync" /\ o = setup.tx[next])
<1>1. next \in Nat /\ next >= 1
  BY Shape DEF TypeOK
<1>2. PICK j \in 1 .. next' - 1 : setup.tx[j] = o
  BY DEF WasRead
<1>3. CASE run = "sync"
  BY <1>1, <1>2, <1>3 DEF WasRead
<1>4. CASE run # "sync"
  BY <1>1, <1>2, <1>4 DEF WasRead
<1> QED
  BY <1>3, <1>4

\* While init works nothing has been read.
LEMMA NothingRead ==
  ASSUME Current, run # "sync"
  PROVE  next = 1 /\ \A o : ~WasRead(o)
BY DEF Current, WasRead

LEMMA CurrentStep ==
  ASSUME TypeOK, Alone, Current, [Next]_vars
  PROVE  Current'
<1>1. setup' = setup /\ RX' = RX /\ TX' = TX /\ All' = All /\ Objects' = Objects
  BY SameSetup
<1>2. /\ store \in [Objects -> Datum] /\ buf \in [Objects -> Buffer]
      /\ frame \in [TX -> Values]
      /\ \A x \in Objects : buf[x].dirty => ~buf[x].empty
      /\ next \in 1 .. Len(setup.tx) + 1
  BY DEF TypeOK, Datum, Buffer
<1>3. /\ NR \in Nat /\ DOMAIN setup.rx = 1 .. NR /\ DOMAIN setup.tx = 1 .. Len(setup.tx)
      /\ Len(setup.tx) \in Nat
      /\ \A i \in 1 .. NR : setup.rx[i] \in RX
      /\ \A j \in 1 .. Len(setup.tx) : setup.tx[j] \in TX
  BY Shape, Split DEF TypeOK
<1>4. \A o \in TX : o \in Objects /\ o \notin RX
  BY Split DEF TypeOK, Objects
<1>5. ASSUME UNCHANGED <<next, run, frame>>,
             \A o \in TX : buf'[o] = buf[o] \/ (run = "sync" => o \in late'), late \subseteq late'
      PROVE  Current'
  <2>1. \A o \in TX : WasRead(o)' = WasRead(o)
    BY <1>1, <1>5 DEF WasRead
  <2>2. CASE run = "sync"
    BY <1>1, <1>5, <2>1, <2>2 DEF Current
  <2>3. CASE run # "sync"
    BY <1>1, <1>5, <2>1, <2>3, NothingRead DEF Current
  <2> QED
    BY <2>2, <2>3
<1>6. ASSUME run' # "sync", next' = 1 PROVE Current'
  BY <1>6 DEF Current, WasRead
<1>7. CASE Initialisation /\ ~Shutdown
  <2>1. init # "idle" \/ run = "read"
    BY <1>7 DEF Initialisation, InitReset, InitClear, MapAttach, MapForce, MapFails, MapDelegate,
         MapClean, InitListen, InitAll, InitStart, InitFails
  <2>2. run = "read" /\ next = 1
    BY <2>1 DEF Alone, Current
  <2>3. run' = run /\ next' = next
    BY <1>7 DEF Initialisation, InitReset, InitClear, MapAttach, MapForce, MapFails, MapDelegate,
         MapClean, InitListen, InitAll, InitStart, InitFails, tpdo
  <2> QED
    BY <1>6, <2>2, <2>3
<1>8. CASE Shutdown \/ Device \/ HandleFrame \/ HandleEnd \/ UNCHANGED vars
  BY <1>5, <1>8 DEF Shutdown, Device, DevSends, DevStops, HandleFrame, HandleEnd, vars, pdo, tpdo,
       hist
<1>9. CASE HandleBuffer
  <2>1. UNCHANGED <<next, run, frame, late>>
    BY <1>9 DEF HandleBuffer, tpdo
  <2>2. setup.rx[strand] \in RX
    BY <1>3, <1>9 DEF HandleBuffer
  <2>3. \A o \in TX : buf'[o] = buf[o]
    BY <1>2, <1>4, <1>9, <2>2 DEF HandleBuffer, Buffer
  <2> QED
    BY <1>5, <2>1, <2>3
<1>10. CASE Calls
  <2>1. UNCHANGED <<next, run, frame>>
    BY <1>10 DEF Calls, GetSdo, GetPdo, Set, tpdo
  <2>2. ASSUME NEW x \in Objects, GetSdo(x) PROVE Current'
    BY <1>5, <2>1, <2>2 DEF GetSdo
  <2>3. ASSUME NEW x \in Objects, GetPdo(x) PROVE Current'
    <3>1. late' = late /\ (buf' = buf \/ buf' = [buf EXCEPT ![x].dirty = FALSE])
      BY <2>3 DEF GetPdo, hist
    <3>2. \A o \in TX : buf'[o].empty = buf[o].empty /\ buf'[o].value = buf[o].value
      BY <1>2, <1>4, <3>1, BufferCleaned
    <3> QED
      BY <1>1, <2>1, <3>1, <3>2 DEF Current, WasRead
  <2>4. ASSUME NEW x \in Objects, NEW v \in Values, Set(x, v) PROVE Current'
    <3>1. Write(x, v)
      BY <2>4 DEF Set
    <3>2. late \subseteq late' /\ (run = "sync" => x \in late' \/ buf'[x] = buf[x])
          /\ \A o \in Objects : o # x => buf'[o] = buf[o]
      BY <3>1, Written
    <3>3. run = "sync" => \A o \in TX : buf'[o] = buf[o] \/ o \in late'
      BY <1>4, <3>2
    <3>4. CASE run = "sync"
      BY <1>5, <2>1, <3>2, <3>3, <3>4
    <3>5. CASE run # "sync"
      BY <1>6, <2>1, <3>5 DEF Current
    <3> QED
      BY <3>4, <3>5
  <2> QED
    BY <1>10, <2>2, <2>3, <2>4 DEF Calls
<1>11. CASE RunRead \/ SyncSend
  BY <1>6, <1>11 DEF RunRead, SyncSend, Current
<1>12. CASE RunWrite
  <2>1. next' = 1 /\ next = 1
    BY <1>12 DEF RunWrite, Current
  <2> QED
    BY <2>1 DEF Current, WasRead
<1>13. CASE SyncRead
  <2> DEFINE x == setup.tx[next]
  <2>1. /\ run = "sync" /\ run' = "sync" /\ next' = next + 1 /\ UNCHANGED late
        /\ frame' = IF buf[x].empty THEN frame ELSE [frame EXCEPT ![x] = buf[x].value]
        /\ buf' = [buf EXCEPT ![x].dirty = FALSE]
    BY <1>13 DEF SyncRead, hist
  <2>2. x \in TX /\ x \in Objects
    BY <1>3, <1>4, <1>13 DEF SyncRead
  <2> HIDE DEF x
  <2>3. \A o \in Objects : buf'[o].empty = buf[o].empty /\ buf'[o].value = buf[o].value
    BY <1>2, <2>1, <2>2, BufferCleaned
  <2>4. ASSUME NEW o \in TX, WasRead(o)'
        PROVE  buf'[o].empty \/ o \in late' \/ frame'[o] = buf'[o].value
    <3>1. WasRead(o) \/ o = x
      BY <1>1, <2>1, <2>4, ReadNext DEF x
    <3>2. CASE o = x
      BY <1>2, <2>1, <2>2, <2>3, <3>2
    <3>3. CASE o # x
      BY <1>2, <1>4, <2>1, <2>2, <2>3, <3>1, <3>3 DEF Current
    <3> QED
      BY <3>2, <3>3
  <2> QED
    BY <1>1, <2>1, <2>4 DEF Current
<1> QED
  BY <1>7, <1>8, <1>9, <1>10, <1>11, <1>12, <1>13 DEF Next, Strand, Run

\* A frame that is complete is current.
LEMMA CurrentIsSent ==
  ASSUME TypeOK, Current
  PROVE  SentIsCurrent
<1>1. /\ Len(setup.tx) \in Nat /\ next \in 1 .. Len(setup.tx) + 1
      /\ \A o \in TX : \E j \in 1 .. Len(setup.tx) : o = setup.tx[j]
  BY Shape, Split DEF TypeOK
<1>2. ASSUME Assembled, NEW o \in TX PROVE WasRead(o)
  <2>1. next - 1 = Len(setup.tx)
    BY <1>1, <1>2 DEF Assembled
  <2> QED
    BY <1>1, <2>1 DEF WasRead
<1> QED
  BY <1>2 DEF SentIsCurrent, Current

-------------------------------------------------------------------------------
(* What nobody set is sent as the device has it                            *)

CacheKept(o) == /\ store[o].valid => store[o].value = dev[o]
                /\ up /\ WasRead(o) => frame[o] = dev[o]
BufferKept(j) == MappedTX(j) => ~buf[setup.tx[j]].empty /\ buf[setup.tx[j]].value = dev[setup.tx[j]]

LEMMA KeptParts ==
  ASSUME TypeOK
  PROVE  Kept <=> /\ \A o \in TX : store[o].rd = "sdo"
                  /\ \A o \in Theirs : CacheKept(o)
                  /\ \A j \in 1 .. Len(setup.tx) : setup.tx[j] \in Theirs => BufferKept(j)
BY Shape DEF Kept, CacheKept, BufferKept, TypeOK

\* Objects that are sent are always read from the device.
LEMMA ReadFromDevice ==
  ASSUME TypeOK, AtObject, \A o \in TX : store[o].rd = "sdo", [Next]_vars
  PROVE  \A o \in TX : store'[o].rd = "sdo"
<1>1. \A o \in TX : o \in Objects /\ o \notin RX
  BY Split DEF TypeOK, Objects
<1>2. store \in [Objects -> Datum] /\ All[k] \in Objects /\ ((All[k] \in RX) = (k <= NR))
  BY Split DEF TypeOK, Datum
<1>3. CASE MapAttach
  BY <1>1, <1>2, <1>3 DEF MapAttach, Datum
<1>4. CASE MapDelegate
  <2>1. All[k] \in RX
    BY <1>2, <1>4 DEF MapDelegate, AtObject
  <2> QED
    BY <1>1, <1>2, <1>4, <2>1 DEF MapDelegate, Datum
<1>5. CASE InitClear \/ InitListen \/ MapFails \/ MapClean
  BY <1>5 DEF InitClear, InitListen, MapFails, MapClean
<1>6. CASE Strand \/ Run \/ Device \/ Calls \/ InitReset \/ InitAll \/ InitStart
             \/ InitFails \/ Shutdown \/ MapForce \/ UNCHANGED vars
  BY <1>1, <1>6, Connections
<1> QED
  BY <1>3, <1>4, <1>5, <1>6 DEF Next, Initialisation

LEMMA KeptStep ==
  ASSUME TypeOK, TypeOK', Alone, AtObject, Current, Current', Kept, [Next]_vars
  PROVE  Kept'
<1>1. setup' = setup /\ RX' = RX /\ TX' = TX /\ All' = All /\ Objects' = Objects /\ NR' = NR
  BY SameSetup
<1>2. /\ store \in [Objects -> Datum] /\ buf \in [Objects -> Buffer]
      /\ frame \in [TX -> Values] /\ dev \in [TX -> Values]
      /\ \A x \in Objects : buf[x].dirty => ~buf[x].empty
      /\ next \in 1 .. Len(setup.tx) + 1
  BY DEF TypeOK, Datum, Buffer
<1>3. /\ NR \in Nat /\ Len(setup.tx) \in Nat /\ Len(All) = NR + Len(setup.tx)
      /\ DOMAIN setup.rx = 1 .. NR /\ DOMAIN setup.tx = 1 .. Len(setup.tx)
      /\ k \in 1 .. Len(All) /\ All[k] \in Objects
      /\ (All[k] \in RX) = (k <= NR) /\ (All[k] \in TX) = (k > NR)
      /\ (setup.tx = << >>) = (Len(setup.tx) = 0)
      /\ setup.init \in [Objects -> Values \cup {None}]
  BY Shape, Split DEF TypeOK
<1>4. \A o \in TX : o \in Objects /\ o \notin RX
  BY Split DEF TypeOK, Objects
<1>5. \A j \in 1 .. Len(setup.tx) : /\ setup.tx[j] \in TX
                                    /\ NR + j = k => setup.tx[j] = All[k]
                                    /\ NR + j # k => setup.tx[j] # All[k]
  <2>1. /\ \A j \in 1 .. Len(setup.tx) : setup.tx[j] \in TX /\ setup.tx[j] = All[NR + j]
        /\ \A i, j \in 1 .. Len(All) : All[i] = All[j] => i = j
    BY Shape, Split DEF TypeOK
  <2>2. \A j \in 1 .. Len(setup.tx) : NR + j \in 1 .. Len(All)
    BY <1>3
  <2> QED
    BY <1>3, <2>1, <2>2
<1>6. /\ \A o \in TX : store[o].rd = "sdo"
      /\ \A o \in Theirs : CacheKept(o)
      /\ \A j \in 1 .. Len(setup.tx) : setup.tx[j] \in Theirs => BufferKept(j)
  BY KeptParts
<1>7. \A o \in TX : store'[o].rd = "sdo"
  BY <1>6, ReadFromDevice
<1>8. SUFFICES /\ \A o \in Theirs' : CacheKept(o)'
               /\ \A j \in 1 .. Len(setup.tx) : setup.tx[j] \in Theirs' => BufferKept(j)'
  BY <1>1, <1>3, <1>7 DEF Kept, CacheKept, BufferKept
<1>9. ASSUME NEW o \in Theirs', o \in Theirs,
             store'[o].valid => store'[o].value = dev'[o],
             up' /\ WasRead(o)' => frame'[o] = dev'[o]
      PROVE  CacheKept(o)'
  BY <1>9 DEF CacheKept
<1>10. ASSUME UNCHANGED <<next, frame, up, init, k>>, untouched' \subseteq untouched,
              \A o \in Theirs : (o \in untouched') =>
                 /\ dev'[o] = dev[o] /\ buf'[o].value = buf[o].value /\ buf'[o].empty = buf[o].empty
                 /\ store'[o].valid => store'[o].value = dev[o]
       PROVE  <1>8!1
  <2>1. \A o \in TX : WasRead(o)' = WasRead(o)
    BY <1>1, <1>10 DEF WasRead
  <2>2. Theirs' \subseteq Theirs
    BY <1>1, <1>10 DEF Theirs
  <2>3. \A j \in 1 .. Len(setup.tx) : MappedTX(j)' = MappedTX(j)
    BY <1>1, <1>10 DEF MappedTX, Mapping
  <2>4. \A o \in Theirs' : CacheKept(o)'
    BY <1>1, <1>6, <1>10, <2>1, <2>2 DEF CacheKept, Theirs
  <2>5. ASSUME NEW j \in 1 .. Len(setup.tx), setup.tx[j] \in Theirs' PROVE BufferKept(j)'
    BY <1>1, <1>5, <1>6, <1>10, <2>2, <2>3, <2>5 DEF BufferKept, Theirs
  <2> QED
    BY <2>4, <2>5
\* Steps that leave the objects that are sent alone.
<1>11. CASE HandleFrame \/ HandleEnd \/ Device \/ UNCHANGED vars
  <2>1. UNCHANGED <<next, frame, up, init, k, untouched, dev, buf, store>>
    BY <1>11 DEF HandleFrame, HandleEnd, Device, DevSends, DevStops, vars, pdo, tpdo, svc,
         node, hist
  <2> QED
    BY <1>6, <1>10, <2>1 DEF CacheKept
<1>12. CASE HandleBuffer
  <2>1. UNCHANGED <<next, frame, up, init, k, untouched, dev, store>>
    BY <1>12 DEF HandleBuffer, tpdo, svc, node
  <2>2. \A o \in TX : buf'[o] = buf[o]
    <3>1. setup.rx[strand] \in RX
      BY <1>3, <1>12, Split DEF HandleBuffer, TypeOK
    <3> QED
      BY <1>2, <1>4, <1>12, <3>1 DEF HandleBuffer, Buffer
  <2> QED
    BY <1>6, <1>10, <2>1, <2>2 DEF CacheKept, Theirs
<1>13. ASSUME NEW x \in Objects, NEW v \in Values, Write(x, v)
       PROVE  /\ untouched' \subseteq untouched
              /\ \A o \in Theirs : (o \in untouched') =>
                   /\ dev'[o] = dev[o] /\ buf'[o].value = buf[o].value
                   /\ buf'[o].empty = buf[o].empty
                   /\ store'[o].valid => store'[o].value = dev[o]
  <2>1. /\ untouched' = untouched \ {x}
        /\ \A o \in Objects : o # x => store'[o] = store[o] /\ buf'[o] = buf[o]
        /\ \A o \in TX : o # x => dev'[o] = dev[o]
    BY <1>13, Written
  <2> QED
    BY <1>4, <1>6, <2>1 DEF Theirs, CacheKept
<1>14. CASE Calls
  <2>1. ASSUME NEW x \in Objects, NEW v \in Values, Set(x, v) PROVE <1>8!1
    BY <1>10, <1>13, <2>1 DEF Set, tpdo, svc
  <2>2. ASSUME NEW x \in Objects, GetSdo(x) PROVE <1>8!1
    <3>1. UNCHANGED <<next, frame, up, init, k, dev, buf>> /\ untouched' \subseteq untouched
      BY <2>2 DEF GetSdo, tpdo, svc, node
    <3>2. ASSUME NEW o \in Theirs, o \in untouched'
          PROVE  store'[o].valid => store'[o].value = dev[o]
      <4>1. o \in TX /\ o \in Objects
        BY <1>4 DEF Theirs
      <4>2. CASE o = x
        BY <1>2, <2>2, <3>2, <4>1, <4>2 DEF GetSdo, DevValues, Datum
      <4>3. CASE o # x
        <5>1. store'[o] = store[o]
          BY <1>2, <2>2, <4>1, <4>3 DEF GetSdo, Datum
        <5> QED
          BY <1>6, <5>1 DEF CacheKept
      <4> QED
        BY <4>2, <4>3
    <3> QED
      BY <1>10, <3>1, <3>2
  <2>3. ASSUME NEW x \in Objects, GetPdo(x) PROVE <1>8!1
    <3>1. UNCHANGED <<next, frame, up, init, k, dev, untouched>> /\ x \notin TX
      BY <1>6, <2>3 DEF GetPdo, tpdo, svc, node, hist
    <3>2. \A o \in TX : buf'[o] = buf[o]
      BY <1>2, <1>4, <2>3, <3>1 DEF GetPdo, Buffer
    <3>3. \A o \in TX : store'[o] = store[o]
      BY <1>2, <1>4, <2>3, <3>1 DEF GetPdo, Datum
    <3> QED
      BY <1>6, <1>10, <3>1, <3>2, <3>3 DEF CacheKept, Theirs
  <2> QED
    BY <1>14, <2>1, <2>2, <2>3 DEF Calls
\* The run thread.
<1>15. CASE RunRead \/ RunWrite
  <2>1. UNCHANGED <<next, frame, up, init, k, untouched, dev, buf, store>>
    BY <1>15 DEF RunRead, RunWrite, pdo, svc, node, hist
  <2> QED
    BY <1>6, <1>10, <2>1 DEF CacheKept
<1>16. CASE SyncRead
  <2> DEFINE x == setup.tx[next]
  <2>1. /\ run = "sync" /\ next' = next + 1
        /\ UNCHANGED <<up, init, k, untouched, dev, store>>
        /\ frame' = IF buf[x].empty THEN frame ELSE [frame EXCEPT ![x] = buf[x].value]
        /\ buf' = [buf EXCEPT ![x].dirty = FALSE]
    BY <1>16 DEF SyncRead, svc, node, hist
  <2>2. x \in TX /\ x \in Objects /\ next \in 1 .. Len(setup.tx)
    BY <1>3, <1>4, <1>5, <1>16 DEF SyncRead
  <2>3. \A j \in 1 .. Len(setup.tx) : MappedTX(j)' = MappedTX(j)
    BY <1>1, <2>1 DEF MappedTX, Mapping
  <2>4. Theirs' = Theirs
    BY <1>1, <2>1 DEF Theirs
  <2>5. up /\ x \in Theirs => buf[x].empty = FALSE /\ buf[x].value = dev[x]
    <3>1. up => MappedTX(next)
      BY DEF MappedTX
    <3> QED
      BY <1>2, <1>6, <2>2, <3>1 DEF BufferKept, Buffer
  <2> HIDE DEF x
  <2>6. \A o \in Objects : buf'[o].empty = buf[o].empty /\ buf'[o].value = buf[o].value
    BY <1>2, <2>1, <2>2, BufferCleaned
  <2>7. ASSUME NEW o \in Theirs', up', WasRead(o)' PROVE frame'[o] = dev'[o]
    <3>1. o \in TX /\ o \in Theirs /\ up
      BY <2>1, <2>4, <2>7 DEF Theirs
    <3>2. WasRead(o) \/ o = x
      BY <1>1, <2>1, <2>7, <3>1, ReadNext DEF x
    <3>3. CASE o = x
      BY <1>2, <2>1, <2>2, <2>5, <3>1, <3>3
    <3>4. CASE o # x
      <4>1. frame[o] = dev[o]
        BY <1>6, <3>1, <3>2, <3>4 DEF CacheKept
      <4> QED
        BY <1>2, <2>1, <2>2, <3>1, <3>4, <4>1
    <3> QED
      BY <3>3, <3>4
  <2>8. \A o \in Theirs' : CacheKept(o)'
    BY <1>6, <2>1, <2>4, <2>7 DEF CacheKept
  <2>9. ASSUME NEW j \in 1 .. Len(setup.tx), setup.tx[j] \in Theirs' PROVE BufferKept(j)'
    BY <1>1, <1>4, <1>5, <1>6, <2>1, <2>3, <2>4, <2>6, <2>9 DEF BufferKept
  <2> QED
    BY <2>8, <2>9
<1>17. CASE SyncSend
  <2>1. /\ UNCHANGED <<up, init, k, untouched, buf, store>> /\ next' = 1
        /\ dev' = IF updated /\ up THEN frame ELSE dev
    BY <1>17 DEF SyncSend, pdo, svc
  <2>2. ASSUME NEW o \in TX PROVE WasRead(o)
    <3>1. next - 1 = Len(setup.tx) /\ \E j \in 1 .. Len(setup.tx) : o = setup.tx[j]
      <4>1. next - 1 = Len(setup.tx)
        BY <1>2, <1>3, <1>17 DEF SyncSend, Assembled
      <4> QED
        BY <4>1, Split DEF TypeOK
    <3> QED
      BY <3>1 DEF WasRead
  <2>3. \A o \in Theirs : dev'[o] = dev[o]
    BY <1>6, <2>1, <2>2 DEF CacheKept, Theirs
  <2>4. Theirs' = Theirs /\ \A o \in TX : ~WasRead(o)'
    BY <1>1, <2>1 DEF Theirs, WasRead
  <2>5. \A o \in Theirs' : CacheKept(o)'
    BY <1>6, <2>1, <2>3, <2>4 DEF CacheKept, Theirs
  <2>6. \A j \in 1 .. Len(setup.tx) : MappedTX(j)' = MappedTX(j)
    BY <1>1, <2>1 DEF MappedTX, Mapping
  <2>7. ASSUME NEW j \in 1 .. Len(setup.tx), setup.tx[j] \in Theirs' PROVE BufferKept(j)'
    BY <1>1, <1>6, <2>1, <2>3, <2>4, <2>6, <2>7 DEF BufferKept
  <2> QED
    BY <2>5, <2>7
\* While init works the node is down and nothing has been read.
<1>18. ASSUME init # "idle", UNCHANGED <<up, tpdo>>
       PROVE  ~up' /\ \A o \in TX : ~WasRead(o)'
  BY <1>1, <1>18, NothingRead DEF Alone, WasRead, tpdo
<1>19. CASE InitAll
  <2>1. /\ UNCHANGED <<up, tpdo>> /\ init = "all" /\ init' \in {"all", "start"}
    BY <1>19 DEF InitAll
  <2>2. ~up' /\ \A o \in TX : ~WasRead(o)'
    BY <1>18, <2>1
  <2>3. /\ untouched' \subseteq untouched
        /\ \A o \in Theirs : (o \in untouched') =>
             /\ dev'[o] = dev[o] /\ buf'[o].value = buf[o].value
             /\ buf'[o].empty = buf[o].empty
             /\ store'[o].valid => store'[o].value = dev[o]
    <3>1. CASE ToInit(All[k]) /\ Write(All[k], setup.init[All[k]])
      <4>1. setup.init[All[k]] \in Values
        BY <1>3, <3>1 DEF ToInit
      <4> QED
        BY <1>3, <1>13, <3>1, <4>1
    <3>2. CASE UNCHANGED <<pdo, dev, hist>>
      BY <1>6, <3>2 DEF pdo, hist, CacheKept
    <3> QED
      BY <1>19, <3>1, <3>2 DEF InitAll
  <2>4. \A o \in Theirs' : o \in Theirs /\ o \in TX /\ o \in untouched'
    BY <1>1, <2>3 DEF Theirs
  <2>5. \A o \in Theirs' : CacheKept(o)'
    BY <2>2, <2>3, <2>4 DEF CacheKept
  <2>6. ASSUME NEW j \in 1 .. Len(setup.tx), setup.tx[j] \in Theirs' PROVE BufferKept(j)'
    <3>1. MappedTX(j)
      BY <2>1 DEF MappedTX
    <3> QED
      BY <1>1, <1>6, <2>3, <2>4, <2>6, <3>1 DEF BufferKept
  <2> QED
    BY <2>5, <2>6
<1>20. CASE InitReset
  <2>1. /\ UNCHANGED <<up, tpdo>> /\ ~up /\ run = "read" /\ init' = "clear"
        /\ store' = [o \in Objects |-> ResetValue(o)]
    BY <1>20 DEF InitReset
  <2>2. \A o \in TX : ~WasRead(o)'
    BY <1>1, <2>1, NothingRead DEF WasRead, tpdo
  <2>3. \A o \in Theirs' : o \in TX /\ setup.def[o] = None
    BY <1>1 DEF Theirs
  <2>4. \A o \in Theirs' : store'[o].valid = FALSE
    BY <1>2, <1>4, <2>1, <2>3 DEF ResetValue, Datum
  <2>5. \A o \in Theirs' : CacheKept(o)'
    BY <2>2, <2>3, <2>4 DEF CacheKept
  <2>6. \A j \in 1 .. Len(setup.tx) : ~MappedTX(j)'
    BY <2>1 DEF MappedTX, Mapping
  <2> QED
    BY <2>5, <2>6 DEF BufferKept
\* Steps of init that leave the cache as it is.
<1>21. ASSUME init # "idle", UNCHANGED <<up, tpdo, dev, untouched>>,
              \A o \in TX : store'[o].valid = store[o].valid /\ store'[o].value = store[o].value
       PROVE  Theirs' = Theirs /\ \A o \in Theirs' : CacheKept(o)'
  <2>1. Theirs' = Theirs
    BY <1>1, <1>21 DEF Theirs
  <2> QED
    BY <1>6, <1>18, <1>21, <2>1 DEF CacheKept, Theirs
<1>22. CASE InitClear \/ InitListen \/ InitFails \/ MapFails
  <2>1. UNCHANGED <<up, tpdo, dev, untouched, store>> /\ init # "idle"
    BY <1>22 DEF InitClear, InitListen, InitFails, MapFails, hist, pdo, node
  <2>2. ~up'
    BY <1>18, <2>1
  <2>3. CASE InitFails \/ MapFails
    BY <1>21, <2>1, <2>2, <2>3 DEF InitFails, MapFails, BufferKept, MappedTX, Mapping
  <2>4. CASE InitClear
    <3>1. k' = 1 /\ init' \in {"listen", "attach"}
      BY <2>4 DEF InitClear
    <3>2. \A j \in 1 .. Len(setup.tx) : ~MappedTX(j)'
      BY <1>1, <1>3, <2>2, <3>1 DEF MappedTX, Mapping
    <3> QED
      BY <1>21, <2>1, <3>2 DEF BufferKept
  <2>5. CASE InitListen
    <3>1. /\ k' = k /\ k = (IF setup.tx = << >> THEN 1 ELSE NR + 1)
          /\ init' = (IF setup.tx = << >> THEN "all" ELSE "attach")
      BY <2>5 DEF InitListen, AtObject
    <3>2. \A j \in 1 .. Len(setup.tx) : ~MappedTX(j)'
      BY <1>1, <1>3, <2>2, <3>1 DEF MappedTX, Mapping
    <3> QED
      BY <1>21, <2>1, <3>2 DEF BufferKept
  <2> QED
    BY <1>22, <2>3, <2>4, <2>5
<1>23. CASE InitStart
  <2>1. /\ UNCHANGED <<tpdo, dev, untouched, store, buf>> /\ init = "start"
    BY <1>23 DEF InitStart, hist, pdo
  <2>2. Theirs' = Theirs /\ \A o \in TX : ~WasRead(o)'
    BY <1>1, <2>1, NothingRead DEF Theirs, Alone, WasRead, tpdo
  <2>3. \A j \in 1 .. Len(setup.tx) : MappedTX(j)
    BY <2>1 DEF MappedTX
  <2>4. \A o \in Theirs' : CacheKept(o)'
    BY <1>6, <2>1, <2>2 DEF CacheKept, Theirs
  <2>5. \A j \in 1 .. Len(setup.tx) : setup.tx[j] \in Theirs' => BufferKept(j)'
    BY <1>1, <1>6, <2>1, <2>2, <2>3 DEF BufferKept
  <2> QED
    BY <2>4, <2>5
<1>24. CASE Shutdown
  <2>1. /\ UNCHANGED <<tpdo, dev, untouched, store, buf, init, k>> /\ up' = FALSE
    BY <1>24 DEF Shutdown, hist, pdo
  <2>2. Theirs' = Theirs
    BY <1>1, <2>1 DEF Theirs
  <2>3. \A j \in 1 .. Len(setup.tx) : MappedTX(j)' => MappedTX(j)
    BY <1>1, <2>1 DEF MappedTX, Mapping
  <2>4. \A o \in Theirs' : CacheKept(o)'
    BY <1>6, <2>1, <2>2 DEF CacheKept
  <2>5. \A j \in 1 .. Len(setup.tx) : setup.tx[j] \in Theirs' => BufferKept(j)'
    BY <1>1, <1>6, <2>1, <2>2, <2>3 DEF BufferKept
  <2> QED
    BY <2>4, <2>5
\* The steps init takes for one object.
<1>25. CASE MapAttach \/ MapDelegate \/ MapClean
  <2>1. UNCHANGED <<up, tpdo, dev, untouched>> /\ init # "idle" /\ Mapping
    BY <1>25 DEF MapAttach, MapDelegate, MapClean, hist, node, Mapping
  <2>2. \A o \in TX : store'[o].valid = store[o].valid /\ store'[o].value = store[o].value
    <3>1. CASE MapAttach
      BY <1>2, <1>3, <1>4, <3>1 DEF MapAttach, Datum
    <3>2. CASE MapDelegate
      BY <1>2, <1>3, <1>4, <3>2 DEF MapDelegate, Datum
    <3>3. CASE MapClean
      BY <3>3 DEF MapClean
    <3> QED
      BY <1>25, <3>1, <3>2, <3>3
  <2>3. ~up' /\ Theirs' = Theirs /\ \A o \in Theirs' : CacheKept(o)'
    BY <1>18, <1>21, <2>1, <2>2
  <2>4. ASSUME NEW j \in 1 .. Len(setup.tx), setup.tx[j] \in Theirs', MappedTX(j)'
        PROVE  /\ ~buf'[setup.tx[j]].empty /\ buf'[setup.tx[j]].value = dev'[setup.tx[j]]
    <3>1. setup.tx[j] \in TX /\ setup.tx[j] \in Objects
      BY <1>4, <1>5
    <3>2. CASE MapAttach \/ MapDelegate
      <4>1. /\ k' = k /\ init # "clean" /\ Mapping'
            /\ init' = "clean" => MapDelegate
        BY <3>2 DEF MapAttach, MapDelegate, Mapping
      <4>2. MapDelegate => k <= NR
        BY <3>2 DEF MapDelegate, AtObject
      <4>3. NR + j < k
        BY <1>1, <1>3, <2>3, <2>4, <4>1, <4>2 DEF MappedTX, Mapping
      <4>4. MappedTX(j) /\ NR + j # k
        BY <1>3, <2>1, <4>3 DEF MappedTX
      <4>5. buf'[setup.tx[j]] = buf[setup.tx[j]]
        BY <1>5, <3>1, <3>2, <4>4, OtherObjects
      <4> QED
        BY <1>6, <2>1, <2>3, <2>4, <4>4, <4>5 DEF BufferKept
    <3>3. CASE MapClean
      <4>1. /\ init = "clean"
            /\ init' = IF k = NR THEN "listen" ELSE IF k = Len(All) THEN "all" ELSE "attach"
            /\ k' = IF k = Len(All) THEN 1 ELSE k + 1
            /\ buf' = [buf EXCEPT ![All[k]].dirty = FALSE]
        BY <3>3 DEF MapClean, NR
      <4>2. NR + j <= k
        BY <1>1, <1>3, <2>3, <2>4, <4>1 DEF MappedTX, Mapping
      <4>3. MappedTX(j)
        <5>1. NR + j < k \/ NR + j = k
          BY <1>3, <4>2
        <5> QED
          BY <2>1, <4>1, <5>1 DEF MappedTX
      <4>4. buf'[setup.tx[j]].empty = buf[setup.tx[j]].empty
            /\ buf'[setup.tx[j]].value = buf[setup.tx[j]].value
        BY <1>2, <1>3, <3>1, <4>1, BufferCleaned
      <4> QED
        BY <1>6, <2>1, <2>3, <2>4, <4>3, <4>4 DEF BufferKept
    <3> QED
      BY <1>25, <3>2, <3>3
  <2>5. \A j \in 1 .. Len(setup.tx) : setup.tx[j] \in Theirs' => BufferKept(j)'
    BY <1>1, <2>4 DEF BufferKept
  <2> QED
    BY <2>3, <2>5
<1>26. CASE MapForce
  <2>1. UNCHANGED <<up, tpdo, dev, untouched, k>> /\ init = "force" /\ Mapping /\ Mapping'
        /\ init' = IF All[k] \in RX THEN "delegate" ELSE "clean"
    BY <1>26 DEF MapForce, hist, node, Mapping
  <2>2. ~up' /\ (\A o \in TX : ~WasRead(o)') /\ Theirs' = Theirs
    BY <1>1, <1>18, <2>1 DEF Theirs
  <2>3. buf[All[k]].alive
    BY <2>1 DEF AtObject
  <2>4. ASSUME All[k] \in Theirs
        PROVE  /\ store'[All[k]].value = dev[All[k]]
               /\ buf'[All[k]].value = dev[All[k]] /\ buf'[All[k]].empty = FALSE
    <3>1. Forced(All[k]) = {dev[All[k]]}
      BY <1>6, <2>4 DEF Forced, DevValues, CacheKept, Theirs
    <3>2. PICK v \in {dev[All[k]]} :
             SetsValue(All[k], v) /\ buf' = [buf EXCEPT ![All[k]] = BufferWrite(@, v)]
      BY <1>26, <3>1 DEF MapForce, SetsValue
    <3>3. v \in Values
      BY <1>2, <2>4 DEF Theirs
    <3>4. store'[All[k]].value = v
      BY <1>2, <1>3, <3>2, <3>3, ValueSet
    <3>5. buf'[All[k]].value = v /\ buf'[All[k]].empty = FALSE
      BY <1>2, <1>3, <2>3, <3>2, <3>3, BufferWritten
    <3> QED
      BY <3>2, <3>4, <3>5
  <2>5. \A o \in Objects : o # All[k] => buf'[o] = buf[o] /\ store'[o] = store[o]
    BY <1>26, OtherObjects
  <2>6. \A o \in Theirs' : CacheKept(o)'
    BY <1>4, <1>6, <2>1, <2>2, <2>4, <2>5 DEF CacheKept, Theirs
  <2>7. ASSUME NEW j \in 1 .. Len(setup.tx), setup.tx[j] \in Theirs', MappedTX(j)'
        PROVE  /\ ~buf'[setup.tx[j]].empty /\ buf'[setup.tx[j]].value = dev'[setup.tx[j]]
    <3>1. NR + j <= k
      BY <1>1, <1>3, <2>1, <2>2, <2>7 DEF MappedTX, Mapping
    <3>2. CASE NR + j = k
      BY <1>5, <2>1, <2>2, <2>4, <2>7, <3>2
    <3>3. CASE NR + j < k
      <4>1. MappedTX(j) /\ NR + j # k
        BY <1>3, <2>1, <3>3 DEF MappedTX
      <4>2. buf'[setup.tx[j]] = buf[setup.tx[j]]
        BY <1>4, <1>5, <2>5, <4>1
      <4> QED
        BY <1>6, <2>1, <2>2, <2>7, <4>1, <4>2 DEF BufferKept
    <3> QED
      BY <1>3, <3>1, <3>2, <3>3
  <2>8. \A j \in 1 .. Len(setup.tx) : setup.tx[j] \in Theirs' => BufferKept(j)'
    BY <1>1, <2>7 DEF BufferKept
  <2> QED
    BY <2>6, <2>8
<1> QED
  BY <1>11, <1>12, <1>14, <1>15, <1>16, <1>17, <1>19, <1>20, <1>22, <1>23, <1>24, <1>25, <1>26
     DEF Next, Strand, Run, Initialisation

\* A complete frame has the device's values.
LEMMA KeptIsSent ==
  ASSUME TypeOK, Kept
  PROVE  OthersAreKept
<1>1. /\ Len(setup.tx) \in Nat /\ next \in 1 .. Len(setup.tx) + 1
      /\ \A o \in TX : \E j \in 1 .. Len(setup.tx) : o = setup.tx[j]
  BY Shape, Split DEF TypeOK
<1>2. ASSUME Assembled, NEW o \in TX PROVE WasRead(o)
  <2>1. next - 1 = Len(setup.tx)
    BY <1>1, <1>2 DEF Assembled
  <2> QED
    BY <1>1, <2>1 DEF WasRead
<1> QED
  BY <1>2 DEF OthersAreKept, Kept, Theirs

-------------------------------------------------------------------------------
(* Theorems                                                                *)

LEMMA InitIInv == Init => IInv
<1> SUFFICES ASSUME Init PROVE IInv
  OBVIOUS
<1>1. TypeOK
  BY TypeInit
<1>2. Alone /\ AtObject /\ Current
  BY DEF Init, Alone, AtObject, Current, WasRead
<1>3. Listens /\ ReceivedIsRead
  BY DEF Init, Listens, ReceivedIsRead, MappedRX, Mapping
<1>4. Kept
  <2>1. \A o \in TX : o \in Objects
    BY DEF Objects
  <2>2. \A o \in TX : store[o].rd = "sdo" /\ (setup.def[o] = None => store[o].valid = FALSE)
    BY <2>1 DEF Init
  <2>3. \A o \in Theirs : CacheKept(o)
    BY <2>2 DEF CacheKept, Theirs, Init
  <2>4. \A j : ~MappedTX(j)
    BY DEF Init, MappedTX, Mapping
  <2> QED
    BY <1>1, <2>2, <2>3, <2>4, KeptParts DEF BufferKept
<1> QED
  BY <1>1, <1>2, <1>3, <1>4 DEF IInv

LEMMA StepIInv == IInv /\ [Next]_vars => IInv'
<1> SUFFICES ASSUME IInv, [Next]_vars PROVE IInv'
  OBVIOUS
<1>1. TypeOK /\ Alone /\ AtObject /\ Listens /\ ReceivedIsRead /\ Current /\ Kept
  BY DEF IInv
<1>2. TypeOK' /\ Alone' /\ AtObject'
  BY <1>1, TypeStep, AloneStep, AtObjectStep
<1>3. Listens' /\ ReceivedIsRead' /\ Current'
  BY <1>1, ListensStep, ReceivedIsReadStep, CurrentStep
<1>4. Kept'
  BY <1>1, <1>2, <1>3, KeptStep
<1> QED
  BY <1>2, <1>3, <1>4 DEF IInv

LEMMA InvariantHolds == Spec => []IInv
BY InitIInv, StepIInv, PTL DEF Spec

\* Every variable keeps its type, whatever is mapped, written and received.
THEOREM PdoMapperTypeOK == Spec => []TypeOK
<1>1. IInv => TypeOK
  BY DEF IInv
<1> QED
  BY <1>1, InvariantHolds, PTL

\* A received object that nobody wrote is read as it was received last, whatever reads,
\* frames and initialisations there were (Buffer::read, RPDO::handleFrame, PDOMapper::init).
THEOREM ReceivedIsReadHolds == Spec => []ReceivedIsRead
<1>1. IInv => ReceivedIsRead
  BY DEF IInv
<1> QED
  BY <1>1, InvariantHolds, PTL

\* A PDO that TPDO::sync sends has the newest value of each of its objects, unless the
\* object was written while sync was at it.
THEOREM SentIsCurrentHolds == Spec => []SentIsCurrent
<1>1. IInv => SentIsCurrent
  BY CurrentIsSent DEF IInv
<1> QED
  BY <1>1, InvariantHolds, PTL

\* An object that nobody set is sent with the value the device has, which force_write
\* took from the cache or read from the device.
THEOREM OthersAreKeptHolds == Spec => []OthersAreKept
<1>1. IInv => OthersAreKept
  BY KeptIsSent DEF IInv
<1> QED
  BY <1>1, InvariantHolds, PTL

===============================================================================
