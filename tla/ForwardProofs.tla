---------------------------- MODULE ForwardProofs ----------------------------
(***************************************************************************)
(* Theorems about Forward, for any frame length, buffer size, rates and    *)
(* bounds: its types, that the client is given all audio, in order, until  *)
(* it is not connected, where frames and buffer fit, that packets are      *)
(* whole, and that a pause holds.                                          *)
(***************************************************************************)
EXTENDS Forward, SequenceTheorems, TLAPS

LEMMA Constants ==
    /\ Ptimes \subseteq Nat /\ 0 \notin Ptimes
    /\ BufferSizes \subseteq Nat
    /\ MaxBacklog \in Nat /\ MaxFrames \in Nat
BY ForwardAssumption

\* At least one packet of 20 ms goes into the buffer.
LEMMA PacketsForType ==
    ASSUME NEW ms \in Nat
    PROVE  PacketsFor(ms) \in Nat \ {0}
<1>1. CASE ms % 20 = 0 /\ ms >= 20
  <2>1. ms \div 20 \in Nat /\ ms = 20 * (ms \div 20) + (ms % 20)
    OBVIOUS
  <2>2. ms \div 20 # 0
    BY <1>1, <2>1
  <2> QED
    BY <1>1, <2>1, <2>2 DEF PacketsFor
<1>2. CASE ~(ms % 20 = 0 /\ ms >= 20)
  BY <1>2 DEF PacketsFor
<1> QED
  BY <1>1, <1>2

\* In a capacity of whole frames there is room for one more, if it is not full.
LEMMA RoomForOneMore ==
    ASSUME NEW c \in Nat, NEW p \in Nat, p > 0, c % p = 0, NEW n \in Nat, n * p < c
    PROVE  (n + 1) * p <= c
<1>1. c \div p \in Nat /\ c = p * (c \div p) + (c % p)
  OBVIOUS
<1> DEFINE k == c \div p
<1>2. k \in Nat /\ c = k * p
  BY <1>1
<1> HIDE DEF k
<1>3. n < k
  <2> SUFFICES ASSUME k <= n
               PROVE  FALSE
    BY <1>2
  <2>1. k * p <= n * p
    BY <1>2
  <2> QED
    BY <1>2, <2>1
<1>4. (n + 1) * p <= k * p
  BY <1>2, <1>3
<1> QED
  BY <1>2, <1>4

-----------------------------------------------------------------------------
(* The invariant.  That no audio is dropped rests on the arithmetic of used    *)
(* and of the frames read since a packet was made, that a pause holds on where *)
(* frames captured in it can be: only in the bug, and only while the pause     *)
(* lasts.                                                                      *)

\* Between calls there are no packets; without a stream there is nothing at all.
AtRest ==
    /\ media \in {"idle", "entered"} => pending = <<>>
    /\ conf = NoStream => /\ media = "idle" /\ bug = <<>> /\ used = 0
                          /\ read = 0 /\ packed = 0 /\ heard = 0

\* What the counters are worth, whether frames and buffer fit or not.
Counters ==
    conf # NoStream =>
        /\ packed <= read
        /\ conf.packets = 1 => used = 0 /\ packed = read

OfPause == \E i \in DOMAIN bug : bug[i]

PauseLasts ==
    /\ ~crossed => paused = asked
    /\ OfPause /\ ~crossed => asked /\ FALSE \notin api /\ media = "idle"

Inv == TypeOK /\ AtRest /\ Counters /\ NothingDropped /\ PacketsWhole /\ PauseLasts /\ PauseHolds

\* The parts of the invariant about the buffers, and about the flags.
Buffers == AtRest /\ Counters /\ NothingDropped /\ PacketsWhole
Flags == PauseLasts /\ PauseHolds

-----------------------------------------------------------------------------
(* Types *)

LEMMA InitType == Init => TypeOK
<1> SUFFICES ASSUME Init
             PROVE  TypeOK
  OBVIOUS
<1>1. /\ bug \in Seq(BOOLEAN) /\ pending \in Seq(Record) /\ used \in Nat
      /\ read \in Nat /\ packed \in Nat /\ heard \in Nat
  BY DEF Init
<1>2. /\ paused \in BOOLEAN /\ asked \in BOOLEAN /\ crossed \in BOOLEAN /\ leaked \in BOOLEAN
      /\ missed \in BOOLEAN
  BY Zenon DEF Init
<1> QED
  BY <1>1, <1>2 DEF Init, TypeOK

LEMMA StartType ==
    ASSUME TypeOK, NEW ms \in BufferSizes, NEW rate \in Rates, NEW native \in NativeRates,
           NEW ptime \in Ptimes, Start(ms, rate, native, ptime)
    PROVE  TypeOK'
<1>1. PacketsFor(ms) \in Nat \ {0}
  BY Constants, PacketsForType
<1>2. (rate # native) \in BOOLEAN
  OBVIOUS
<1>3. conf' \in Configs
  BY <1>1, <1>2 DEF Start, Configs
<1> QED
  BY <1>3 DEF TypeOK, Start, counts

LEMMA ReadFrameType ==
    ASSUME TypeOK, ReadFrame, conf # NoStream, used <= Capacity(conf)
    PROVE  TypeOK'
<1>1. conf \in Configs
  BY DEF TypeOK
<1>2. conf.ptime \in Nat /\ conf.packets \in Nat /\ Capacity(conf) \in Nat
  <2>1. conf.ptime \in Ptimes /\ conf.packets \in Nat
    BY <1>1 DEF Configs
  <2>2. conf.ptime \in Nat
    BY <2>1, Constants
  <2> QED
    BY <2>1, <2>2 DEF Capacity, Packet
<1>3. used \in Nat /\ Room \in Nat /\ read \in Nat /\ packed \in Nat
  BY <1>2 DEF TypeOK, Room
<1>4. Yield \in Nat /\ UsedAfter \in Nat
  BY <1>2, <1>3 DEF Yield, UsedAfter, Shorter
<1>5. \A length \in Nat : Made(length) \in Seq(Record)
  BY <1>3 DEF TypeOK, Made, Record
<1>6. pending' \in Seq(Record) /\ used' \in Nat /\ packed' \in Nat /\ read' \in Nat
  <2>1. pending \in Seq(Record) /\ read' = read + 1
    BY DEF TypeOK, ReadFrame
  <2>2. CASE pending' = Made(Yield) /\ packed' = read + 1 /\ UNCHANGED used
    BY <1>3, <1>4, <1>5, <2>1, <2>2
  <2>3. CASE pending' = Made(UsedAfter) /\ packed' = read + 1 /\ used' = UsedAfterPacket
    BY <1>3, <1>4, <1>5, <2>1, <2>3 DEF UsedAfterPacket
  <2>4. CASE used' = UsedAfter /\ UNCHANGED <<pending, packed>>
    BY <1>3, <1>4, <2>1, <2>4
  <2> QED
    BY <2>2, <2>3, <2>4 DEF ReadFrame
<1>7. bug' \in Seq(BOOLEAN) /\ Head(bug) \in BOOLEAN
  BY HeadTailProperties, Zenon DEF TypeOK, ReadFrame
<1>8. leaked' \in BOOLEAN
  BY <1>7, Zenon DEF TypeOK, ReadFrame
<1> QED
  BY <1>6, <1>7, <1>8 DEF TypeOK, ReadFrame, flags, counts

\* Only a frame that is read needs more than the types: that used is within bounds.
LEMMA NextType ==
    ASSUME TypeOK, [Next]_vars, conf = NoStream => media = "idle", PacketsWhole,
           Counters
    PROVE  TypeOK'
<1>1. CASE UNCHANGED vars
  BY <1>1 DEF TypeOK, vars, flags, counts
<1>2. ASSUME NEW ms \in BufferSizes, NEW rate \in Rates, NEW native \in NativeRates,
             NEW ptime \in Ptimes, Start(ms, rate, native, ptime)
      PROVE  TypeOK'
  BY <1>2, StartType
<1>3. CASE Stop
  <2>1. missed' \in BOOLEAN
    BY <1>3, Zenon DEF Stop
  <2> QED
    BY <1>3, <2>1 DEF TypeOK, Stop, flags
<1>4. CASE Capture
  <2>1. InPause \in BOOLEAN
    BY Zenon DEF TypeOK, InPause
  <2> QED
    BY <1>4, <2>1 DEF TypeOK, Capture, flags, counts
<1>5. ASSUME NEW pause \in BOOLEAN, PauseFlush(pause)
      PROVE  TypeOK'
  BY <1>5 DEF TypeOK, PauseFlush, BugAfterFlush, counts
<1>6. ASSUME NEW pause \in BOOLEAN, PauseStore(pause)
      PROVE  TypeOK'
  BY <1>6 DEF TypeOK, PauseStore, counts
<1>7. CASE OtherLoads
  BY <1>7 DEF TypeOK, OtherLoads, counts
<1>8. CASE OtherStores
  <2>1. paused' \in BOOLEAN /\ crossed' \in BOOLEAN
    BY <1>8, Zenon DEF TypeOK, OtherStores
  <2> QED
    BY <1>8, <2>1 DEF TypeOK, OtherStores, counts
<1>9. CASE EnterFrame
  BY <1>9 DEF TypeOK, EnterFrame, flags, counts
<1>10. CASE ReadFrame
  <2>1. conf # NoStream /\ conf \in Configs
    BY <1>10 DEF ReadFrame, TypeOK
  <2>2. used <= Capacity(conf)
    BY <2>1, Constants DEF TypeOK, PacketsWhole, Counters, Configs, Capacity, Packet
  <2> QED
    BY <1>10, <2>1, <2>2, ReadFrameType
<1>11. CASE TryLock \/ TryLockFails
  BY <1>11 DEF TypeOK, TryLock, TryLockFails, flags, counts
<1>12. CASE WritePacket
  <2>1. pending \in Seq(Record) /\ pending # <<>> /\ pending' = Tail(pending)
    BY <1>12 DEF TypeOK, WritePacket
  <2>2. Tail(pending) \in Seq(Record) /\ Head(pending) \in Record
    BY <2>1, HeadTailProperties
  <2>3. heard' \in Nat
    BY <1>12, <2>2 DEF WritePacket, Record
  <2> QED
    BY <1>12, <2>1, <2>2, <2>3 DEF TypeOK, WritePacket, flags
<1>13. CASE NoMoreFrames
  BY <1>13 DEF TypeOK, NoMoreFrames, MutexAfterRead, flags, counts
<1>14. CASE NotConnected
  <2>1. missed' \in BOOLEAN
    BY <1>14, Zenon DEF TypeOK, NotConnected
  <2> QED
    BY <1>14, <2>1 DEF TypeOK, NotConnected, flags
<1>15. CASE Connected
  BY <1>15 DEF TypeOK, Connected, flags, counts
<1>16. CASE LeaveFrame
  BY <1>16 DEF TypeOK, LeaveFrame, flags, counts
<1> QED
  BY <1>1, <1>2, <1>3, <1>4, <1>5, <1>6, <1>7, <1>8, <1>9, <1>10, <1>11, <1>12, <1>13,
     <1>14, <1>15, <1>16
  DEF Next, MediaStep

-----------------------------------------------------------------------------
(* The buffers *)

LEMMA InitBuffers == Init => Buffers
<1> SUFFICES ASSUME Init
             PROVE  Buffers
  OBVIOUS
<1>1. conf = NoStream /\ conf.packets = 0
  BY DEF Init, NoStream
<1>2. ~(conf.packets > 1)
  BY <1>1
<1> QED
  BY <1>1, <1>2 DEF Init, Buffers, AtRest, Counters, NothingDropped, PacketsWhole

\* An action that changes neither stream nor buffers.
LEMMA OtherBuffers ==
    ASSUME Buffers, UNCHANGED <<conf, used, pending, counts>>,
           media' \in {"idle", "entered"} => pending = <<>>,
           conf = NoStream => UNCHANGED <<media, bug>>
    PROVE  Buffers'
<1>1. AtRest'
  BY DEF Buffers, AtRest, counts
<1>2. Counters'
  BY DEF Buffers, Counters, Capacity, counts
<1>3. NothingDropped'
  BY DEF Buffers, NothingDropped, Fits, Capacity, Before, counts
<1>4. PacketsWhole'
  BY DEF Buffers, PacketsWhole, Capacity
<1> QED
  BY <1>1, <1>2, <1>3, <1>4 DEF Buffers

LEMMA StartBuffers ==
    ASSUME TypeOK, Buffers, NEW ms \in BufferSizes, NEW rate \in Rates,
           NEW native \in NativeRates, NEW ptime \in Ptimes, Start(ms, rate, native, ptime)
    PROVE  Buffers'
<1>1. PacketsFor(ms) \in Nat \ {0} /\ ptime \in Nat
  BY Constants, PacketsForType
<1>2. /\ conf'.packets = PacketsFor(ms) /\ conf'.ptime = ptime
      /\ Capacity(conf') = Packet * PacketsFor(ms)
  BY DEF Start, Capacity
<1>3. /\ used' = 0 /\ pending' = <<>> /\ media' = "idle"
      /\ read' = 0 /\ packed' = 0 /\ heard' = 0
  BY DEF Start, Buffers, AtRest, counts
<1>4. conf' # NoStream
  BY <1>1, <1>2 DEF NoStream
<1>5. Counters'
  BY <1>1, <1>2, <1>3 DEF Counters, Capacity
<1>6. NothingDropped'
  BY <1>1, <1>2, <1>3 DEF NothingDropped, Before
<1>7. PacketsWhole'
  <2>1. 0 < Capacity(conf')
    BY <1>1, <1>2 DEF Packet
  <2> QED
    BY <2>1, <1>3 DEF PacketsWhole, Capacity
<1> QED
  BY <1>3, <1>4, <1>5, <1>6, <1>7 DEF Buffers, AtRest

LEMMA StopBuffers ==
    ASSUME Buffers, Stop
    PROVE  Buffers'
<1>1. conf' = NoStream /\ conf'.packets = 0 /\ pending' = <<>>
  BY DEF Stop, NoStream, Buffers, AtRest
<1>2. ~(conf'.packets > 1)
  BY <1>1
<1> QED
  BY <1>1, <1>2 DEF Stop, Buffers, AtRest, Counters, NothingDropped, PacketsWhole

\* A packet more at the end of pending, made of the right audio.
LEMMA MadeRight ==
    ASSUME TypeOK, NEW length \in Nat, pending' = Made(length), UNCHANGED heard
    PROVE  /\ \A i \in DOMAIN pending' :
                  /\ (Before(i))' = Before(i)
                  /\ \/ i \in DOMAIN pending /\ pending'[i] = pending[i]
                     \/ /\ i = Len(pending) + 1
                        /\ pending'[i] = [length |-> length, upto |-> read + 1]
           /\ (Before(Len(pending) + 1))' = read + 1
<1> DEFINE packet == [length |-> length, upto |-> read + 1]
           n == Len(pending)
<1>1. pending \in Seq(Record) /\ packet \in Record /\ packet.upto = read + 1
  BY DEF TypeOK, Record
<1>2. pending' = Append(pending, packet)
  BY DEF Made
<1> HIDE DEF packet
<1>3. n \in Nat /\ DOMAIN pending = 1..n /\ DOMAIN pending' = 1..(n + 1) /\ Len(pending') = n + 1
  BY <1>1, <1>2
<1>4. (\A i \in 1..n : pending'[i] = pending[i]) /\ pending'[n + 1] = packet
  BY <1>1, <1>2
<1> HIDE DEF n
<1>5. \A i \in 1..(n + 1) : (Before(i))' = Before(i)
  <2> SUFFICES ASSUME NEW i \in 1..(n + 1)
               PROVE  (Before(i))' = Before(i)
    OBVIOUS
  <2>1. CASE i = 1
    BY <2>1 DEF Before
  <2>2. CASE i # 1
    <3>1. i - 1 \in 1..n
      BY <1>3, <2>2
    <3> QED
      BY <1>4, <2>2, <3>1 DEF Before
  <2> QED
    BY <2>1, <2>2
<1>6. (Before(Len(pending) + 1))' = read + 1
  <2>1. Len(pending') + 1 # 1 /\ Len(pending') + 1 - 1 = n + 1
    BY <1>3
  <2> QED
    BY <1>1, <1>4, <2>1 DEF Before
<1>7. \A i \in 1..(n + 1) : i \in 1..n \/ i = n + 1
  BY <1>3
<1> QED
  BY <1>3, <1>4, <1>5, <1>6, <1>7 DEF packet, n

\* The packets follow one on another, up to the frames in sbuffer: NothingDropped, as it
\* is until packets are missed.
Chained ==
    /\ packed = Before(Len(pending) + 1)
    /\ \A i \in DOMAIN pending :
          pending[i].length = (pending[i].upto - Before(i)) * conf.ptime

\* They still do with the audio of all frames since the last packet in one more.
LEMMA MadeChained ==
    ASSUME TypeOK, NEW length \in Nat, pending' = Made(length), UNCHANGED <<heard, conf>>,
           packed' = read + 1, length = (read + 1 - packed) * conf.ptime, Chained
    PROVE  Chained'
<1>1. packed' = (Before(Len(pending) + 1))'
  BY MadeRight
<1>2. ASSUME NEW i \in DOMAIN pending'
      PROVE  pending'[i].length = (pending'[i].upto - (Before(i))') * conf.ptime
  <2>1. (Before(i))' = Before(i)
    BY <1>2, MadeRight
  <2>2. CASE i \in DOMAIN pending /\ pending'[i] = pending[i]
    BY <2>1, <2>2 DEF Chained
  <2>3. CASE i = Len(pending) + 1 /\ pending'[i] = [length |-> length, upto |-> read + 1]
    <3>1. pending'[i].length = length /\ pending'[i].upto = read + 1
      BY <2>3
    <3>2. Before(i) = packed
      BY <2>3 DEF Chained
    <3>3. (Before(i))' = packed
      BY <2>1, <3>2
    <3>4. pending'[i].upto - (Before(i))' = read + 1 - packed
      BY <3>1, <3>3 DEF TypeOK
    <3> QED
      BY ONLY <3>1, <3>4, length = (read + 1 - packed) * conf.ptime
  <2> QED
    BY <1>2, <2>2, <2>3, MadeRight
<1> QED
  BY <1>1, <1>2 DEF Chained

\* The one step where audio could get lost: a frame is read.
LEMMA ReadFrameBuffers ==
    ASSUME TypeOK, Buffers, ReadFrame
    PROVE  Buffers'
<1> DEFINE c == Capacity(conf)
           p == conf.ptime
           lag == read - packed
<1>1. conf # NoStream /\ conf \in Configs /\ UNCHANGED <<conf, heard, missed>> /\ read' = read + 1
  BY DEF ReadFrame, TypeOK, Buffers, AtRest
<1>2. conf.ptime \in Ptimes /\ conf.packets \in Nat \ {0}
  BY <1>1 DEF Configs
<1>3. /\ p \in Nat /\ p > 0 /\ c \in Nat /\ c > 0 /\ used \in Nat
      /\ read \in Nat /\ packed \in Nat /\ packed <= read /\ lag \in Nat
  <2>1. conf.ptime \in Nat /\ conf.ptime # 0
    BY <1>2, Constants
  <2>2. Capacity(conf) \in Nat /\ Capacity(conf) > 0
    BY <1>2 DEF Capacity, Packet
  <2>3. read \in Nat /\ packed \in Nat /\ packed <= read /\ used \in Nat
    BY <1>1 DEF TypeOK, Buffers, Counters
  <2> QED
    BY <2>1, <2>2, <2>3
<1>4. used < c
  BY <1>1, <1>2, <1>3 DEF Buffers, Counters, PacketsWhole
<1>5. Room = c - used /\ Room \in Nat
  BY <1>3, <1>4 DEF Room
<1>6. Yield \in Nat /\ UsedAfter \in Nat /\ UsedAfter <= c
  BY <1>3, <1>4, <1>5 DEF Yield, UsedAfter, Shorter
<1>7. AtRest'
  BY <1>1 DEF ReadFrame, AtRest
<1>8. CASE Unbuffered /\ pending' = Made(Yield) /\ packed' = read + 1 /\ UNCHANGED used
  <2>1. conf.packets = 1 /\ used = 0 /\ packed = read
    BY <1>1, <1>8 DEF Unbuffered, Buffers, Counters
  <2>2. Fits(conf) => Yield = p
    BY <1>3, <1>5, <2>1 DEF Fits, Yield, Shorter
  <2>3. NothingDropped'
    <3> SUFFICES ASSUME Fits(conf)
                 PROVE  /\ used' = (read' - packed') * p
                        /\ missed \/ Chained'
      BY <1>1 DEF NothingDropped, Chained
    <3>1. used' = 0 /\ (read' - packed') * p = 0
      BY <1>1, <1>3, <1>8, <2>1
    <3>2. missed \/ Chained
      BY <1>1 DEF Buffers, NothingDropped, Chained
    <3>3. Yield = (read + 1 - packed) * p
      BY <1>3, <2>1, <2>2
    <3>4. Chained => Chained'
      BY <1>1, <1>3, <1>6, <1>8, <3>3, MadeChained
    <3> QED
      BY <3>1, <3>2, <3>4
  <2>4. PacketsWhole' /\ Counters'
    BY <1>1, <1>3, <1>8, <2>1 DEF PacketsWhole, Counters, Buffers
  <2> QED
    BY <1>7, <2>3, <2>4 DEF Buffers
<1>9. ASSUME ~Unbuffered, Fits(conf)
      PROVE  UsedAfter = used + p /\ used = lag * p /\ used + p = (lag + 1) * p
  <2>1. c % p = 0 /\ used = lag * p
    BY <1>1, <1>9 DEF Unbuffered, Fits, Buffers, NothingDropped
  <2>2. (lag + 1) * p <= c
    <3> HIDE DEF lag
    <3> QED
      BY <1>3, <1>4, <2>1, RoomForOneMore
  <2>3. (lag + 1) * p = lag * p + p
    <3>1. lag \in Nat /\ p \in Nat
      BY <1>3
    <3> HIDE DEF lag, p
    <3> QED
      BY ONLY <3>1
  <2>4. p <= Room
    BY <1>3, <1>5, <2>1, <2>2, <2>3
  <2>5. Yield = p /\ UsedAfter = used + p
    BY <1>3, <1>5, <2>4 DEF Yield, UsedAfter, Shorter
  <2> QED
    BY <1>3, <2>1, <2>3, <2>5
<1>10. CASE ~Unbuffered /\ IsFull(UsedAfter) /\ pending' = Made(UsedAfter)
            /\ packed' = read + 1 /\ used' = UsedAfterPacket
  <2>1. used' = 0 /\ UsedAfter = c /\ conf.packets # 1
    BY <1>3, <1>6, <1>10 DEF UsedAfterPacket, IsFull, Unbuffered
  <2>2. PacketsWhole' /\ Counters'
    <3>1. \A i \in DOMAIN pending : conf.packets > 1 => pending[i].length = c
      BY DEF Buffers, PacketsWhole
    <3>2. \A i \in DOMAIN pending' :
               \/ i \in DOMAIN pending /\ pending'[i] = pending[i]
               \/ pending'[i] = [length |-> UsedAfter, upto |-> read + 1]
      BY <1>1, <1>6, <1>10, MadeRight
    <3>3. \A i \in DOMAIN pending' : conf.packets > 1 => pending'[i].length = c
      BY <2>1, <3>1, <3>2
    <3> QED
      BY <1>1, <1>3, <1>10, <2>1, <3>3 DEF PacketsWhole, Counters, Buffers
  <2>3. NothingDropped'
    <3> SUFFICES ASSUME Fits(conf)
                 PROVE  /\ used' = (read' - packed') * p
                        /\ missed \/ Chained'
      BY <1>1 DEF NothingDropped, Chained
    <3>1. used' = 0 /\ (read' - packed') * p = 0
      BY <1>1, <1>3, <1>10, <2>1
    <3>2. missed \/ Chained
      BY <1>1 DEF Buffers, NothingDropped, Chained
    <3>3. UsedAfter = (lag + 1) * p /\ lag + 1 = read + 1 - packed
      BY <1>3, <1>9, <1>10
    <3>4. UsedAfter = (read + 1 - packed) * p
      BY <3>3
    <3>5. Chained => Chained'
      BY <1>1, <1>3, <1>6, <1>10, <3>4, MadeChained
    <3> QED
      BY <3>1, <3>2, <3>5
  <2> QED
    BY <1>7, <2>2, <2>3 DEF Buffers
<1>11. CASE ~Unbuffered /\ ~IsFull(UsedAfter) /\ used' = UsedAfter
            /\ UNCHANGED <<pending, packed>>
  <2>1. used' < c /\ conf.packets # 1
    BY <1>3, <1>6, <1>11 DEF IsFull, Unbuffered
  <2>2. PacketsWhole' /\ Counters'
    BY <1>1, <1>3, <1>11, <2>1 DEF PacketsWhole, Counters, Buffers
  <2>3. NothingDropped'
    <3> SUFFICES ASSUME Fits(conf)
                 PROVE  used' = (read' - packed') * p
      BY <1>1, <1>11 DEF NothingDropped, Buffers, Before
    <3>1. used' = (lag + 1) * p /\ lag + 1 = read' - packed'
      BY <1>1, <1>3, <1>9, <1>11
    <3> QED
      BY <3>1
  <2> QED
    BY <1>7, <2>2, <2>3 DEF Buffers
<1> QED
  BY <1>8, <1>10, <1>11 DEF ReadFrame

LEMMA WritePacketBuffers ==
    ASSUME TypeOK, Buffers, WritePacket
    PROVE  Buffers'
<1>1. /\ UNCHANGED <<conf, used, read, packed, missed, bug, media>> /\ media = "writing"
      /\ heard' = Head(pending).upto
  BY DEF WritePacket
<1>2. /\ \A i \in DOMAIN pending' : /\ i + 1 \in DOMAIN pending /\ pending'[i] = pending[i + 1]
                                    /\ i \in Nat \ {0}
      /\ Head(pending) = pending[1] /\ Len(pending) \in Nat \ {0}
      /\ Len(pending') + 1 = Len(pending) /\ Len(pending') \in Nat
      /\ \A i \in 1..Len(pending') : pending'[i] = pending[i + 1]
  <2>1. pending \in Seq(Record) /\ pending # <<>> /\ pending' = Tail(pending)
    BY DEF TypeOK, WritePacket
  <2> QED
    BY <2>1
<1>3. AtRest' /\ Counters'
  <2>1. conf # NoStream
    BY <1>1 DEF Buffers, AtRest
  <2> QED
    BY <1>1, <2>1 DEF Buffers, AtRest, Counters
<1>4. \A i \in 1..(Len(pending') + 1) : (Before(i))' = Before(i + 1)
  <2> SUFFICES ASSUME NEW i \in 1..(Len(pending') + 1)
               PROVE  (Before(i))' = Before(i + 1)
    OBVIOUS
  <2>1. CASE i = 1
    BY <1>1, <1>2, <2>1 DEF Before
  <2>2. CASE i # 1
    <3>1. i - 1 \in 1..Len(pending') /\ i + 1 # 1
      BY <1>2, <2>2
    <3>2. pending'[i - 1] = pending[i - 1 + 1]
      BY <1>2, <3>1
    <3>3. i - 1 + 1 = i /\ i + 1 - 1 = i
      OBVIOUS
    <3> QED
      BY <2>2, <3>1, <3>2, <3>3 DEF Before
  <2> QED
    BY <2>1, <2>2
<1>5. Chained => Chained'
  <2> SUFFICES ASSUME Chained
               PROVE  Chained'
    OBVIOUS
  <2>1. packed' = (Before(Len(pending) + 1))'
    <3>1. packed = Before(Len(pending) + 1) /\ Len(pending) + 1 = Len(pending') + 1 + 1
      BY <1>2 DEF Chained
    <3>2. (Before(Len(pending) + 1))' = IF Len(pending') + 1 = 1 THEN heard' ELSE pending'[Len(pending')].upto
      BY <1>2 DEF Before
    <3> DEFINE n == Len(pending') + 1
    <3>3. n \in 1..(Len(pending') + 1)
      BY <1>2
    <3>4. \A i : (Before(i))' = IF i = 1 THEN heard' ELSE pending'[i - 1].upto
      BY DEF Before
    <3>5. n - 1 = Len(pending')
      BY <1>2
    <3> HIDE DEF n
    <3>6. Before(n + 1) = IF n = 1 THEN heard' ELSE pending'[n - 1].upto
      BY <1>4, <3>3, <3>4
    <3> QED
      BY <1>1, <3>1, <3>2, <3>5, <3>6 DEF n
  <2>2. ASSUME NEW i \in DOMAIN pending'
        PROVE  pending'[i].length = (pending'[i].upto - (Before(i))') * conf.ptime
    <3>1. i + 1 \in DOMAIN pending /\ pending'[i] = pending[i + 1]
      BY <1>2, <2>2
    <3>2. i \in 1..(Len(pending') + 1)
      BY <1>2, <2>2, <3>1
    <3>3. (Before(i))' = Before(i + 1)
      BY <1>4, <3>2
    <3> QED
      BY <3>1, <3>3 DEF Chained
  <2> QED
    BY <1>1, <2>1, <2>2 DEF Chained
<1>6. NothingDropped'
  BY <1>1, <1>5 DEF Buffers, NothingDropped, Chained
<1>7. PacketsWhole'
  BY <1>1, <1>2 DEF Buffers, PacketsWhole
<1> QED
  BY <1>3, <1>6, <1>7 DEF Buffers

\* pending is thrown away: if there was something in it, that is what missed is for.
LEMMA NotConnectedBuffers ==
    ASSUME Buffers, NotConnected
    PROVE  Buffers'
<1>1. /\ UNCHANGED <<conf, used, read, packed, heard, bug>> /\ pending' = <<>> /\ media = "read"
      /\ conf # NoStream
  BY DEF NotConnected, Buffers, AtRest
<1>2. AtRest' /\ Counters'
  BY <1>1 DEF Buffers, AtRest, Counters
<1>3. missed' \/ (~missed /\ UNCHANGED pending)
  BY <1>1 DEF NotConnected
<1>4. NothingDropped'
  BY <1>1, <1>3 DEF Buffers, NothingDropped, Before
<1>5. PacketsWhole'
  BY <1>1 DEF Buffers, PacketsWhole
<1> QED
  BY <1>2, <1>4, <1>5 DEF Buffers

LEMMA NextBuffers ==
    ASSUME TypeOK, Buffers, [Next]_vars
    PROVE  Buffers'
<1>1. CASE UNCHANGED vars
  BY <1>1, OtherBuffers DEF vars, Buffers, AtRest
<1>2. ASSUME NEW ms \in BufferSizes, NEW rate \in Rates, NEW native \in NativeRates,
             NEW ptime \in Ptimes, Start(ms, rate, native, ptime)
      PROVE  Buffers'
  BY <1>2, StartBuffers
<1>3. CASE Stop
  BY <1>3, StopBuffers
<1>4. CASE Capture
  BY <1>4, OtherBuffers DEF Capture, Buffers, AtRest
<1>5. ASSUME NEW pause \in BOOLEAN, PauseFlush(pause) \/ PauseStore(pause)
      PROVE  Buffers'
  BY <1>5, OtherBuffers DEF PauseFlush, PauseStore, Buffers, AtRest
<1>6. CASE OtherLoads \/ OtherStores
  BY <1>6, OtherBuffers DEF OtherLoads, OtherStores, Buffers, AtRest
<1>7. CASE EnterFrame
  BY <1>7, OtherBuffers DEF EnterFrame, Buffers, AtRest
<1>8. CASE TryLock \/ TryLockFails
  BY <1>8, OtherBuffers DEF TryLock, TryLockFails, Buffers, AtRest
<1>9. CASE ReadFrame
  BY <1>9, ReadFrameBuffers
<1>10. CASE NoMoreFrames \/ Connected
  BY <1>10, OtherBuffers DEF NoMoreFrames, Connected, Buffers, AtRest
<1>11. CASE NotConnected
  BY <1>11, NotConnectedBuffers
<1>12. CASE WritePacket
  BY <1>12, WritePacketBuffers
<1>13. CASE LeaveFrame
  BY <1>13, OtherBuffers DEF LeaveFrame, Buffers, AtRest
<1> QED
  BY <1>1, <1>2, <1>3, <1>4, <1>5, <1>6, <1>7, <1>8, <1>9, <1>10, <1>11, <1>12, <1>13
  DEF Next, MediaStep

-----------------------------------------------------------------------------
(* The pause *)

LEMMA InitFlags == Init => Flags
<1> SUFFICES ASSUME Init
             PROVE  Flags
  OBVIOUS
<1>1. ~OfPause
  BY DEF Init, OfPause
<1> QED
  BY <1>1, Zenon DEF Init, Flags, PauseLasts, PauseHolds

\* An action that leaves the flags and the bug alone, and starts no call in a pause.
LEMMA OtherFlags ==
    ASSUME Flags, UNCHANGED flags, UNCHANGED <<bug, leaked>>,
           media' = "idle" \/ media # "idle" \/ ~paused
    PROVE  Flags'
<1>1. OfPause' = OfPause
  BY DEF OfPause
<1>2. UNCHANGED <<paused, api, asked, crossed, leaked>>
  BY DEF flags
<1>3. ASSUME OfPause, ~crossed
      PROVE  asked /\ FALSE \notin api /\ media' = "idle"
  <2>1. asked /\ FALSE \notin api /\ media = "idle" /\ paused = asked
    BY <1>3 DEF Flags, PauseLasts
  <2>2. paused
    BY <2>1
  <2> QED
    BY <2>1, <2>2
<1>4. ~crossed => paused = asked
  BY DEF Flags, PauseLasts
<1>5. PauseLasts'
  BY <1>1, <1>2, <1>3, <1>4 DEF PauseLasts
<1> QED
  BY <1>2, <1>5 DEF Flags, PauseHolds

\* The bug is empty afterwards.
LEMMA EmptyFlags ==
    ASSUME Flags, bug' = <<>>, UNCHANGED <<paused, asked, crossed, leaked>>
    PROVE  Flags'
<1>1. ~OfPause'
  BY DEF OfPause
<1> QED
  BY <1>1 DEF Flags, PauseLasts, PauseHolds

LEMMA StartFlags ==
    ASSUME AtRest, NEW ms, NEW rate, NEW native, NEW ptime, Start(ms, rate, native, ptime)
    PROVE  Flags'
<1>1. bug' = <<>>
  BY DEF Start, AtRest
<1>2. ~OfPause'
  BY <1>1 DEF OfPause
<1>3. paused' = FALSE /\ asked' = FALSE /\ leaked' = FALSE
  BY DEF Start
<1> QED
  BY <1>2, <1>3 DEF Flags, PauseLasts, PauseHolds

\* Captured audio is of a pause only if that has been stored, and nobody resumes.
LEMMA CaptureFlags ==
    ASSUME TypeOK, Flags, Capture
    PROVE  Flags'
<1>1. bug \in Seq(BOOLEAN) /\ bug' = Append(bug, InPause)
  BY DEF TypeOK, Capture
<1>2. OfPause' => OfPause \/ InPause
  BY <1>1 DEF OfPause
<1>3. UNCHANGED <<paused, api, asked, crossed, leaked, media>> /\ media = "idle"
  BY DEF Capture, flags, counts
<1>4. InPause => asked /\ FALSE \notin api
  BY DEF InPause
<1> QED
  BY <1>2, <1>3, <1>4 DEF Flags, PauseLasts, PauseHolds

LEMMA PauseStoreFlags ==
    ASSUME Flags, NEW pause \in BOOLEAN, PauseStore(pause)
    PROVE  Flags'
<1>1. UNCHANGED <<bug, crossed, leaked, media>> /\ paused' = pause /\ asked' = pause
  BY DEF PauseStore
<1>2. OfPause' = OfPause
  BY <1>1 DEF OfPause
<1>3. pause \in api /\ api' \subseteq api
  BY DEF PauseStore
<1>4. ASSUME OfPause', ~crossed'
      PROVE  asked' /\ FALSE \notin api' /\ media' = "idle"
  <2>1. OfPause /\ ~crossed
    BY <1>1, <1>2, <1>4
  <2>2. FALSE \notin api /\ media = "idle"
    BY <2>1 DEF Flags, PauseLasts
  <2>3. pause # FALSE
    BY <1>3, <2>2
  <2> QED
    BY <1>1, <1>3, <2>2, <2>3
<1>5. leaked' => crossed'
  BY <1>1 DEF Flags, PauseHolds
<1> QED
  BY <1>1, <1>4, <1>5 DEF Flags, PauseLasts, PauseHolds

\* A store that changes audio_paused is one that crossed a pauseresume.
LEMMA OtherStoresFlags ==
    ASSUME Flags, OtherStores
    PROVE  Flags'
<1>1. UNCHANGED <<bug, media, api, asked, leaked>>
  BY DEF OtherStores
<1>2. OfPause' = OfPause
  BY <1>1 DEF OfPause
<1>3. PICK bit \in loaded : paused' = bit /\ crossed' = (crossed \/ bit # paused)
  BY Zenon DEF OtherStores
<1>4. crossed => crossed'
  BY <1>3, Zenon
<1>5. ~crossed' => ~crossed /\ paused' = paused
  BY <1>3, Zenon
<1> QED
  BY <1>1, <1>2, <1>4, <1>5, Zenon DEF Flags, PauseLasts, PauseHolds

\* A call that reads has found no pause.
LEMMA ReadFrameFlags ==
    ASSUME TypeOK, Flags, ReadFrame
    PROVE  Flags'
<1>1. bug \in Seq(BOOLEAN) /\ bug # <<>> /\ bug' = Tail(bug) /\ media = "reading"
  BY DEF TypeOK, ReadFrame
<1>2. OfPause' => OfPause
  BY <1>1 DEF OfPause
<1>3. Head(bug) => OfPause
  <2>1. 1 \in DOMAIN bug /\ Head(bug) = bug[1]
    BY <1>1
  <2> QED
    BY <2>1, Zenon DEF OfPause
<1>4. UNCHANGED <<paused, api, asked, crossed, media>>
  BY DEF ReadFrame, flags, counts
<1>5. leaked' => leaked \/ Head(bug)
  BY Zenon DEF ReadFrame
<1>6. OfPause => crossed
  BY <1>1 DEF Flags, PauseLasts
<1> QED
  BY <1>2, <1>3, <1>4, <1>5, <1>6 DEF Flags, PauseLasts, PauseHolds

LEMMA NextFlags ==
    ASSUME TypeOK, AtRest, Flags, [Next]_vars
    PROVE  Flags'
<1>1. CASE UNCHANGED vars
  <2>1. UNCHANGED flags /\ UNCHANGED <<bug, leaked, media>>
    BY <1>1 DEF vars
  <2> QED
    BY <2>1, OtherFlags
<1>2. ASSUME NEW ms \in BufferSizes, NEW rate \in Rates, NEW native \in NativeRates,
             NEW ptime \in Ptimes, Start(ms, rate, native, ptime)
      PROVE  Flags'
  BY <1>2, StartFlags
<1>3. CASE Stop
  BY <1>3, EmptyFlags DEF Stop, flags, counts
<1>4. CASE Capture
  BY <1>4, CaptureFlags
<1>5. ASSUME NEW pause \in BOOLEAN, PauseFlush(pause)
      PROVE  Flags'
  BY <1>5, EmptyFlags DEF PauseFlush, BugAfterFlush
<1>6. ASSUME NEW pause \in BOOLEAN, PauseStore(pause)
      PROVE  Flags'
  BY <1>6, PauseStoreFlags
<1>7. CASE OtherLoads
  <2>1. UNCHANGED <<paused, api, asked, crossed, bug, leaked, media>>
    BY <1>7 DEF OtherLoads
  <2>2. OfPause' = OfPause
    BY <2>1 DEF OfPause
  <2> QED
    BY <2>1, <2>2 DEF Flags, PauseLasts, PauseHolds
<1>8. CASE OtherStores
  BY <1>8, OtherStoresFlags
<1>9. CASE EnterFrame
  BY <1>9, OtherFlags DEF EnterFrame
<1>10. CASE ReadFrame
  BY <1>10, ReadFrameFlags
<1>11. CASE TryLock \/ TryLockFails
  BY <1>11, OtherFlags DEF TryLock, TryLockFails
<1>12. CASE NoMoreFrames \/ NotConnected \/ Connected
  BY <1>12, OtherFlags DEF NoMoreFrames, NotConnected, Connected
<1>13. CASE WritePacket \/ LeaveFrame
  BY <1>13, OtherFlags DEF WritePacket, LeaveFrame
<1> QED
  BY <1>1, <1>2, <1>3, <1>4, <1>5, <1>6, <1>7, <1>8, <1>9, <1>10, <1>11, <1>12, <1>13
  DEF Next, MediaStep

-----------------------------------------------------------------------------
(* Theorems *)

\* stream_frame, pauseresume, start: the strengthened invariant holds in every state,
\* whatever the frame lengths, buffer sizes, rates and backlog.
THEOREM Invariance == Spec => []Inv
<1>1. Init => Inv
  BY InitType, InitBuffers, InitFlags DEF Inv, Buffers, Flags
<1>2. Inv /\ [Next]_vars => Inv'
  <2> SUFFICES ASSUME Inv, [Next]_vars
               PROVE  Inv'
    OBVIOUS
  <2>1. TypeOK /\ Buffers /\ Flags
    BY DEF Inv, Buffers, Flags
  <2>2. TypeOK'
    BY <2>1, NextType DEF Buffers, AtRest
  <2>3. Buffers'
    BY <2>1, NextBuffers
  <2>4. Flags'
    BY <2>1, NextFlags DEF Buffers
  <2> QED
    BY <2>2, <2>3, <2>4 DEF Inv, Buffers, Flags
<1> QED
  BY <1>1, <1>2, PTL DEF Spec

\* Every reachable state of the forward path is well typed.
THEOREM TypeCorrect == Spec => []TypeOK
<1>1. Inv => TypeOK
  BY DEF Inv
<1> QED
  BY <1>1, Invariance, PTL

\* Whatever the frame length and the buffer size, as long as they fit, stream_frame gives
\* the client the audio of every frame it reads, in order and without a gap, until it
\* finds the client not connected.
THEOREM AudioKept == Spec => []NothingDropped
<1>1. Inv => NothingDropped
  BY DEF Inv
<1> QED
  BY <1>1, Invariance, PTL

\* With buffering, every packet has the length asked for, and sbuffer is never left full.
THEOREM WholePackets == Spec => []PacketsWhole
<1>1. Inv => PacketsWhole
  BY DEF Inv
<1> QED
  BY <1>1, Invariance, PTL

\* No audio captured in a pause is sent after it, but for a store across.
THEOREM PauseKept == Spec => []PauseHolds
<1>1. Inv => PauseHolds
  BY DEF Inv
<1> QED
  BY <1>1, Invariance, PTL

=============================================================================
