----------------------------- MODULE ReceiveProofs -----------------------------
(***************************************************************************)
(* Theorems about Receive: for any frames, sizes of reads and rates, what  *)
(* the callbacks hear is what was sent, and what they play is what README  *)
(* says, but where the code contradicts it.  The first half is about the   *)
(* wire alone, the second about the streamer.                              *)
(***************************************************************************)
EXTENDS Receive, SequenceTheorems, TLAPS

InCallback == worker \in {"calling", "handling"}

\* The frames lie one behind the other.
Laid == \A i \in 1..Len(sent) : ends[i] = Bytes(i - 1) + sent[i].size

\* OpenSSL hands out nothing it does not have.
WithinRecords == secure => taken <= decrypted /\ decrypted <= Bytes(Len(sent))

\* A callback is called for a message that is there as a whole.
AtMessage == InCallback => FrameThere /\ IsMessage(NextFrame)

\* Behind a close frame processFrame never gets.
NotClosed == \A i \in 1..parsed : sent[i].kind # "close"

WireInv == WireType /\ Laid /\ WithinRecords /\ AtMessage /\ NotClosed /\ Reassembled

\* The rate that a switch of the raw mode sets, and the rate that the code takes audio in
\* message i to be of.
AnnouncedBy(m) ==
    CASE m.type = "rawAudio" /\ m.rate = NoRate -> 8000
      [] m.type = "streamAudio" /\ m.codec = "opus" -> 48000
      [] OTHER -> m.rate

RateTaken(frames, i) ==
    LET m == frames[i].message
    IN  IF frames[i].kind = "binary"
        THEN {AnnouncedBy(frames[j].message) : j \in LastSwitch(frames, i)}
        ELSE {IF m.codec = "opus" THEN 48000 ELSE IF m.codec = "raw" THEN m.rate ELSE 8000}

\* What was played, by the code: PlayedAsMeant follows.
PlayedAsTaken ==
    block # NoBlock =>
        \/ RateTaken(sent, block.of) = {block.rate}
        \/ /\ sent[block.of].kind = "binary" /\ RateTaken(sent, block.of) # {}
           /\ block.late /\ block.rate = conf.rate

\* A text that is audio the streamer understands.
Understood(m) ==
    /\ m.type = "streamAudio" /\ m.content \in {"audio", "blank"}
    /\ m.codec \in AudioTypes
    /\ m.codec = "raw" => m.rate \in {8000 * k : k \in 1..8}

\* What was fired, by the code: EventsAsDocumented follows.
EventsByCode ==
    event # NoEvent =>
        LET m == sent[event.of].message
        IN  event.name = "play" <=> Understood(m) /\ ~SwitchesOn(m)

-----------------------------------------------------------------------------
(* The wire *)

LEMMA Constants ==
    /\ MaxFrames \in Nat /\ ReadSize \in Nat
    /\ \A f \in Frames : f.size \in Nat /\ f.size > 0
BY WireAssumption

\* The places of frames are numbers, and a frame ends where the next begins.
LEMMA BytesType ==
    ASSUME WireInv
    PROVE  /\ \A n \in 0..Len(sent) : Bytes(n) \in Nat
           /\ \A n \in 0..(Len(sent) - 1) : /\ sent[n + 1] \in Frames
                                            /\ sent[n + 1].size \in Nat
                                            /\ Bytes(n + 1) = Bytes(n) + sent[n + 1].size
<1>1. \A n \in 0..Len(sent) : Bytes(n) \in Nat
  BY DEF WireInv, WireType, Bytes
<1>2. ASSUME NEW n \in 0..(Len(sent) - 1)
      PROVE  /\ sent[n + 1] \in Frames
             /\ sent[n + 1].size \in Nat
             /\ Bytes(n + 1) = Bytes(n) + sent[n + 1].size
  <2>1. n + 1 \in 1..Len(sent) /\ (n + 1) - 1 = n /\ n + 1 # 0
    BY DEF WireInv, WireType
  <2>2. sent[n + 1] \in Frames
    BY <2>1 DEF WireInv, WireType
  <2>3. ends[n + 1] = Bytes(n) + sent[n + 1].size
    BY <2>1 DEF WireInv, Laid
  <2>4. Bytes(n + 1) = ends[n + 1]
    BY <2>1 DEF Bytes
  <2> QED
    BY <2>2, <2>3, <2>4, Constants
<1> QED
  BY <1>1, <1>2

LEMMA InitWire == Init => WireInv
<1> SUFFICES ASSUME Init PROVE WireInv
  OBVIOUS
<1>1. WireType
  BY Constants DEF Init, WireInit, WireType
<1>2. MessagesOf(sent, 0) = {}
  BY DEF MessagesOf
<1>3. Heard = 0 /\ ~InCallback
  BY DEF Init, WireInit, Heard, InCallback
<1>4. {handled[k] : k \in DOMAIN handled} = {}
  BY DEF Init, WireInit
<1>5. Reassembled
  BY <1>2, <1>3, <1>4 DEF Init, WireInit, Reassembled, Bytes
<1>6. Laid /\ WithinRecords /\ AtMessage /\ NotClosed
  BY <1>3 DEF Init, WireInit, Laid, WithinRecords, AtMessage, NotClosed, Bytes
<1> QED
  BY <1>1, <1>5, <1>6 DEF WireInv

\* A step that moves no bytes, and is in a callback as before.
LEMMA QuietWire ==
    ASSUME WireInv, UNCHANGED <<secure, sent, ends, decrypted, taken, rx, parsed, handled>>,
           running' \in BOOLEAN,
           worker' \in {"polling", "parsing", "calling", "handling", "leaving", "done"},
           InCallback' <=> InCallback
    PROVE  WireInv'
<1>1. WireType'
  BY DEF WireInv, WireType
<1>2. Heard' = Heard
  BY DEF Heard, InCallback
<1>3. Reassembled'
  BY <1>2 DEF WireInv, Reassembled, Bytes
<1>4. Laid' /\ WithinRecords' /\ AtMessage' /\ NotClosed'
  BY DEF WireInv, Laid, WithinRecords, AtMessage, NotClosed, Bytes, FrameThere, NextFrame
<1> QED
  BY <1>1, <1>3, <1>4 DEF WireInv

\* What was sent stays as it is.
LEMMA SentGrows ==
    ASSUME WireInv, NEW f \in Frames, PeerSends(f)
    PROVE  /\ sent' \in Seq(Frames) /\ ends' \in Seq(Nat)
           /\ Len(sent') = Len(sent) + 1 /\ Len(ends') = Len(sent) + 1
           /\ \A i \in 1..Len(sent) : sent'[i] = sent[i] /\ ends'[i] = ends[i]
           /\ sent'[Len(sent) + 1] = f
           /\ ends'[Len(sent) + 1] = Bytes(Len(sent)) + f.size
<1>1. Bytes(Len(sent)) + f.size \in Nat
  <2>1. Len(sent) \in 0..Len(sent)
    BY DEF WireInv, WireType
  <2>2. Bytes(Len(sent)) \in Nat
    BY <2>1, BytesType
  <2> QED
    BY <2>2, Constants
<1> QED
  BY <1>1 DEF WireInv, WireType, PeerSends

\* The messages among frames that two sequences share are the same.
LEMMA SamePrefix ==
    ASSUME NEW s, NEW t, NEW n \in Nat, \A i \in 1..n : s[i] = t[i]
    PROVE  /\ MessagesOf(s, n) = MessagesOf(t, n)
           /\ Switches(s, n) = Switches(t, n)
           /\ LastSwitch(s, n) = LastSwitch(t, n)
           /\ n > 0 => RateTaken(s, n) = RateTaken(t, n)
<1>1. MessagesOf(s, n) = MessagesOf(t, n)
  BY DEF MessagesOf
<1>2. \A i \in MessagesOf(t, n) : i \in 1..n
  BY DEF MessagesOf
<1>3. Switches(s, n) = Switches(t, n)
  BY <1>1, <1>2 DEF Switches
<1>4. LastSwitch(s, n) = LastSwitch(t, n)
  BY <1>3 DEF LastSwitch, LastOf
<1>5. \A i \in LastSwitch(t, n) : i \in 1..n
  BY <1>2 DEF LastSwitch, LastOf, Switches
<1>6. ASSUME n > 0
      PROVE  RateTaken(s, n) = RateTaken(t, n)
  <2>1. s[n] = t[n]
    BY <1>6
  <2>2. {AnnouncedBy(s[j].message) : j \in LastSwitch(s, n)}
          = {AnnouncedBy(t[j].message) : j \in LastSwitch(t, n)}
    BY <1>4, <1>5
  <2>3. CASE t[n].kind = "binary"
    BY <2>1, <2>2, <2>3 DEF RateTaken
  <2>4. CASE t[n].kind # "binary"
    BY <2>1, <2>4 DEF RateTaken
  <2> QED
    BY <2>3, <2>4
<1> QED
  BY <1>1, <1>3, <1>4, <1>6

LEMMA PeerSendsWire ==
    ASSUME WireInv, NEW f \in Frames, PeerSends(f)
    PROVE  WireInv'
<1>1. /\ sent' \in Seq(Frames) /\ ends' \in Seq(Nat)
      /\ Len(sent') = Len(sent) + 1 /\ Len(ends') = Len(sent) + 1
      /\ \A i \in 1..Len(sent) : sent'[i] = sent[i] /\ ends'[i] = ends[i]
      /\ sent'[Len(sent) + 1] = f
      /\ ends'[Len(sent) + 1] = Bytes(Len(sent)) + f.size
  BY SentGrows
<1>2. WireType'
  BY <1>1, Constants DEF WireInv, WireType, PeerSends
<1>3. \A n \in 0..Len(sent) : Bytes(n)' = Bytes(n)
  BY <1>1 DEF WireInv, WireType, Bytes
<1>4. Laid'
  <2> SUFFICES ASSUME NEW i \in 1..(Len(sent) + 1)
               PROVE  ends'[i] = Bytes(i - 1)' + sent'[i].size
    BY <1>1 DEF Laid
  <2>1. i - 1 \in 0..Len(sent) /\ Bytes(i - 1)' = Bytes(i - 1)
    BY <1>3 DEF WireInv, WireType
  <2>2. CASE i = Len(sent) + 1
    BY <1>1, <2>1, <2>2 DEF WireInv, WireType
  <2>3. CASE i \in 1..Len(sent)
    BY <1>1, <2>1, <2>3 DEF WireInv, Laid
  <2>4. i = Len(sent) + 1 \/ i \in 1..Len(sent)
    BY DEF WireInv, WireType
  <2> QED
    BY <2>2, <2>3, <2>4
<1>5. Heard' = Heard /\ (InCallback' <=> InCallback)
  BY DEF PeerSends, Heard, InCallback
<1>6. /\ decrypted \in Nat /\ parsed \in 0..Len(sent) /\ Len(sent) \in Nat
      /\ parsed' = parsed /\ decrypted' = decrypted /\ taken' = taken /\ rx' = rx
      /\ secure' = secure /\ handled' = handled
  BY DEF WireInv, WireType, PeerSends
<1>7. Bytes(parsed)' = Bytes(parsed)
  BY <1>1, <1>6 DEF Bytes
<1>8. WithinRecords'
  <2>1. secure => taken <= decrypted /\ decrypted <= Bytes(Len(sent))
    BY DEF WireInv, WithinRecords
  <2>2. (Bytes(Len(sent)))' = ends'[Len(sent) + 1]
    BY <1>1, <1>6 DEF Bytes
  <2>3. Bytes(Len(sent)) \in Nat /\ f.size \in Nat
    BY <1>6, BytesType, Constants
  <2> QED
    BY <1>1, <1>6, <2>1, <2>2, <2>3 DEF WithinRecords
<1>9. AtMessage'
  <2> SUFFICES ASSUME InCallback PROVE FrameThere' /\ IsMessage(NextFrame)'
    BY <1>5 DEF AtMessage
  <2>1. parsed < Len(sent) /\ rx >= sent[parsed + 1].size /\ IsMessage(sent[parsed + 1])
    BY DEF WireInv, AtMessage, FrameThere, NextFrame
  <2>2. sent'[parsed + 1] = sent[parsed + 1]
    <3>1. parsed + 1 \in 1..Len(sent)
      BY ONLY <1>6, <2>1
    <3> QED
      BY ONLY <1>1, <3>1
  <2> QED
    BY <1>1, <1>6, <2>1, <2>2 DEF FrameThere, NextFrame, IsMessage
<1>10. NotClosed'
  <2>1. \A i \in 1..parsed : i \in 1..Len(sent)
    BY ONLY <1>6
  <2>2. \A i \in 1..parsed : sent'[i] = sent[i]
    BY ONLY <1>1, <2>1
  <2> QED
    BY <1>6, <2>2 DEF WireInv, NotClosed
<1>11. Heard \in 0..Len(sent)
  BY <1>6 DEF WireInv, AtMessage, InCallback, Heard, FrameThere
<1>12. MessagesOf(sent', Heard) = MessagesOf(sent, Heard)
  <2>1. Heard \in Nat /\ \A i \in 1..Heard : sent'[i] = sent[i]
    BY <1>1, <1>6, <1>11
  <2> QED
    BY <2>1, SamePrefix
<1>13. Reassembled'
  BY <1>5, <1>6, <1>7, <1>12 DEF WireInv, Reassembled
<1> QED
  BY <1>2, <1>4, <1>8, <1>9, <1>10, <1>13 DEF WireInv

\* Reading, of either kind: bytes go from the connection to rxbuf_.
LEMMA ReadWire ==
    ASSUME WireInv, NEW n \in Nat, taken' = taken + n, rx' = rx + n,
           ~InCallback, worker' = "parsing",
           decrypted' \in Nat, WithinRecords',
           UNCHANGED <<secure, sent, ends, parsed, running, handled>>
    PROVE  WireInv'
<1>1. WireType'
  BY DEF WireInv, WireType
<1>2. Heard' = Heard /\ ~InCallback'
  BY DEF Heard, InCallback
<1>3. Laid' /\ AtMessage' /\ NotClosed'
  BY <1>2 DEF WireInv, Laid, AtMessage, NotClosed, Bytes
<1>4. taken' = Bytes(parsed)' + rx'
  <2>1. Bytes(parsed) \in Nat /\ taken \in Nat /\ rx \in Nat
    BY BytesType DEF WireInv, WireType
  <2>2. Bytes(parsed)' = Bytes(parsed)
    BY DEF Bytes
  <2> QED
    BY <2>1, <2>2 DEF WireInv, Reassembled
<1>5. Reassembled'
  BY <1>2, <1>4 DEF WireInv, Reassembled
<1> QED
  BY <1>1, <1>3, <1>5 DEF WireInv

LEMMA RecvWire ==
    ASSUME WireInv, NEW n \in 1..ReadSize, Recv(n)
    PROVE  WireInv'
<1>1. n \in Nat
  BY Constants
<1>2. ~InCallback
  BY DEF Recv, InCallback
<1>3. WithinRecords'
  BY DEF Recv, WithinRecords
<1> QED
  BY <1>1, <1>2, <1>3, ReadWire DEF Recv, WireInv, WireType

LEMMA SslReadWire ==
    ASSUME WireInv, SslRead
    PROVE  WireInv'
<1>1. /\ decrypted \in Nat /\ taken \in Nat /\ Bytes(Len(sent)) \in Nat
      /\ taken <= decrypted /\ decrypted < Bytes(Len(sent))
  <2>1. decrypted \in Nat /\ taken \in Nat /\ Len(sent) \in 0..Len(sent)
    BY DEF WireInv, WireType
  <2>2. Bytes(Len(sent)) \in Nat
    BY <2>1, BytesType
  <2>3. secure /\ Bytes(Len(sent)) - decrypted > 0
    BY DEF SslRead, OnSocket
  <2> QED
    BY <2>1, <2>2, <2>3 DEF WireInv, WithinRecords
<1>2. PICK end \in Records :
        /\ decrypted' = end
        /\ taken' = taken + Shorter(ReadSize, end - taken)
        /\ rx' = rx + Shorter(ReadSize, end - taken)
  BY DEF SslRead
<1>3. end \in Nat /\ taken <= end /\ end <= Bytes(Len(sent))
  <2>1. CASE taken < decrypted
    BY <1>1, <1>2, <2>1 DEF Records
  <2>2. CASE ~(taken < decrypted)
    BY <1>1, <1>2, <2>2 DEF Records
  <2> QED
    BY <2>1, <2>2
<1> DEFINE n == Shorter(ReadSize, end - taken)
<1>4. n \in Nat /\ taken + n <= end
  BY <1>1, <1>3, Constants DEF Shorter
<1>5. taken' = taken + n /\ rx' = rx + n
  BY <1>2
<1>6. ~InCallback
  BY DEF SslRead, InCallback
<1>7. /\ worker' = "parsing"
      /\ UNCHANGED <<secure, sent, ends, parsed, running, handled>>
  BY DEF SslRead
<1> HIDE DEF n
<1>8. WithinRecords'
  <2>1. Bytes(Len(sent))' = Bytes(Len(sent))
    BY <1>7 DEF Bytes
  <2> QED
    BY <1>2, <1>3, <1>4, <1>5, <2>1 DEF WithinRecords
<1> QED
  BY <1>2, <1>3, <1>4, <1>5, <1>6, <1>7, <1>8, ReadWire

\* One frame more, one message more, if it is one.
LEMMA MoreMessages ==
    ASSUME NEW s, NEW n \in Nat, \A i \in 1..n : s[i].kind # "close"
    PROVE  /\ ~IsMessage(s[n + 1]) => MessagesOf(s, n + 1) = MessagesOf(s, n)
           /\ IsMessage(s[n + 1]) => MessagesOf(s, n + 1) = MessagesOf(s, n) \cup {n + 1}
           /\ \A i \in MessagesOf(s, n) : i \in 1..n
<1>1. \A i \in 1..(n + 1) : i \in 1..n \/ i = n + 1
  OBVIOUS
<1>2. \A i \in 1..n : i \in 1..(n + 1) /\ \A j \in 1..i : j \in 1..n
  OBVIOUS
<1>3. IsMessage(s[n + 1]) => s[n + 1].kind # "close"
  BY DEF IsMessage
<1> QED
  BY <1>1, <1>2, <1>3 DEF MessagesOf

\* A frame is taken out of rxbuf_, of which the callbacks have heard if it is a message.
LEMMA EraseWire ==
    ASSUME WireInv, FrameThere, Erase, NextFrame.kind # "close",
           InCallback \/ ~IsMessage(NextFrame),
           UNCHANGED <<secure, sent, ends, decrypted, taken, running, handled>>
    PROVE  WireInv'
<1>1. /\ parsed \in 0..(Len(sent) - 1) /\ parsed \in Nat /\ Len(sent) \in Nat
      /\ parsed' = parsed + 1 /\ rx' = rx - sent[parsed + 1].size /\ rx \in Nat
      /\ rx >= sent[parsed + 1].size
      /\ worker' = "parsing"
  BY DEF WireInv, WireType, FrameThere, Erase, RestAfterFrame, NextFrame, WorkerAfterFrame
<1>2. /\ sent[parsed + 1].size \in Nat /\ Bytes(parsed) \in Nat
      /\ Bytes(parsed + 1) = Bytes(parsed) + sent[parsed + 1].size
  BY <1>1, BytesType
<1>3. WireType'
  BY <1>1, <1>2, SMTT(30) DEF WireInv, WireType
<1>4. ~InCallback' /\ Heard' = parsed + 1
  BY <1>1 DEF InCallback, Heard
<1>5. MessagesOf(sent, parsed + 1) = MessagesOf(sent, Heard)
  <2>1. CASE InCallback
    BY <2>1 DEF Heard, InCallback
  <2>2. CASE ~InCallback
    BY <1>1, <2>2, MoreMessages DEF WireInv, NotClosed, NextFrame, Heard, InCallback
  <2> QED
    BY <2>1, <2>2
<1>6. taken' = Bytes(parsed)' + rx'
  <2>1. taken = Bytes(parsed) + rx
    BY DEF WireInv, Reassembled
  <2>2. Bytes(parsed)' = Bytes(parsed + 1)
    BY <1>1 DEF Bytes
  <2> QED
    BY <1>1, <1>2, <2>1, <2>2
<1>7. Reassembled'
  BY <1>4, <1>5, <1>6 DEF WireInv, Reassembled
<1>8. NotClosed'
  <2>1. \A i \in 1..(parsed + 1) : i \in 1..parsed \/ i = parsed + 1
    BY <1>1
  <2> QED
    BY <1>1, <2>1 DEF WireInv, NotClosed, NextFrame
<1>9. Laid' /\ WithinRecords' /\ AtMessage'
  BY <1>4 DEF WireInv, Laid, WithinRecords, AtMessage, Bytes
<1> QED
  BY <1>3, <1>7, <1>8, <1>9 DEF WireInv

LEMMA PassesOverWire ==
    ASSUME WireInv, PassesOver
    PROVE  WireInv'
BY EraseWire DEF PassesOver

LEMMA ReturnsWire ==
    ASSUME WireInv, NEW from \in {"calling", "handling"}, CallbackReturns(from)
    PROVE  WireInv'
<1>1. InCallback
  BY DEF CallbackReturns, InCallback
<1>2. FrameThere /\ NextFrame.kind # "close"
  BY <1>1 DEF WireInv, AtMessage, IsMessage
<1> QED
  BY <1>1, <1>2, EraseWire DEF CallbackReturns

LEMMA CallsBackWire ==
    ASSUME WireInv, CallsBack
    PROVE  WireInv'
<1>1. /\ parsed \in 0..(Len(sent) - 1) /\ parsed \in Nat /\ Len(sent) \in Nat
      /\ Len(sent) <= MaxFrames /\ handled \in Seq(1..MaxFrames)
      /\ IsMessage(sent[parsed + 1])
  BY DEF WireInv, WireType, CallsBack, FrameThere, NextFrame
<1>2. parsed + 1 \in 1..MaxFrames
  BY <1>1, Constants
<1>3. /\ handled' \in Seq(1..MaxFrames) /\ Len(handled) \in Nat
      /\ Len(handled') = Len(handled) + 1
      /\ \A k \in 1..Len(handled) : handled'[k] = handled[k]
      /\ handled'[Len(handled) + 1] = parsed + 1
      /\ DOMAIN handled' = 1..(Len(handled) + 1)
      /\ DOMAIN handled = 1..Len(handled)
  BY <1>1, <1>2 DEF CallsBack
<1>4. WireType'
  BY <1>3 DEF WireInv, WireType, CallsBack
<1>5. Heard = parsed /\ Heard' = parsed + 1
  BY DEF CallsBack, Heard
<1>6. /\ {handled[k] : k \in DOMAIN handled} = MessagesOf(sent, parsed)
      /\ \A k, l \in DOMAIN handled : k < l => handled[k] < handled[l]
  BY <1>5 DEF WireInv, Reassembled
<1>7. /\ MessagesOf(sent, parsed + 1) = MessagesOf(sent, parsed) \cup {parsed + 1}
      /\ \A i \in MessagesOf(sent, parsed) : i \in 1..parsed
  BY <1>1, MoreMessages DEF WireInv, NotClosed
<1>8. {handled'[k] : k \in DOMAIN handled'}
        = {handled[k] : k \in DOMAIN handled} \cup {parsed + 1}
  <2>1. \A k : k \in 1..(Len(handled) + 1) <=> k \in 1..Len(handled) \/ k = Len(handled) + 1
    BY <1>3
  <2> QED
    BY <1>3, <2>1
<1>9. \A k, l \in DOMAIN handled' : k < l => handled'[k] < handled'[l]
  <2> SUFFICES ASSUME NEW k \in 1..(Len(handled) + 1), NEW l \in 1..(Len(handled) + 1), k < l
               PROVE  handled'[k] < handled'[l]
    BY <1>3
  <2>1. k \in 1..Len(handled) /\ handled'[k] = handled[k]
    BY <1>3
  <2>2. handled[k] \in 1..parsed
    BY <1>3, <1>6, <1>7, <2>1
  <2>3. CASE l = Len(handled) + 1
    BY <1>1, <1>3, <2>1, <2>2, <2>3
  <2>4. CASE l \in 1..Len(handled)
    BY <1>3, <1>6, <2>1, <2>4
  <2>5. l = Len(handled) + 1 \/ l \in 1..Len(handled)
    BY <1>3
  <2> QED
    BY <2>3, <2>4, <2>5
<1>10. Bytes(parsed)' = Bytes(parsed)
  BY DEF CallsBack, Bytes
<1>11. Reassembled'
  <2>1. taken' = Bytes(parsed)' + rx'
    BY <1>10 DEF WireInv, Reassembled, CallsBack
  <2>2. sent' = sent
    BY DEF CallsBack
  <2>3. {handled'[k] : k \in DOMAIN handled'} = MessagesOf(sent, parsed + 1)
    BY <1>6, <1>7, <1>8
  <2> QED
    BY <1>5, <1>9, <2>1, <2>2, <2>3 DEF Reassembled
<1>12. Laid' /\ WithinRecords' /\ AtMessage' /\ NotClosed'
  BY DEF WireInv, CallsBack, Laid, WithinRecords, AtMessage, NotClosed, Bytes, FrameThere,
         NextFrame
<1> QED
  BY <1>4, <1>11, <1>12 DEF WireInv

\* The steps that move nothing.
LEMMA OtherWire ==
    ASSUME WireInv, \/ ConnectionEnds \/ StopRunning \/ PollTimesOut \/ Waits \/ PeerCloses
                    \/ CallbackGoesOn \/ CloseReturns
    PROVE  WireInv'
<1>1. /\ UNCHANGED <<secure, sent, ends, decrypted, taken, rx, parsed, handled>>
      /\ running' \in BOOLEAN
      /\ worker' \in {"polling", "parsing", "calling", "handling", "leaving", "done"}
      /\ InCallback' <=> InCallback
  BY DEF WireInv, WireType, InCallback, ConnectionEnds, StopRunning, PollTimesOut, Waits,
         PeerCloses, CallbackGoesOn, CloseReturns, LoopTest
<1> QED
  BY <1>1, QuietWire

LEMMA NextWire == WireInv /\ [Next]_vars => WireInv'
<1> SUFFICES ASSUME WireInv, [Next]_vars PROVE WireInv'
  OBVIOUS
<1>1. CASE Transfer
  <2>1. ASSUME NEW f \in Frames, PeerSends(f) PROVE WireInv'
    BY <2>1, PeerSendsWire
  <2>2. ASSUME NEW n \in 1..ReadSize, Recv(n) PROVE WireInv'
    BY <2>2, RecvWire
  <2> QED
    BY <1>1, <2>1, <2>2, SslReadWire, PassesOverWire, CallsBackWire, OtherWire
       DEF Transfer, WireStep
<1>2. CASE CallbackIgnored
  BY <1>2, ReturnsWire DEF CallbackIgnored
<1>3. CASE CallbackEntered
  BY <1>3, OtherWire DEF CallbackEntered
<1>4. CASE Deliver
  BY <1>4, ReturnsWire DEF Deliver
<1>5. CASE Close
  BY <1>5, OtherWire DEF Close
<1>6. CASE Lives \/ UNCHANGED vars
  <2>1. UNCHANGED wireVars
    BY <1>6 DEF Lives, vars
  <2> QED
    BY <2>1, QuietWire DEF wireVars, InCallback, WireInv, WireType
<1>7. CASE Disconnect
  BY <1>7, OtherWire DEF Disconnect
<1> QED
  BY <1>1, <1>2, <1>3, <1>4, <1>5, <1>6, <1>7 DEF Next

LEMMA SpecWire == Spec => []WireInv
<1> QED
  BY InitWire, NextWire, PTL DEF Spec

\* processFrame: whatever the frames and however a plain or a TLS connection hands out
\* their bytes, rxbuf_ begins with the next frame, and the callbacks hear every message
\* once, in the order sent, and none behind a close frame.
THEOREM AllReassembled == Spec => []Reassembled
<1>1. WireInv => Reassembled
  BY DEF WireInv
<1> QED
  BY <1>1, SpecWire, PTL

-----------------------------------------------------------------------------
(* What a message is *)

Rates == {8000 * k : k \in 1..8}

MultipleOf8000(x) == (x % 8000) = 0 /\ x \in 8000..64000

LEMMA Multiples ==
    ASSUME NEW x \in Int
    PROVE  MultipleOf8000(x) <=> x \in Rates
<1>1. (x % 8000) = 0 => x = 8000 * (x \div 8000)
  BY SMTT(30)
<1>2. (x \div 8000) \in Int
  OBVIOUS
<1>3. ASSUME MultipleOf8000(x) PROVE x \in Rates
  <2>1. (x % 8000) = 0 /\ x \in 8000..64000
    BY <1>3, SMTT(30) DEF MultipleOf8000
  <2>2. x = 8000 * (x \div 8000)
    BY <1>1, <2>1, SMTT(30)
  <2> DEFINE k == x \div 8000
  <2>3. x = 8000 * k /\ k \in Int
    BY <1>2, <2>2, SMTT(30)
  <2> HIDE DEF k
  <2>4. k \in 1..8
    BY <2>1, <2>3, SMTT(30)
  <2> QED
    BY <2>3, <2>4, SMTT(30) DEF Rates
<1>4. ASSUME x \in Rates PROVE MultipleOf8000(x)
  <2>1. PICK k \in 1..8 : x = 8000 * k
    BY <1>4 DEF Rates
  <2>2. x \in {8000, 16000, 24000, 32000, 40000, 48000, 56000, 64000}
    BY <2>1, SMTT(30)
  <2> QED
    BY <2>2, SMTT(30) DEF MultipleOf8000
<1> QED
  BY <1>3, <1>4

LEMMA Supported ==
    ASSUME NEW m, m.rate \in Int
    PROVE  SupportedRate(m) <=> (m.codec = "raw" => m.rate \in Rates)
<1>1. SupportedRate(m) <=> (m.codec = "raw" => MultipleOf8000(m.rate))
  BY DEF SupportedRate, MultipleOf8000
<1>2. MultipleOf8000(m.rate) <=> m.rate \in Rates
  BY Multiples
<1> QED
  BY <1>1, <1>2

\* What is said of a text m by the outcome r of processMessage.
Says(m, r) ==
    /\ r.rate \in Int
    /\ r.ok /\ r.kind = "raw" /\ ~r.audio => SwitchesOn(m) /\ r.rate = AnnouncedBy(m)
    /\ r.ok /\ r.audio =>
          /\ Understood(m) /\ ~SwitchesOn(m)
          /\ r.rate = IF m.codec = "opus" THEN 48000
                      ELSE IF m.codec = "raw" THEN m.rate ELSE 8000
    /\ r.ok /\ r.kind # "raw" /\ ~r.audio => Understood(m) /\ ~SwitchesOn(m)
    /\ ~r.ok => ~Understood(m) /\ ~SwitchesOn(m)

LEMMA Fields ==
    ASSUME NEW r, NEW kind, NEW audio \in BOOLEAN, NEW rate,
           r = [ok |-> TRUE, kind |-> kind, audio |-> audio, rate |-> rate]
    PROVE  r.ok /\ r.kind = kind /\ (r.audio <=> audio) /\ r.rate = rate
OBVIOUS

LEMMA Classified ==
    ASSUME NEW m, m.content \in {"none", "invalid", "blank", "audio"}, m.rate \in Int
    PROVE  Says(m, ProcessMessage(m))
<1> DEFINE r == ProcessMessage(m)
<1>1. SupportedRate(m) <=> (m.codec = "raw" => m.rate \in Rates)
  BY Supported
<1>2. CASE m.type = "rawAudio"
  <2>1. r = [ok |-> TRUE, kind |-> "raw", audio |-> FALSE, rate |-> MetadataRate(m)]
    BY <1>2 DEF ProcessMessage
  <2>2. SwitchesOn(m) /\ ~Understood(m)
    BY <1>2 DEF SwitchesOn, IsMetadata, TakenForMetadata, Understood
  <2>3. MetadataRate(m) \in Int /\ MetadataRate(m) = AnnouncedBy(m)
    BY <1>2 DEF MetadataRate, AnnouncedBy, NoRate
  <2> HIDE DEF r
  <2>4. r.ok /\ r.kind = "raw" /\ ~r.audio /\ r.rate = MetadataRate(m)
    BY <2>1
  <2>5. Says(m, r)
    BY <2>2, <2>3, <2>4 DEF Says
  <2> QED
    BY <2>5 DEF r
<1>3. CASE m.type # "rawAudio" /\ ~Understood(m)
  <2>1. r = Failure
    BY <1>1, <1>3 DEF ProcessMessage, Understood, Rates
  <2>2. ~SwitchesOn(m)
    BY <1>3 DEF SwitchesOn, IsMetadata, TakenForMetadata, Understood, AudioTypes, Rates
  <2> HIDE DEF r
  <2>3. ~r.ok /\ r.rate = 8000
    BY <2>1, Zenon DEF Failure
  <2>4. Says(m, r)
    BY <1>3, <2>2, <2>3 DEF Says
  <2> QED
    BY <2>4 DEF r
<1>4. CASE Understood(m)
  <2>1. r = Decoded(m)
    BY <1>1, <1>4 DEF ProcessMessage, Understood, Rates
  <2>2. m.codec \in AudioTypes /\ m.type = "streamAudio" /\ m.content \in {"audio", "blank"}
    BY <1>4 DEF Understood
  <2> DEFINE audio == m.content = "audio"
  <2>3. CASE m.codec = "raw"
    <3>1. Decoded(m) = [ok |-> TRUE, kind |-> "raw", audio |-> audio, rate |-> m.rate]
      BY <2>3 DEF Decoded
    <3>2. SwitchesOn(m) <=> ~audio
      BY <1>4, <2>2, <2>3 DEF SwitchesOn, IsMetadata, TakenForMetadata, Understood, Rates
    <3>3. AnnouncedBy(m) = m.rate
      BY <2>2, <2>3 DEF AnnouncedBy
    <3>4. audio \in BOOLEAN
      OBVIOUS
    <3> HIDE DEF r, audio
    <3>5. r.ok /\ r.kind = "raw" /\ (r.audio <=> audio) /\ r.rate = m.rate
      BY <2>1, <3>1, <3>4, Fields
    <3>6. Says(m, r)
      BY <1>4, <2>3, <3>2, <3>3, <3>5 DEF Says
    <3> QED
      BY <3>6 DEF r
  <2>4. CASE m.codec = "opus"
    <3>1. Decoded(m) = [ok |-> TRUE, kind |-> "raw", audio |-> audio, rate |-> 48000]
      BY <2>4 DEF Decoded
    <3>2. SwitchesOn(m) <=> ~audio
      BY <2>2, <2>4 DEF SwitchesOn, IsMetadata, TakenForMetadata
    <3>3. AnnouncedBy(m) = 48000
      BY <2>2, <2>4 DEF AnnouncedBy
    <3>4. audio \in BOOLEAN
      OBVIOUS
    <3> HIDE DEF r, audio
    <3>5. r.ok /\ r.kind = "raw" /\ (r.audio <=> audio) /\ r.rate = 48000
      BY <2>1, <3>1, <3>4, Fields
    <3>6. Says(m, r)
      BY <1>4, <2>4, <3>2, <3>3, <3>5 DEF Says
    <3> QED
      BY <3>6 DEF r
  <2>5. CASE m.codec = "pcmu" \/ m.codec = "pcma"
    <3>1. Decoded(m) = [ok |-> TRUE, kind |-> m.codec, audio |-> audio, rate |-> 8000]
      <4>1. CASE m.codec = "pcmu"
        BY <4>1 DEF Decoded
      <4>2. CASE m.codec = "pcma"
        BY <4>2 DEF Decoded
      <4> QED
        BY <2>5, <4>1, <4>2
    <3>2. ~SwitchesOn(m)
      BY <2>2, <2>5 DEF SwitchesOn, IsMetadata, TakenForMetadata
    <3>4. audio \in BOOLEAN
      OBVIOUS
    <3> HIDE DEF r, audio
    <3>5. r.ok /\ r.kind = m.codec /\ (r.audio <=> audio) /\ r.rate = 8000
      BY <2>1, <3>1, <3>4, Fields
    <3>6. Says(m, r)
      BY <1>4, <2>5, <3>2, <3>5 DEF Says
    <3> QED
      BY <3>6 DEF r
  <2>6. CASE m.codec = "wav"
    <3>1. Decoded(m) = [ok |-> TRUE, kind |-> "none", audio |-> FALSE, rate |-> 8000]
      BY <2>6 DEF Decoded
    <3>2. ~SwitchesOn(m)
      BY <2>2, <2>6 DEF SwitchesOn, IsMetadata, TakenForMetadata
    <3> HIDE DEF r
    <3>3. r.ok /\ r.kind = "none" /\ ~r.audio /\ r.rate = 8000
      BY <2>1, <3>1
    <3>4. Says(m, r)
      BY <1>4, <2>6, <3>2, <3>3 DEF Says
    <3> QED
      BY <3>4 DEF r
  <2> QED
    BY <2>2, <2>3, <2>4, <2>5, <2>6 DEF AudioTypes
<1> QED
  BY <1>2, <1>3, <1>4

\* What one frame more does to the metadata.
LEMMA MoreMetadata ==
    ASSUME NEW s, NEW n \in Nat, \A i \in 1..n : s[i].kind # "close"
    PROVE  /\ ~(IsMessage(s[n + 1]) /\ s[n + 1].kind = "text" /\ SwitchesOn(s[n + 1].message))
                => LastSwitch(s, n + 1) = LastSwitch(s, n)
           /\ IsMessage(s[n + 1]) /\ s[n + 1].kind = "text" /\ SwitchesOn(s[n + 1].message)
                => LastSwitch(s, n + 1) = {n + 1}
<1>1. /\ ~IsMessage(s[n + 1]) => MessagesOf(s, n + 1) = MessagesOf(s, n)
      /\ IsMessage(s[n + 1]) => MessagesOf(s, n + 1) = MessagesOf(s, n) \cup {n + 1}
      /\ \A i \in MessagesOf(s, n) : i \in 1..n
  BY MoreMessages
<1>2. ASSUME ~(IsMessage(s[n + 1]) /\ s[n + 1].kind = "text" /\ SwitchesOn(s[n + 1].message))
      PROVE  LastSwitch(s, n + 1) = LastSwitch(s, n)
  <2>1. Switches(s, n + 1) = Switches(s, n)
    BY <1>1, <1>2 DEF Switches
  <2> QED
    BY <2>1 DEF LastSwitch, LastOf
<1>3. ASSUME IsMessage(s[n + 1]), s[n + 1].kind = "text", SwitchesOn(s[n + 1].message)
      PROVE  LastSwitch(s, n + 1) = {n + 1}
  <2>1. Switches(s, n + 1) = Switches(s, n) \cup {n + 1}
    BY <1>1, <1>3 DEF Switches
  <2>2. \A i \in Switches(s, n) : i \in 1..n
    BY <1>1 DEF Switches
  <2>3. \A i \in Switches(s, n) : i <= n + 1 /\ ~(n + 1 <= i)
    BY <2>2
  <2> QED
    BY <2>1, <2>3 DEF LastSwitch, LastOf
<1> QED
  BY <1>2, <1>3

-----------------------------------------------------------------------------
(* The streamer *)

\* The rate noted is the one of the resampler there is.
Kept == resampler = 0 \/ noted = resampler

\* Before STREAM_SAMPLE_RATE is read it is not read too late.
NotLateYet == stage = "created" => ~late

\* What was played and fired belongs to a frame dealt with.
Placed ==
    /\ block # NoBlock => block.of \in 1..parsed
    /\ event # NoEvent => event.of \in 1..parsed

\* In raw mode the rate is that of the last metadata, or STREAM_SAMPLE_RATE read after it.
RawRight ==
    rawActive /\ stage # "cleaned" =>
        \E i \in 1..parsed :
            /\ LastSwitch(sent, parsed) = {i}
            /\ rawRate = AnnouncedBy(sent[i].message) \/ (late /\ rawRate = conf.rate)

StreamInv == /\ StreamType /\ Kept /\ NotLateYet /\ Placed /\ RawRight
             /\ PlayedAsTaken /\ PlayedAtNativeRate /\ EventsByCode

LEMMA Numbers ==
    /\ \A r \in VarRates : r \in Int
    /\ Native \in Int
    /\ \A f \in Frames : /\ f.message.content \in {"none", "invalid", "blank", "audio"}
                         /\ f.message.rate \in Int
BY StreamAssumption, ReceiveAssumption

LEMMA InitStream == Init => StreamInv
<1> SUFFICES ASSUME Init PROVE StreamInv
  OBVIOUS
<1>1. StreamType
  <2>1. NoBlock \in [of : Nat, rate : Int, resampler : Int, late : BOOLEAN]
    BY DEF NoBlock
  <2>2. NoEvent \in [of : Nat, name : {"none", "play", "json"}]
    BY SMTT(30) DEF NoEvent
  <2>3. /\ block = NoBlock /\ event = NoEvent /\ stage = "created"
        /\ rawActive = FALSE /\ late = FALSE
        /\ rawRate = 8000 /\ resampler = 0 /\ noted = Native
    BY Zenon DEF Init, StreamInit
  <2>4. /\ block \in [of : Nat, rate : Int, resampler : Int, late : BOOLEAN]
        /\ event \in [of : Nat, name : {"none", "play", "json"}]
    BY <2>1, <2>2, <2>3, Zenon
  <2>5. /\ rawActive \in BOOLEAN /\ late \in BOOLEAN
        /\ stage \in {"created", "rated", "published", "cleaned"}
    BY <2>3, Zenon
  <2>6. Native \in Int /\ 8000 \in Int /\ 0 \in Int
    BY Numbers
  <2>7. rawRate \in Int /\ resampler \in Int /\ noted \in Int
    BY <2>3, <2>6
  <2>8. conf \in [rate : VarRates, playback : Playbacks]
    BY DEF Init, StreamInit
  <2> QED
    BY <2>4, <2>5, <2>7, <2>8, Zenon DEF StreamType
<1>2. Kept /\ NotLateYet /\ Placed /\ RawRight
  BY DEF Init, StreamInit, Kept, NotLateYet, Placed, RawRight
<1>3. PlayedAsTaken /\ PlayedAtNativeRate /\ EventsByCode
  BY DEF Init, StreamInit, PlayedAsTaken, PlayedAtNativeRate, EventsByCode
<1> QED
  BY <1>1, <1>2, <1>3 DEF StreamInv

\* What was said of the past stays true when frames are added and dealt with.
LEMMA StreamPast ==
    ASSUME WireInv, StreamInv, parsed' \in Nat, parsed <= parsed', UNCHANGED conf,
           \A i \in 1..parsed : sent'[i] = sent[i]
    PROVE  /\ UNCHANGED block => /\ block # NoBlock => block.of \in 1..parsed'
                                 /\ PlayedAsTaken'
           /\ UNCHANGED event => /\ event # NoEvent => event.of \in 1..parsed'
                                 /\ EventsByCode'
<1>1. parsed \in Nat
  BY DEF WireInv, WireType
<1>2. /\ block # NoBlock => block.of \in 1..parsed
      /\ event # NoEvent => event.of \in 1..parsed
  BY DEF StreamInv, Placed
<1>3. ASSUME UNCHANGED block
      PROVE  /\ block # NoBlock => block.of \in 1..parsed'
             /\ PlayedAsTaken'
  <2>1. block # NoBlock => block.of \in 1..parsed'
    BY <1>1, <1>2
  <2>2. ASSUME block # NoBlock
        PROVE  \/ RateTaken(sent', block.of) = {block.rate}
               \/ /\ sent'[block.of].kind = "binary" /\ RateTaken(sent', block.of) # {}
                  /\ block.late /\ block.rate = conf.rate
    <3> DEFINE n == block.of
    <3>1. n \in 1..parsed /\ n \in Nat /\ n > 0 /\ \A i \in 1..n : sent'[i] = sent[i]
      BY <1>1, <1>2, <2>2
    <3>2. sent'[n] = sent[n]
      BY <3>1
    <3> HIDE DEF n
    <3>3. RateTaken(sent', n) = RateTaken(sent, n)
      BY <3>1, SamePrefix
    <3> QED
      BY <2>2, <3>2, <3>3 DEF StreamInv, PlayedAsTaken, n
  <2>3. PlayedAsTaken'
    BY <1>3, <2>2 DEF PlayedAsTaken
  <2> QED
    BY <2>1, <2>3
<1>4. ASSUME UNCHANGED event
      PROVE  /\ event # NoEvent => event.of \in 1..parsed'
             /\ EventsByCode'
  <2>1. event # NoEvent => event.of \in 1..parsed' /\ sent'[event.of] = sent[event.of]
    BY <1>1, <1>2
  <2>2. EventsByCode'
    BY <1>4, <2>1 DEF StreamInv, EventsByCode
  <2> QED
    BY <2>1, <2>2
<1> QED
  BY <1>3, <1>4

\* The streamer stays as it is.
LEMMA QuietStream ==
    ASSUME WireInv, StreamInv, UNCHANGED streamVars, parsed' \in Nat, parsed <= parsed',
           \A i \in 1..parsed : sent'[i] = sent[i],
           stage = "cleaned" \/ LastSwitch(sent', parsed') = LastSwitch(sent, parsed)
    PROVE  StreamInv'
<1>1. UNCHANGED <<stage, conf, rawActive, rawRate, resampler, noted, block, event, late>>
  BY DEF streamVars
<1>2. StreamType' /\ Kept' /\ NotLateYet' /\ PlayedAtNativeRate'
  BY <1>1 DEF StreamInv, StreamType, Kept, NotLateYet, PlayedAtNativeRate, MustResample
<1>3. Placed' /\ PlayedAsTaken' /\ EventsByCode'
  BY <1>1, StreamPast DEF Placed
<1>4. RawRight'
  <2> SUFFICES ASSUME rawActive, stage # "cleaned"
               PROVE  \E i \in 1..parsed' :
                         /\ LastSwitch(sent', parsed') = {i}
                         /\ \/ rawRate = AnnouncedBy(sent'[i].message)
                            \/ late /\ rawRate = conf.rate
    BY <1>1 DEF RawRight
  <2>1. PICK i \in 1..parsed :
            /\ LastSwitch(sent, parsed) = {i}
            /\ rawRate = AnnouncedBy(sent[i].message) \/ (late /\ rawRate = conf.rate)
    BY DEF StreamInv, RawRight
  <2>2. i \in 1..parsed' /\ sent'[i] = sent[i]
    BY DEF WireInv, WireType
  <2>3. LastSwitch(sent', parsed') = {i}
    BY <2>1
  <2> QED
    BY <2>1, <2>2, <2>3
<1> QED
  BY <1>2, <1>3, <1>4 DEF StreamInv

\* Playing: the resampler is for the rate, or there is none.
LEMMA PlayKeeps ==
    ASSUME StreamInv, NEW i \in Nat, NEW rate \in Int, NEW works \in BOOLEAN,
           Play(i, rate, works)
    PROVE  /\ resampler' \in Int /\ noted' \in Int
           /\ block' \in [of : Nat, rate : Int, resampler : Int, late : BOOLEAN]
           /\ Kept' /\ PlayedAtNativeRate'
           /\ \/ UNCHANGED block
              \/ stage = "published" /\ block'.of = i /\ block'.rate = rate
                 /\ (block'.late <=> late)
<1>1. /\ resampler \in Int /\ noted \in Int /\ Kept /\ PlayedAtNativeRate
  BY DEF StreamInv, StreamType
<1>2. late \in BOOLEAN
  BY DEF StreamInv, StreamType
<1>3. block \in [of : Nat, rate : Int, resampler : Int, late : BOOLEAN]
  BY DEF StreamInv, StreamType
<1>4. CASE ~Plays
  <2>1. UNCHANGED <<resampler, noted, block>>
    BY <1>4 DEF Play
  <2> QED
    BY <1>1, <1>3, <2>1 DEF Kept, PlayedAtNativeRate, MustResample
<1>5. CASE Plays
  <2> DEFINE used == IF MustResample(rate) THEN resampler' ELSE 0
  <2>1. /\ Resampling(rate, works)
        /\ block' = [of |-> i, rate |-> rate, resampler |-> used, late |-> late]
    BY <1>5 DEF Play
  <2>2. /\ resampler' \in Int /\ noted' \in Int
        /\ resampler' = 0 \/ noted' = resampler'
        /\ MustResample(rate) => resampler' = rate \/ resampler' = 0
    <3>1. CASE MustResample(rate) /\ NeedsNew(rate)
      <4>1. resampler' = (IF works THEN rate ELSE 0) /\ noted' = resampler'
        BY <2>1, <3>1 DEF Resampling
      <4> QED
        BY <4>1
    <3>2. CASE ~(MustResample(rate) /\ NeedsNew(rate))
      <4>1. UNCHANGED <<resampler, noted>>
        BY <2>1, <3>2 DEF Resampling
      <4> QED
        BY <1>1, <3>2, <4>1 DEF NeedsNew, Kept
    <3> QED
      BY <3>1, <3>2
  <2>3. used \in Int /\ (MustResample(rate) => used = resampler')
    BY <2>2
  <2> HIDE DEF used
  <2>4. /\ block'.of = i /\ block'.rate = rate /\ block'.resampler = used
        /\ block' \in [of : Nat, rate : Int, resampler : Int, late : BOOLEAN]
    BY <1>2, <2>1, <2>3
  <2>5. block'.late <=> late
    BY <1>2, <2>1
  <2>6. PlayedAtNativeRate'
    BY <2>2, <2>3, <2>4 DEF PlayedAtNativeRate, MustResample
  <2> QED
    BY <1>5, <2>2, <2>4, <2>5, <2>6 DEF Kept, Plays
<1> QED
  BY <1>4, <1>5

\* What a message does to the frames dealt with, and to the metadata among them.
LEMMA Delivered ==
    ASSUME WireInv, CallbackReturns("handling")
    PROVE  /\ parsed \in Nat /\ parsed' = parsed + 1 /\ sent' = sent
           /\ NextFrame \in Frames /\ NextFrame = sent[parsed + 1]
           /\ \/ /\ NextFrame.kind = "text" /\ SwitchesOn(NextFrame.message)
                 /\ LastSwitch(sent, parsed + 1) = {parsed + 1}
              \/ /\ ~(NextFrame.kind = "text" /\ SwitchesOn(NextFrame.message))
                 /\ LastSwitch(sent, parsed + 1) = LastSwitch(sent, parsed)
<1>1. FrameThere /\ IsMessage(NextFrame)
  BY DEF CallbackReturns, WireInv, AtMessage, InCallback
<1>2. parsed \in Nat /\ parsed \in 0..(Len(sent) - 1)
  BY <1>1 DEF FrameThere, WireInv, WireType
<1>3. sent[parsed + 1] \in Frames
  BY <1>2, BytesType
<1>4. \A i \in 1..parsed : sent[i].kind # "close"
  BY DEF WireInv, NotClosed
<1> QED
  BY <1>1, <1>2, <1>3, <1>4, MoreMetadata DEF NextFrame, CallbackReturns, Erase

\* An event is fired for the message.
LEMMA Fired ==
    ASSUME WireInv, CallbackReturns("handling"), NEW name \in {"play", "json"},
           event' = [of |-> parsed + 1, name |-> name],
           name = "play"
             <=> Understood(NextFrame.message) /\ ~SwitchesOn(NextFrame.message)
    PROVE  /\ event' \in [of : Nat, name : {"none", "play", "json"}]
           /\ event'.of \in 1..parsed'
           /\ EventsByCode'
<1>1. parsed \in Nat /\ parsed' = parsed + 1 /\ sent' = sent /\ NextFrame = sent[parsed + 1]
  BY Delivered
<1>2. event'.of = parsed + 1 /\ event'.name = name
  OBVIOUS
<1>3. event' \in [of : Nat, name : {"none", "play", "json"}]
  BY <1>1
<1>4. sent'[event'.of].message = NextFrame.message
  BY <1>1, <1>2
<1>5. EventsByCode'
  BY <1>2, <1>4 DEF EventsByCode, Understood, Rates
<1> QED
  BY <1>1, <1>2, <1>3, <1>5

\* A message that is no metadata leaves raw mode as it is.
LEMMA RawStays ==
    ASSUME WireInv, StreamInv, CallbackReturns("handling"),
           UNCHANGED <<stage, conf, rawActive, rawRate, late>>,
           ~(NextFrame.kind = "text" /\ SwitchesOn(NextFrame.message))
    PROVE  RawRight'
<1>1. /\ parsed \in Nat /\ parsed' = parsed + 1 /\ sent' = sent
      /\ LastSwitch(sent, parsed + 1) = LastSwitch(sent, parsed)
  BY Delivered
<1> SUFFICES ASSUME rawActive, stage # "cleaned"
             PROVE  \E i \in 1..(parsed + 1) :
                       /\ LastSwitch(sent, parsed + 1) = {i}
                       /\ rawRate = AnnouncedBy(sent[i].message) \/ (late /\ rawRate = conf.rate)
  BY <1>1 DEF RawRight
<1>2. PICK i \in 1..parsed :
          /\ LastSwitch(sent, parsed) = {i}
          /\ rawRate = AnnouncedBy(sent[i].message) \/ (late /\ rawRate = conf.rate)
  BY DEF StreamInv, RawRight
<1>3. i \in 1..(parsed + 1)
  BY <1>1
<1> QED
  BY <1>1, <1>2, <1>3

\* The message is played, or not.
LEMMA Played ==
    ASSUME WireInv, StreamInv, CallbackReturns("handling"), UNCHANGED conf,
           NEW rate \in Int, NEW works \in BOOLEAN, Play(parsed + 1, rate, works),
           stage = "published" =>
               \/ RateTaken(sent, parsed + 1) = {rate}
               \/ /\ sent[parsed + 1].kind = "binary" /\ RateTaken(sent, parsed + 1) # {}
                  /\ late /\ rate = conf.rate
    PROVE  /\ resampler' \in Int /\ noted' \in Int
           /\ block' \in [of : Nat, rate : Int, resampler : Int, late : BOOLEAN]
           /\ Kept' /\ PlayedAtNativeRate' /\ PlayedAsTaken'
           /\ block' # NoBlock => block'.of \in 1..parsed'
<1>1. parsed \in Nat /\ parsed' = parsed + 1 /\ sent' = sent
  BY Delivered
<1>2. parsed + 1 \in Nat
  BY <1>1
<1>3. /\ resampler' \in Int /\ noted' \in Int
      /\ block' \in [of : Nat, rate : Int, resampler : Int, late : BOOLEAN]
      /\ Kept' /\ PlayedAtNativeRate'
      /\ \/ UNCHANGED block
         \/ stage = "published" /\ block'.of = parsed + 1 /\ block'.rate = rate
            /\ (block'.late <=> late)
  BY <1>2, PlayKeeps
<1>4. CASE UNCHANGED block
  <2>1. parsed' \in Nat /\ parsed <= parsed' /\ \A i \in 1..parsed : sent'[i] = sent[i]
    BY <1>1
  <2>2. PlayedAsTaken' /\ (block # NoBlock => block.of \in 1..parsed')
    BY <1>4, <2>1, StreamPast
  <2> QED
    BY <1>3, <1>4, <2>2
<1>5. CASE stage = "published" /\ block'.of = parsed + 1 /\ block'.rate = rate
           /\ (block'.late <=> late)
  <2>1. \/ RateTaken(sent', block'.of) = {block'.rate}
        \/ /\ sent'[block'.of].kind = "binary" /\ RateTaken(sent', block'.of) # {}
           /\ block'.late /\ block'.rate = conf'.rate
    BY <1>1, <1>5
  <2>2. PlayedAsTaken'
    BY <2>1 DEF PlayedAsTaken
  <2> QED
    BY <1>1, <1>3, <1>5, <2>2
<1> QED
  BY <1>3, <1>4, <1>5

LEMMA MetadataStream ==
    ASSUME WireInv, StreamInv, CallbackReturns("handling"), NextFrame.kind = "text",
           HandleMetadata(parsed + 1, NextFrame.message)
    PROVE  StreamInv'
<1> DEFINE m == NextFrame.message
           r == ProcessMessage(m)
<1>1. /\ parsed \in Nat /\ parsed' = parsed + 1 /\ sent' = sent
      /\ NextFrame \in Frames /\ NextFrame = sent[parsed + 1]
  BY Delivered
<1>2. Says(m, r)
  BY <1>1, Numbers, Classified
<1>3. /\ r.ok /\ r.kind = "raw" /\ ~r.audio
      /\ rawActive' = TRUE /\ rawRate' = r.rate
      /\ event' = [of |-> parsed + 1, name |-> "json"]
      /\ late' = FALSE
      /\ UNCHANGED <<stage, conf, resampler, noted, block>>
  BY DEF HandleMetadata
<1> HIDE DEF r
<1>4. SwitchesOn(m) /\ r.rate = AnnouncedBy(m) /\ r.rate \in Int
  BY <1>2, <1>3 DEF Says
<1> HIDE DEF m
<1>5. /\ event' \in [of : Nat, name : {"none", "play", "json"}]
      /\ event'.of \in 1..parsed' /\ EventsByCode'
  <2>1. "json" \in {"play", "json"} /\ "json" # "play"
    OBVIOUS
  <2> QED
    BY <1>3, <1>4, <2>1, Fired DEF m
<1>6. parsed' \in Nat /\ parsed <= parsed' /\ \A i \in 1..parsed : sent'[i] = sent[i]
  BY <1>1
<1>7. PlayedAsTaken' /\ (block # NoBlock => block.of \in 1..parsed')
  BY <1>3, <1>6, StreamPast
<1>8. StreamType'
  <2>1. rawActive' \in BOOLEAN /\ late' \in BOOLEAN
    BY <1>3, Zenon
  <2>2. /\ stage \in {"created", "rated", "published", "cleaned"}
        /\ conf \in [rate : VarRates, playback : Playbacks]
        /\ resampler \in Int /\ noted \in Int
        /\ block \in [of : Nat, rate : Int, resampler : Int, late : BOOLEAN]
    BY DEF StreamInv, StreamType
  <2>3. rawRate' \in Int
    BY <1>3, <1>4
  <2> QED
    BY <1>3, <1>5, <2>1, <2>2, <2>3 DEF StreamType
<1>9. Placed'
  BY <1>3, <1>5, <1>7 DEF Placed
<1>10. RawRight'
  <2>1. LastSwitch(sent', parsed') = {parsed + 1}
    BY <1>1, <1>4, Delivered DEF m
  <2>2. parsed + 1 \in 1..parsed' /\ rawRate' = AnnouncedBy(sent'[parsed + 1].message)
    BY <1>1, <1>3, <1>4 DEF m
  <2> QED
    BY <2>1, <2>2 DEF RawRight
<1>11. Kept' /\ NotLateYet' /\ PlayedAtNativeRate'
  BY <1>3 DEF StreamInv, Kept, NotLateYet, PlayedAtNativeRate, MustResample
<1> QED
  BY <1>5, <1>7, <1>8, <1>9, <1>10, <1>11 DEF StreamInv

LEMMA AudioStream ==
    ASSUME WireInv, StreamInv, CallbackReturns("handling"), NextFrame.kind = "text",
           NEW works \in BOOLEAN, HandleAudio(parsed + 1, NextFrame.message, works)
    PROVE  StreamInv'
<1> DEFINE m == NextFrame.message
           r == ProcessMessage(m)
<1>1. /\ parsed \in Nat /\ parsed' = parsed + 1 /\ sent' = sent
      /\ NextFrame \in Frames /\ NextFrame = sent[parsed + 1]
  BY Delivered
<1>2. Says(m, r)
  BY <1>1, Numbers, Classified
<1>3. /\ r.ok /\ r.audio
      /\ Play(parsed + 1, r.rate, works)
      /\ event' = [of |-> parsed + 1, name |-> "play"]
      /\ UNCHANGED <<stage, conf, rawActive, rawRate, late>>
  BY DEF HandleAudio
<1> HIDE DEF r
<1>4. /\ Understood(m) /\ ~SwitchesOn(m) /\ r.rate \in Int
      /\ r.rate = IF m.codec = "opus" THEN 48000 ELSE IF m.codec = "raw" THEN m.rate ELSE 8000
  BY <1>2, <1>3 DEF Says
<1>5. RateTaken(sent, parsed + 1) = {r.rate}
  BY <1>1, <1>4 DEF RateTaken
<1> HIDE DEF m
<1>6. /\ event' \in [of : Nat, name : {"none", "play", "json"}]
      /\ event'.of \in 1..parsed' /\ EventsByCode'
  <2>1. "play" \in {"play", "json"}
    OBVIOUS
  <2> QED
    BY <1>3, <1>4, <2>1, Fired DEF m
<1>7. /\ resampler' \in Int /\ noted' \in Int
      /\ block' \in [of : Nat, rate : Int, resampler : Int, late : BOOLEAN]
      /\ Kept' /\ PlayedAtNativeRate' /\ PlayedAsTaken'
      /\ block' # NoBlock => block'.of \in 1..parsed'
  BY <1>3, <1>4, <1>5, Played
<1>8. StreamType'
  BY <1>3, <1>6, <1>7 DEF StreamInv, StreamType
<1>9. Placed'
  BY <1>6, <1>7 DEF Placed
<1>10. RawRight'
  BY <1>3, <1>4, RawStays DEF m
<1>11. NotLateYet'
  BY <1>3 DEF StreamInv, NotLateYet
<1> QED
  BY <1>6, <1>7, <1>8, <1>9, <1>10, <1>11 DEF StreamInv

\* An event is all there is.
LEMMA EventStream ==
    ASSUME WireInv, StreamInv, CallbackReturns("handling"), NextFrame.kind = "text",
           \/ HandleUndecoded(parsed + 1, NextFrame.message)
           \/ HandleOther(parsed + 1, NextFrame.message)
    PROVE  StreamInv'
<1> DEFINE m == NextFrame.message
           r == ProcessMessage(m)
<1>1. /\ parsed \in Nat /\ parsed' = parsed + 1 /\ sent' = sent
      /\ NextFrame \in Frames /\ NextFrame = sent[parsed + 1]
  BY Delivered
<1>2. Says(m, r)
  BY <1>1, Numbers, Classified
<1>3. /\ \/ /\ r.ok /\ r.kind # "raw" /\ ~r.audio
            /\ event' = [of |-> parsed + 1, name |-> "play"]
         \/ ~r.ok /\ event' = [of |-> parsed + 1, name |-> "json"]
      /\ UNCHANGED <<stage, conf, rawActive, rawRate, resampler, noted, block, late>>
  BY DEF HandleUndecoded, HandleOther
<1> HIDE DEF r
<1>4. PICK name \in {"play", "json"} :
         /\ event' = [of |-> parsed + 1, name |-> name]
         /\ name = "play" <=> Understood(m) /\ ~SwitchesOn(m)
  BY <1>2, <1>3 DEF Says
<1>5. ~SwitchesOn(m)
  BY <1>2, <1>3 DEF Says
<1> HIDE DEF m
<1>6. /\ event' \in [of : Nat, name : {"none", "play", "json"}]
      /\ event'.of \in 1..parsed' /\ EventsByCode'
  BY <1>4, Fired DEF m
<1>7. parsed' \in Nat /\ parsed <= parsed' /\ \A i \in 1..parsed : sent'[i] = sent[i]
  BY <1>1
<1>8. PlayedAsTaken' /\ (block # NoBlock => block.of \in 1..parsed')
  BY <1>3, <1>7, StreamPast
<1>9. StreamType'
  BY <1>3, <1>6 DEF StreamInv, StreamType
<1>10. Placed'
  BY <1>3, <1>6, <1>8 DEF Placed
<1>11. RawRight'
  BY <1>3, <1>5, RawStays DEF m
<1>12. Kept' /\ NotLateYet' /\ PlayedAtNativeRate'
  BY <1>3 DEF StreamInv, Kept, NotLateYet, PlayedAtNativeRate, MustResample
<1> QED
  BY <1>6, <1>8, <1>9, <1>10, <1>11, <1>12 DEF StreamInv

\* Binary audio in raw mode is of the last metadata's rate.
LEMMA BinaryStream ==
    ASSUME WireInv, StreamInv, CallbackReturns("handling"), NextFrame.kind = "binary",
           rawActive, NEW works \in BOOLEAN, Play(parsed + 1, rawRate, works),
           UNCHANGED <<stage, conf, rawActive, rawRate, event, late>>
    PROVE  StreamInv'
<1>1. /\ parsed \in Nat /\ parsed' = parsed + 1 /\ sent' = sent
      /\ NextFrame = sent[parsed + 1]
      /\ LastSwitch(sent, parsed + 1) = LastSwitch(sent, parsed)
  BY Delivered
<1>2. rawRate \in Int
  BY DEF StreamInv, StreamType
<1>3. ASSUME stage = "published"
      PROVE  \/ RateTaken(sent, parsed + 1) = {rawRate}
             \/ /\ sent[parsed + 1].kind = "binary" /\ RateTaken(sent, parsed + 1) # {}
                /\ late /\ rawRate = conf.rate
  <2>1. PICK i \in 1..parsed :
            /\ LastSwitch(sent, parsed) = {i}
            /\ rawRate = AnnouncedBy(sent[i].message) \/ (late /\ rawRate = conf.rate)
    BY <1>3 DEF StreamInv, RawRight
  <2>2. RateTaken(sent, parsed + 1) = {AnnouncedBy(sent[i].message)}
    BY <1>1, <2>1 DEF RateTaken
  <2> QED
    BY <1>1, <2>1, <2>2
<1>4. /\ resampler' \in Int /\ noted' \in Int
      /\ block' \in [of : Nat, rate : Int, resampler : Int, late : BOOLEAN]
      /\ Kept' /\ PlayedAtNativeRate' /\ PlayedAsTaken'
      /\ block' # NoBlock => block'.of \in 1..parsed'
  BY <1>2, <1>3, Played
<1>5. parsed' \in Nat /\ parsed <= parsed' /\ \A i \in 1..parsed : sent'[i] = sent[i]
  BY <1>1
<1>6. EventsByCode' /\ (event # NoEvent => event.of \in 1..parsed')
  BY <1>5, StreamPast
<1>7. StreamType'
  BY <1>4 DEF StreamInv, StreamType
<1>8. Placed'
  BY <1>4, <1>6 DEF Placed
<1>9. RawRight'
  BY RawStays
<1>10. NotLateYet'
  BY DEF StreamInv, NotLateYet
<1> QED
  BY <1>4, <1>6, <1>7, <1>8, <1>9, <1>10 DEF StreamInv

\* A message that is not looked at.
LEMMA UnseenStream ==
    ASSUME WireInv, StreamInv, CallbackReturns("handling"), UNCHANGED streamVars,
           stage = "cleaned" \/ NextFrame.kind = "binary"
    PROVE  StreamInv'
<1>1. /\ parsed \in Nat /\ parsed' = parsed + 1 /\ sent' = sent
      /\ NextFrame.kind = "binary" => LastSwitch(sent, parsed + 1) = LastSwitch(sent, parsed)
  BY Delivered
<1>2. parsed' \in Nat /\ parsed <= parsed' /\ \A i \in 1..parsed : sent'[i] = sent[i]
  BY <1>1
<1>3. stage = "cleaned" \/ LastSwitch(sent', parsed') = LastSwitch(sent, parsed)
  BY <1>1
<1> QED
  BY <1>2, <1>3, QuietStream

LEMMA DeliverStream ==
    ASSUME WireInv, StreamInv, Deliver
    PROVE  StreamInv'
<1>1. CallbackReturns("handling")
  BY DEF Deliver
<1>2. CASE NextFrame.kind = "text" /\ HandleText(parsed + 1, NextFrame.message)
  <2>1. CASE NotLocated
    BY <1>1, <2>1, UnseenStream DEF NotLocated
  <2>2. CASE HandleMetadata(parsed + 1, NextFrame.message)
    BY <1>1, <1>2, <2>2, MetadataStream
  <2>3. CASE \/ HandleUndecoded(parsed + 1, NextFrame.message)
             \/ HandleOther(parsed + 1, NextFrame.message)
    BY <1>1, <1>2, <2>3, EventStream
  <2>4. ASSUME NEW works \in BOOLEAN, HandleAudio(parsed + 1, NextFrame.message, works)
        PROVE  StreamInv'
    BY <1>1, <1>2, <2>4, AudioStream
  <2> QED
    BY <1>2, <2>1, <2>2, <2>3, <2>4 DEF HandleText
<1>3. CASE NextFrame.kind = "binary" /\ HandleBinary(parsed + 1)
  <2>1. CASE NotLocated \/ UNCHANGED streamVars
    BY <1>1, <1>3, <2>1, UnseenStream DEF NotLocated
  <2>2. ASSUME rawActive, UNCHANGED <<stage, conf, rawActive, rawRate, event, late>>,
               NEW works \in BOOLEAN, Play(parsed + 1, rawRate, works)
        PROVE  StreamInv'
    BY <1>1, <1>3, <2>2, BinaryStream
  <2> QED
    BY <1>3, <2>1, <2>2 DEF HandleBinary
<1> QED
  BY <1>2, <1>3 DEF Deliver

LEMMA SameStream ==
    ASSUME WireInv, StreamInv, UNCHANGED <<sent, parsed, streamVars>>
    PROVE  StreamInv'
<1>1. parsed \in Nat
  BY DEF WireInv, WireType
<1>2. /\ parsed' \in Nat /\ parsed <= parsed' /\ \A i \in 1..parsed : sent'[i] = sent[i]
      /\ LastSwitch(sent', parsed') = LastSwitch(sent, parsed)
  BY <1>1
<1> QED
  BY <1>2, QuietStream

LEMMA TransferStream ==
    ASSUME WireInv, StreamInv, Transfer
    PROVE  StreamInv'
<1>1. UNCHANGED streamVars /\ WireStep
  BY DEF Transfer
<1>2. parsed \in Nat /\ parsed \in 0..Len(sent) /\ Len(sent) \in Nat
  BY DEF WireInv, WireType
<1>3. ASSUME NEW f \in Frames, PeerSends(f)
      PROVE  StreamInv'
  <2>1. parsed' = parsed
    BY <1>3 DEF PeerSends
  <2>2. \A i \in 1..Len(sent) : sent'[i] = sent[i]
    BY <1>3, SentGrows
  <2>3. \A i \in 1..parsed : sent'[i] = sent[i]
    BY <1>2, <2>2
  <2>4. LastSwitch(sent', parsed) = LastSwitch(sent, parsed)
    BY <1>2, <2>3, SamePrefix
  <2> QED
    BY <1>1, <1>2, <2>1, <2>3, <2>4, QuietStream
<1>4. CASE PassesOver
  <2>1. parsed' = parsed + 1 /\ sent' = sent /\ ~IsMessage(sent[parsed + 1])
    BY <1>4 DEF PassesOver, Erase, NextFrame
  <2>2. LastSwitch(sent, parsed + 1) = LastSwitch(sent, parsed)
    BY <1>2, <2>1, MoreMetadata DEF WireInv, NotClosed
  <2>3. parsed' \in Nat /\ parsed <= parsed' /\ \A i \in 1..parsed : sent'[i] = sent[i]
    BY <1>2, <2>1
  <2> QED
    BY <1>1, <2>1, <2>2, <2>3, QuietStream
<1>5. CASE \/ \E n \in 1..ReadSize : Recv(n)
           \/ SslRead \/ ConnectionEnds \/ PollTimesOut \/ Waits \/ PeerCloses \/ CallsBack
  <2>1. UNCHANGED <<sent, parsed>>
    BY <1>5 DEF Recv, SslRead, ConnectionEnds, PollTimesOut, Waits, PeerCloses, CallsBack
  <2> QED
    BY <1>1, <2>1, SameStream
<1> QED
  BY <1>1, <1>3, <1>4, <1>5 DEF WireStep

LEMMA IgnoredStream ==
    ASSUME WireInv, StreamInv, CallbackIgnored
    PROVE  StreamInv'
<1>1. stage = "cleaned" /\ UNCHANGED streamVars /\ parsed' = parsed + 1 /\ sent' = sent
  BY DEF CallbackIgnored, Ignored, CallbackReturns, Erase
<1>2. parsed \in Nat
  BY DEF WireInv, WireType
<1>3. parsed' \in Nat /\ parsed <= parsed' /\ \A i \in 1..parsed : sent'[i] = sent[i]
  BY <1>1, <1>2
<1> QED
  BY <1>1, <1>3, QuietStream

\* A step that plays nothing and fires nothing, among the same frames.
LEMMA LivingStream ==
    ASSUME WireInv, StreamInv, UNCHANGED <<sent, parsed, conf, resampler, noted, block, event>>,
           StreamType', NotLateYet', RawRight'
    PROVE  StreamInv'
<1>1. parsed \in Nat
  BY DEF WireInv, WireType
<1>2. parsed' \in Nat /\ parsed <= parsed' /\ \A i \in 1..parsed : sent'[i] = sent[i]
  BY <1>1
<1>3. /\ PlayedAsTaken' /\ (block # NoBlock => block.of \in 1..parsed')
      /\ EventsByCode' /\ (event # NoEvent => event.of \in 1..parsed')
  BY <1>2, StreamPast
<1>4. Kept' /\ PlayedAtNativeRate' /\ Placed'
  BY <1>3 DEF StreamInv, Kept, PlayedAtNativeRate, MustResample, Placed
<1> QED
  BY <1>3, <1>4 DEF StreamInv

LEMMA CloseStream ==
    ASSUME WireInv, StreamInv, Close
    PROVE  StreamInv'
<1>1. UNCHANGED <<sent, parsed, stage, conf, rawRate, resampler, noted, block, event, late>>
  BY DEF Close, CloseReturns, HandleClose
<1>2. IF stage = "cleaned" THEN UNCHANGED rawActive ELSE rawActive' = FALSE
  BY DEF Close, HandleClose, Ignored
<1>3. StreamType'
  <2>1. rawActive' \in BOOLEAN
    BY <1>2 DEF StreamInv, StreamType
  <2> QED
    BY <1>1, <2>1 DEF StreamInv, StreamType
<1>4. RawRight'
  BY <1>1, <1>2 DEF RawRight
<1>5. NotLateYet'
  BY <1>1 DEF StreamInv, NotLateYet
<1> QED
  BY <1>1, <1>3, <1>4, <1>5, LivingStream

LEMMA LivesStream ==
    ASSUME WireInv, StreamInv, Lives
    PROVE  StreamInv'
<1>1. UNCHANGED <<sent, parsed>>
  BY DEF Lives, wireVars
<1>2. CASE SetRawSampleRate
  <2>1. /\ stage = "created" /\ stage' = "rated"
        /\ rawRate' = IF conf.rate # 0 THEN conf.rate ELSE rawRate
        /\ late' = (rawActive /\ conf.rate # 0)
        /\ UNCHANGED <<conf, rawActive, resampler, noted, block, event>>
    BY <1>2 DEF SetRawSampleRate
  <2>2. ~late
    BY <2>1 DEF StreamInv, NotLateYet
  <2>3. conf.rate \in Int
    BY Numbers DEF StreamInv, StreamType
  <2>4. StreamType'
    <3>1. late' \in BOOLEAN
      BY <2>1, Zenon
    <3>2. rawRate' \in Int
      BY <2>1, <2>3 DEF StreamInv, StreamType
    <3> QED
      BY <2>1, <3>1, <3>2 DEF StreamInv, StreamType
  <2>5. RawRight'
    <3> SUFFICES ASSUME rawActive
                 PROVE  \E i \in 1..parsed :
                           /\ LastSwitch(sent, parsed) = {i}
                           /\ \/ rawRate' = AnnouncedBy(sent[i].message)
                              \/ late' /\ rawRate' = conf.rate
      BY <1>1, <2>1 DEF RawRight
    <3>1. PICK i \in 1..parsed :
              /\ LastSwitch(sent, parsed) = {i}
              /\ rawRate = AnnouncedBy(sent[i].message) \/ (late /\ rawRate = conf.rate)
      BY <2>1 DEF StreamInv, RawRight
    <3> QED
      BY <2>1, <2>2, <3>1
  <2>6. NotLateYet'
    BY <2>1 DEF NotLateYet
  <2> QED
    BY <1>1, <2>1, <2>4, <2>5, <2>6, LivingStream
<1>3. CASE Publish \/ CleanUp
  <2>1. /\ stage # "cleaned" /\ stage' \in {"published", "cleaned"}
        /\ UNCHANGED <<conf, rawActive, rawRate, resampler, noted, block, event, late>>
    BY <1>3 DEF Publish, CleanUp
  <2>2. StreamType'
    BY <2>1 DEF StreamInv, StreamType
  <2>3. RawRight'
    BY <1>1, <2>1 DEF StreamInv, RawRight
  <2>4. NotLateYet'
    BY <2>1 DEF NotLateYet
  <2> QED
    BY <1>1, <2>1, <2>2, <2>3, <2>4, LivingStream
<1> QED
  BY <1>2, <1>3 DEF Lives, StreamStep

LEMMA NextStream == WireInv /\ StreamInv /\ [Next]_vars => StreamInv'
<1> SUFFICES ASSUME WireInv, StreamInv, [Next]_vars PROVE StreamInv'
  OBVIOUS
<1>1. CASE CallbackEntered
  BY <1>1, SameStream DEF CallbackEntered, CallbackGoesOn
<1>2. CASE Disconnect
  BY <1>2, SameStream DEF Disconnect, StopRunning
<1>3. CASE UNCHANGED vars
  BY <1>3, SameStream DEF vars, wireVars
<1> QED
  BY <1>1, <1>2, <1>3, TransferStream, IgnoredStream, DeliverStream, CloseStream, LivesStream
     DEF Next

LEMMA SpecStream == Spec => [](WireInv /\ StreamInv)
<1> QED
  BY InitWire, NextWire, InitStream, NextStream, PTL DEF Spec

\* The variables of the wire and of the streamer keep to their types.
THEOREM TypeCorrect == Spec => []TypeOK
<1>1. WireInv /\ StreamInv => TypeOK
  BY DEF WireInv, StreamInv, TypeOK
<1> QED
  BY <1>1, SpecStream, PTL

\* eventCallback, onBinaryData: with any rates in the messages, the resampler that the
\* two share is one for the rate of the audio it is given, if it could be made.
THEOREM NativeRate == Spec => []PlayedAtNativeRate
<1>1. StreamInv => PlayedAtNativeRate
  BY DEF StreamInv
<1> QED
  BY <1>1, SpecStream, PTL

\* Among metadata and blank audio, what was sent last is metadata or not.
LEMMA LastIsMetadata ==
    ASSUME NEW s, NEW n \in Nat, NEW i, LastSwitch(s, n) = {i}, IsMetadata(s[i].message)
    PROVE  LastMetadata(s, n) = {i}
<1>1. \A j \in Metadata(s, n) : j \in Switches(s, n)
  BY DEF Metadata, Switches, SwitchesOn
<1>2. i \in Switches(s, n) /\ \A j \in Switches(s, n) : j <= i
  BY DEF LastSwitch, LastOf
<1>3. i \in Metadata(s, n)
  BY <1>2 DEF Metadata, Switches
<1>4. \A j \in Metadata(s, n) : j \in 1..n
  BY DEF Metadata, MessagesOf
<1>5. i \in LastMetadata(s, n)
  BY <1>1, <1>2, <1>3 DEF LastMetadata, LastOf
<1>6. ASSUME NEW j \in LastMetadata(s, n) PROVE j = i
  <2>1. j \in Metadata(s, n) /\ i <= j
    BY <1>3, <1>6 DEF LastMetadata, LastOf
  <2>2. j <= i
    BY <1>1, <1>2, <2>1
  <2> QED
    BY <1>3, <1>4, <2>1, <2>2
<1> QED
  BY <1>5, <1>6

\* Binary audio that the code takes to be of the rate of what switched raw mode on.
LEMMA TakenAsMeant ==
    ASSUME WireInv, StreamInv, block # NoBlock, sent[block.of].kind = "binary",
           RateTaken(sent, block.of) = {block.rate}
    PROVE  \/ RateMeant(sent, block.of) = {block.rate}
           \/ RateOfBlankAudio \/ DefaultForgotten
<1> DEFINE n == block.of
<1>1. n \in Nat
  BY DEF WireInv, WireType, StreamInv, Placed
<1>2. {AnnouncedBy(sent[j].message) : j \in LastSwitch(sent, n)} = {block.rate}
  BY DEF RateTaken
<1>3. PICK i \in LastSwitch(sent, n) : AnnouncedBy(sent[i].message) = block.rate
  BY <1>2
<1>4. LastSwitch(sent, n) = {i}
  <2>1. \A j \in LastSwitch(sent, n) : j \in 1..n /\ j <= i /\ i <= j
    BY <1>3 DEF LastSwitch, LastOf, Switches, MessagesOf
  <2> QED
    BY <1>1, <1>3, <2>1
<1>5. SwitchesOn(sent[i].message)
  BY <1>3 DEF LastSwitch, LastOf, Switches
<1>6. CASE TakenForMetadata(sent[i].message)
  <2>1. block.rate = IF sent[i].message.codec = "opus" THEN 48000 ELSE sent[i].message.rate
    BY <1>3, <1>6 DEF AnnouncedBy, TakenForMetadata
  <2> QED
    BY <1>3, <1>6, <2>1 DEF RateOfBlankAudio
<1>7. CASE IsMetadata(sent[i].message) /\ sent[i].message.rate = NoRate
  <2>1. block.rate = 8000
    BY <1>3, <1>7 DEF AnnouncedBy, IsMetadata
  <2> QED
    BY <1>3, <1>7, <2>1 DEF DefaultForgotten
<1>8. CASE IsMetadata(sent[i].message) /\ sent[i].message.rate # NoRate
  <2>1. LastMetadata(sent, n) = {i}
    BY <1>1, <1>4, <1>8, LastIsMetadata
  <2>2. block.rate = sent[i].message.rate
    BY <1>3, <1>8 DEF AnnouncedBy, IsMetadata
  <2> HIDE DEF n
  <2>3. sent[n].kind = "binary" => RateMeant(sent, n) = {sent[i].message.rate}
    BY <1>8, <2>1 DEF RateMeant
  <2> QED
    BY <2>2, <2>3 DEF n
<1> QED
  BY <1>5, <1>6, <1>7, <1>8 DEF SwitchesOn

\* eventCallback, onBinaryData, setRawSampleRate: audio is played as being of the rate
\* that README.md gives it, save for binary audio behind blank audio, behind metadata
\* without a rate, or when STREAM_SAMPLE_RATE was read after the metadata.
THEOREM AsMeant == Spec => []PlayedAsMeant
<1>1. ASSUME WireInv, StreamInv PROVE PlayedAsMeant
  <2> SUFFICES ASSUME block # NoBlock
               PROVE  \/ RateMeant(sent, block.of) = {block.rate}
                      \/ /\ sent[block.of].kind = "binary"
                         /\ RateOfBlankAudio \/ DefaultForgotten \/ MetadataOverridden
    BY DEF PlayedAsMeant
  <2>1. CASE sent[block.of].kind # "binary"
    <3>1. RateTaken(sent, block.of) = {block.rate}
      BY <1>1, <2>1 DEF StreamInv, PlayedAsTaken
    <3>2. RateMeant(sent, block.of) = RateTaken(sent, block.of)
      BY <2>1 DEF RateMeant, RateTaken
    <3> QED
      BY <3>1, <3>2
  <2>2. CASE sent[block.of].kind = "binary" /\ RateTaken(sent, block.of) = {block.rate}
    BY <1>1, <2>2, TakenAsMeant
  <2>3. CASE /\ sent[block.of].kind = "binary" /\ RateTaken(sent, block.of) # {}
             /\ block.late /\ block.rate = conf.rate
    <3>1. LastSwitch(sent, block.of) # {}
      BY <2>3 DEF RateTaken
    <3> QED
      BY <2>3, <3>1 DEF MetadataOverridden
  <2> QED
    BY <1>1, <2>1, <2>2, <2>3 DEF StreamInv, PlayedAsTaken
<1>2. WireInv /\ StreamInv => PlayedAsMeant
  BY <1>1
<1> QED
  BY <1>2, SpecStream, PTL

\* A response is one that the streamer understands, if its rate is not above 64000.
LEMMA Responses ==
    ASSUME NEW m, m.rate \in Int
    PROVE  Understood(m) /\ ~SwitchesOn(m)
             <=> IsResponse(m) /\ ~TooFast(m) /\ ~TakenForMetadata(m)
<1>1. m.rate \in Rates <=> m.rate > 0 /\ (m.rate % 8000) = 0 /\ ~(m.rate > 64000)
  <2> DEFINE x == m.rate
  <2>1. x \in Int /\ (x \in Rates <=> MultipleOf8000(x))
    BY Multiples
  <2> HIDE DEF x
  <2>2. MultipleOf8000(x) <=> x > 0 /\ (x % 8000) = 0 /\ ~(x > 64000)
    <3>1. (x % 8000) = 0 => x = 8000 * (x \div 8000)
      BY <2>1, SMTT(30)
    <3> DEFINE k == x \div 8000
    <3>2. k \in Int
      BY <2>1
    <3> HIDE DEF k
    <3>3. (x % 8000) = 0 /\ x > 0 => x >= 8000
      BY <2>1, <3>1, <3>2, SMTT(30) DEF k
    <3> DEFINE multiple == (x % 8000) = 0
    <3>4. MultipleOf8000(x) <=> multiple /\ x \in 8000..64000
      BY DEF MultipleOf8000
    <3>5. multiple /\ x > 0 => x >= 8000
      BY <3>3
    <3> HIDE DEF multiple
    <3>6. MultipleOf8000(x) <=> multiple /\ x > 0 /\ ~(x > 64000)
      BY <2>1, <3>4, <3>5
    <3> QED
      BY <3>6 DEF multiple
  <2> QED
    BY <2>1, <2>2 DEF x
<1>2. m.type = "streamAudio" => (SwitchesOn(m) <=> TakenForMetadata(m))
  BY DEF SwitchesOn, IsMetadata
<1> QED
  BY <1>1, <1>2 DEF Understood, IsResponse, TooFast, Rates

\* eventCallback: whatever the texts, a play event is fired for streamAudio responses
\* alone, and for each, except for rates above 64000 and blank audio taken for metadata.
THEOREM EventsRight == Spec => []EventsAsDocumented
<1>1. ASSUME WireInv, StreamInv PROVE EventsAsDocumented
  <2> SUFFICES ASSUME event # NoEvent
               PROVE  LET m == sent[event.of].message
                      IN  event.name = "play"
                            <=> IsResponse(m) /\ ~TooFast(m) /\ ~TakenForMetadata(m)
    BY DEF EventsAsDocumented
  <2> DEFINE m == sent[event.of].message
  <2>1. event.name = "play" <=> Understood(m) /\ ~SwitchesOn(m)
    BY <1>1 DEF StreamInv, EventsByCode
  <2>2. sent[event.of] \in Frames
    BY <1>1 DEF WireInv, WireType, StreamInv, Placed
  <2>3. m.rate \in Int
    BY <2>2, Numbers
  <2> HIDE DEF m
  <2>4. Understood(m) /\ ~SwitchesOn(m)
          <=> IsResponse(m) /\ ~TooFast(m) /\ ~TakenForMetadata(m)
    BY <2>3, Responses
  <2>5. event.name = "play" <=> IsResponse(m) /\ ~TooFast(m) /\ ~TakenForMetadata(m)
    BY <2>1, <2>4
  <2> QED
    BY <2>5 DEF m
<1>2. WireInv /\ StreamInv => EventsAsDocumented
  BY <1>1
<1> QED
  BY <1>2, SpecStream, PTL

=============
