--------------------------- MODULE PlaybackProofs ---------------------------
(***************************************************************************)
(* Theorems about Playback, for any message sizes, frame size, capacity and*)
(* number of messages: its types, that a break silences the stream, and    *)
(* that buffer, counters and events agree as long as audio comes in whole  *)
(* frames.                                                                 *)
(***************************************************************************)
EXTENDS Playback, TLAPS

\* FrameBytes is a positive number, and so is every size.
LEMMA Constants ==
    /\ FrameBytes \in Nat /\ FrameBytes > 0
    /\ Capacity \in Nat /\ MaxMessages \in Nat
    /\ \A size \in Sizes : size \in Nat /\ size > 0
BY SizeAssumption

\* A size is its whole frames and the rest.
LEMMA WholeAndRest ==
    ASSUME NEW size \in Nat, size > 0
    PROVE  /\ size \div FrameBytes \in Nat
           /\ size % FrameBytes = 0 =>
                 /\ size = (size \div FrameBytes) * FrameBytes
                 /\ size \div FrameBytes > 0
<1>1. FrameBytes \in Nat /\ FrameBytes > 0
  BY Constants
<1>2. size = FrameBytes * (size \div FrameBytes) + (size % FrameBytes)
  BY <1>1
<1>3. size \div FrameBytes \in Nat
  BY <1>1
<1>4. ASSUME size % FrameBytes = 0
      PROVE  size = (size \div FrameBytes) * FrameBytes /\ size \div FrameBytes > 0
  BY <1>1, <1>2, <1>3, <1>4
<1> QED
  BY <1>3, <1>4
\* A buffer that holds `count` frames and nothing else.
LEMMA Frames ==
    ASSUME NEW bytes \in Nat, NEW count \in Int, bytes = count * FrameBytes
    PROVE  /\ count \in Nat
           /\ bytes >= FrameBytes <=> count > 0
           /\ bytes - FrameBytes = (count - 1) * FrameBytes
           /\ \A more \in Nat : bytes + more * FrameBytes = (count + more) * FrameBytes
<1> USE Constants
<1>1. count >= 0
  <2> SUFFICES ASSUME count <= -1
               PROVE  FALSE
    OBVIOUS
  <2>1. count * FrameBytes <= (-1) * FrameBytes
    OBVIOUS
  <2> QED
    BY <2>1
<1>2. CASE count = 0
  BY <1>2
<1>3. CASE count > 0
  <2>1. count * FrameBytes >= 1 * FrameBytes
    BY <1>3
  <2> QED
    BY <1>3, <2>1
<1> QED
  BY <1>1, <1>2, <1>3

-----------------------------------------------------------------------------
(* The invariant.  BreakSilences is not inductive alone: that no frame is      *)
(* played after a break rests on the buffer being empty, not on the flag the   *)
(* fast path looks at.                                                         *)

EmptyWhenSilent == silent => buffered = 0

Inv ==
    /\ TypeOK
    /\ EmptyWhenSilent
    /\ BreakSilences
    /\ CountsMatch

LEMMA InitInv == Init => Inv
<1> SUFFICES ASSUME Init
             PROVE  Inv
  OBVIOUS
<1>1. TypeOK
  <2>1. buffered \in 0..Capacity /\ messages \in 0..MaxMessages /\ seq \in Nat /\ remaining \in Int
    BY Constants DEF Init
  <2>2. in_response \in BOOLEAN /\ silent \in BOOLEAN /\ whole \in BOOLEAN
    BY Zenon DEF Init
  <2> QED
    BY <2>1, <2>2 DEF Init, TypeOK
<1>2. EmptyWhenSilent /\ BreakSilences
  BY DEF Init, EmptyWhenSilent, BreakSilences
<1>3. buffered = remaining * FrameBytes /\ (remaining > 0) = FALSE /\ (remaining = 0 => seq = 0)
  BY Constants DEF Init
<1>4. in_response = (remaining > 0)
  BY <1>3, Zenon DEF Init
<1> QED
  BY <1>1, <1>2, <1>3, <1>4, Zenon DEF Inv, CountsMatch

LEMMA MessageInv ==
    ASSUME Inv, NEW size \in Sizes, Message(size)
    PROVE  Inv'
<1> USE DEF Inv, Message
<1> DEFINE more == size \div FrameBytes
<1>1. size \in Nat /\ size > 0
  BY Constants
<1>2. more \in Nat /\ (size % FrameBytes = 0 => size = more * FrameBytes /\ more > 0)
  BY <1>1, WholeAndRest
<1> HIDE DEF more
<1>3. remaining' = remaining + more
  BY DEF more
<1>4. TypeOK'
  <2>1. buffered' \in 0..Capacity /\ remaining' \in Int
    BY <1>1, <1>2, <1>3, Constants DEF TypeOK, Fits
  <2>2. messages' \in 0..MaxMessages
    BY Constants DEF TypeOK
  <2>3. in_response' \in BOOLEAN /\ silent' \in BOOLEAN /\ whole' \in BOOLEAN
    BY Zenon DEF TypeOK, ResponseAfterMessage
  <2> QED
    BY <2>1, <2>2, <2>3 DEF TypeOK
<1>5. EmptyWhenSilent' /\ BreakSilences'
  BY DEF EmptyWhenSilent, BreakSilences
<1>6. ASSUME whole'
      PROVE  /\ buffered' = remaining' * FrameBytes
             /\ in_response' = (remaining' > 0)
             /\ remaining' = 0 => seq' = 0
  <2>1. buffered = remaining * FrameBytes /\ size = more * FrameBytes /\ more > 0
    BY <1>2, <1>6 DEF CountsMatch
  <2>2. buffered \in Nat /\ remaining \in Int
    BY Constants DEF TypeOK
  <2>3. remaining \in Nat /\ buffered + more * FrameBytes = (remaining + more) * FrameBytes
    BY <1>2, <2>1, <2>2, Frames
  <2>4. buffered' = buffered + size
    BY <1>6
  <2>5. remaining' > 0 /\ remaining' # 0
    BY <1>2, <1>3, <2>1, <2>3
  <2>6. in_response' = (remaining' > 0)
    BY <2>5, Zenon DEF ResponseAfterMessage
  <2>7. buffered' = remaining' * FrameBytes
    BY <1>3, <2>1, <2>3, <2>4
  <2> QED
    BY <2>5, <2>6, <2>7, Zenon
<1> QED
  BY <1>4, <1>5, <1>6 DEF CountsMatch

LEMMA PlayFrameInv ==
    ASSUME Inv, PlayFrame
    PROVE  Inv'
<1> USE DEF Inv, PlayFrame
<1>1. TypeOK'
  BY Constants DEF TypeOK, HasFrame
<1>2. ~silent
  BY Constants DEF TypeOK, HasFrame, EmptyWhenSilent
<1>3. EmptyWhenSilent' /\ BreakSilences'
  BY <1>2 DEF EmptyWhenSilent, BreakSilences
<1>4. ASSUME whole'
      PROVE  /\ buffered' = remaining' * FrameBytes
             /\ in_response' = (remaining' > 0)
             /\ remaining' = 0 => seq' = 0
  <2>1. buffered = remaining * FrameBytes /\ in_response = (remaining > 0)
    BY <1>4 DEF CountsMatch
  <2>2. buffered \in Nat /\ remaining \in Int
    BY Constants DEF TypeOK
  <2>3. remaining > 0 /\ buffered - FrameBytes = (remaining - 1) * FrameBytes
    BY <2>1, <2>2, Frames DEF HasFrame
  <2>4. (remaining > 1) = (remaining' > 0) /\ (remaining > 1) \in BOOLEAN
        /\ (remaining' = 0 => ~(remaining > 1))
    BY <2>2, <2>3
  <2>5. in_response
    BY <2>1, <2>3, Zenon
  <2>6. in_response' = (remaining' > 0)
    BY <2>4, <2>5, Zenon
  <2>7. remaining' = 0 => seq' = 0
    BY <2>4, Zenon
  <2>8. buffered' = remaining' * FrameBytes
    BY <2>3
  <2> QED
    BY <2>6, <2>7, <2>8, Zenon
<1> QED
  BY <1>1, <1>3, <1>4 DEF CountsMatch

LEMMA LoseFrameInv ==
    ASSUME Inv, LoseFrame
    PROVE  Inv'
<1> USE DEF Inv, LoseFrame
<1>1. TypeOK'
  <2>1. buffered' \in 0..Capacity
    BY Constants DEF TypeOK, HasFrame
  <2>2. whole' \in BOOLEAN
    BY Zenon
  <2> QED
    BY <2>1, <2>2 DEF TypeOK
<1>2. ~silent
  BY Constants DEF TypeOK, HasFrame, EmptyWhenSilent
<1> QED
  BY <1>1, <1>2 DEF EmptyWhenSilent, BreakSilences, CountsMatch

LEMMA RunShortInv ==
    ASSUME Inv, RunShort
    PROVE  Inv'
<1> USE DEF Inv, RunShort
<1>1. TypeOK'
  BY DEF TypeOK, ResponseAfterShortage
<1>2. EmptyWhenSilent' /\ BreakSilences'
  BY DEF EmptyWhenSilent, BreakSilences
<1>3. ASSUME whole
      PROVE  (remaining > 0) = FALSE
  <2>1. buffered = remaining * FrameBytes /\ buffered \in Nat /\ remaining \in Int
    BY <1>3, Constants DEF CountsMatch, TypeOK
  <2> QED
    BY <2>1, Frames, Constants DEF HasFrame
<1>4. ASSUME whole'
      PROVE  in_response' = (remaining' > 0)
  BY <1>3, <1>4, Zenon DEF ResponseAfterShortage
<1>5. CountsMatch'
  BY <1>4, Zenon DEF CountsMatch
<1> QED
  BY <1>1, <1>2, <1>5

LEMMA BreakInv ==
    ASSUME Inv, Break
    PROVE  Inv'
<1> USE DEF Inv, Break, BufferAfterBreak, RemainingAfterBreak
<1>1. buffered' \in 0..Capacity /\ seq' \in Nat /\ remaining' \in Int
  BY Constants
<1>2. in_response' \in BOOLEAN /\ silent' \in BOOLEAN
  BY Zenon
<1>3. TypeOK'
  BY <1>1, <1>2 DEF TypeOK
<1>4. EmptyWhenSilent' /\ BreakSilences'
  BY DEF EmptyWhenSilent, BreakSilences
<1>5. buffered' = remaining' * FrameBytes /\ (remaining' > 0) = FALSE /\ seq' = 0
  BY Constants
<1>6. in_response' = (remaining' > 0)
  BY <1>5, Zenon
<1>7. CountsMatch'
  BY <1>5, <1>6, Zenon DEF CountsMatch
<1> QED
  BY <1>3, <1>4, <1>7

LEMMA PauseStoreInv ==
    ASSUME Inv, PauseStore
    PROVE  Inv'
BY DEF Inv, PauseStore, TypeOK, EmptyWhenSilent, BreakSilences, CountsMatch

LEMMA NextInv == Inv /\ [Next]_vars => Inv'
<1> SUFFICES ASSUME Inv, [Next]_vars
             PROVE  Inv'
  OBVIOUS
<1>1. ASSUME NEW size \in Sizes, Message(size)
      PROVE  Inv'
  BY <1>1, MessageInv
<1>2. CASE PassFastPath \/ TryLockFails \/ PauseLoad
  BY <1>2 DEF PassFastPath, TryLockFails, PauseLoad, Inv, TypeOK, EmptyWhenSilent,
              BreakSilences, CountsMatch
<1>3. CASE TakeLock
  BY <1>3, PlayFrameInv, LoseFrameInv, RunShortInv DEF TakeLock
<1>4. CASE Break \/ PauseStore
  BY <1>4, BreakInv, PauseStoreInv
<1>5. CASE UNCHANGED vars
  BY <1>5 DEF vars, Inv, TypeOK, EmptyWhenSilent, BreakSilences, CountsMatch
<1> QED
  BY <1>1, <1>2, <1>3, <1>4, <1>5 DEF Next

LEMMA Invariance == Spec => []Inv
BY InitInv, NextInv, PTL DEF Spec

-----------------------------------------------------------------------------
(* Theorems *)

\* Buffer, flags and counters keep their types, and the buffer is never overrun,
\* whatever the worker, the media thread, break and pauseresume do to each other.
THEOREM TypeCorrect == Spec => []TypeOK
BY Invariance, PTL DEF Inv

\* After stream_session_break no frame is played and no event fired until more audio
\* comes, wherever the media thread was and whatever a pauseresume stored.
THEOREM BreakIsFinal == Spec => []BreakSilences
BY Invariance, PTL DEF Inv

\* playback_chunks_remaining and playback_in_response agree with playback_buffer as
\* long as audio comes in whole frames and is neither dropped nor lost.
THEOREM CountersAgree == Spec => []CountsMatch
BY Invariance, PTL DEF Inv

\* Each step that changes the counters or fires an event is one the promise allows.
LEMMA StepTracks ==
    ASSUME Inv, [Next]_vars, whole'
    PROVE  Tracking!TrackNext \/ UNCHANGED <<remaining, seq, event>>
<1>1. whole /\ buffered \in Nat /\ remaining \in Int /\ seq \in Nat
  <2>1. buffered \in Nat /\ remaining \in Int /\ seq \in Nat
    BY Constants DEF Inv, TypeOK
  <2>2. whole' => whole
    BY Zenon DEF Next, vars, Message, PassFastPath, TryLockFails, TakeLock,
                 PlayFrame, LoseFrame, RunShort, Break, PauseLoad, PauseStore
  <2> QED
    BY <2>1, <2>2, Zenon
<1>2. buffered = remaining * FrameBytes
  BY <1>1 DEF Inv, CountsMatch
<1>3. remaining \in Nat /\ (buffered >= FrameBytes <=> remaining > 0)
  BY <1>1, <1>2, Frames
<1>4. ASSUME NEW size \in Sizes, Message(size)
      PROVE  Tracking!Enqueue
  <2>1. size \div FrameBytes \in Nat /\ size \div FrameBytes > 0
    BY <1>4, Constants, WholeAndRest DEF Message
  <2>2. remaining' \in Nat /\ remaining' > remaining
    BY <1>3, <1>4, <2>1 DEF Message
  <2> QED
    BY <1>4, <2>2 DEF Message, Tracking!Enqueue
<1>5. ASSUME PlayFrame
      PROVE  Tracking!Play
  <2>1. remaining > 0 /\ remaining' = remaining - 1
    BY <1>3, <1>5 DEF PlayFrame, HasFrame
  <2>2. CASE remaining = 1
    <3>1. seq' = 0
      BY <1>5, <2>2 DEF PlayFrame
    <3>2. event' = <<Tracking!ChunkPlayed(seq + 1, 0), Tracking!QueueCompleted(seq + 1)>>
      BY <1>5, <2>2 DEF PlayFrame, Announce
    <3> QED
      BY <2>1, <2>2, <3>1, <3>2 DEF Tracking!Play
  <2>3. CASE remaining # 1
    <3>1. remaining > 1
      BY <1>3, <2>1, <2>3
    <3>2. seq' = seq + 1
      BY <1>5, <3>1 DEF PlayFrame
    <3>3. event' = <<Tracking!ChunkPlayed(seq + 1, remaining - 1)>>
      BY <1>3, <1>5, <3>1 DEF PlayFrame, Announce
    <3> QED
      BY <2>1, <2>3, <3>2, <3>3 DEF Tracking!Play
  <2> QED
    BY <2>2, <2>3
<1>6. ASSUME Break
      PROVE  Tracking!Clear
  BY <1>6 DEF Break, RemainingAfterBreak, Tracking!Clear
<1>7. CASE \/ PassFastPath \/ TryLockFails \/ LoseFrame \/ RunShort
           \/ PauseLoad \/ PauseStore \/ UNCHANGED vars
  BY <1>7 DEF PassFastPath, TryLockFails, LoseFrame, RunShort, PauseLoad, PauseStore, vars
<1> QED
  BY <1>4, <1>5, <1>6, <1>7 DEF Next, TakeLock, Tracking!TrackNext

\* The playback events keep the promise of PlaybackTracking for audio that comes in
\* whole frames: numbered from one, counted down, queue_completed after the last.
THEOREM EventsTrack == Spec => TracksWholeFrames
<1>1. Init => Tracking!TrackInit
  BY DEF Init, Tracking!TrackInit
<1>2. Inv /\ [Next]_vars => [whole' => Tracking!TrackNext]_<<remaining, seq, event>>
  BY StepTracks
<1> QED
  BY <1>1, <1>2, Invariance, PTL DEF Spec, TracksWholeFrames
=============================================================================
