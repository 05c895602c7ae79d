------------------------------ MODULE Playback ------------------------------
(***************************************************************************)
(* The playback side of a stream (audio_streamer_glue.cpp): the WebSocket  *)
(* worker writes received audio into playback_buffer, the media thread     *)
(* injects one 20 ms frame per tick into the call and fires the playback   *)
(* events, an API thread may clear the queue with break.  All three work   *)
(* on tech_pvt under its mutex, except for two accesses: the fast path of  *)
(* stream_frame_write looks at playback_in_response before it tries the    *)
(* lock, and pauseresume stores audio_paused, a bit of the same word as    *)
(* playback_in_response, without it.  A section under the mutex is one     *)
(* step; these two are steps of their own.                                 *)
(*                                                                         *)
(* Audio is counted, not represented.  The unit is a fraction of a frame,  *)
(* small enough to tell whole frames from the rest; a message is its size  *)
(* after resampling to the channel's rate.                                 *)
(***************************************************************************)
EXTENDS Integers, Sequences

CONSTANTS
    Sizes,        \* the sizes a message may have
    FrameBytes,   \* the size of a frame, 20 ms at native_sampling
    Capacity,     \* the size of playback_buffer
    MaxMessages,  \* bound of the model: messages received in all
    Pauses        \* whether the call is paused and resumed

ASSUME SizeAssumption ==
    /\ Sizes \subseteq Nat \ {0}
    /\ FrameBytes \in Nat \ {0}
    /\ Capacity \in Nat
    /\ MaxMessages \in Nat
    /\ Pauses \in BOOLEAN

VARIABLES
    buffered,     \* switch_buffer_inuse(playback_buffer)
    in_response,  \* playback_in_response
    seq,          \* playback_seq
    remaining,    \* playback_chunks_remaining
    media,        \* the media thread: "idle", or "passed" the fast path
    loaded,       \* playback_in_response as a pauseresume loaded it: one of
                  \* TRUE, FALSE, as a set of at most one element
    messages,     \* number of messages so far
    event,        \* history: the events fired last, in order
    silent,       \* history: no message has come since the last break
    whole         \* history: every message was a number of whole frames and
                  \* fitted, every frame taken out was injected, and no
                  \* pauseresume changed in_response

vars == <<buffered, in_response, seq, remaining, media, loaded, messages, event,
          silent, whole>>

Tracking == INSTANCE PlaybackTracking WITH waiting <- remaining, played <- seq

-----------------------------------------------------------------------------
(***************************************************************************)
(* Faulty variants of the definitions below.  No action uses them: each is *)
(* put in the place of the definition it is named after to see that a      *)
(* property notices the fault.                                             *)
(***************************************************************************)
FitsAlways(size) == TRUE
BufferAfterBreakKept == buffered
RemainingAfterBreakKept == remaining
ResponseAfterShortageKept == in_response
ResponseAfterMessageKept == in_response

-----------------------------------------------------------------------------
(* The WebSocket worker: eventCallback (streamAudio) and onBinaryData *)

\* switch_buffer_write writes all or nothing, and the code ignores which.
Fits(size) == buffered + size <= Capacity

ResponseAfterMessage == TRUE

Message(size) ==
    /\ messages < MaxMessages
    /\ messages' = messages + 1
    /\ buffered' = IF Fits(size) THEN buffered + size ELSE buffered
    /\ in_response' = ResponseAfterMessage
    /\ remaining' = remaining + size \div FrameBytes
    /\ silent' = FALSE
    /\ whole' = (whole /\ Fits(size) /\ size % FrameBytes = 0)
    /\ UNCHANGED <<seq, media, loaded, event>>

-----------------------------------------------------------------------------
(* The media thread: stream_frame_write *)

\* The fast path lets a tick through only during a response.
PassFastPath ==
    /\ media = "idle"
    /\ in_response
    /\ media' = "passed"
    /\ UNCHANGED <<buffered, in_response, seq, remaining, loaded, messages,
                   event, silent, whole>>

\* The mutex is taken: the tick goes by without playback.
TryLockFails ==
    /\ media = "passed"
    /\ media' = "idle"
    /\ UNCHANGED <<buffered, in_response, seq, remaining, loaded, messages,
                   event, silent, whole>>

HasFrame == buffered >= FrameBytes

\* The events of a frame played; a negative count of chunks left is not shown.
Announce(n, left) ==
    LET shown == Tracking!ChunkPlayed(n, IF left >= 0 THEN left ELSE -1)
    IN  IF left <= 0 THEN <<shown, Tracking!QueueCompleted(n)>> ELSE <<shown>>

\* A frame is taken out of the buffer and replaces the one the core is about to
\* write; by the count of chunks the response may end here.
PlayFrame ==
    /\ media = "passed" /\ HasFrame
    /\ media' = "idle"
    /\ buffered' = buffered - FrameBytes
    /\ remaining' = remaining - 1
    /\ in_response' = (in_response /\ remaining > 1)
    /\ seq' = IF remaining > 1 THEN seq + 1 ELSE 0
    /\ event' = Announce(seq + 1, remaining - 1)
    /\ UNCHANGED <<loaded, messages, silent, whole>>

\* The core has no frame to write, or a shorter one: what was taken out is lost.
LoseFrame ==
    /\ media = "passed" /\ HasFrame
    /\ media' = "idle"
    /\ buffered' = buffered - FrameBytes
    /\ whole' = FALSE
    /\ UNCHANGED <<in_response, seq, remaining, loaded, messages, event, silent>>

ResponseAfterShortage == FALSE

\* Less than a frame is left: the response ends without an event.
RunShort ==
    /\ media = "passed" /\ ~HasFrame
    /\ media' = "idle"
    /\ in_response' = ResponseAfterShortage
    /\ UNCHANGED <<buffered, seq, remaining, loaded, messages, event, silent,
                   whole>>

TakeLock == PlayFrame \/ LoseFrame \/ RunShort

-----------------------------------------------------------------------------
(* The API threads: stream_session_break, stream_session_pauseresume *)

BufferAfterBreak == 0
RemainingAfterBreak == 0

Break ==
    /\ buffered' = BufferAfterBreak
    /\ in_response' = FALSE
    /\ seq' = 0
    /\ remaining' = RemainingAfterBreak
    /\ event' = <<Tracking!QueueCompleted(0)>>
    /\ silent' = TRUE
    /\ UNCHANGED <<media, loaded, messages, whole>>

\* audio_paused is stored by loading its word, changing the bit ...
PauseLoad ==
    /\ Pauses
    /\ loaded = {}
    /\ loaded' = {in_response}
    /\ UNCHANGED <<buffered, in_response, seq, remaining, media, messages,
                   event, silent, whole>>

\* ... and storing the word, with whatever the other bits were when it was loaded.
PauseStore ==
    /\ \E bit \in loaded :
          /\ in_response' = bit
          /\ whole' = (whole /\ bit = in_response)
    /\ loaded' = {}
    /\ UNCHANGED <<buffered, seq, remaining, media, messages, event, silent>>

-----------------------------------------------------------------------------

Init ==
    /\ buffered = 0
    /\ in_response = FALSE
    /\ seq = 0
    /\ remaining = 0
    /\ media = "idle"
    /\ loaded = {}
    /\ messages = 0
    /\ event = <<>>
    /\ silent = FALSE
    /\ whole = TRUE

Next ==
    \/ \E size \in Sizes : Message(size)
    \/ PassFastPath \/ TryLockFails \/ TakeLock
    \/ Break
    \/ PauseLoad \/ PauseStore

Spec == Init /\ [][Next]_vars

\* The core calls the media bug for every frame of the call, and the mutex is held
\* for short moments only: one of many ticks finds it free.
Fairness == WF_vars(PassFastPath) /\ SF_vars(TakeLock)

FairSpec == Spec /\ Fairness

-----------------------------------------------------------------------------
(* Properties *)

\* buffered <= Capacity: the buffer is never overrun.
TypeOK ==
    /\ buffered \in 0..Capacity
    /\ in_response \in BOOLEAN
    /\ seq \in Nat
    /\ remaining \in Int
    /\ media \in {"idle", "passed"}
    /\ loaded \subseteq BOOLEAN
    /\ messages \in 0..MaxMessages
    /\ silent \in BOOLEAN
    /\ whole \in BOOLEAN

\* A break is the last word until more audio comes: no frame is played after it,
\* although the media thread may have passed the fast path before the break and
\* a pauseresume may set playback_in_response again after it.
BreakSilences == silent => event = <<Tracking!QueueCompleted(0)>>

\* The counters keep step with the buffer as long as audio comes in whole frames.
CountsMatch ==
    whole =>
        /\ buffered = remaining * FrameBytes
        /\ in_response = (remaining > 0)
        /\ remaining = 0 => seq = 0

\* For audio that comes in whole frames the events are what README.md says.
TracksWholeFrames ==
    Tracking!TrackInit /\ [][whole' => Tracking!TrackNext]_<<remaining, seq, event>>

\* A response ends: the media thread goes back to the fast path.
ResponseEnds == in_response ~> ~in_response

\* Queued audio is played or discarded in the end, if it comes in whole frames.
WholeFramesPlayed == whole /\ buffered > 0 ~> buffered = 0 \/ ~whole

\* "Fast path: nothing queued for playback" (comment in stream_frame_write): a
\* tick that turns back at the fast path has nothing to play.  Checked without pauses,
\* whose racing store could end a response, too.
NothingQueued == media = "idle" /\ ~in_response => ~HasFrame
=============================================================================
