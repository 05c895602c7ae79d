------------------------------- MODULE Forward -------------------------------
(***************************************************************************)
(* The forward path of a stream (mod_audio_stream.c, the start branch of   *)
(* stream_function; audio_streamer_glue.cpp, stream_frame and              *)
(* stream_session_pauseresume): the core gathers captured frames in the    *)
(* media bug, the media thread takes them out, resamples them if it must,  *)
(* joins them to packets in sbuffer and hands the packets to the client.   *)
(*                                                                         *)
(* Three threads meet here.  An API thread pauses and resumes, without the *)
(* mutex: it empties the bug and stores audio_paused, a bit of the word    *)
(* that also holds playback_in_response.  The media thread only tries the  *)
(* mutex.  Whoever else holds it (the worker with audio to play, the       *)
(* playback side of the bug) stores playback_in_response by loading and    *)
(* storing the whole word (see Playback for what that does to the other    *)
(* bit).                                                                   *)
(*                                                                         *)
(* Audio is measured in time: the unit is 10 ms, whatever the rate and the *)
(* number of channels, which only scale the bytes.  A frame is as long as  *)
(* the ptime of the codec.                                                 *)
(***************************************************************************)
EXTENDS Integers, Sequences

CONSTANTS
    Ptimes,      \* lengths of a captured frame, in units
    BufferSizes, \* values of STREAM_BUFFER_SIZE, in ms; 0 if it is not set
    Rates,       \* sampling rates that start may be asked for
    NativeRates, \* sampling rates of the codec
    MaxBacklog,  \* frames the bug holds before the core drops audio
    MaxFrames    \* bound of the model: frames captured of a stream

Packet == 2      \* 20 ms, in units

VARIABLES
    conf,      \* the private_t of the stream, as far as it is constant, or NoStream
    bug,       \* the frames in the bug: for each, was it captured in a pause
    used,      \* switch_buffer_inuse(sbuffer)
    pending,   \* pending_send: for each packet its length, and the number of the last
               \* frame read for it
    paused,    \* audio_paused
    mutex,     \* tech_pvt->mutex: "free", "media" or "other"
    media,     \* the media thread: "idle", "entered" stream_frame, "reading", "writing"
    api,       \* the calls of pauseresume in progress: the values yet to be stored
    loaded,    \* audio_paused as the holder of the mutex loaded it, as a set of at
               \* most one element
    read,      \* history: the number of frames read
    packed,    \* history: the number of the last frame read for a packet
    heard,     \* history: the number of the last frame of the packets written
    missed,    \* history: packets were thrown away, the client not being connected
    asked,     \* history: the last pauseresume that returned was a pause
    crossed,   \* history: a store of the word undid a pauseresume since its load
    leaked     \* history: audio of a pause was read

flags == <<paused, api, loaded, asked, crossed>>
counts == <<read, packed, heard, missed>>
vars == <<conf, bug, used, pending, mutex, media, counts, leaked, flags>>

NoStream == [ptime |-> 0, packets |-> 0, resampling |-> FALSE]
Configs == [ptime : Ptimes, packets : Nat \ {0}, resampling : BOOLEAN]

\* The size of sbuffer, buflen of stream_data_init.
Capacity(c) == Packet * c.packets

Room == Capacity(conf) - used
Shorter(m, n) == IF m <= n THEN m ELSE n

-----------------------------------------------------------------------------
(***************************************************************************)
(* Faulty variants of the definitions below.  No action uses them: each is *)
(* put in the place of the definition it is named after to see that a      *)
(* property notices the fault.                                             *)
(***************************************************************************)
PacketsForUnset(ms) == ms \div 20
BugAfterFlushKept == bug
YieldOfOnePacket == Shorter(conf.ptime, Packet)
IsFullOffByOne(n) == n + 1 >= Capacity(conf)
MutexAfterReadKept == "media"

-----------------------------------------------------------------------------
\* rtp_packets, from the channel variable STREAM_BUFFER_SIZE.
PacketsFor(ms) == IF ms % 20 = 0 /\ ms >= 20 THEN ms \div 20 ELSE 1

ASSUME ForwardAssumption ==
    /\ Ptimes \subseteq Nat \ {0}
    /\ BufferSizes \subseteq Nat
    /\ Rates \subseteq Int /\ NativeRates \subseteq Nat \ {0}
    /\ MaxBacklog \in Nat
    /\ MaxFrames \in Nat

-----------------------------------------------------------------------------
(* Start and stop *)

\* stream_function refuses a rate that is no multiple of 8000.  A negative multiple, and
\* 0 (any word that is not a number), get further: to the making of sbuffer, whose size
\* then has no room in memory, and to that of the resampler, which refuses 0.
Accepted(rate) == rate % 8000 = 0
CanBeMade(rate) == rate > 0

Start(ms, rate, native, ptime) ==
    /\ conf = NoStream
    /\ Accepted(rate) /\ CanBeMade(rate)
    /\ conf' = [ptime |-> ptime, packets |-> PacketsFor(ms), resampling |-> rate # native]
    /\ paused' = FALSE /\ asked' = FALSE /\ crossed' = FALSE /\ leaked' = FALSE
    /\ UNCHANGED <<bug, used, pending, mutex, media, api, loaded, counts>>

\* The teardown waits for everybody (see Session).  What sbuffer holds is lost.
Stop ==
    /\ conf # NoStream
    /\ media = "idle" /\ mutex = "free" /\ api = {}
    /\ conf' = NoStream
    /\ bug' = <<>> /\ used' = 0
    /\ read' = 0 /\ packed' = 0 /\ heard' = 0 /\ missed' = FALSE
    /\ UNCHANGED <<pending, mutex, media, leaked, flags>>

\* The core captures a frame, on the thread that then calls stream_frame.  It belongs
\* to a pause if that was confirmed and no other call is under way.
InPause == asked /\ api = {}

Capture ==
    /\ conf # NoStream
    /\ media = "idle"
    /\ Len(bug) < MaxBacklog /\ read + Len(bug) < MaxFrames
    /\ bug' = Append(bug, InPause)
    /\ UNCHANGED <<conf, used, pending, mutex, media, counts, leaked, flags>>

-----------------------------------------------------------------------------
(* stream_session_pauseresume, on any number of API threads *)

BugAfterFlush == <<>>

\* First the bug is flushed ...
PauseFlush(pause) ==
    /\ conf # NoStream
    /\ pause \notin api /\ api' = api \union {pause}
    /\ bug' = BugAfterFlush
    /\ UNCHANGED <<conf, used, pending, paused, mutex, media, loaded, counts, asked,
                   crossed, leaked>>

\* ... then the flag is stored, without the mutex.
PauseStore(pause) ==
    /\ pause \in api /\ api' = api \ {pause}
    /\ paused' = pause /\ asked' = pause
    /\ UNCHANGED <<conf, bug, used, pending, mutex, media, loaded, counts, crossed, leaked>>

\* Another thread locks the mutex and loads the word to change playback_in_response ...
OtherLoads ==
    /\ conf # NoStream
    /\ mutex = "free" /\ mutex' = "other"
    /\ loaded' = {paused}
    /\ UNCHANGED <<conf, bug, used, pending, paused, media, api, counts, asked, crossed,
                   leaked>>

\* ... and stores it, audio_paused as it was.
OtherStores ==
    /\ mutex = "other" /\ mutex' = "free"
    /\ \E bit \in loaded : paused' = bit /\ crossed' = (crossed \/ bit # paused)
    /\ loaded' = {}
    /\ UNCHANGED <<conf, bug, used, pending, media, api, counts, asked, leaked>>

-----------------------------------------------------------------------------
(* The media thread: stream_frame *)

EnterFrame ==
    /\ media = "idle"
    /\ conf # NoStream /\ ~paused
    /\ media' = "entered"
    /\ UNCHANGED <<conf, bug, used, pending, mutex, counts, leaked, flags>>

TryLock ==
    /\ media = "entered" /\ mutex = "free"
    /\ media' = "reading" /\ mutex' = "media"
    /\ UNCHANGED <<conf, bug, used, pending, counts, leaked, flags>>

TryLockFails ==
    /\ media = "entered" /\ mutex # "free"
    /\ media' = "idle"
    /\ UNCHANGED <<conf, bug, used, pending, mutex, counts, leaked, flags>>

\* What a frame yields: all of it; or, the resampler being given the room in sbuffer
\* for its output, as much as fits: it is not asked for the rest again.
Yield == IF conf.resampling THEN Shorter(conf.ptime, Room) ELSE conf.ptime

Unbuffered == conf.packets = 1

\* A frame that does not fit is dropped.
UsedAfter == IF Yield <= Room THEN used + Yield ELSE used

IsFull(n) == n >= Capacity(conf)

UsedAfterPacket == 0

Made(length) == Append(pending, [length |-> length, upto |-> read + 1])

\* Without buffering a frame is a packet; otherwise a full sbuffer is.
ReadFrame ==
    /\ media = "reading" /\ bug # <<>>
    /\ bug' = Tail(bug)
    /\ leaked' = (leaked \/ Head(bug))
    /\ read' = read + 1
    /\ \/ /\ Unbuffered
          /\ pending' = Made(Yield) /\ packed' = read + 1 /\ UNCHANGED used
       \/ /\ ~Unbuffered /\ IsFull(UsedAfter)
          /\ pending' = Made(UsedAfter) /\ packed' = read + 1 /\ used' = UsedAfterPacket
       \/ /\ ~Unbuffered /\ ~IsFull(UsedAfter)
          /\ used' = UsedAfter /\ UNCHANGED <<pending, packed>>
    /\ UNCHANGED <<conf, mutex, media, heard, missed, flags>>

MutexAfterRead == "free"

\* The bug is empty: the mutex is released before anything is written.
NoMoreFrames ==
    /\ media = "reading" /\ bug = <<>>
    /\ media' = "read" /\ mutex' = MutexAfterRead
    /\ UNCHANGED <<conf, bug, used, pending, counts, leaked, flags>>

\* isConnected (see WsClient): if it is not, the packets are thrown away.
NotConnected ==
    /\ media = "read"
    /\ media' = "idle"
    /\ pending' = <<>>
    /\ missed' = (missed \/ pending # <<>>)
    /\ UNCHANGED <<conf, bug, used, mutex, read, packed, heard, leaked, flags>>

Connected ==
    /\ media = "read"
    /\ media' = "writing"
    /\ UNCHANGED <<conf, bug, used, pending, mutex, counts, leaked, flags>>

\* writeBinary (see SendQueue), for every packet.
WritePacket ==
    /\ media = "writing" /\ pending # <<>>
    /\ pending' = Tail(pending) /\ heard' = Head(pending).upto
    /\ UNCHANGED <<conf, bug, used, mutex, media, read, packed, missed, leaked, flags>>

LeaveFrame ==
    /\ media = "writing" /\ pending = <<>>
    /\ media' = "idle"
    /\ UNCHANGED <<conf, bug, used, pending, mutex, counts, leaked, flags>>

-----------------------------------------------------------------------------
Init ==
    /\ conf = NoStream
    /\ bug = <<>> /\ used = 0 /\ pending = <<>>
    /\ read = 0 /\ packed = 0 /\ heard = 0 /\ missed = FALSE
    /\ mutex = "free" /\ media = "idle" /\ api = {} /\ loaded = {}
    /\ paused = FALSE /\ asked = FALSE /\ crossed = FALSE /\ leaked = FALSE

MediaStep ==
    \/ TryLock \/ TryLockFails \/ ReadFrame \/ NoMoreFrames
    \/ NotConnected \/ Connected \/ WritePacket \/ LeaveFrame

Next ==
    \/ \E ms \in BufferSizes, rate \in Rates, native \in NativeRates, ptime \in Ptimes :
          Start(ms, rate, native, ptime)
    \/ Stop
    \/ Capture
    \/ \E pause \in BOOLEAN : PauseFlush(pause) \/ PauseStore(pause)
    \/ OtherLoads \/ OtherStores
    \/ EnterFrame
    \/ MediaStep

Spec == Init /\ [][Next]_vars

(***************************************************************************)
(* A call runs on, and who holds the mutex releases it.  The core calls    *)
(* stream_frame for every frame.  stream_frame only tries the mutex, and   *)
(* nothing makes it succeed under contention; that it meets a free mutex   *)
(* now and then is owed to the others, who hold it only to copy audio.     *)
(***************************************************************************)
Fairness ==
    /\ WF_vars(MediaStep) /\ WF_vars(OtherStores)
    /\ SF_vars(EnterFrame /\ mutex = "free") /\ SF_vars(TryLock)

FairSpec == Spec /\ Fairness

-----------------------------------------------------------------------------
(* Properties *)

Record == [length : Nat, upto : Nat]

TypeOK ==
    /\ conf \in Configs \union {NoStream}
    /\ bug \in Seq(BOOLEAN) /\ pending \in Seq(Record)
    /\ used \in Nat
    /\ read \in Nat /\ packed \in Nat /\ heard \in Nat /\ missed \in BOOLEAN
    /\ mutex \in {"free", "media", "other"}
    /\ media \in {"idle", "entered", "reading", "read", "writing"}
    /\ api \subseteq BOOLEAN
    /\ loaded \subseteq BOOLEAN
    /\ paused \in BOOLEAN /\ asked \in BOOLEAN /\ crossed \in BOOLEAN /\ leaked \in BOOLEAN

\* The frame length and the buffer size go together: the buffer is a number of whole
\* frames; unbuffered, a frame to be resampled is no longer than 20 ms.
Fits(c) ==
    IF c.packets = 1 THEN c.resampling => c.ptime <= Capacity(c)
                     ELSE Capacity(c) % c.ptime = 0

\* The number of the last frame that went before packet i of pending.
Before(i) == IF i = 1 THEN heard ELSE pending[i - 1].upto

\* stream_frame, from the bug to the client: where frames and buffer fit, the client is
\* given the audio of every frame that was read, in order and without a gap, until
\* packets are thrown away because it is not connected.  A packet is as long as the
\* frames since the one before it, the first one follows on what was written last, and
\* sbuffer holds the frames that are in no packet yet.
NothingDropped ==
    conf # NoStream /\ Fits(conf) =>
        /\ used = (read - packed) * conf.ptime
        /\ \/ missed
           \/ /\ packed = Before(Len(pending) + 1)
              /\ \A i \in DOMAIN pending :
                    pending[i].length = (pending[i].upto - Before(i)) * conf.ptime

\* stream_frame, the tests for a full sbuffer: with buffering every packet has the
\* length STREAM_BUFFER_SIZE asks for, and a full sbuffer is never left behind, where
\* it would swallow every later frame.
PacketsWhole ==
    conf.packets > 1 =>
        /\ used < Capacity(conf)
        /\ \A i \in DOMAIN pending : pending[i].length = Capacity(conf)

\* stream_session_pauseresume: the bug is flushed before the flag is stored, so that
\* no audio captured in a pause is sent after the resume, unless a store of the flag
\* word by the holder of the mutex came across.
PauseHolds == leaked => crossed

\* stream_frame: the mutex is never kept; frames left in the bug because the mutex was
\* taken are read by a later call, unless the stream is paused.
BacklogDrained == (bug # <<>>) ~> (bug = <<>> \/ paused)

=============================================================================
