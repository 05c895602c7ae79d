------------------------------ MODULE Messages ------------------------------
(***************************************************************************)
(* What the streamer does with a message of the peer                       *)
(* (audio_streamer_glue.cpp): processMessage says what a text is, and      *)
(* eventCallback plays audio that came in JSON, or switches raw mode on,   *)
(* in which onBinaryData plays binary messages.  Both resample to the rate *)
(* of the channel, with one resampler that they share.                     *)
(*                                                                         *)
(* How the stream comes and goes matters: the connection is opened before  *)
(* stream_data_init has read STREAM_SAMPLE_RATE, and before the bug is     *)
(* published (stream_data_init and start_capture), and a callback may      *)
(* be past its check when the stream is cleaned up.                        *)
(*                                                                         *)
(* A text is a record: its type; for streamAudio what audioData is (not    *)
(* there or no string, no base64, nothing that can be decoded, or audio),  *)
(* its audioDataType ("wav" stands for wav, mp3 and ogg), and the sample   *)
(* rate or NoRate.                                                         *)
(***************************************************************************)
EXTENDS Integers

CONSTANTS
    Native,     \* sampling rate of the channel
    VarRates,   \* values of STREAM_SAMPLE_RATE that are used; 0 if it is not set
    Playbacks   \* whether STREAM_PLAYBACK may be on, or off

VARIABLES
    stage,      \* "created", "rated", "published", "cleaned"
    conf,       \* STREAM_SAMPLE_RATE, and whether STREAM_PLAYBACK is on
    rawActive,  \* m_rawAudioActive
    rawRate,    \* m_rawSampleRate
    resampler,  \* the rate playback_resampler was made for, 0 if there is none
    noted,      \* playback_sample_rate
    block,      \* history: the audio last written to the playback buffer, as
                \* [of, rate, resampler, late]: of which message, of what rate it
                \* was taken to be, the resampler it went through (0: none), and
                \* the value of late
    event,      \* history: the event last fired for a message, as [of, name]
    late        \* history: STREAM_SAMPLE_RATE was set after raw mode

streamVars == <<stage, conf, rawActive, rawRate, resampler, noted, block, event, late>>

NoRate == -1
NoBlock == [of |-> 0, rate |-> 0, resampler |-> 0, late |-> FALSE]
NoEvent == [of |-> 0, name |-> "none"]

ASSUME StreamAssumption ==
    Native \in Nat \ {0} /\ VarRates \subseteq Nat /\ Playbacks \subseteq BOOLEAN

StreamInit ==
    /\ stage = "created"
    /\ conf \in [rate : VarRates, playback : Playbacks]
    /\ rawActive = FALSE /\ rawRate = 8000
    /\ resampler = 0 /\ noted = Native
    /\ block = NoBlock /\ event = NoEvent /\ late = FALSE

-----------------------------------------------------------------------------
(***************************************************************************)
(* Faulty variants of the definitions below.  No action uses them: each is *)
(* put in the place of the definition it is named after to see that a      *)
(* property notices the fault.                                             *)
(***************************************************************************)
NeedsNewOnce(rate) == resampler = 0
MetadataRateUnread(m) == 8000
SupportedRateUnchecked(m) == TRUE

-----------------------------------------------------------------------------
(* processMessage *)

Failure == [ok |-> FALSE, kind |-> "none", audio |-> FALSE, rate |-> 8000]

MetadataRate(m) == IF m.rate = NoRate THEN 8000 ELSE m.rate

AudioTypes == {"raw", "pcmu", "pcma", "wav", "opus"}

SupportedRate(m) ==
    m.codec = "raw" => m.rate % 8000 = 0 /\ m.rate \in 8000..64000

\* Raw and G.711 payloads are taken as they are; of containers nothing is decoded.
Decoded(m) ==
    CASE m.codec \in {"raw", "pcmu", "pcma"} ->
           [ok |-> TRUE, kind |-> m.codec, audio |-> m.content = "audio",
            rate |-> IF m.codec = "raw" THEN m.rate ELSE 8000]
      [] m.codec = "opus" ->
           [ok |-> TRUE, kind |-> "raw", audio |-> m.content = "audio", rate |-> 48000]
      [] OTHER ->
           [ok |-> TRUE, kind |-> "none", audio |-> FALSE, rate |-> 8000]

ProcessMessage(m) ==
    CASE m.type = "rawAudio" ->
           [ok |-> TRUE, kind |-> "raw", audio |-> FALSE, rate |-> MetadataRate(m)]
      [] /\ m.type = "streamAudio"
         /\ m.content \notin {"none", "invalid"}
         /\ m.codec \in AudioTypes /\ SupportedRate(m) -> Decoded(m)
      [] OTHER -> Failure

-----------------------------------------------------------------------------
(* Playing *)

MustResample(rate) == rate # Native /\ rate > 0

\* A new resampler is made unless there is one for this rate.
NeedsNew(rate) == resampler = 0 \/ noted # rate

\* If none can be made, the next audio tries again.
Resampling(rate, works) ==
    IF MustResample(rate) /\ NeedsNew(rate)
    THEN /\ resampler' = IF works THEN rate ELSE 0
         /\ noted' = resampler'
    ELSE UNCHANGED <<resampler, noted>>

\* Audio is played on a channel that has its bug, if playback is enabled; without a
\* resampler as it is.
Plays == stage = "published" /\ conf.playback

Play(i, rate, works) ==
    IF Plays
    THEN /\ Resampling(rate, works)
         /\ block' = [of |-> i, rate |-> rate,
                      resampler |-> IF MustResample(rate) THEN resampler' ELSE 0,
                      late |-> late]
    ELSE UNCHANGED <<resampler, noted, block>>

-----------------------------------------------------------------------------
(* The callbacks, for the message in place i *)

\* They begin with a test for isCleanedUp.
Ignored == stage = "cleaned"

\* eventCallback, onBinaryData: the session is gone, which it is not before the stream
\* has been cleaned up.
NotLocated == stage = "cleaned" /\ UNCHANGED streamVars

\* eventCallback: rawAudio metadata, or what is taken for it.
HandleMetadata(i, m) ==
    LET result == ProcessMessage(m)
    IN  /\ result.ok /\ result.kind = "raw" /\ ~result.audio
        /\ rawActive' = TRUE /\ rawRate' = result.rate
        /\ event' = [of |-> i, name |-> "json"]
        /\ late' = FALSE
        /\ UNCHANGED <<stage, conf, resampler, noted, block>>

HandleAudio(i, m, works) ==
    LET result == ProcessMessage(m)
    IN  /\ result.ok /\ result.audio
        /\ Play(i, result.rate, works)
        /\ event' = [of |-> i, name |-> "play"]
        /\ UNCHANGED <<stage, conf, rawActive, rawRate, late>>

HandleUndecoded(i, m) ==
    LET result == ProcessMessage(m)
    IN  /\ result.ok /\ result.kind # "raw" /\ ~result.audio
        /\ event' = [of |-> i, name |-> "play"]
        /\ UNCHANGED <<stage, conf, rawActive, rawRate, resampler, noted, block, late>>

HandleOther(i, m) ==
    /\ ~ProcessMessage(m).ok
    /\ event' = [of |-> i, name |-> "json"]
    /\ UNCHANGED <<stage, conf, rawActive, rawRate, resampler, noted, block, late>>

HandleText(i, m) ==
    \/ NotLocated \/ HandleMetadata(i, m) \/ HandleUndecoded(i, m) \/ HandleOther(i, m)
    \/ \E works \in BOOLEAN : HandleAudio(i, m, works)

HandleBinary(i) ==
    \/ NotLocated
    \/ ~rawActive /\ UNCHANGED streamVars
    \/ /\ rawActive
       /\ \E works \in BOOLEAN : Play(i, rawRate, works)
       /\ UNCHANGED <<stage, conf, rawActive, rawRate, event, late>>

\* The close callback.
HandleClose ==
    /\ IF Ignored THEN UNCHANGED rawActive ELSE rawActive' = FALSE
    /\ UNCHANGED <<stage, conf, rawRate, resampler, noted, block, event, late>>

-----------------------------------------------------------------------------
(* The stream *)

\* stream_data_init reads STREAM_SAMPLE_RATE, with the connection being opened already.
SetRawSampleRate ==
    /\ stage = "created" /\ stage' = "rated"
    /\ rawRate' = IF conf.rate # 0 THEN conf.rate ELSE rawRate
    /\ late' = (rawActive /\ conf.rate # 0)
    /\ UNCHANGED <<conf, rawActive, resampler, noted, block, event>>

\* start_capture.
Publish ==
    /\ stage = "rated" /\ stage' = "published"
    /\ UNCHANGED <<conf, rawActive, rawRate, resampler, noted, block, event, late>>

\* The teardown (see Session): markCleanedUp, with the private already cleared.
CleanUp ==
    /\ stage \in {"rated", "published"} /\ stage' = "cleaned"
    /\ UNCHANGED <<conf, rawActive, rawRate, resampler, noted, block, event, late>>

StreamStep == SetRawSampleRate \/ Publish \/ CleanUp

StreamType ==
    /\ stage \in {"created", "rated", "published", "cleaned"}
    /\ rawActive \in BOOLEAN /\ late \in BOOLEAN
    /\ conf \in [rate : VarRates, playback : Playbacks]
    /\ rawRate \in Int /\ resampler \in Int /\ noted \in Int
    /\ block \in [of : Nat, rate : Int, resampler : Int, late : BOOLEAN]
    /\ event \in [of : Nat, name : {"none", "play", "json"}]

=============================================================================
