------------------------------- MODULE Receive -------------------------------
(***************************************************************************)
(* The receiving side of a stream: the client's wire (Wire) joined to what *)
(* the streamer does with the messages (Messages), so that what is played  *)
(* can be held against what the peer sent.                                 *)
(***************************************************************************)
EXTENDS Wire, Messages

vars == <<wireVars, streamVars>>

ASSUME ReceiveAssumption ==
    \A f \in Frames : /\ f.message.content \in {"none", "invalid", "blank", "audio"}
                     /\ f.message.rate \in Int

Init == WireInit /\ StreamInit

-----------------------------------------------------------------------------
\* The wire's own steps, up to a call of a callback.
Transfer == WireStep /\ UNCHANGED streamVars

\* A callback ends at once if the stream has been cleaned up ...
CallbackIgnored ==
    /\ Ignored
    /\ CallbackReturns("calling")
    /\ UNCHANGED streamVars

\* ... and otherwise goes on, whatever happens to the stream from here.
CallbackEntered ==
    /\ ~Ignored
    /\ CallbackGoesOn
    /\ UNCHANGED streamVars

Deliver ==
    /\ CallbackReturns("handling")
    /\ \/ NextFrame.kind = "text" /\ HandleText(parsed + 1, NextFrame.message)
       \/ NextFrame.kind = "binary" /\ HandleBinary(parsed + 1)

\* onClose_, when the loop has ended.
Close == CloseReturns /\ HandleClose

\* The other threads of the stream; the teardown disconnects.
Lives == StreamStep /\ UNCHANGED wireVars
Disconnect == stage = "cleaned" /\ StopRunning /\ UNCHANGED streamVars

Next ==
    \/ Transfer \/ CallbackIgnored \/ CallbackEntered \/ Deliver \/ Close
    \/ Lives \/ Disconnect

Spec == Init /\ [][Next]_vars

(***************************************************************************)
(* The worker runs on, and poll returns when the socket is readable; the   *)
(* peer need not send anything.                                            *)
(***************************************************************************)
WorkerStep ==
    \/ /\ \/ PollTimesOut \/ (\E n \in 1..ReadSize : Recv(n)) \/ SslRead
          \/ Waits \/ PassesOver \/ PeerCloses \/ CallsBack
       /\ UNCHANGED streamVars
    \/ CallbackIgnored \/ CallbackEntered \/ Deliver \/ Close

FairSpec == Spec /\ WF_vars(WorkerStep)

-----------------------------------------------------------------------------
(* Properties *)

TypeOK == WireType /\ StreamType

\* The messages among the first n frames, unless the peer closed the connection before:
\* what the callbacks should hear of.
MessagesOf(frames, n) ==
    {i \in 1..n : IsMessage(frames[i]) /\ \A j \in 1..i : frames[j].kind # "close"}

\* The number of frames of which the callbacks have heard, if they are messages.
Heard == IF worker \in {"calling", "handling"} THEN parsed + 1 ELSE parsed

\* processFrame: however the bytes of the frames are spread over reads and records,
\* rxbuf_ begins with the next frame, and the messages are passed on once each, in the
\* order sent, and none behind a close frame.
Reassembled ==
    /\ taken = Bytes(parsed) + rx
    /\ {handled[k] : k \in DOMAIN handled} = MessagesOf(sent, Heard)
    /\ \A k, l \in DOMAIN handled : k < l => handled[k] < handled[l]

IsMetadata(m) == m.type = "rawAudio"

\* Audio of type raw or opus of which nothing is left after decoding: the code takes it
\* for metadata, as the result of processMessage looks the same.
TakenForMetadata(m) ==
    /\ m.type = "streamAudio" /\ m.content = "blank"
    /\ \/ m.codec = "opus"
       \/ m.codec = "raw" /\ m.rate \in {8000 * k : k \in 1..8}

\* What switches raw mode on.
SwitchesOn(m) == IsMetadata(m) \/ TakenForMetadata(m)

Metadata(frames, n) ==
    {i \in MessagesOf(frames, n) : frames[i].kind = "text" /\ IsMetadata(frames[i].message)}
Switches(frames, n) ==
    {i \in MessagesOf(frames, n) : frames[i].kind = "text" /\ SwitchesOn(frames[i].message)}

LastOf(S) == {i \in S : \A j \in S : j <= i}
LastMetadata(frames, n) == LastOf(Metadata(frames, n))
LastSwitch(frames, n) == LastOf(Switches(frames, n))

\* "Default sample rate for raw binary stream", 8000 if STREAM_SAMPLE_RATE is not set.
DefaultRate == IF conf.rate = 0 THEN 8000 ELSE conf.rate

\* The rate that audio in message i is of, by README.md: that of its message; for binary
\* audio that of the last metadata message, which overrides the default rate.
RateMeant(frames, i) ==
    LET m == frames[i].message
        Given(meta) == IF meta.rate = NoRate THEN DefaultRate ELSE meta.rate
    IN  IF frames[i].kind = "binary"
        THEN {Given(frames[j].message) : j \in LastMetadata(frames, i)}
        ELSE {IF m.codec = "opus" THEN 48000 ELSE IF m.codec = "raw" THEN m.rate ELSE 8000}

\* Where the code departs from that.  A blank streamAudio is taken for metadata
\* (eventCallback tests for raw without audio) ...
RateOfBlankAudio ==
    \E j \in LastSwitch(sent, block.of) :
        LET m == sent[j].message
        IN  /\ TakenForMetadata(m)
            /\ block.rate = IF m.codec = "opus" THEN 48000 ELSE m.rate

\* ... metadata without a rate sets 8000, not the default rate (processMessage) ...
DefaultForgotten ==
    \E j \in LastSwitch(sent, block.of) :
        LET m == sent[j].message
        IN  IsMetadata(m) /\ m.rate = NoRate /\ block.rate = 8000

\* ... and STREAM_SAMPLE_RATE overrides what metadata came before it was read
\* (stream_data_init, after connect).
MetadataOverridden ==
    block.late /\ block.rate = conf.rate /\ LastSwitch(sent, block.of) # {}

\* onBinaryData, eventCallback, setRawSampleRate: audio is played at the rate it is meant
\* to be of by README.md (binary audio behind no metadata not at all), save for binary
\* audio in three cases, in which the code contradicts README.md.
PlayedAsMeant ==
    block # NoBlock =>
        \/ RateMeant(sent, block.of) = {block.rate}
        \/ /\ sent[block.of].kind = "binary"
           /\ RateOfBlankAudio \/ DefaultForgotten \/ MetadataOverridden

\* eventCallback, onBinaryData: the resampler shared by both is never one for another
\* rate than the audio's.  Only when it could not be made is audio played unconverted.
PlayedAtNativeRate ==
    block # NoBlock /\ MustResample(block.rate) =>
        block.resampler = block.rate \/ block.resampler = 0

\* A streamAudio response of the form that README.md gives: its data are base64 text, of
\* a supported type, raw audio "any 8kHz-multiple sample rate".
IsResponse(m) ==
    /\ m.type = "streamAudio" /\ m.content \in {"audio", "blank"}
    /\ m.codec \in AudioTypes
    /\ m.codec = "raw" => m.rate > 0 /\ m.rate % 8000 = 0

\* processMessage refuses rates that README.md allows.
TooFast(m) == m.codec = "raw" /\ m.rate > 64000

\* eventCallback: a play event is fired for streamAudio responses and the json event for
\* other texts; README.md says for each response, which the code contradicts for rates
\* above 64000 and for blank audio that is taken for metadata.
EventsAsDocumented ==
    event # NoEvent =>
        LET m == sent[event.of].message
        IN  event.name = "play" <=> IsResponse(m) /\ ~TooFast(m) /\ ~TakenForMetadata(m)

\* Bytes that OpenSSL has and poll does not see, as SSL_read was given less room than the
\* record is long.
Withheld == secure /\ taken < decrypted

\* threadFunc, processFrame: every frame of the peer is dealt with in the end, unless the
\* loop ends, or its last bytes stay within OpenSSL for good.
HandledInTheEnd ==
    \A i \in 1..MaxFrames :
        i \in DOMAIN sent ~> (parsed >= i \/ ~running \/ worker = "done" \/ Withheld)

=============================================================================
