-------------------------------- MODULE Wire --------------------------------
(***************************************************************************)
(* How the client takes in what the peer sends (ws_client.cpp): the read   *)
(* branch of the worker's poll loop, and processFrame, which cuts the      *)
(* bytes in rxbuf_ into frames again and calls back for the messages.      *)
(*                                                                         *)
(* A byte of the model stands for a part of a frame that a read may end    *)
(* after.  A plain socket hands over any part of what has been sent.  On a *)
(* TLS connection the peer puts the bytes into records as it likes,        *)
(* several frames into one or one into several; OpenSSL takes whole        *)
(* records off the socket, SSL_read hands out the rest of a record before  *)
(* it looks for the next one, and poll sees the socket only.               *)
(*                                                                         *)
(* The steps that call back are completed by the module that says what the *)
(* callback does (see Receive).                                            *)
(***************************************************************************)
EXTENDS Naturals, Sequences, FiniteSets

CONSTANTS
    Frames,     \* what the peer may send: records with kind, fin, size and message
    ReadSize,   \* size of the buffer a read is given
    MaxFrames   \* bound of the model on the frames sent

VARIABLES
    secure,     \* the connection is a TLS connection
    sent,       \* the frames sent
    ends,       \* for each frame sent, the number of bytes up to its end
    decrypted,  \* TLS: number of bytes that OpenSSL has taken off the socket
    taken,      \* number of bytes read
    rx,         \* rxbuf_.size()
    parsed,     \* number of frames that processFrame has dealt with
    worker,     \* the worker: "polling", "parsing", "calling", "handling" a
                \* message, "leaving" the loop, "done"
    running,    \* running_
    handled     \* history: the messages passed to callbacks, by their place in sent

wireVars == <<secure, sent, ends, decrypted, taken, rx, parsed, worker, running, handled>>

Kinds == {"text", "binary", "close", "control"}

ASSUME WireAssumption ==
    /\ \A f \in Frames : /\ f.kind \in Kinds /\ f.fin \in BOOLEAN
                         /\ f.size \in Nat \ {0}
    /\ ReadSize \in Nat \ {0}
    /\ MaxFrames \in Nat

\* The number of bytes of the first n frames: what frames behind them start at.
Bytes(n) == IF n = 0 THEN 0 ELSE ends[n]

Shorter(m, n) == IF m <= n THEN m ELSE n

WireInit ==
    /\ secure \in BOOLEAN
    /\ sent = <<>> /\ ends = <<>> /\ decrypted = 0 /\ taken = 0 /\ rx = 0 /\ parsed = 0
    /\ worker = "polling" /\ running = TRUE
    /\ handled = <<>>

-----------------------------------------------------------------------------
(***************************************************************************)
(* Faulty variants of the definitions below.  No action uses them: each is *)
(* put in the place of the definition it is named after to see that a      *)
(* property notices the fault.                                             *)
(***************************************************************************)
RestAfterFrameCleared(f) == 0
FrameThereByHeader == parsed < Len(sent) /\ rx > 0
WorkerAfterFrameOnce == "polling"

-----------------------------------------------------------------------------
(* The peer, and reading *)

\* While somebody reads: what comes later is of no consequence.
PeerSends(f) ==
    /\ worker \notin {"leaving", "done"}
    /\ Len(sent) < MaxFrames
    /\ sent' = Append(sent, f) /\ ends' = Append(ends, Bytes(Len(sent)) + f.size)
    /\ UNCHANGED <<secure, decrypted, taken, rx, parsed, worker, running, handled>>

\* while (running_): where the worker is after the test at the end of a round.  Until the
\* next one running_ is not looked at.
LoopTest == IF running THEN "polling" ELSE "leaving"

\* The bytes on the socket: on TLS those that OpenSSL has not taken.
OnSocket == Bytes(Len(sent)) - (IF secure THEN decrypted ELSE taken)

\* poll returns without anything to read.
PollTimesOut ==
    /\ worker = "polling"
    /\ OnSocket = 0
    /\ worker' = LoopTest
    /\ UNCHANGED <<secure, sent, ends, decrypted, taken, rx, parsed, running, handled>>

\* poll reports the socket readable and recv hands over n bytes.
Recv(n) ==
    /\ worker = "polling"
    /\ ~secure
    /\ n <= OnSocket
    /\ taken' = taken + n /\ rx' = rx + n
    /\ worker' = "parsing"
    /\ UNCHANGED <<secure, sent, ends, decrypted, parsed, running, handled>>

\* What OpenSSL has taken when it has a record to read from: the one it is in the middle
\* of, or the next, of any length.
Records ==
    IF taken < decrypted THEN {decrypted} ELSE (decrypted + 1)..Bytes(Len(sent))

\* poll reports the socket readable, there being something on it, and SSL_read hands over
\* bytes of a record.
SslRead ==
    /\ worker = "polling"
    /\ secure
    /\ OnSocket > 0
    /\ \E end \in Records :
          LET n == Shorter(ReadSize, end - taken)
          IN  decrypted' = end /\ taken' = taken + n /\ rx' = rx + n
    /\ worker' = "parsing"
    /\ UNCHANGED <<secure, sent, ends, parsed, running, handled>>

\* The connection is closed or fails.
ConnectionEnds ==
    /\ worker = "polling"
    /\ worker' = "leaving"
    /\ UNCHANGED <<secure, sent, ends, decrypted, taken, rx, parsed, running, handled>>

\* disconnect() is under way.
StopRunning ==
    /\ running /\ running' = FALSE
    /\ UNCHANGED <<secure, sent, ends, decrypted, taken, rx, parsed, worker, handled>>

-----------------------------------------------------------------------------
(* processFrame *)

\* A frame is there when its header is (it takes 2 to 14 bytes) and its payload.  The sum
\* of their lengths is the size of a frame that is really sent: the model has no header
\* whose payload length makes the sum wrap in a size_t.
FrameThere == parsed < Len(sent) /\ rx >= sent[parsed + 1].size
NextFrame == sent[parsed + 1]

\* Messages in fragments, their continuations and control frames are passed over.
IsMessage(f) == f.kind \in {"text", "binary"} /\ f.fin

RestAfterFrame(f) == rx - f.size

\* The loop goes on with what is left.
WorkerAfterFrame == "parsing"

Waits ==
    /\ worker = "parsing" /\ ~FrameThere
    /\ worker' = LoopTest
    /\ UNCHANGED <<secure, sent, ends, decrypted, taken, rx, parsed, running, handled>>

\* The frame is taken out of rxbuf_, after any callback.
Erase ==
    /\ rx' = RestAfterFrame(NextFrame) /\ parsed' = parsed + 1
    /\ worker' = WorkerAfterFrame

PassesOver ==
    /\ worker = "parsing" /\ FrameThere
    /\ ~IsMessage(NextFrame) /\ NextFrame.kind # "close"
    /\ Erase
    /\ UNCHANGED <<secure, sent, ends, decrypted, taken, running, handled>>

\* A close frame stays in rxbuf_; the loop ends.
PeerCloses ==
    /\ worker = "parsing" /\ FrameThere
    /\ NextFrame.kind = "close"
    /\ running' = FALSE /\ worker' = "leaving"
    /\ UNCHANGED <<secure, sent, ends, decrypted, taken, rx, parsed, handled>>

CallsBack ==
    /\ worker = "parsing" /\ FrameThere
    /\ IsMessage(NextFrame)
    /\ worker' = "calling"
    /\ handled' = Append(handled, parsed + 1)
    /\ UNCHANGED <<secure, sent, ends, decrypted, taken, rx, parsed, running>>

\* The callback's own steps.
CallbackGoesOn ==
    /\ worker = "calling"
    /\ worker' = "handling"
    /\ UNCHANGED <<secure, sent, ends, decrypted, taken, rx, parsed, running, handled>>

CallbackReturns(from) ==
    /\ worker = from
    /\ Erase
    /\ UNCHANGED <<secure, sent, ends, decrypted, taken, running, handled>>

CloseReturns ==
    /\ worker = "leaving"
    /\ worker' = "done"
    /\ UNCHANGED <<secure, sent, ends, decrypted, taken, rx, parsed, running, handled>>

WireStep ==
    \/ \E f \in Frames : PeerSends(f)
    \/ \E n \in 1..ReadSize : Recv(n)
    \/ PollTimesOut \/ SslRead \/ ConnectionEnds
    \/ Waits \/ PassesOver \/ PeerCloses \/ CallsBack

WireType ==
    /\ secure \in BOOLEAN /\ running \in BOOLEAN
    /\ sent \in Seq(Frames) /\ Len(sent) <= MaxFrames
    /\ ends \in Seq(Nat) /\ Len(ends) = Len(sent)
    /\ parsed \in 0..Len(sent)
    /\ decrypted \in Nat /\ taken \in Nat /\ rx \in Nat
    /\ worker \in {"polling", "parsing", "calling", "handling", "leaving", "done"}
    /\ handled \in Seq(1..MaxFrames)

=============================================================================
