------------------------------ MODULE WsClient ------------------------------
(***************************************************************************)
(* The life of a WebSocketClient (ws_client.h, ws_client.cpp): the worker  *)
(* thread started by connect() dials, upgrades, runs its poll loop and     *)
(* tears the socket down, while other threads send frames and one call of  *)
(* disconnect() races with it over state_, running_ and thread_.           *)
(*                                                                         *)
(* The module connects a client once and calls disconnect() at most once   *)
(* (AudioStreamer::create, cleanup_started): from an application thread at *)
(* any time, or from onError_ on the worker itself, through the CLOSE      *)
(* callback of the media bug.  The destructor's own call finds nothing     *)
(* left to do.                                                             *)
(*                                                                         *)
(* The send queue is the bounded channel FrameChannel, which SendQueue     *)
(* implements.  rxbuf_ holds whole frames, told apart by what processFrame *)
(* does with them; bytes of a frame still incomplete are not represented.  *)
(***************************************************************************)
EXTENDS Naturals, Sequences, FiniteSets

CONSTANTS
    Items,           \* the frames the program may hand over, told apart
    MAX_SEND_QUEUE,  \* capacity of sendQueue_
    MaxFrames,       \* bound of the model: frames the peer sends in all
    UseTls,          \* a wss:// URL
    HeartBeat        \* pingInterval_ > 0

ASSUME ConfigAssumption ==
    /\ MAX_SEND_QUEUE \in Nat
    /\ MaxFrames \in Nat
    /\ UseTls \in BOOLEAN
    /\ HeartBeat \in BOOLEAN

VARIABLES
    state,      \* state_
    running,    \* running_
    thread,     \* thread_ and threadStarted_: "none", "joinable", "joined" or
                \* "detached"
    pc,         \* where the worker is
    wantWrite,  \* it polls for POLLOUT too
    writable,   \* poll reported POLLOUT
    flight,     \* the TLS handshake: "none", "sent" (our hello), "arrived"
    rxbuf,      \* rxbuf_
    arrived,    \* number of frames received so far
    idle,       \* nothing was read or pinged for pingInterval_ seconds
    code,       \* the code given to onClose_, 0 before
    caller,     \* who called disconnect(): "nobody", "app" or "worker"
    at,         \* where that call is: "none", "store", "stop", "reap" or "done"
    checked,    \* items whose sender saw OPEN and has not appended them yet
    pending,    \* sendQueue_, in any order
    delivered,  \* history: the items written completely
    heard,      \* history: the peer's close frame was handled
    denied,     \* history: the network or the peer refused the connection, or
                \* there was no memory for it
    broken,     \* history: poll or read reported an error or the end of stream
    lastWords   \* history: what was queued when the application disconnected

callVars == <<caller, at, lastWords>>
queueVars == <<checked, pending, delivered>>
readVars == <<rxbuf, arrived>>
pollVars == <<wantWrite, writable>>
workVars == <<pollVars, flight, readVars, idle>>
ghosts == <<heard, denied, broken>>
restVars == <<callVars, queueVars, ghosts>>
vars == <<state, running, thread, pc, workVars, code, restVars>>

Kinds == {"data", "ping", "close"}

Queue == INSTANCE FrameChannel WITH Capacity <- MAX_SEND_QUEUE

\* The worker leaves `from` for `to`.
Go(from, to) == pc = from /\ pc' = to

\* The worker is in one of its callbacks and has called disconnect() from it.
Disconnecting == caller = "worker" /\ at # "done"

\* The phases in which the worker goes round its poll loop.
Looping == {"loop", "peek", "poll", "read", "frames", "message", "write"}

-----------------------------------------------------------------------------
(***************************************************************************)
(* Faulty variants of the definitions below.  No action uses them: each is *)
(* put in the place of the definition it is named after to see that a      *)
(* property notices the fault.                                             *)
(***************************************************************************)
WantWriteNever == FALSE
IdleAfterPingForgotten == idle
CodeAtEndAlwaysNormal == 1000
RunningAfterStopForgotten == running
MayReapAtOnce == TRUE

-----------------------------------------------------------------------------
(* connect() and the senders' side of the queue *)

\* Nobody else has the client yet: the caller of AudioStreamer::create publishes
\* it after connect() has returned, so the assignments are one step.
Connect ==
    /\ state = "DISCONNECTED"
    /\ Go("unborn", "dial")
    /\ state' = "CONNECTING"
    /\ running' = TRUE
    /\ thread' = "joinable"
    /\ UNCHANGED <<workVars, code, restVars>>

\* sendBinary, and writeText before it calls sendMessage, look at state_ first...
SeeOpen(i) ==
    /\ state = "OPEN"
    /\ i \notin checked \cup pending \cup delivered
    /\ checked' = checked \cup {i}
    /\ UNCHANGED <<state, running, thread, pc, workVars, code, callVars,
                   pending, delivered, ghosts>>

\* ... and append later, whatever has become of the connection meanwhile; an item
\* that finds the queue full is dropped, and may be offered again.
Push(i) ==
    /\ i \in checked
    /\ checked' = checked \ {i}
    /\ Queue!Accept(i) \/ (~Queue!HasRoom /\ UNCHANGED <<pending, delivered>>)
    /\ UNCHANGED <<state, running, thread, pc, workVars, code, callVars,
                   ghosts>>

-----------------------------------------------------------------------------
(* The worker: dialling *)

\* An early return of threadFunc: state_ is reset before onError_ and onClose_.
FailDial ==
    /\ pc' = "dialError"
    /\ state' = "DISCONNECTED"
    /\ UNCHANGED <<running, thread, pollVars, readVars, idle, code, callVars,
                   queueVars, heard, broken>>

\* getaddrinfo, socket() or the blocking ::connect() fails.
DialFails ==
    /\ pc = "dial"
    /\ FailDial
    /\ denied' = TRUE
    /\ UNCHANGED flight

\* The socket is connected, and made non-blocking.
Dialled ==
    /\ Go("dial", IF UseTls THEN "tls" ELSE "upgrade")
    /\ UNCHANGED <<state, running, thread, workVars, code, restVars>>

\* SSL_CTX_new fails, before anything is sent.
ContextFails ==
    /\ pc = "tls" /\ flight = "none"
    /\ FailDial
    /\ denied' = TRUE
    /\ UNCHANGED flight

\* SSL_connect writes our hello ...
SendHello ==
    /\ pc = "tls" /\ flight = "none"
    /\ flight' = "sent"
    /\ UNCHANGED <<state, running, thread, pc, pollVars, readVars, idle,
                   code, restVars>>

\* ... the peer answers it ...
HelloAnswered ==
    /\ flight = "sent"
    /\ flight' = "arrived"
    /\ UNCHANGED <<state, running, thread, pc, pollVars, readVars, idle,
                   code, restVars>>

\* ... and SSL_connect reads the answer.
TlsDone ==
    /\ flight = "arrived"
    /\ Go("tls", "upgrade")
    /\ UNCHANGED <<state, running, thread, workVars, code, restVars>>

\* What the peer sent does not pass (its certificate, its protocol version).
TlsRefused ==
    /\ pc = "tls" /\ flight = "arrived"
    /\ FailDial
    /\ denied' = TRUE
    /\ UNCHANGED flight

\* The answer is not there yet.  On a non-blocking socket SSL_connect returns -1
\* (WANT_READ), which threadFunc takes for a failure.
TlsWouldBlock ==
    /\ pc = "tls" /\ flight = "sent"
    /\ FailDial
    /\ UNCHANGED <<flight, denied>>

\* doHandshake fails: onError_ runs first, state_ is reset after it.
UpgradeFails ==
    /\ Go("upgrade", "upgradeError")
    /\ denied' = TRUE
    /\ UNCHANGED <<state, running, thread, workVars, code, callVars,
                   queueVars, heard, broken>>

\* doHandshake succeeds, and OPEN is stored over whatever state_ holds by now.
UpgradeDone ==
    /\ Go("upgrade", "open")
    /\ state' = "OPEN"
    /\ UNCHANGED <<running, thread, workVars, code, restVars>>

\* doHandshake's outcome waits for the peer, in blocking reads without a timeout.
Upgrade == UpgradeFails \/ UpgradeDone

-----------------------------------------------------------------------------
(* The worker: callbacks, which return to the code that made them *)

OpenReturns ==
    /\ Go("open", "loop")
    /\ UNCHANGED <<state, running, thread, workVars, code, restVars>>

DialErrorReturns ==
    /\ ~Disconnecting
    /\ Go("dialError", "close")
    /\ code' = 1006
    /\ UNCHANGED <<state, running, thread, workVars, restVars>>

UpgradeErrorReturns ==
    /\ ~Disconnecting
    /\ Go("upgradeError", "close")
    /\ state' = "DISCONNECTED"
    /\ code' = 1002
    /\ UNCHANGED <<running, thread, workVars, restVars>>

\* The frame is erased from rxbuf_ when its callback has returned.
MessageReturns ==
    /\ Go("message", "frames")
    /\ rxbuf' = Tail(rxbuf)
    /\ UNCHANGED <<state, running, thread, pollVars, flight, arrived, idle,
                   code, restVars>>

CloseReturns ==
    /\ Go("close", "ended")
    /\ UNCHANGED <<state, running, thread, workVars, code, restVars>>

-----------------------------------------------------------------------------
(* The worker: the poll loop *)

LoopTest ==
    /\ pc = "loop"
    /\ pc' = IF running THEN "peek" ELSE "teardown"
    /\ UNCHANGED <<state, running, thread, workVars, code, restVars>>

\* Under sendMutex_: POLLOUT is asked for only when something is queued.
WantWrite == pending # {}

PeekQueue ==
    /\ Go("peek", "poll")
    /\ wantWrite' = WantWrite
    /\ UNCHANGED <<state, running, thread, writable, flight, readVars, idle,
                   code, restVars>>

\* poll() reports what it was asked about, or times out with nothing to report.
PollReturns(in, out) ==
    /\ out => wantWrite
    /\ Go("poll", IF in THEN "read" ELSE "write")
    /\ writable' = out
    /\ UNCHANGED <<state, running, thread, wantWrite, flight, readVars, idle,
                   code, restVars>>

\* EINTR: round again.
PollInterrupted ==
    /\ Go("poll", "loop")
    /\ UNCHANGED <<state, running, thread, workVars, code, restVars>>

\* Any other error of poll, the end of the stream or an error of recv or SSL_read.
ConnectionBreaks ==
    /\ Go("poll", "teardown") \/ Go("read", "teardown")
    /\ broken' = TRUE
    /\ UNCHANGED <<state, running, thread, workVars, code, callVars,
                   queueVars, heard, denied>>

\* Up to 8192 bytes arrive: they may complete no frame, one or several.
ReadBytes(frames) ==
    /\ arrived + Len(frames) <= MaxFrames
    /\ Go("read", "frames")
    /\ rxbuf' = rxbuf \o frames
    /\ arrived' = arrived + Len(frames)
    /\ idle' = FALSE
    /\ UNCHANGED <<state, running, thread, pollVars, flight, code, restVars>>

\* EAGAIN, or an incomplete TLS record.
ReadNothing ==
    /\ Go("read", "write")
    /\ UNCHANGED <<state, running, thread, workVars, code, restVars>>

\* processFrame goes through every complete frame, whatever running_ says.
NoMoreFrames ==
    /\ rxbuf = <<>>
    /\ Go("frames", "write")
    /\ UNCHANGED <<state, running, thread, workVars, code, restVars>>

\* A text or binary frame: its callback runs.
HandleData ==
    /\ rxbuf # <<>> /\ Head(rxbuf) = "data"
    /\ Go("frames", "message")
    /\ UNCHANGED <<state, running, thread, workVars, code, restVars>>

\* A ping is answered with a pong; whether the write succeeds is not looked at.
HandlePing ==
    /\ pc = "frames"
    /\ rxbuf # <<>> /\ Head(rxbuf) = "ping"
    /\ rxbuf' = Tail(rxbuf)
    /\ UNCHANGED <<state, running, thread, pc, pollVars, flight, arrived,
                   idle, code, restVars>>

\* A close frame ends processFrame and, in due course, the loop.
HandleClose ==
    /\ rxbuf # <<>> /\ Head(rxbuf) = "close"
    /\ Go("frames", "write")
    /\ state' = "CLOSING"
    /\ running' = FALSE
    /\ heard' = TRUE
    /\ UNCHANGED <<thread, workVars, code, callVars, queueVars, denied, broken>>

\* drainSendQueue writes some item completely.
WriteItem(i) ==
    /\ pc = "write" /\ writable
    /\ Queue!Deliver(i)
    /\ UNCHANGED <<state, running, thread, pc, workVars, code, callVars,
                   checked, ghosts>>

IdleAfterPing == FALSE

\* It gives up or has nothing left; a ping goes out if the line has been idle.
WriteDone ==
    /\ Go("write", "loop")
    /\ writable' = FALSE
    /\ idle' = IdleAfterPing
    /\ UNCHANGED <<state, running, thread, wantWrite, flight, readVars, code,
                   restVars>>

\* pingInterval_ seconds pass without a read or a ping.  The clock is looked at
\* when poll returns; time spent elsewhere shows then.
TimePasses ==
    /\ HeartBeat
    /\ pc = "poll"
    /\ ~idle
    /\ idle' = TRUE
    /\ UNCHANGED <<state, running, thread, pc, pollVars, flight, readVars,
                   code, restVars>>

\* The close code: normal if somebody asked for the close, as far as state_ tells.
CodeAtEnd == IF state = "CLOSING" THEN 1000 ELSE 1006

\* After the loop: a close frame, the socket is closed, onClose_ runs.
Teardown ==
    /\ Go("teardown", "close")
    /\ code' = CodeAtEnd
    /\ state' = "CLOSED"
    /\ UNCHANGED <<running, thread, workVars, restVars>>

-----------------------------------------------------------------------------
(* disconnect() *)

\* The test of state_ on entry.
Live == state \notin {"DISCONNECTED", "CLOSED"}

\* The application thread may call at any time; the worker calls from onError_.
CallDisconnect(who) ==
    /\ caller = "nobody"
    /\ who = "app" => pc # "unborn"
    /\ who = "worker" => pc \in {"dialError", "upgradeError"}
    /\ caller' = who
    /\ at' = IF Live THEN "store" ELSE "reap"
    /\ lastWords' = pending
    /\ UNCHANGED <<state, running, thread, pc, workVars, code, queueVars,
                   ghosts>>

\* CLOSING is stored over whatever state_ holds by now.
StoreClosing ==
    /\ at = "store"
    /\ at' = "stop"
    /\ state' = "CLOSING"
    /\ UNCHANGED <<running, thread, pc, workVars, code, caller, lastWords,
                   queueVars, ghosts>>

RunningAfterStop == FALSE

StopRunning ==
    /\ at = "stop"
    /\ at' = "reap"
    /\ running' = RunningAfterStop
    /\ UNCHANGED <<state, thread, pc, workVars, code, caller, lastWords,
                   queueVars, ghosts>>

\* The worker lets go of its own thread; any other thread waits for it to end.
MayReap == caller = "app" => pc = "ended"

Reap ==
    /\ at = "reap"
    /\ thread = "joinable" => MayReap
    /\ at' = "done"
    /\ thread' = IF thread # "joinable" THEN thread
                 ELSE IF caller = "worker" THEN "detached" ELSE "joined"
    /\ UNCHANGED <<state, running, pc, workVars, code, caller, lastWords,
                   queueVars, ghosts>>

Disconnect == StoreClosing \/ StopRunning \/ Reap

-----------------------------------------------------------------------------

Init ==
    /\ state = "DISCONNECTED"
    /\ running = FALSE
    /\ thread = "none"
    /\ pc = "unborn"
    /\ wantWrite = FALSE
    /\ writable = FALSE
    /\ flight = "none"
    /\ rxbuf = <<>>
    /\ arrived = 0
    /\ idle = FALSE
    /\ code = 0
    /\ caller = "nobody"
    /\ at = "none"
    /\ checked = {}
    /\ Queue!ChanInit
    /\ heard = FALSE
    /\ denied = FALSE
    /\ broken = FALSE
    /\ lastWords = {}

Dialling == DialFails \/ Dialled \/ ContextFails \/ SendHello \/ TlsDone \/ TlsRefused
            \/ TlsWouldBlock

Callback == OpenReturns \/ DialErrorReturns \/ UpgradeErrorReturns \/ MessageReturns
            \/ CloseReturns

\* The batches of frames one read may complete.
Batches == UNION {[1..n -> Kinds] : n \in 0..MaxFrames}

Reading ==
    \/ \E frames \in Batches : ReadBytes(frames)
    \/ ReadNothing \/ NoMoreFrames \/ HandleData \/ HandlePing \/ HandleClose

Polling ==
    \/ LoopTest \/ PeekQueue \/ PollInterrupted \/ ConnectionBreaks
    \/ \E in, out \in BOOLEAN : PollReturns(in, out)

Writing == (\E i \in Items : WriteItem(i)) \/ WriteDone

\* The steps the worker takes on its own.
Worker == Dialling \/ Callback \/ Polling \/ Reading \/ Writing \/ Teardown

Next ==
    \/ Connect
    \/ Worker
    \/ Upgrade
    \/ HelloAnswered
    \/ TimePasses
    \/ \E i \in Items : SeeOpen(i) \/ Push(i)
    \/ \E who \in {"app", "worker"} : CallDisconnect(who)
    \/ Disconnect

Spec == Init /\ [][Next]_vars

\* Threads run, callbacks return, dialling ends (the resolver and the kernel time
\* out), and poll returns within its timeout unless it is interrupted for ever.
ThreadFairness ==
    /\ WF_vars(Worker)
    /\ WF_vars(Disconnect)
    /\ SF_vars(\E in, out \in BOOLEAN : PollReturns(in, out))

\* A peer that reads: the socket turns writable again, and takes any frame that
\* is offered to it often enough (SendQueue shows what the drain does with it).
PeerReads ==
    /\ SF_vars(\E in \in BOOLEAN : PollReturns(in, TRUE))
    /\ \A i \in Items : SF_vars(WriteItem(i))

\* A peer that answers the upgrade request, or closes the connection instead.
PeerAnswers == WF_vars(Upgrade)

FairSpec == Spec /\ ThreadFairness /\ PeerReads /\ PeerAnswers

\* The fairness the program can count on whatever the peer does.
LonelySpec == Spec /\ ThreadFairness

-----------------------------------------------------------------------------
(* Properties *)

Phases == Looping \cup {"unborn", "dial", "tls", "upgrade", "dialError", "upgradeError",
                        "open", "teardown", "close", "ended"}

TypeOK ==
    /\ state \in {"DISCONNECTED", "CONNECTING", "OPEN", "CLOSING", "CLOSED"}
    /\ running \in BOOLEAN
    /\ thread \in {"none", "joinable", "joined", "detached"}
    /\ pc \in Phases
    /\ wantWrite \in BOOLEAN /\ writable \in BOOLEAN
    /\ flight \in {"none", "sent", "arrived"}
    /\ rxbuf \in Seq(Kinds)
    /\ arrived \in 0..MaxFrames
    /\ idle \in BOOLEAN
    /\ code \in {0, 1000, 1002, 1006}
    /\ caller \in {"nobody", "app", "worker"}
    /\ at \in {"none", "store", "stop", "reap", "done"}
    /\ checked \subseteq Items /\ delivered \subseteq Items /\ lastWords \subseteq Items
    /\ pending \subseteq Items /\ Cardinality(pending) <= MAX_SEND_QUEUE
    /\ heard \in BOOLEAN /\ denied \in BOOLEAN /\ broken \in BOOLEAN

\* When disconnect() returns to the application the worker has ended, so no
\* callback can run any more; isConnected() is false and stays so, and the
\* std::thread may be destroyed.  The state that disconnect() read on entry and
\* the one the worker stores last may cross on the way.
DisconnectJoins ==
    caller = "app" /\ at = "done" =>
        pc = "ended" /\ thread = "joined" /\ state # "OPEN"

\* Where the contract sees a worker that is at p.
PhaseOf(p) ==
    CASE p = "unborn" -> "new"
      [] p \in {"dial", "tls", "upgrade"} -> "dialing"
      [] p \in {"dialError", "upgradeError"} -> "failing"
      [] p = "open" -> "opening"
      [] p = "message" -> "message"
      [] p \in (Looping \ {"message"}) \cup {"teardown"} -> "open"
      [] p = "close" -> "closing"
      [] p = "ended" -> "ended"

Life == INSTANCE WsLifecycle WITH
    phase <- PhaseOf(pc),
    connected <- state = "OPEN",
    asked <- caller # "nobody" \/ heard,
    quiet <- caller = "app" /\ at = "done"

\* Callbacks come in the order their users rely on and isConnected() agrees with
\* them; a normal close code means that somebody asked for the close.
ImplementsLifecycle == Life!LifeSpec

\* disconnect() returns: the worker leaves its loop whatever it was doing when
\* running_ was cleared.
DisconnectReturns == at # "none" ~> at = "done"

\* What was queued is written, unless the connection ends first.
QueueDrains ==
    \A i \in Items : i \in pending ~> (i \in delivered \/ pc \in {"teardown", "close", "ended"})

\* A line that has been idle for the ping interval is pinged, unless the
\* connection ends first: the poll timeout brings the worker round in time.
IdleLinePinged == idle ~> (~idle \/ pc \in {"teardown", "close", "ended"})

\* onError_ is for a connection that the network or the peer refused, or for which
\* there was no memory.  (A client "with OpenSSL TLS" serves ws:// and wss:// alike,
\* README.md.)
ErrorMeansRefused == pc \in {"dialError", "upgradeError"} => denied

\* A text queued before disconnect() is sent before the close, unless the
\* connection breaks.  ("stop: Optional text sent before close", README.md.)
LastWordsSent ==
    pc = "ended" /\ caller = "app" /\ ~denied /\ ~broken /\ ~heard => lastWords \subseteq delivered
=============================================================================
