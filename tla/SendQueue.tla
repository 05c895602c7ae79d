------------------------------ MODULE SendQueue ------------------------------
(***************************************************************************)
(* The outgoing queue of WebSocketClient (ws_client.h, ws_client.cpp):     *)
(* sendBinary and sendMessage append under sendMutex_, the worker thread's *)
(* drainSendQueue pops under the same mutex and hands each frame to        *)
(* sendFrame, whose writes to the non-blocking socket may stop half way.   *)
(*                                                                         *)
(* A frame is an opaque item.  The bytes of a frame matter here in one way *)
(* only: a send writes the whole frame, none of it, or a strict prefix.    *)
(* The socket decides which, on every call.                                *)
(***************************************************************************)
EXTENDS Naturals, Sequences, Functions

CONSTANTS Items,           \* the frames the program may hand over, told apart
          MAX_SEND_QUEUE   \* capacity of sendQueue_ (1024 in ws_client.h)

ASSUME CapacityAssumption == MAX_SEND_QUEUE \in Nat \ {0}

VARIABLES
    sendQueue,   \* sendQueue_, oldest first
    locked,      \* drainSendQueue holds sendMutex_
    retries,     \* its local counter of sends that failed in a row
    inFlight,    \* the item it has popped, as a sequence of at most one
    accepted,    \* history: every item appended to the queue, in order
    dropped,     \* history: the items refused because the queue was full
    sent,        \* history: the items written completely, in order
    torn,        \* history: the items of which only a part reached the wire
    overtaken    \* history: some send succeeded after another one had failed
                 \*          in the same drain

vars == <<sendQueue, locked, retries, inFlight, accepted, dropped, sent, torn,
          overtaken>>

history == <<accepted, dropped>>

-----------------------------------------------------------------------------
(***************************************************************************)
(* Faulty variants of the definitions below.  No action uses them: each is *)
(* put in the place of the definition it is named after to see that a      *)
(* property notices the fault.                                             *)
(***************************************************************************)
HasRoomOffByOne == Len(sendQueue) <= MAX_SEND_QUEUE
MayLockAlways == TRUE
RequeueNothing(i) == sendQueue
RequeueFront(i) == <<i>> \o sendQueue
RetriesForgotten == retries

-----------------------------------------------------------------------------
(* sendBinary, sendMessage *)

\* The test made under the mutex before an item is appended.
HasRoom == Len(sendQueue) < MAX_SEND_QUEUE

\* The mutex is free: the worker is not draining.
MayLock == ~locked

\* The common critical section of sendBinary and sendMessage.  An item that
\* does not fit is reported on stderr and dropped.
Push(i) ==
    /\ MayLock
    /\ i \in Items \ (Range(accepted) \cup dropped)
    /\ IF HasRoom
       THEN /\ sendQueue' = Append(sendQueue, i)
            /\ accepted' = Append(accepted, i)
            /\ UNCHANGED dropped
       ELSE /\ dropped' = dropped \cup {i}
            /\ UNCHANGED <<sendQueue, accepted>>
    /\ UNCHANGED <<locked, retries, inFlight, sent, torn, overtaken>>

-----------------------------------------------------------------------------
(* drainSendQueue, on the worker thread *)

\* The worker polls for POLLOUT only when the queue was not empty, and nobody
\* else removes an item, so a drain starts with a non-empty queue.
BeginDrain ==
    /\ MayLock
    /\ sendQueue # <<>>
    /\ locked' = TRUE
    /\ retries' = 0
    /\ UNCHANGED <<sendQueue, inFlight, history, sent, torn, overtaken>>

\* The condition of the drain loop.
KeepDraining == sendQueue # <<>> /\ retries < Len(sendQueue)

Pop ==
    /\ locked
    /\ inFlight = <<>>
    /\ KeepDraining
    /\ inFlight' = <<Head(sendQueue)>>
    /\ sendQueue' = Tail(sendQueue)
    /\ UNCHANGED <<locked, retries, history, sent, torn, overtaken>>

\* sendFrame wrote the last byte and returned true.
SendWhole ==
    /\ inFlight # <<>>
    /\ sent' = sent \o inFlight
    /\ inFlight' = <<>>
    /\ retries' = 0
    /\ overtaken' = (overtaken \/ retries > 0)
    /\ UNCHANGED <<sendQueue, locked, history, torn>>

\* A failed item goes to the back of the queue, behind those that followed it.
Requeue(i) == Append(sendQueue, i)

RetriesAfterFailure == retries + 1

\* sendFrame gave up (EAGAIN or an error) and returned false, after none
\* (part = FALSE) or a strict prefix (part = TRUE) of the frame.
SendShort(part) ==
    /\ inFlight # <<>>
    /\ sendQueue' = Requeue(inFlight[1])
    /\ retries' = RetriesAfterFailure
    /\ torn' = IF part THEN torn \cup Range(inFlight) ELSE torn
    /\ inFlight' = <<>>
    /\ UNCHANGED <<locked, history, sent, overtaken>>

EndDrain ==
    /\ locked
    /\ inFlight = <<>>
    /\ ~KeepDraining
    /\ locked' = FALSE
    /\ retries' = 0
    /\ UNCHANGED <<sendQueue, inFlight, history, sent, torn, overtaken>>

Drain == Pop \/ SendWhole \/ (\E part \in BOOLEAN : SendShort(part)) \/ EndDrain

-----------------------------------------------------------------------------

Init ==
    /\ sendQueue = <<>>
    /\ locked = FALSE
    /\ retries = 0
    /\ inFlight = <<>>
    /\ accepted = <<>>
    /\ dropped = {}
    /\ sent = <<>>
    /\ torn = {}
    /\ overtaken = FALSE

Next ==
    \/ \E i \in Items : Push(i)
    \/ BeginDrain
    \/ Drain

Spec == Init /\ [][Next]_vars

\* The worker thread goes round its loop for as long as the connection lasts
\* and the drain never blocks.
Fairness == WF_vars(BeginDrain) /\ WF_vars(Drain)

FairSpec == Spec /\ Fairness

\* A peer that keeps reading: the socket, offered frames again and again, takes
\* a whole one again and again.
PeerReads == SF_vars(SendWhole)

-----------------------------------------------------------------------------
(* Properties *)

TypeOK ==
    /\ sendQueue \in Seq(Items)
    /\ locked \in BOOLEAN
    /\ retries \in 0..MAX_SEND_QUEUE
    /\ inFlight \in Seq(Items) /\ Len(inFlight) <= 1
    /\ accepted \in Seq(Items)
    /\ dropped \subseteq Items
    /\ sent \in Seq(Items)
    /\ torn \subseteq Items
    /\ overtaken \in BOOLEAN

\* The memory the queue holds is bounded: sendQueue_ together with the item in
\* drainSendQueue's hands never exceeds MAX_SEND_QUEUE, although the failed item
\* is pushed back without a test for room.
QueueBounded == Len(sendQueue) + Len(inFlight) <= MAX_SEND_QUEUE

\* No frame is lost and none is sent twice, however many sends stop short: an
\* accepted item is in exactly one of the queue, the worker's hands and the sent
\* frames.  (The three together have as many items as were accepted, the same
\* ones, and no item was accepted twice.)
Conserved ==
    /\ IsInjective(accepted)
    /\ Range(accepted) = Range(sent) \cup Range(inFlight) \cup Range(sendQueue)
    /\ Len(accepted) = Len(sent) + Len(inFlight) + Len(sendQueue)

\* The items still to be sent, in the order they would have in a queue that
\* keeps a failed item at its front: the last `retries` items are those this
\* drain has tried and moved to the back.
InOrder ==
    LET fresh == Len(sendQueue) - retries
    IN  SubSeq(sendQueue, fresh + 1, Len(sendQueue)) \o inFlight
            \o SubSeq(sendQueue, 1, fresh)

\* Rotating failed items to the back is harmless when the whole drain fails:
\* the queue comes full circle.  Frames leave in the order they were accepted
\* unless some drain sent one item after failing to send another.
OrderKept == ~overtaken => accepted = sent \o InOrder

\* A drain ends, even if the socket never takes a byte again: the mutex the media
\* thread waits for is always released.
DrainEnds == locked ~> ~locked

\* Every accepted frame is sent in the end, if the connection lasts and the peer
\* keeps reading.
EventuallySent ==
    PeerReads => \A i \in Items : i \in Range(accepted) ~> i \in Range(sent)

\* The queue implements the bounded, unordered, exactly-once frame channel.
Channel == INSTANCE FrameChannel WITH
    Capacity <- MAX_SEND_QUEUE,
    pending <- Range(sendQueue) \cup Range(inFlight),
    delivered <- Range(sent)

ImplementsChannel == Channel!ChanSpec
=============================================================================
