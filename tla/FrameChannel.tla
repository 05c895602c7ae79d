---------------------------- MODULE FrameChannel ----------------------------
(***************************************************************************)
(* What the send queue of ws_client.cpp promises to its callers, seen from *)
(* outside: a bounded buffer of frames.  A frame offered while the buffer  *)
(* is full is dropped; an accepted frame is delivered at most once, nothing*)
(* else is ever delivered, and the order of delivery is not promised.      *)
(* SendQueue implements this specification; WsClient is built on it.       *)
(***************************************************************************)
EXTENDS Naturals, FiniteSets

CONSTANTS Items,     \* the frames the program may hand over, told apart
          Capacity   \* MAX_SEND_QUEUE

VARIABLES pending,   \* accepted and not yet written to the socket
          delivered  \* completely written to the socket

chanVars == <<pending, delivered>>

ChanInit == pending = {} /\ delivered = {}

\* A faulty variant of HasRoom, for no action to use.
HasRoomOffByOne == Cardinality(pending) <= Capacity

HasRoom == Cardinality(pending) < Capacity

\* A frame is accepted while there is room.
Accept(i) ==
    /\ i \in Items \ (pending \cup delivered)
    /\ HasRoom
    /\ pending' = pending \cup {i}
    /\ UNCHANGED delivered

\* A pending frame, any of them, is written.
Deliver(i) ==
    /\ i \in pending
    /\ pending' = pending \ {i}
    /\ delivered' = delivered \cup {i}

ChanNext == \E i \in Items : Accept(i) \/ Deliver(i)

ChanSpec == ChanInit /\ [][ChanNext]_chanVars
=============================================================================
