-------------------------- MODULE PlaybackTracking --------------------------
(***************************************************************************)
(* What the playback events promise to whoever follows them (README.md,    *)
(* "Playback Events" and "Break"): audio is queued in frames of 20 ms, each*)
(* frame played is announced with its number and with how many are left,   *)
(* the last one is followed by queue_completed with the number played, and *)
(* a break empties the queue.  Playback keeps the promise for audio that   *)
(* comes in whole frames.                                                  *)
(***************************************************************************)
EXTENDS Naturals, Sequences

VARIABLES
    waiting,  \* frames queued
    played,   \* frames played since the queue was last empty
    event     \* the events fired last, in order

trackVars == <<waiting, played, event>>

ChunkPlayed(n, left) == [kind |-> "chunk_played", seq |-> n, remaining |-> left]

QueueCompleted(n) == [kind |-> "queue_completed", total |-> n]

TrackInit == waiting = 0 /\ played = 0 /\ event = <<>>

\* More frames arrive.
Enqueue ==
    /\ waiting' \in Nat /\ waiting' > waiting
    /\ UNCHANGED <<played, event>>

\* A frame is played; the one that leaves the queue empty ends the response.
Play ==
    /\ waiting > 0
    /\ waiting' = waiting - 1
    /\ IF waiting = 1
       THEN /\ played' = 0
            /\ event' = <<ChunkPlayed(played + 1, 0), QueueCompleted(played + 1)>>
       ELSE /\ played' = played + 1
            /\ event' = <<ChunkPlayed(played + 1, waiting - 1)>>

Clear ==
    /\ waiting' = 0
    /\ played' = 0
    /\ event' = <<QueueCompleted(0)>>

TrackNext == Enqueue \/ Play \/ Clear
=============================================================================
