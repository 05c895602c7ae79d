--------------------------- MODULE WsClientProofs ---------------------------
(***************************************************************************)
(* What holds of WsClient for any frames, any capacity of the queue, any   *)
(* number of incoming frames, with and without TLS and heart beat.         *)
(***************************************************************************)
EXTENDS WsClient, FiniteSetTheorems, SequenceTheorems, TLAPS

-----------------------------------------------------------------------------
(* The queue of the composed model. *)

LEMMA SameCardinality == \A S : Queue!Cardinality(S) = Cardinality(S)
  BY DEF Queue!Cardinality, Cardinality

LEMMA AcceptBounded ==
    ASSUME NEW i, pending \subseteq Items, IsFiniteSet(pending), Queue!Accept(i)
    PROVE  /\ pending' \subseteq Items
           /\ IsFiniteSet(pending')
           /\ Cardinality(pending') <= MAX_SEND_QUEUE
<1>1. /\ i \in Items /\ i \notin pending
      /\ Cardinality(pending) < MAX_SEND_QUEUE
      /\ pending' = pending \cup {i}
  BY SameCardinality DEF Queue!Accept, Queue!HasRoom
<1>2. IsFiniteSet(pending \cup {i}) /\ Cardinality(pending \cup {i}) = Cardinality(pending) + 1
  BY <1>1, FS_AddElement
<1>3. Cardinality(pending) \in Nat
  BY FS_CardinalityType
<1> QED BY <1>1, <1>2, <1>3, ConfigAssumption

LEMMA DeliverBounded ==
    ASSUME NEW i, pending \subseteq Items, IsFiniteSet(pending), Queue!Deliver(i),
           Cardinality(pending) <= MAX_SEND_QUEUE, delivered \subseteq Items
    PROVE  /\ pending' \subseteq Items /\ delivered' \subseteq Items
           /\ IsFiniteSet(pending')
           /\ Cardinality(pending') <= MAX_SEND_QUEUE
<1>1. i \in pending /\ pending' = pending \ {i} /\ delivered' = delivered \cup {i}
  BY DEF Queue!Deliver
<1>2. IsFiniteSet(pending \ {i}) /\ Cardinality(pending \ {i}) = Cardinality(pending) - 1
  BY <1>1, FS_RemoveElement
<1>3. Cardinality(pending) \in Nat
  BY FS_CardinalityType
<1> QED BY <1>1, <1>2, <1>3, ConfigAssumption

-----------------------------------------------------------------------------
(* Types. *)

TypeInv == TypeOK /\ IsFiniteSet(pending) /\ (pc = "message" => rxbuf # <<>>)

LEMMA InitType == Init => TypeInv
<1>1. <<>> \in Seq(Kinds)
  BY EmptySeq
<1>2. IsFiniteSet({}) /\ Cardinality({}) = 0
  BY FS_EmptySet
<1>3. Init => pending = {} /\ delivered = {}
  BY DEF Init, Queue!ChanInit
<1>4. 0 \in 0..MaxFrames /\ Cardinality({}) <= MAX_SEND_QUEUE
  BY <1>2, ConfigAssumption
<1>5. Init => TypeOK
  BY <1>1, <1>2, <1>3, <1>4, Zenon DEF Init, TypeOK, Phases
<1> QED BY <1>2, <1>3, <1>5 DEF Init, TypeInv

LEMMA BatchesAreSeqs ==
    ASSUME NEW frames \in Batches
    PROVE  frames \in Seq(Kinds) /\ Len(frames) \in Nat
<1>1. frames \in Seq(Kinds)
  BY SeqDef, ConfigAssumption DEF Batches
<1> QED BY <1>1, LenProperties

LEMMA NextType == TypeInv /\ [Next]_vars => TypeInv'
<1> SUFFICES ASSUME TypeInv, [Next]_vars PROVE TypeInv'
  OBVIOUS
<1> USE ConfigAssumption DEF TypeInv, TypeOK, Phases, Looping, Go, 
        workVars, pollVars, readVars, restVars, callVars, queueVars, ghosts
<1>1. CASE Connect
  BY <1>1 DEF Connect
<1>2. CASE DialFails
  BY <1>2 DEF DialFails, FailDial
<1>3. CASE Dialled
  BY <1>3 DEF Dialled
<1>4. CASE SendHello
  BY <1>4 DEF SendHello
<1>5. CASE TlsDone
  BY <1>5 DEF TlsDone
<1>6. CASE TlsRefused \/ ContextFails
  <2>1. CASE TlsRefused
    BY <2>1 DEF TlsRefused, FailDial
  <2>2. CASE ContextFails
    BY <2>2 DEF ContextFails, FailDial
  <2> QED BY <1>6, <2>1, <2>2
<1>7. CASE TlsWouldBlock
  BY <1>7 DEF TlsWouldBlock, FailDial
<1>8. CASE OpenReturns
  BY <1>8 DEF OpenReturns
<1>9. CASE DialErrorReturns
  BY <1>9 DEF DialErrorReturns
<1>10. CASE UpgradeErrorReturns
  BY <1>10 DEF UpgradeErrorReturns
<1>11. CASE CloseReturns
  BY <1>11 DEF CloseReturns
<1>12. CASE LoopTest
  BY <1>12 DEF LoopTest
<1>13. CASE PeekQueue
  BY <1>13 DEF PeekQueue, WantWrite
<1>14. CASE PollInterrupted
  BY <1>14 DEF PollInterrupted
<1>15. CASE ConnectionBreaks
  BY <1>15 DEF ConnectionBreaks
<1>16. CASE ReadNothing
  BY <1>16 DEF ReadNothing
<1>17. CASE NoMoreFrames
  BY <1>17 DEF NoMoreFrames
<1>18. CASE HandleData
  BY <1>18 DEF HandleData
<1>19. CASE HandleClose
  <2>1. running' = FALSE /\ heard' = TRUE
    BY <1>19 DEF HandleClose
  <2>2. running' \in BOOLEAN /\ heard' \in BOOLEAN
    BY ONLY <2>1
  <2> QED BY <1>19, <2>2 DEF HandleClose
<1>20. CASE WriteDone
  <2>1. writable' = FALSE /\ idle' = FALSE
    BY <1>20 DEF WriteDone, IdleAfterPing
  <2>2. writable' \in BOOLEAN /\ idle' \in BOOLEAN
    BY ONLY <2>1
  <2> QED BY <1>20, <2>2 DEF WriteDone
<1>21. CASE Teardown
  BY <1>21 DEF Teardown, CodeAtEnd
<1>22. CASE UpgradeFails
  BY <1>22 DEF UpgradeFails
<1>23. CASE UpgradeDone
  BY <1>23 DEF UpgradeDone
<1>24. CASE HelloAnswered
  BY <1>24 DEF HelloAnswered
<1>25. CASE TimePasses
  BY <1>25 DEF TimePasses
<1>26. CASE StoreClosing
  BY <1>26 DEF StoreClosing
<1>27. CASE StopRunning
  <2>1. running' = FALSE
    BY <1>27 DEF StopRunning, RunningAfterStop
  <2>2. running' \in BOOLEAN
    BY ONLY <2>1
  <2> QED BY <1>27, <2>2 DEF StopRunning
<1>28. CASE Reap
  BY <1>28 DEF Reap
<1>29. ASSUME NEW i \in Items, SeeOpen(i) PROVE TypeInv'
  BY <1>29 DEF SeeOpen
<1>30. ASSUME NEW i \in Items, Push(i) PROVE TypeInv'
  <2>1. CASE Queue!Accept(i)
    <3>1. delivered' = delivered
      BY <2>1 DEF Queue!Accept
    <3>2. /\ pending' \subseteq Items /\ IsFiniteSet(pending')
          /\ Cardinality(pending') <= MAX_SEND_QUEUE
      BY <2>1, AcceptBounded
    <3> QED BY <1>30, <3>1, <3>2 DEF Push
  <2>2. CASE UNCHANGED <<pending, delivered>>
    BY <1>30, <2>2 DEF Push
  <2> QED BY <1>30, <2>1, <2>2 DEF Push
<1>31. ASSUME NEW who \in {"app", "worker"}, CallDisconnect(who) PROVE TypeInv'
  BY <1>31 DEF CallDisconnect
<1>32. ASSUME NEW in \in BOOLEAN, NEW out \in BOOLEAN, PollReturns(in, out) PROVE TypeInv'
  BY <1>32 DEF PollReturns
<1>33. ASSUME NEW frames \in Batches, ReadBytes(frames) PROVE TypeInv'
  <2>1. frames \in Seq(Kinds) /\ Len(frames) \in Nat
    BY BatchesAreSeqs
  <2>2. rxbuf' \in Seq(Kinds) /\ arrived' \in 0..MaxFrames
    BY <1>33, <2>1, ConcatProperties DEF ReadBytes
  <2>3. idle' = FALSE
    BY <1>33 DEF ReadBytes
  <2>4. idle' \in BOOLEAN
    BY ONLY <2>3
  <2> QED BY <1>33, <2>2, <2>4 DEF ReadBytes
<1>34. CASE HandlePing
  <2>1. rxbuf' \in Seq(Kinds)
    BY <1>34, HeadTailProperties DEF HandlePing
  <2> QED BY <1>34, <2>1 DEF HandlePing
\* MessageReturns is enabled only where HandleData has left a frame in rxbuf.
<1>35. CASE MessageReturns
  <2>1. rxbuf' \in Seq(Kinds)
    BY <1>35, HeadTailProperties DEF MessageReturns
  <2> QED BY <1>35, <2>1 DEF MessageReturns
<1>36. ASSUME NEW i \in Items, WriteItem(i) PROVE TypeInv'
  <2>1. /\ pending' \subseteq Items /\ delivered' \subseteq Items /\ IsFiniteSet(pending')
        /\ Cardinality(pending') <= MAX_SEND_QUEUE
    BY <1>36, DeliverBounded DEF WriteItem
  <2> QED BY <1>36, <2>1 DEF WriteItem
<1>37. CASE UNCHANGED vars
  BY <1>37 DEF vars
<1> QED BY <1>1, <1>2, <1>3, <1>4, <1>5, <1>6, <1>7, <1>8, <1>9, <1>10, <1>11, <1>12, <1>13, <1>14, <1>15, <1>16, <1>17, <1>18, <1>19, <1>20, <1>21, <1>22, <1>23, <1>24, <1>25, <1>26, <1>27, <1>28, <1>29, <1>30, <1>31, <1>32, <1>33, <1>34, <1>35, <1>36, <1>37
        DEF Next, Worker, Dialling, Callback, Polling, Reading, Writing, Upgrade, Disconnect

\* Every variable keeps its type and the queue its bound, for any configuration.
THEOREM TypeCorrect == Spec => []TypeOK
<1>1. Init => TypeInv
  BY InitType
<1>2. TypeInv /\ [Next]_vars => TypeInv'
  BY NextType
<1> QED BY <1>1, <1>2, PTL DEF Spec, TypeInv

-----------------------------------------------------------------------------
(* Who holds the thread, and what state_ can say where.  This is what makes   *)
(* DisconnectJoins inductive: while disconnect() is under way the thread is    *)
(* still there to be joined, whichever of the two stored state_ last; OPEN is  *)
(* never left behind by a worker that has ended; and CLOSING is only stored by *)
(* somebody who asks for the close.                                            *)

Connected == {"open", "teardown"} \cup Looping

ThreadInv ==
    /\ caller = "nobody" <=> at = "none"
    /\ caller # "nobody" => pc # "unborn"
    /\ pc = "unborn" => thread = "none"
    /\ pc # "unborn" /\ at # "done" => thread = "joinable"

StateInv ==
    /\ state = "OPEN" => pc \in Connected
    /\ state = "CLOSING" => caller # "nobody" \/ heard

ControlInv == ThreadInv /\ StateInv /\ DisconnectJoins

LEMMA InitControl == Init => ControlInv
  BY DEF Init, ControlInv, ThreadInv, StateInv, DisconnectJoins

LEMMA NextControl == TypeInv /\ ControlInv /\ [Next]_vars => ControlInv'
<1> SUFFICES ASSUME TypeInv, ControlInv, [Next]_vars PROVE ControlInv'
  OBVIOUS
<1>0. /\ at \in {"none", "store", "stop", "reap", "done"} /\ caller \in {"nobody", "app", "worker"}
      /\ heard \in BOOLEAN
  BY DEF TypeInv, TypeOK
<1> USE <1>0 DEF ControlInv, ThreadInv, StateInv, DisconnectJoins, Connected, Looping, Go,
        workVars, pollVars, readVars, restVars, callVars, queueVars, ghosts
<1>1. CASE Connect
  BY <1>1 DEF Connect
<1>2. CASE DialFails
  BY <1>2 DEF DialFails, FailDial
<1>3. CASE Dialled
  BY <1>3 DEF Dialled
<1>4. CASE SendHello
  BY <1>4 DEF SendHello
<1>5. CASE TlsDone
  BY <1>5 DEF TlsDone
<1>6. CASE TlsRefused \/ ContextFails
  BY <1>6 DEF TlsRefused, ContextFails, FailDial
<1>7. CASE TlsWouldBlock
  BY <1>7 DEF TlsWouldBlock, FailDial
<1>8. CASE OpenReturns
  BY <1>8 DEF OpenReturns
<1>9. CASE DialErrorReturns
  BY <1>9 DEF DialErrorReturns
<1>10. CASE UpgradeErrorReturns
  BY <1>10 DEF UpgradeErrorReturns
<1>11. CASE MessageReturns
  BY <1>11 DEF MessageReturns
<1>12. CASE CloseReturns
  BY <1>12 DEF CloseReturns
<1>13. CASE LoopTest
  BY <1>13 DEF LoopTest
<1>14. CASE PeekQueue
  BY <1>14 DEF PeekQueue
<1>15. CASE PollInterrupted
  BY <1>15 DEF PollInterrupted
<1>16. CASE ConnectionBreaks
  BY <1>16 DEF ConnectionBreaks
<1>17. CASE ReadNothing
  BY <1>17 DEF ReadNothing
<1>18. CASE NoMoreFrames
  BY <1>18 DEF NoMoreFrames
<1>19. CASE HandleData
  BY <1>19 DEF HandleData
<1>20. CASE HandlePing
  BY <1>20 DEF HandlePing
<1>21. CASE HandleClose
  BY <1>21 DEF HandleClose
<1>22. CASE WriteDone
  BY <1>22 DEF WriteDone
<1>23. CASE Teardown
  BY <1>23 DEF Teardown
<1>24. CASE UpgradeFails
  BY <1>24 DEF UpgradeFails
<1>25. CASE UpgradeDone
  BY <1>25 DEF UpgradeDone
<1>26. CASE HelloAnswered
  BY <1>26 DEF HelloAnswered
<1>27. CASE TimePasses
  BY <1>27 DEF TimePasses
<1>28. CASE StoreClosing
  BY <1>28 DEF StoreClosing
<1>29. CASE StopRunning
  BY <1>29 DEF StopRunning
<1>30. CASE Reap
  BY <1>30 DEF Reap, MayReap
<1>31. ASSUME NEW i \in Items, SeeOpen(i) PROVE ControlInv'
  BY <1>31 DEF SeeOpen
<1>32. ASSUME NEW i \in Items, Push(i) PROVE ControlInv'
  BY <1>32 DEF Push
<1>33. ASSUME NEW who \in {"app", "worker"}, CallDisconnect(who) PROVE ControlInv'
  BY <1>33 DEF CallDisconnect, Live
<1>34. ASSUME NEW frames \in Batches, ReadBytes(frames) PROVE ControlInv'
  BY <1>34 DEF ReadBytes
<1>35. ASSUME NEW i \in Items, WriteItem(i) PROVE ControlInv'
  BY <1>35 DEF WriteItem
<1>36. ASSUME NEW in \in BOOLEAN, NEW out \in BOOLEAN, PollReturns(in, out) PROVE ControlInv'
  BY <1>36 DEF PollReturns
<1>37. CASE UNCHANGED vars
  BY <1>37 DEF vars
<1> QED BY <1>1, <1>2, <1>3, <1>4, <1>5, <1>6, <1>7, <1>8, <1>9, <1>10, <1>11, <1>12, <1>13, <1>14, <1>15, <1>16, <1>17, <1>18,
        <1>19, <1>20, <1>21, <1>22, <1>23, <1>24, <1>25, <1>26, <1>27, <1>28, <1>29, <1>30, <1>31, <1>32, <1>33, <1>34, <1>35, <1>36, <1>37
        DEF Next, Worker, Dialling, Callback, Polling, Reading, Writing, Upgrade, Disconnect

LEMMA SpecInv == Spec => [](TypeInv /\ ControlInv)
<1>1. Init => TypeInv /\ ControlInv
  BY InitType, InitControl
<1>2. (TypeInv /\ ControlInv) /\ [Next]_vars => (TypeInv /\ ControlInv)'
  BY NextType, NextControl
<1> QED BY <1>1, <1>2, PTL DEF Spec

\* When disconnect() returns to the application, the worker has ended and the
\* client is not connected, however the two raced over state_.
THEOREM Joins == Spec => []DisconnectJoins
<1>1. ControlInv => DisconnectJoins
  BY DEF ControlInv
<1> QED BY <1>1, SpecInv, PTL

-----------------------------------------------------------------------------
(* The contract. *)

LEMMA PhaseCases ==
    /\ PhaseOf("unborn") = "new"
    /\ \A p \in {"dial", "tls", "upgrade"} : PhaseOf(p) = "dialing"
    /\ \A p \in {"dialError", "upgradeError"} : PhaseOf(p) = "failing"
    /\ PhaseOf("open") = "opening"
    /\ PhaseOf("message") = "message"
    /\ \A p \in {"loop", "peek", "poll", "read", "frames", "write", "teardown"} : PhaseOf(p) = "open"
    /\ PhaseOf("close") = "closing"
    /\ PhaseOf("ended") = "ended"
BY DEF PhaseOf, Looping

LEMMA InitLife == Init => Life!LifeInit
BY PhaseCases DEF Init, Life!LifeInit

\* What the contract does not see: the worker moves within a phase and nothing
\* else of what the contract looks at changes.
Silent ==
    /\ PhaseOf(pc') = PhaseOf(pc)
    /\ UNCHANGED <<state, code, caller, at, heard>>

LEMMA SilentStutters == Silent => UNCHANGED Life!lifeVars
BY DEF Silent, Life!lifeVars

LEMMA SilentStep ==
    ASSUME TypeInv, UNCHANGED <<state, code, caller, at, heard>>,
           \/ pc' = pc
           \/ pc = "dial" /\ pc' \in {"tls", "upgrade"}
           \/ pc = "tls" /\ pc' = "upgrade"
           \/ /\ pc \in {"loop", "peek", "poll", "read", "frames", "write"}
              /\ pc' \in {"loop", "peek", "poll", "read", "frames", "write", "teardown"}
    PROVE  UNCHANGED Life!lifeVars
<1>1. PhaseOf(pc') = PhaseOf(pc)
  BY PhaseCases
<1> QED BY <1>1, SilentStutters DEF Silent

LEMMA NextLife == TypeInv /\ ControlInv /\ [Next]_vars => [Life!LifeNext]_Life!lifeVars
<1> SUFFICES ASSUME TypeInv, ControlInv, [Next]_vars PROVE Life!LifeNext \/ UNCHANGED Life!lifeVars
  OBVIOUS
<1> USE DEF Go, workVars, pollVars, readVars, restVars, callVars, queueVars, ghosts
<1>0. /\ at \in {"none", "store", "stop", "reap", "done"} /\ caller \in {"nobody", "app", "worker"}
      /\ pc \in Phases
  BY DEF TypeInv, TypeOK
<1>1. CASE Dialled
  BY <1>1, SilentStep DEF Dialled
<1>2. CASE SendHello
  BY <1>2, SilentStep DEF SendHello
<1>3. CASE TlsDone
  BY <1>3, SilentStep DEF TlsDone
<1>4. CASE LoopTest
  BY <1>4, SilentStep DEF LoopTest
<1>5. CASE PeekQueue
  BY <1>5, SilentStep DEF PeekQueue
<1>6. CASE PollInterrupted
  BY <1>6, SilentStep DEF PollInterrupted
<1>7. CASE ConnectionBreaks
  BY <1>7, SilentStep DEF ConnectionBreaks
<1>8. CASE ReadNothing
  BY <1>8, SilentStep DEF ReadNothing
<1>9. CASE NoMoreFrames
  BY <1>9, SilentStep DEF NoMoreFrames
<1>10. CASE HandlePing
  BY <1>10, SilentStep DEF HandlePing
<1>11. CASE WriteDone
  BY <1>11, SilentStep DEF WriteDone
<1>12. CASE HelloAnswered
  BY <1>12, SilentStep DEF HelloAnswered
<1>13. CASE TimePasses
  BY <1>13, SilentStep DEF TimePasses
<1>14. ASSUME NEW i \in Items, SeeOpen(i) PROVE Life!LifeNext \/ UNCHANGED Life!lifeVars
  BY <1>14, SilentStep DEF SeeOpen
<1>15. ASSUME NEW i \in Items, Push(i) PROVE Life!LifeNext \/ UNCHANGED Life!lifeVars
  BY <1>15, SilentStep DEF Push
<1>16. ASSUME NEW i \in Items, WriteItem(i) PROVE Life!LifeNext \/ UNCHANGED Life!lifeVars
  BY <1>16, SilentStep DEF WriteItem
<1>17. ASSUME NEW frames \in Batches, ReadBytes(frames) PROVE Life!LifeNext \/ UNCHANGED Life!lifeVars
  BY <1>17, SilentStep DEF ReadBytes
<1>18. ASSUME NEW in \in BOOLEAN, NEW out \in BOOLEAN, PollReturns(in, out)
      PROVE Life!LifeNext \/ UNCHANGED Life!lifeVars
  BY <1>18, SilentStep DEF PollReturns
<1>19. CASE UNCHANGED vars
  BY <1>19, SilentStep DEF vars
<1>20. CASE Connect
  <2>1. Life!Dial
    BY <1>20, <1>0, PhaseCases DEF Connect, Life!Dial, Life!Move, Life!CloseCodes,
       ControlInv, ThreadInv, StateInv, Connected, Looping
  <2> QED BY <2>1 DEF Life!LifeNext
<1>21. CASE DialFails
  <2>1. Life!Fail
    BY <1>21, <1>0, PhaseCases DEF DialFails, FailDial, Life!Fail, Life!Move, Life!CloseCodes,
       ControlInv, ThreadInv, StateInv, Connected, Looping
  <2> QED BY <2>1 DEF Life!LifeNext
<1>22. CASE TlsRefused \/ ContextFails
  <2>1. Life!Fail
    BY <1>22, <1>0, PhaseCases DEF TlsRefused, ContextFails, FailDial, Life!Fail, Life!Move, Life!CloseCodes,
       ControlInv, ThreadInv, StateInv, Connected, Looping
  <2> QED BY <2>1 DEF Life!LifeNext
<1>23. CASE TlsWouldBlock
  <2>1. Life!Fail
    BY <1>23, <1>0, PhaseCases DEF TlsWouldBlock, FailDial, Life!Fail, Life!Move, Life!CloseCodes,
       ControlInv, ThreadInv, StateInv, Connected, Looping
  <2> QED BY <2>1 DEF Life!LifeNext
<1>24. CASE UpgradeFails
  <2>1. Life!Fail
    BY <1>24, <1>0, PhaseCases DEF UpgradeFails, Life!Fail, Life!Move, Life!CloseCodes,
       ControlInv, ThreadInv, StateInv, Connected, Looping
  <2> QED BY <2>1 DEF Life!LifeNext
<1>25. CASE UpgradeDone
  <2>1. Life!Open
    BY <1>25, <1>0, PhaseCases DEF UpgradeDone, Life!Open, Life!Move, Life!CloseCodes,
       ControlInv, ThreadInv, StateInv, Connected, Looping
  <2> QED BY <2>1 DEF Life!LifeNext
<1>26. CASE OpenReturns
  <2>1. Life!Settle
    BY <1>26, <1>0, PhaseCases DEF OpenReturns, Life!Settle, Life!Move, Life!CloseCodes,
       ControlInv, ThreadInv, StateInv, Connected, Looping
  <2> QED BY <2>1 DEF Life!LifeNext
<1>27. CASE HandleData
  <2>1. Life!Settle
    BY <1>27, <1>0, PhaseCases DEF HandleData, Life!Settle, Life!Move, Life!CloseCodes,
       ControlInv, ThreadInv, StateInv, Connected, Looping
  <2> QED BY <2>1 DEF Life!LifeNext
<1>28. CASE MessageReturns
  <2>1. Life!Settle
    BY <1>28, <1>0, PhaseCases DEF MessageReturns, Life!Settle, Life!Move, Life!CloseCodes,
       ControlInv, ThreadInv, StateInv, Connected, Looping
  <2> QED BY <2>1 DEF Life!LifeNext
<1>29. CASE DialErrorReturns
  <2>1. Life!Close
    BY <1>29, <1>0, PhaseCases DEF DialErrorReturns, Life!Close, Life!Move, Life!CloseCodes,
       ControlInv, ThreadInv, StateInv, Connected, Looping
  <2> QED BY <2>1 DEF Life!LifeNext
<1>30. CASE UpgradeErrorReturns
  <2>1. Life!Close
    BY <1>30, <1>0, PhaseCases DEF UpgradeErrorReturns, Life!Close, Life!Move, Life!CloseCodes,
       ControlInv, ThreadInv, StateInv, Connected, Looping
  <2> QED BY <2>1 DEF Life!LifeNext
<1>31. CASE Teardown
  <2>1. Life!Close
    BY <1>31, <1>0, PhaseCases DEF Teardown, CodeAtEnd, Life!Close, Life!Move, Life!CloseCodes,
       ControlInv, ThreadInv, StateInv, Connected, Looping
  <2> QED BY <2>1 DEF Life!LifeNext
<1>32. CASE CloseReturns
  <2>1. Life!End
    BY <1>32, <1>0, PhaseCases DEF CloseReturns, Life!End, Life!Move, Life!CloseCodes,
       ControlInv, ThreadInv, StateInv, Connected, Looping
  <2> QED BY <2>1 DEF Life!LifeNext
<1>33. CASE HandleClose
  <2>1. Life!Ask
    BY <1>33, <1>0, PhaseCases DEF HandleClose, Life!Ask, Life!Move, Life!CloseCodes,
       ControlInv, ThreadInv, StateInv, Connected, Looping
  <2> QED BY <2>1 DEF Life!LifeNext
<1>34. CASE StoreClosing
  <2>1. Life!Ask
    BY <1>34, <1>0, PhaseCases DEF StoreClosing, Phases, Life!Ask, Life!Move, Life!CloseCodes,
       ControlInv, ThreadInv, StateInv, Connected, Looping
  <2> QED BY <2>1 DEF Life!LifeNext
<1>35. ASSUME NEW who \in {"app", "worker"}, CallDisconnect(who)
      PROVE Life!LifeNext \/ UNCHANGED Life!lifeVars
  <2>1. Life!Ask
    BY <1>35, <1>0, PhaseCases DEF CallDisconnect, Life!Ask, ControlInv, ThreadInv, Phases, Looping
  <2> QED BY <2>1 DEF Life!LifeNext
<1>36. CASE StopRunning
  BY <1>36 DEF StopRunning, Life!lifeVars
<1>37. CASE Reap
  <2>1. CASE caller = "app"
    <3>1. Life!Return
      BY <1>37, <2>1, PhaseCases DEF Reap, MayReap, Life!Return, ControlInv, ThreadInv
    <3> QED BY <3>1 DEF Life!LifeNext
  <2>2. CASE caller # "app"
    BY <1>37, <2>2 DEF Reap, Life!lifeVars
  <2> QED BY <2>1, <2>2
<1> QED BY <1>1, <1>2, <1>3, <1>4, <1>5, <1>6, <1>7, <1>8, <1>9, <1>10,
        <1>11, <1>12, <1>13, <1>14, <1>15, <1>16, <1>17, <1>18, <1>19, <1>20,
        <1>21, <1>22, <1>23, <1>24, <1>25, <1>26, <1>27, <1>28, <1>29, <1>30,
        <1>31, <1>32, <1>33, <1>34, <1>35, <1>36, <1>37
        DEF Next, Worker, Dialling, Callback, Polling, Reading, Writing, Upgrade, Disconnect

\* The client keeps its contract: callbacks in order, isConnected() in step with
\* them, a normal close code only when asked, silence after disconnect().
THEOREM KeepsContract == Spec => ImplementsLifecycle
<1>1. Spec => [](TypeInv /\ ControlInv)
  BY SpecInv
<1> QED BY <1>1, InitLife, NextLife, PTL DEF Spec, ImplementsLifecycle, Life!LifeSpec
=============================================================================
