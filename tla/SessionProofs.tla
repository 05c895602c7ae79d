---------------------------- MODULE SessionProofs ----------------------------
(***************************************************************************)
(* What holds of Session for any threads and any number of streams of a    *)
(* channel.  OneTeardown and the types need nothing else.  SafeLocks, the  *)
(* depth of the calls and that a teardown leaves nothing are proved of     *)
(* streams that are started alone (StartsAlone), and of a single stream    *)
(* without that; that the client is used right is proved of destructions   *)
(* whose streamer was found (Found), which streams started alone keep.     *)
(*                                                                         *)
(* All of it has one exception, lost: a store of audio_paused or           *)
(* close_requested has put back a word of flags in which cleanup_started   *)
(* was not set yet.  Until that happens IInv is inductive; the step that   *)
(* loses the flag is where the invariants end.                             *)
(*                                                                         *)
(* The proof goes by the stacks.  What a step does to the stack of its     *)
(* thread is said once per way of writing it (Replaced, Pushed, Popped);   *)
(* the invariant speaks of a stack by its label, and of who owns the       *)
(* setting up and the tearing down of a stream: one thread at a time.      *)
(***************************************************************************)
EXTENDS Session, SequenceTheorems, FiniteSetTheorems, TLAPS

\* The calls that may be about no stream: those that have not looked up the bug of the
\* channel yet, or need it no more.
Loose == {"fetch", "message", "failing", "done"}

\* What stands on a stack.
Frames ==
    {f \in [at : Labels, s : Streams \cup {None}, closing : BOOLEAN] :
        f.at \in Loose \/ f.s \in Streams}

\* Every variable has its type: TypeOK but for the depth of the stacks and who may hold
\* a mutex.
Types ==
    /\ private \in Streams \cup {None}
    /\ bug \in [Streams -> {"none", "attached", "removed"}]
    /\ mutex \in [Streams -> {"none", "free", "destroyed"} \cup Threads]
    /\ cleaning \in [Streams -> BOOLEAN] /\ closeReq \in [Streams -> BOOLEAN]
    /\ refs \in [Streams -> SUBSET (Threads \cup {"wrap", "self"})]
    /\ quiet \in [Streams -> BOOLEAN] /\ asked \in [Streams -> BOOLEAN]
    /\ phase \in [Streams -> {"new", "dialing", "failing", "opening", "open",
                              "message", "closing", "ended"}]
    /\ stack \in [Threads -> Seq(Frames)]
    /\ loaded \in [Threads -> [cleaning : BOOLEAN, closeReq : BOOLEAN]]
    /\ lost \in BOOLEAN /\ hungUp \in BOOLEAN
    /\ tornBy \in [Streams -> SUBSET (Threads \X BOOLEAN)]
    /\ misuse \subseteq Threads

-----------------------------------------------------------------------------
(* Stacks as sequences. *)

LEMMA FrameType ==
    ASSUME NEW at \in Labels, NEW s \in Streams \cup {None}, NEW closing \in BOOLEAN,
           at \in Loose \/ s \in Streams
    PROVE  Frame(at, s, closing) \in Frames
BY DEF Frame, Frames

\* Its length, its top and its members are those of a sequence.
LEMMA TopOf ==
    ASSUME NEW S, NEW q \in Seq(S)
    PROVE  /\ Len(q) \in Nat
           /\ q = <<>> <=> Len(q) = 0
           /\ q # <<>> => Len(q) >= 1 /\ Head(q) = q[1] /\ q[1] \in S
           /\ DOMAIN q = 1..Len(q)
           /\ \A i \in 1..Len(q) : q[i] \in S
<1>1. Len(q) \in Nat /\ DOMAIN q = 1..Len(q) /\ \A i \in 1..Len(q) : q[i] \in S
  BY LenProperties
<1>2. q = <<>> <=> Len(q) = 0
  BY EmptySeq
<1>3. ASSUME q # <<>> PROVE Head(q) = q[1]
  BY <1>3 DEF Head
<1> QED
  BY <1>1, <1>2, <1>3

LEMMA Push ==
    ASSUME NEW S, NEW q \in Seq(S), NEW f \in S
    PROVE  /\ <<f>> \o q \in Seq(S)
           /\ Len(<<f>> \o q) = Len(q) + 1
           /\ (<<f>> \o q)[1] = f
           /\ \A i \in 2..(Len(q) + 1) : (<<f>> \o q)[i] = q[i - 1]
<1>1. <<f>> \in Seq(S) /\ Len(<<f>>) = 1 /\ <<f>>[1] = f
  OBVIOUS
<1>2. Len(q) \in Nat
  BY LenProperties
<1>3. /\ <<f>> \o q \in Seq(S)
      /\ Len(<<f>> \o q) = Len(<<f>>) + Len(q)
      /\ \A i \in 1..(Len(<<f>>) + Len(q)) :
            (<<f>> \o q)[i] = IF i <= Len(<<f>>) THEN <<f>>[i] ELSE q[i - Len(<<f>>)]
  BY <1>1, ConcatProperties, Zenon
<1> QED
  BY <1>1, <1>2, <1>3

LEMMA Pop ==
    ASSUME NEW S, NEW q \in Seq(S), q # <<>>
    PROVE  /\ Tail(q) \in Seq(S)
           /\ Len(Tail(q)) = Len(q) - 1
           /\ \A i \in 1..(Len(q) - 1) : Tail(q)[i] = q[i + 1]
BY HeadTailProperties

LEMMA Replace ==
    ASSUME NEW S, NEW q \in Seq(S), q # <<>>, NEW f \in S
    PROVE  /\ [q EXCEPT ![1] = f] \in Seq(S)
           /\ Len([q EXCEPT ![1] = f]) = Len(q)
           /\ [q EXCEPT ![1] = f][1] = f
           /\ \A i \in 2..Len(q) : [q EXCEPT ![1] = f][i] = q[i]
<1>1. Len(q) \in Nat /\ Len(q) >= 1
  BY TopOf
<1>2. 1 \in 1..Len(q)
  BY <1>1
<1>3. /\ [q EXCEPT ![1] = f] \in Seq(S)
      /\ Len([q EXCEPT ![1] = f]) = Len(q)
      /\ \A j \in 1..Len(q) : [q EXCEPT ![1] = f][j] = IF j = 1 THEN f ELSE q[j]
  BY <1>2, ExceptSeq
<1> QED
  BY <1>1, <1>2, <1>3

-----------------------------------------------------------------------------
(* What a step does to the stacks. *)

\* The stacks of the other threads stay as they are.
Elsewhere(t) == \A u \in Threads \ {t} : stack'[u] = stack[u]

\* f takes the place of the innermost call of t.
Replaced(t, f) ==
    /\ Elsewhere(t)
    /\ Len(stack'[t]) = Len(stack[t])
    /\ stack'[t][1] = f
    /\ \A i \in 2..Len(stack[t]) : stack'[t][i] = stack[t][i]

\* t begins f, innermost.
Pushed(t, f) ==
    /\ Elsewhere(t)
    /\ Len(stack'[t]) = Len(stack[t]) + 1
    /\ stack'[t][1] = f
    /\ \A i \in 2..(Len(stack[t]) + 1) : stack'[t][i] = stack[t][i - 1]

\* g takes the place of the innermost call of t, and calls f.
ReplacedAndPushed(t, f, g) ==
    /\ Elsewhere(t)
    /\ Len(stack'[t]) = Len(stack[t]) + 1
    /\ stack'[t][1] = f
    /\ stack'[t][2] = g
    /\ \A i \in 3..(Len(stack[t]) + 1) : stack'[t][i] = stack[t][i - 1]

\* The innermost call of t returns.
Popped(t) ==
    /\ Elsewhere(t)
    /\ Len(stack'[t]) = Len(stack[t]) - 1
    /\ \A i \in 1..(Len(stack[t]) - 1) : stack'[t][i] = stack[t][i + 1]

\* The part of Types the lemmas about stacks need.
StackOK == stack \in [Threads -> Seq(Frames)]

\* Each way of writing the next stack does what its name says, and leaves it of its type.
LEMMA ReplaceStep ==
    ASSUME StackOK, NEW t \in Threads, stack[t] # <<>>, NEW f \in Frames,
           stack' = [stack EXCEPT ![t] = [stack[t] EXCEPT ![1] = f]]
    PROVE  StackOK' /\ Replaced(t, f)
<1>1. stack[t] \in Seq(Frames)
  BY DEF StackOK
<1>2. stack'[t] = [stack[t] EXCEPT ![1] = f] /\ Elsewhere(t)
  BY DEF StackOK, Elsewhere
<1>3. [stack[t] EXCEPT ![1] = f] \in Seq(Frames)
  BY <1>1, Replace
<1>4. StackOK'
  BY <1>3 DEF StackOK
<1> QED
  BY <1>1, <1>2, <1>4, Replace DEF Replaced

LEMMA GotoStep ==
    ASSUME StackOK, NEW t \in Threads, stack[t] # <<>>,
           NEW label \in Labels, Goto(t, label),
           label \in Loose \/ stack[t][1].s \in Streams
    PROVE  /\ StackOK'
           /\ Replaced(t, [stack[t][1] EXCEPT !.at = label])
           /\ stack[t][1] \in Frames
<1>1. stack[t] \in Seq(Frames)
  BY DEF StackOK
<1>2. stack[t][1] \in Frames
  BY <1>1, TopOf
<1>3. [stack[t][1] EXCEPT !.at = label] \in Frames
  BY <1>2 DEF Frames
<1>4. stack' = [stack EXCEPT ![t] =
                     [stack[t] EXCEPT ![1] = [stack[t][1] EXCEPT !.at = label]]]
  BY DEF Goto
<1> QED
  BY <1>2, <1>3, <1>4, ReplaceStep

LEMMA CallStep ==
    ASSUME StackOK, NEW t \in Threads, NEW f \in Frames, Call(t, f)
    PROVE  StackOK' /\ Pushed(t, f)
<1>1. stack[t] \in Seq(Frames)
  BY DEF StackOK
<1>2. stack'[t] = <<f>> \o stack[t] /\ Elsewhere(t)
  BY DEF StackOK, Elsewhere, Call
<1>3. <<f>> \o stack[t] \in Seq(Frames)
  BY <1>1, Push
<1>4. StackOK'
  BY <1>3 DEF StackOK, Call
<1> QED
  BY <1>1, <1>2, <1>4, Push DEF Pushed

LEMMA ReturnStep ==
    ASSUME StackOK, NEW t \in Threads, stack[t] # <<>>, Return(t)
    PROVE  StackOK' /\ Popped(t)
<1>1. stack[t] \in Seq(Frames)
  BY DEF StackOK
<1>2. stack'[t] = Tail(stack[t]) /\ Elsewhere(t)
  BY DEF StackOK, Elsewhere, Return
<1>3. Tail(stack[t]) \in Seq(Frames)
  BY <1>1, Pop
<1>4. StackOK'
  BY <1>3 DEF StackOK, Return
<1> QED
  BY <1>1, <1>2, <1>4, Pop DEF Popped

LEMMA GotoAndCallStep ==
    ASSUME StackOK, NEW t \in Threads, stack[t] # <<>>, NEW label \in Labels,
           NEW f \in Frames, GotoAndCall(t, label, f),
           label \in Loose \/ stack[t][1].s \in Streams
    PROVE  /\ StackOK'
           /\ ReplacedAndPushed(t, f, [stack[t][1] EXCEPT !.at = label])
           /\ stack[t][1] \in Frames
<1> DEFINE g == [stack[t][1] EXCEPT !.at = label]
           q == <<f, g>> \o Tail(stack[t])
<1>1. stack[t] \in Seq(Frames)
  BY DEF StackOK
<1>2. /\ stack[t][1] \in Frames /\ Head(stack[t]) = stack[t][1]
      /\ Len(stack[t]) \in Nat /\ Len(stack[t]) >= 1
  BY <1>1, TopOf
<1>3. g \in Frames
  BY <1>2 DEF Frames
<1>4. stack'[t] = q /\ Elsewhere(t)
  BY <1>2 DEF StackOK, Elsewhere, GotoAndCall
<1> HIDE DEF g
<1>5. /\ Tail(stack[t]) \in Seq(Frames)
      /\ Len(Tail(stack[t])) = Len(stack[t]) - 1
      /\ \A i \in 1..(Len(stack[t]) - 1) : Tail(stack[t])[i] = stack[t][i + 1]
  BY <1>1, Pop
<1>6. /\ <<f, g>> \in Seq(Frames) /\ Len(<<f, g>>) = 2
      /\ <<f, g>>[1] = f /\ <<f, g>>[2] = g
  BY <1>3
<1>7. /\ q \in Seq(Frames)
      /\ Len(q) = Len(<<f, g>>) + Len(Tail(stack[t]))
      /\ \A i \in 1..(Len(<<f, g>>) + Len(Tail(stack[t]))) :
            q[i] = IF i <= Len(<<f, g>>) THEN <<f, g>>[i]
                   ELSE Tail(stack[t])[i - Len(<<f, g>>)]
  BY <1>5, <1>6, ConcatProperties, Zenon
<1>8. StackOK'
  BY <1>4, <1>7, <1>2 DEF StackOK, GotoAndCall, g
<1> HIDE DEF q
<1>9. /\ Len(q) = Len(stack[t]) + 1 /\ q[1] = f /\ q[2] = g
      /\ \A i \in 3..(Len(stack[t]) + 1) : q[i] = stack[t][i - 1]
  BY <1>2, <1>5, <1>6, <1>7
<1>10. ReplacedAndPushed(t, f, g)
  BY <1>4, <1>9 DEF ReplacedAndPushed
<1> QED
  BY <1>2, <1>8, <1>10 DEF g

-----------------------------------------------------------------------------
(* The threads. *)

\* The names of threads and the words beside them are told apart.
LEMMA Threading ==
    /\ Streams \subseteq Threads /\ Api \subseteq Threads
    /\ "media" \in Threads /\ "core" \in Threads
    /\ "none" \notin Threads /\ "free" \notin Threads /\ "destroyed" \notin Threads
    /\ "wrap" \notin Threads /\ "self" \notin Threads
    /\ "media" \notin Streams /\ "core" \notin Streams
    /\ "media" \notin Api /\ "core" \notin Api /\ None \notin Streams
BY NamesDistinct DEF Threads

\* What holds of a thread that is about to take a step.
LEMMA InCall ==
    ASSUME Types, NEW t \in Threads, NEW label, At(t, label)
    PROVE  /\ misuse = {} /\ StackOK
           /\ stack[t] # <<>> /\ Len(stack[t]) \in Nat /\ Len(stack[t]) >= 1
           /\ Head(stack[t]) = stack[t][1]
           /\ stack[t][1] \in Frames
           /\ stack[t][1].at = label
           /\ Of(t) = stack[t][1].s
           /\ label \notin Loose => Of(t) \in Streams
<1>1. stack[t] \in Seq(Frames) /\ StackOK
  BY DEF Types, StackOK
<1>2. misuse = {} /\ stack[t] # <<>> /\ Head(stack[t]).at = label
  BY DEF At, In
<1>3. /\ Len(stack[t]) \in Nat /\ Len(stack[t]) >= 1
      /\ Head(stack[t]) = stack[t][1] /\ stack[t][1] \in Frames
  BY <1>1, <1>2, TopOf
<1> QED
  BY <1>1, <1>2, <1>3 DEF Of, Frames

\* The effect of Goto, Call, Return and their kin on the stack of a thread at `label`.
LEMMA Learns ==
    ASSUME Types, NEW t \in Threads, NEW label, At(t, label), NEW next \in Labels,
           private # None, GotoWithBug(t, next)
    PROVE  /\ StackOK'
           /\ Replaced(t, Frame(next, private, stack[t][1].closing))
<1> DEFINE f == Frame(next, private, stack[t][1].closing)
<1>1. StackOK /\ stack[t] # <<>> /\ stack[t][1] \in Frames
  BY InCall
<1>2. private \in Streams
  BY DEF Types
<1>3. f \in Frames
  BY <1>1, <1>2 DEF Frames, Frame
<1>4. stack' = [stack EXCEPT ![t] = [stack[t] EXCEPT ![1] = f]]
  BY DEF GotoWithBug
<1> QED
  BY <1>1, <1>3, <1>4, ReplaceStep

LEMMA Goes ==
    ASSUME Types, NEW t \in Threads, NEW label, At(t, label),
           NEW next \in Labels, label \notin Loose \/ next \in Loose, Goto(t, next)
    PROVE  /\ StackOK'
           /\ Replaced(t, Frame(next, Of(t), stack[t][1].closing))
<1>1. /\ StackOK /\ stack[t] # <<>> /\ stack[t][1] \in Frames
      /\ stack[t][1].at = label /\ Of(t) = stack[t][1].s
      /\ label \notin Loose => Of(t) \in Streams
  BY InCall
<1>2. next \in Loose \/ stack[t][1].s \in Streams
  BY <1>1
<1>3. StackOK' /\ Replaced(t, [stack[t][1] EXCEPT !.at = next])
  BY <1>1, <1>2, GotoStep
<1>4. [stack[t][1] EXCEPT !.at = next] = Frame(next, Of(t), stack[t][1].closing)
  BY <1>1 DEF Frames, Frame
<1> QED
  BY <1>3, <1>4

LEMMA Returns ==
    ASSUME Types, NEW t \in Threads, NEW label, At(t, label), Return(t)
    PROVE  StackOK' /\ Popped(t)
BY InCall, ReturnStep

LEMMA Calls ==
    ASSUME Types, NEW t \in Threads, NEW f \in Frames, Idle(t), Call(t, f)
    PROVE  /\ StackOK'
           /\ misuse = {} /\ Len(stack[t]) = 0
           /\ Elsewhere(t) /\ Len(stack'[t]) = 1 /\ stack'[t][1] = f
<1>1. StackOK /\ stack[t] \in Seq(Frames)
  BY DEF Types, StackOK
<1>2. misuse = {} /\ Len(stack[t]) = 0
  BY <1>1, TopOf DEF Idle
<1>3. StackOK' /\ Pushed(t, f)
  BY <1>1, CallStep
<1> QED
  BY <1>2, <1>3 DEF Pushed

LEMMA Nests ==
    ASSUME Types, NEW t \in Threads, NEW label, At(t, label),
           NEW next \in Labels, label \notin Loose \/ next \in Loose,
           NEW f \in Frames, GotoAndCall(t, next, f)
    PROVE  /\ StackOK'
           /\ ReplacedAndPushed(t, f, Frame(next, Of(t), stack[t][1].closing))
<1>1. /\ StackOK /\ stack[t] # <<>> /\ stack[t][1] \in Frames
      /\ stack[t][1].at = label /\ Of(t) = stack[t][1].s
      /\ label \notin Loose => Of(t) \in Streams
  BY InCall
<1>2. next \in Loose \/ stack[t][1].s \in Streams
  BY <1>1
<1>3. StackOK' /\ ReplacedAndPushed(t, f, [stack[t][1] EXCEPT !.at = next])
  BY <1>1, <1>2, GotoAndCallStep
<1>4. [stack[t][1] EXCEPT !.at = next] = Frame(next, Of(t), stack[t][1].closing)
  BY <1>1 DEF Frames, Frame
<1> QED
  BY <1>3, <1>4

LEMMA Cleanups ==
    ASSUME NEW closing \in BOOLEAN
    PROVE  /\ Cleanup(closing) \in Frames
           /\ Cleanup(closing).at = "fetch" /\ Cleanup(closing).s = None
           /\ Cleanup(closing).closing = closing
BY DEF Cleanup, Frame, Frames, Labels, Loose

\* A worker that moves may begin a callback.
LEMMA WorkerStack ==
    ASSUME Types, NEW s \in Streams, WorkerMoves(s)
    PROVE  /\ StackOK' /\ misuse = {} /\ Len(stack[s]) = 0 /\ Elsewhere(s)
           /\ \/ Len(stack'[s]) = 0 /\ refs' = refs
              \/ /\ Len(stack'[s]) = 1 /\ phase'[s] \in {"message", "failing"}
                 /\ stack'[s][1] = Frame(phase'[s], None, FALSE)
                 /\ refs' = [refs EXCEPT ![s] = @ \cup {"self"}]
           /\ phase' = [phase EXCEPT ![s] = phase'[s]]
           /\ phase'[s] \in Follows(s)
<1> USE Threading
<1>1. PICK next \in Follows(s) :
        /\ phase' = [phase EXCEPT ![s] = next]
        /\ IF Callback(s, next)
           THEN /\ Call(s, Frame(next, None, FALSE))
                /\ refs' = [refs EXCEPT ![s] = @ \cup {"self"}]
           ELSE UNCHANGED <<stack, refs>>
  BY DEF WorkerMoves
<1>2. phase'[s] = next
  BY <1>1 DEF Types
<1>3. Idle(s)
  BY DEF WorkerMoves
<1>4. Len(stack[s]) = 0 /\ misuse = {}
  BY <1>3 DEF Idle
<1>5. CASE Callback(s, next)
  <2>1. Frame(next, None, FALSE) \in Frames /\ next \in {"message", "failing"}
    BY <1>5, FrameType DEF Callback, Labels, Loose
  <2>2. /\ StackOK' /\ Elsewhere(s) /\ Len(stack'[s]) = 1
        /\ stack'[s][1] = Frame(next, None, FALSE)
    BY <2>1, <1>1, <1>3, <1>5, Calls
  <2> QED
    BY <1>1, <1>2, <1>4, <1>5, <2>1, <2>2
<1>6. CASE ~Callback(s, next)
  BY <1>1, <1>2, <1>4, <1>6 DEF StackOK, Types, Elsewhere
<1> QED
  BY <1>5, <1>6

\* What a store of the word of the flags does, whatever was loaded.
LEMMA StoreTypes ==
    ASSUME Types, NEW t \in Threads, NEW s \in Streams, NEW flag, Store(t, s, flag)
    PROVE  /\ cleaning' \in [Streams -> BOOLEAN] /\ closeReq' \in [Streams -> BOOLEAN]
           /\ loaded' \in [Threads -> [cleaning : BOOLEAN, closeReq : BOOLEAN]]
           /\ lost' \in BOOLEAN
<1>1. loaded[t].cleaning \in BOOLEAN /\ loaded[t].closeReq \in BOOLEAN
  BY DEF Types
<1>2. /\ (loaded[t].cleaning \/ flag = "cleanup_started") \in BOOLEAN
      /\ (loaded[t].closeReq \/ flag = "close_requested") \in BOOLEAN
  OBVIOUS
<1>3. NoWord \in [cleaning : BOOLEAN, closeReq : BOOLEAN]
  BY DEF NoWord
<1>4. cleaning' \in [Streams -> BOOLEAN] /\ closeReq' \in [Streams -> BOOLEAN]
  BY <1>2 DEF Types, Store
<1>5. loaded' \in [Threads -> [cleaning : BOOLEAN, closeReq : BOOLEAN]]
  BY <1>3 DEF Types, Store
<1>6. lost' \in BOOLEAN
  BY DEF Types, Store
<1> QED
  BY <1>4, <1>5, <1>6

LEMMA StoreOrNotTypes ==
    ASSUME Types, NEW t \in Threads, NEW s \in Streams, StoreOrNot(t, s)
    PROVE  /\ cleaning' \in [Streams -> BOOLEAN] /\ closeReq' \in [Streams -> BOOLEAN]
           /\ loaded' \in [Threads -> [cleaning : BOOLEAN, closeReq : BOOLEAN]]
           /\ lost' \in BOOLEAN
<1>1. NoWord \in [cleaning : BOOLEAN, closeReq : BOOLEAN]
  BY DEF NoWord
<1>2. CASE Store(t, s, "playback_in_response")
  BY <1>2, StoreTypes
<1>3. CASE /\ loaded' = [loaded EXCEPT ![t] = NoWord]
           /\ UNCHANGED <<cleaning, closeReq, lost>>
  BY <1>1, <1>3 DEF Types
<1> QED
  BY <1>2, <1>3 DEF StoreOrNot

LEMMA LoadTypes ==
    ASSUME Types, NEW t \in Threads, NEW s \in Streams, Load(t, s)
    PROVE  loaded' \in [Threads -> [cleaning : BOOLEAN, closeReq : BOOLEAN]]
BY DEF Types, Load

\* No step spoils a type.
LEMMA TypesStep ==
    ASSUME Types, [Next]_vars
    PROVE  Types'
<1> USE Threading
<1>1. ASSUME NEW t \in Threads, Teardown(t)
      PROVE  Types'
  <2>1. CASE Fetch(t) /\ private = None
    <3>1. StackOK'
      BY <2>1, Returns DEF Fetch
    <3> QED BY <3>1, <2>1 DEF Fetch, Types, StackOK, streamVars, wordVars
  <2>2. CASE Fetch(t) /\ private # None
    <3>1. StackOK'
      BY <2>2, Learns DEF Fetch, Labels
    <3> QED BY <3>1, <2>2 DEF Fetch, Types, StackOK, streamVars, wordVars
  <2>3. CASE Claim(t)
    <3>1. /\ stack[t][1].closing \in BOOLEAN /\ Of(t) \in Streams
          /\ Head(stack[t]) = stack[t][1]
      BY <2>3, InCall DEF Claim, Frames, Loose
    <3>2. StackOK'
      BY <2>3, Goes DEF Claim, Labels, Loose
    <3> QED
      BY <2>3, <3>1, <3>2, LoadTypes DEF Claim, Types, StackOK, wordVars
  <2>4. CASE ComeTooLate(t)
    <3>1. StackOK'
      BY <2>4, Returns DEF ComeTooLate
    <3> QED BY <3>1, <2>4 DEF ComeTooLate, Types, StackOK, streamVars, wordVars
  <2>5. CASE TakeOver(t)
    <3> DEFINE s == Of(t)
               closing == stack[t][1].closing
    <3>1. closing \in BOOLEAN /\ s \in Streams /\ Head(stack[t]) = stack[t][1]
      BY <2>5, InCall DEF TakeOver, Frames, Loose
    <3>2. StackOK'
      BY <2>5, Goes DEF TakeOver, Labels, Loose
    <3>3. Store(t, s, "cleanup_started")
      BY <2>5 DEF TakeOver
    <3>4. /\ cleaning' \in [Streams -> BOOLEAN] /\ closeReq' \in [Streams -> BOOLEAN]
          /\ loaded' \in [Threads -> [cleaning : BOOLEAN, closeReq : BOOLEAN]]
          /\ lost' \in BOOLEAN
      BY <3>1, <3>3, StoreTypes
    <3>5. tornBy' \in [Streams -> SUBSET (Threads \X BOOLEAN)]
      BY <2>5, <3>1 DEF TakeOver, Types
    <3>6. refs' \in [Streams -> SUBSET (Threads \cup {"wrap", "self"})]
      BY <2>5, <3>1 DEF TakeOver, Types
    <3> QED BY <3>2, <3>4, <3>5, <3>6, <2>5 DEF TakeOver, Types, StackOK, wordVars, Unlocked
  <2>6. CASE Remove(t) /\ bug[Of(t)] = "attached"
    <3>1. Of(t) \in Streams
      BY <2>6, InCall DEF Remove, Loose
    <3>2. Cleanup(~closeReq[Of(t)]) \in Frames
      BY <3>1, Cleanups DEF Types
    <3>3. StackOK'
      BY <2>6, <3>2, Nests DEF Remove, Labels, Loose
    <3> QED BY <3>3, <2>6 DEF Remove, Types, StackOK, wordVars
  <2>7. CASE Remove(t) /\ bug[Of(t)] # "attached"
    <3>1. StackOK'
      BY <2>7, Goes DEF Remove, Labels, Loose
    <3> QED BY <3>1, <2>7 DEF Remove, Types, StackOK, wordVars
  <2>8. CASE Quieten(t)
    <3>1. StackOK'
      BY <2>8, Goes DEF Quieten, Labels, Loose
    <3> QED BY <3>1, <2>8 DEF Quieten, Types, StackOK, wordVars
  <2>9. CASE Join(t)
    <3>1. StackOK'
      BY <2>9, Goes DEF Join, Labels, Loose
    <3> QED BY <3>1, <2>9 DEF Join, Types, StackOK, streamVars, wordVars
  <2>10. CASE Destroy(t)
    <3>1. StackOK'
      BY <2>10, Returns DEF Destroy
    <3> QED BY <3>1, <2>10 DEF Destroy, Types, StackOK, wordVars
  <2>11. CASE NoStreamer(t)
    <3>1. StackOK'
      BY <2>11, Goes DEF NoStreamer, Labels, Loose
    <3> QED BY <3>1, <2>11 DEF NoStreamer, Types, StackOK, streamVars, wordVars
  <2> QED
    BY <1>1, <2>1, <2>2, <2>3, <2>4, <2>5, <2>6, <2>7, <2>8, <2>9, <2>10, <2>11 DEF Teardown
<1>2. ASSUME NEW t \in Threads, Command(t)
      PROVE  Types'
  <2>1. CASE InitSession(t)
    <3>1. StackOK'
      BY <2>1, Goes DEF InitSession, Labels, Loose
    <3> QED BY <3>1, <2>1 DEF InitSession, Types, StackOK, wordVars
  <2>2. CASE InitFails(t)
    <3>1. StackOK'
      BY <2>2, Returns DEF InitFails
    <3> QED BY <3>1, <2>2 DEF InitFails, Types, StackOK, wordVars
  <2>3. CASE AddBug(t)
    <3>1. StackOK'
      BY <2>3, Goes DEF AddBug, Labels, Loose
    <3> QED BY <3>1, <2>3 DEF AddBug, Types, StackOK, wordVars
  <2>4. CASE AddBugFails(t)
    <3>1. StackOK'
      BY <2>4, Goes DEF AddBugFails, Labels, Loose
    <3> QED BY <3>1, <2>4 DEF AddBugFails, Types, StackOK, streamVars, wordVars
  <2>5. CASE Publish(t)
    <3>1. StackOK' /\ Of(t) \in Streams
      BY <2>5, Returns, InCall DEF Publish, Loose
    <3> QED BY <3>1, <2>5 DEF Publish, Types, StackOK, streamVars, wordVars
  <2>6. CASE CopyStreamer(t)
    <3>1. StackOK'
      BY <2>6, Goes DEF CopyStreamer, Labels, Loose
    <3> QED BY <3>1, <2>6 DEF CopyStreamer, Types, StackOK, wordVars
  <2>7. CASE UnlockCopy(t)
    <3>1. StackOK'
      BY <2>7, Goes DEF UnlockCopy, Labels, Loose
    <3> QED BY <3>1, <2>7 DEF UnlockCopy, Types, StackOK, wordVars, Unlocked
  <2>8. CASE Write(t)
    <3>1. StackOK'
      BY <2>8, Returns DEF Write
    <3> QED BY <3>1, <2>8 DEF Write, Types, StackOK, wordVars
  <2>9. CASE LoadPause(t)
    <3>1. StackOK' /\ Of(t) \in Streams
      BY <2>9, Goes, InCall DEF LoadPause, Labels, Loose
    <3> QED BY <3>1, <2>9, LoadTypes DEF LoadPause, Types, StackOK, streamVars, wordVars
  <2>10. CASE StorePause(t)
    <3>1. StackOK' /\ Of(t) \in Streams
      BY <2>10, Returns, InCall DEF StorePause, Loose
    <3> QED BY <3>1, <2>10, StoreTypes DEF StorePause, Types, StackOK, wordVars
  <2>11. CASE LockQueue(t)
    <3>1. StackOK' /\ Of(t) \in Streams
      BY <2>11, Goes, InCall DEF LockQueue, Labels, Loose
    <3> QED BY <3>1, <2>11, LoadTypes DEF LockQueue, Types, StackOK, wordVars
  <2>12. CASE UnlockQueue(t)
    <3>1. StackOK' /\ Of(t) \in Streams
      BY <2>12, Returns, InCall DEF UnlockQueue, Loose
    <3>2. StoreOrNot(t, Of(t))
      BY <2>12 DEF UnlockQueue
    <3> QED
      BY <3>1, <3>2, <2>12, StoreOrNotTypes DEF UnlockQueue, Types, StackOK, wordVars, Unlocked
  <2> QED
    BY <1>2, <2>1, <2>2, <2>3, <2>4, <2>5, <2>6, <2>7, <2>8, <2>9, <2>10, <2>11, <2>12
    DEF Command
<1>3. ASSUME NEW t \in Threads, LockDestroyed(t)
      PROVE  Types'
  BY <1>3 DEF LockDestroyed, Types, streamVars, wordVars
<1>4. CASE TryLock
  <2>1. StackOK'
    BY <1>4, Goes DEF TryLock, Labels, Loose
  <2> QED BY <2>1, <1>4 DEF TryLock, Types, StackOK, wordVars
<1>5. CASE TryLockFails
  <2>1. StackOK'
    BY <1>5, Returns DEF TryLockFails
  <2> QED BY <2>1, <1>5 DEF TryLockFails, Types, StackOK, streamVars, wordVars
<1>6. ASSUME NEW t \in Api, Stop(t)
      PROVE  Types'
  <2>1. StackOK'
    BY <1>6, Calls, Cleanups DEF Stop
  <2> QED BY <2>1, <1>6 DEF Stop, Types, StackOK, streamVars, wordVars
<1>7. ASSUME NEW t \in Api, SendText(t)
      PROVE  Types'
  <2>1. Frame("copy", private, FALSE) \in Frames
    BY <1>7, FrameType DEF SendText, Types, Labels
  <2>2. StackOK'
    BY <2>1, <1>7, Calls DEF SendText
  <2> QED BY <2>2, <1>7 DEF SendText, Types, StackOK, streamVars, wordVars
<1>8. ASSUME NEW t \in Api, NEW s \in Streams, Start(t, s)
      PROVE  Types'
  <2>1. Frame("init", s, FALSE) \in Frames
    BY FrameType DEF Labels
  <2>2. StackOK'
    BY <2>1, <1>8, Calls DEF Start
  <2> QED BY <2>2, <1>8 DEF Start, Types, StackOK, streamVars, wordVars
<1>9. ASSUME NEW s \in Streams, MediaFrame(s)
      PROVE  Types'
  <2>1. Frame("try", s, FALSE) \in Frames
    BY FrameType DEF Labels
  <2>2. StackOK'
    BY <2>1, <1>9, Calls DEF MediaFrame
  <2> QED BY <2>2, <1>9 DEF MediaFrame, Types, StackOK, streamVars, wordVars
<1>10. ASSUME NEW s \in Streams, CoreCloses(s)
      PROVE  Types'
  <2>1. Cleanup(~closeReq[s]) \in Frames
    BY Cleanups DEF Types
  <2>2. StackOK'
    BY <2>1, <1>10, Calls DEF CoreCloses
  <2>3. hungUp' \in BOOLEAN
    BY <1>10 DEF CoreCloses, Types
  <2> QED BY <2>2, <2>3, <1>10 DEF CoreCloses, Types, StackOK, wordVars
<1>11. ASSUME NEW s \in Streams, WorkerMoves(s)
      PROVE  Types'
  <2>2. phase' \in [Streams -> {"new", "dialing", "failing", "opening", "open",
                                "message", "closing", "ended"}]
    <3>1. PICK next \in Follows(s) : phase' = [phase EXCEPT ![s] = next]
      BY <1>11 DEF WorkerMoves
    <3> QED
      BY <3>1 DEF Types, Follows
  <2>3. refs' \in [Streams -> SUBSET (Threads \cup {"wrap", "self"})]
    <3>1. CASE refs' = [refs EXCEPT ![s] = refs[s] \cup {"self"}]
      <4>1. refs[s] \cup {"self"} \in SUBSET (Threads \cup {"wrap", "self"})
        BY DEF Types
      <4> QED BY <4>1, <3>1 DEF Types
    <3>2. CASE refs' = refs
      BY <3>2 DEF Types
    <3> QED BY <1>11, WorkerStack, <3>1, <3>2
  <2> QED BY <2>2, <2>3, <1>11, WorkerStack DEF WorkerMoves, Types, StackOK, wordVars
<1>12. ASSUME NEW s \in Streams, Worker(s)
      PROVE  Types'
  <2>1. CASE NobodyListens(s) \/ NothingToClose(s) \/ Done(s)
    <3>1. StackOK' /\ CallbackReturns(s)
      BY <2>1, Returns DEF NobodyListens, NothingToClose, Done, CallbackReturns
    <3> QED BY <3>1 DEF CallbackReturns, Types, StackOK, wordVars
  <2>2. CASE FindBug(s)
    <3>1. StackOK'
      BY <2>2, Learns DEF FindBug, Labels
    <3> QED BY <3>1, <2>2 DEF FindBug, Types, StackOK, streamVars, wordVars
  <2>3. CASE LockPlayback(s)
    <3>1. StackOK'
      BY <2>3, Goes DEF LockPlayback, Labels, Loose
    <3>2. Of(s) \in Streams
      BY <2>3, InCall DEF LockPlayback, Loose
    <3> QED BY <3>1, <3>2, <2>3, LoadTypes DEF LockPlayback, Types, StackOK, wordVars
  <2>4. CASE UnlockPlayback(s)
    <3>1. StackOK'
      BY <2>4, Goes DEF UnlockPlayback, Labels, Loose
    <3>2. Of(s) \in Streams
      BY <2>4, InCall DEF UnlockPlayback, Loose
    <3>3. StoreOrNot(s, Of(s))
      BY <2>4 DEF UnlockPlayback
    <3> QED
      BY <3>1, <3>2, <3>3, <2>4, StoreOrNotTypes
      DEF UnlockPlayback, Types, StackOK, wordVars, Unlocked
  <2>5. CASE FindBugToClose(s)
    <3>1. StackOK'
      BY <2>5, Learns DEF FindBugToClose, Labels
    <3> QED BY <3>1, <2>5 DEF FindBugToClose, Types, StackOK, streamVars, wordVars
  <2>6. CASE LoadRequest(s)
    <3>1. StackOK' /\ Of(s) \in Streams
      BY <2>6, Goes, InCall DEF LoadRequest, Labels, Loose
    <3> QED BY <3>1, <2>6, LoadTypes DEF LoadRequest, Types, StackOK, streamVars, wordVars
  <2>7. CASE StoreRequest(s)
    <3>1. StackOK' /\ Of(s) \in Streams
      BY <2>7, Goes, InCall DEF StoreRequest, Labels, Loose
    <3> QED BY <3>1, <2>7, StoreTypes DEF StoreRequest, Types, StackOK, wordVars
  <2>8. CASE CloseBug(s)
    <3>1. Of(s) \in Streams
      BY <2>8, InCall DEF CloseBug, Loose
    <3>2. Cleanup(~closeReq[Of(s)]) \in Frames
      BY <3>1, Cleanups DEF Types
    <3>3. StackOK'
      BY <2>8, <3>2, Nests DEF CloseBug, Labels, Loose
    <3> QED BY <3>3, <2>8 DEF CloseBug, Types, StackOK, streamVars, wordVars
  <2> QED
    BY <1>12, <2>1, <2>2, <2>3, <2>4, <2>5, <2>6, <2>7, <2>8 DEF Worker
<1>13. CASE UNCHANGED vars
  BY <1>13 DEF vars, streamVars, wordVars, Types
<1>14. ASSUME NEW t \in Api, Pause(t)
       PROVE  Types'
  <2>1. Frame("pause", private, FALSE) \in Frames
    BY <1>14, FrameType DEF Pause, Types, Labels
  <2>2. StackOK'
    BY <2>1, <1>14, Calls DEF Pause
  <2> QED BY <2>2, <1>14 DEF Pause, Types, StackOK, streamVars, wordVars
<1>15. ASSUME NEW t \in Api, Break(t)
       PROVE  Types'
  <2>1. Frame("queue", private, FALSE) \in Frames
    BY <1>15, FrameType DEF Break, Types, Labels
  <2>2. StackOK'
    BY <2>1, <1>15, Calls DEF Break
  <2> QED BY <2>2, <1>15 DEF Break, Types, StackOK, streamVars, wordVars
<1>16. ASSUME NEW s \in Streams, MediaWrite(s)
       PROVE  Types'
  <2>1. Frame("queue", s, FALSE) \in Frames
    BY FrameType DEF Labels
  <2>2. StackOK'
    BY <2>1, <1>16, Calls DEF MediaWrite
  <2> QED BY <2>2, <1>16 DEF MediaWrite, Types, StackOK, streamVars, wordVars
<1> QED
  BY <1>1, <1>2, <1>3, <1>4, <1>5, <1>6, <1>7, <1>8, <1>9, <1>10, <1>11, <1>12, <1>13,
     <1>14, <1>15, <1>16, CommandsAssumption
  DEF Next, Run, RunMedia

-----------------------------------------------------------------------------
(* The mutexes are held in critical sections. *)

\* Between a lock and its unlock.
Critical == {"claiming", "copied", "queued", "played"}

\* Who holds the mutex of a stream is in a critical section about that stream.
Holder ==
    \A s \in Streams : mutex[s] \in Threads =>
        LET q == stack[mutex[s]] IN
        Len(q) >= 1 /\ q[1].at \in Critical /\ q[1].s = s

\* It stays so when a thread that holds nothing moves, ...
LEMMA HolderStays ==
    ASSUME Types, Holder, NEW t \in Threads, Elsewhere(t),
           \A s \in Streams : mutex[s] # t,
           \A s \in Streams : mutex'[s] = mutex[s] \/ mutex'[s] \notin Threads
    PROVE  Holder'
BY DEF Holder, Elsewhere

\* ... which is any that is outside of the critical sections, ...
LEMMA NotHolding ==
    ASSUME Types, Holder, NEW t \in Threads,
           Idle(t) \/ \E label : label \notin Critical /\ At(t, label)
    PROVE  \A s \in Streams : mutex[s] # t
<1>1. ASSUME Idle(t) PROVE Len(stack[t]) = 0
  BY <1>1 DEF Idle
<1>2. ASSUME NEW label, label \notin Critical, At(t, label)
      PROVE  stack[t][1].at \notin Critical
  BY <1>2, InCall
<1> QED
  BY <1>1, <1>2 DEF Holder

\* ... when one unlocks ...
LEMMA HolderUnlocks ==
    ASSUME Types, Holder, NEW t \in Threads, NEW label, At(t, label), label \notin Loose,
           Elsewhere(t), mutex' = Unlocked(Of(t))
    PROVE  Holder'
<1>1. Of(t) = stack[t][1].s /\ Of(t) \in Streams
  BY InCall
<1>2. \A s \in Streams : mutex'[s] = IF s = Of(t) THEN "free" ELSE mutex[s]
  BY DEF Types, Unlocked
<1> QED
  BY <1>1, <1>2, Threading DEF Holder, Elsewhere

\* ... and when one locks.
LEMMA HolderLocks ==
    ASSUME Types, Holder, NEW t \in Threads, NEW label, At(t, label), label \notin Loose,
           label \notin Critical, NEW next \in Critical,
           Replaced(t, Frame(next, Of(t), stack[t][1].closing)),
           mutex' = [mutex EXCEPT ![Of(t)] = t]
    PROVE  Holder'
<1>1. /\ Of(t) = stack[t][1].s /\ Of(t) \in Streams /\ Len(stack[t]) >= 1
      /\ \A s \in Streams : mutex[s] # t
  BY InCall, NotHolding
<1>2. \A s \in Streams : mutex'[s] = IF s = Of(t) THEN t ELSE mutex[s]
  BY DEF Types
<1>3. /\ Len(stack'[t]) >= 1 /\ stack'[t][1].at = next /\ stack'[t][1].s = Of(t)
      /\ Elsewhere(t)
  BY <1>1 DEF Frame, Replaced
<1> QED
  BY <1>1, <1>2, <1>3 DEF Holder, Elsewhere

\* No step leaves a mutex behind: the call that locked it unlocks it before it returns.
LEMMA HolderStep ==
    ASSUME Types, Holder, [Next]_vars
    PROVE  Holder'
<1> USE Threading
<1>1. ASSUME NEW t \in Threads, Teardown(t)
      PROVE  Holder'
  <2>1. CASE Fetch(t) /\ private = None
    BY <2>1, Returns, NotHolding, HolderStays DEF Fetch, Critical, Popped, streamVars
  <2>2. CASE Fetch(t) /\ private # None
    BY <2>2, Learns, NotHolding, HolderStays
    DEF Fetch, Labels, Critical, Replaced, streamVars
  <2>3. CASE Claim(t)
    <3>1. At(t, "claim") /\ mutex' = [mutex EXCEPT ![Of(t)] = t]
      BY <2>3 DEF Claim
    <3>2. Replaced(t, Frame("claiming", Of(t), stack[t][1].closing))
      BY <2>3, <3>1, Goes DEF Claim, Labels, Loose
    <3> QED
      BY <3>1, <3>2, HolderLocks DEF Loose, Critical
  <2>4. CASE ComeTooLate(t)
    BY <2>4, Returns, NotHolding, HolderStays DEF ComeTooLate, Critical, Popped, streamVars
  <2>5. CASE TakeOver(t)
    <3>1. At(t, "claiming") /\ mutex' = Unlocked(Of(t))
      BY <2>5 DEF TakeOver
    <3>2. PICK label \in {"remove", "quiet"} : Goto(t, label)
      BY <2>5 DEF TakeOver
    <3>3. Elsewhere(t)
      BY <3>1, <3>2, Goes DEF Labels, Loose, Replaced
    <3> QED
      BY <3>1, <3>3, HolderUnlocks DEF Loose
  <2>6. CASE Remove(t) /\ bug[Of(t)] = "attached"
    <3>1. Of(t) \in Streams
      BY <2>6, InCall DEF Remove, Loose
    <3>2. Cleanup(~closeReq[Of(t)]) \in Frames
      BY <3>1, Cleanups DEF Types
    <3> QED
      BY <2>6, <3>2, Nests, NotHolding, HolderStays
      DEF Remove, Labels, Loose, Critical, ReplacedAndPushed
  <2>7. CASE Remove(t) /\ bug[Of(t)] # "attached"
    BY <2>7, Goes, NotHolding, HolderStays DEF Remove, Labels, Loose, Critical, Replaced
  <2>8. CASE Quieten(t)
    BY <2>8, Goes, NotHolding, HolderStays DEF Quieten, Labels, Loose, Critical, Replaced
  <2>9. CASE Join(t)
    BY <2>9, Goes, NotHolding, HolderStays
    DEF Join, Labels, Loose, Critical, Replaced, streamVars
  <2>10. CASE Destroy(t)
    <3>1. \A s \in Streams : mutex'[s] = mutex[s] \/ mutex'[s] = "destroyed"
      BY <2>10 DEF Destroy, Types
    <3> QED
      BY <2>10, <3>1, Returns, NotHolding, HolderStays DEF Destroy, Critical, Popped
  <2>11. CASE NoStreamer(t)
    BY <2>11, Goes, NotHolding, HolderStays
    DEF NoStreamer, Labels, Loose, Critical, Replaced, streamVars
  <2> QED
    BY <1>1, <2>1, <2>2, <2>3, <2>4, <2>5, <2>6, <2>7, <2>8, <2>9, <2>10, <2>11 DEF Teardown
<1>2. ASSUME NEW t \in Threads, Command(t)
      PROVE  Holder'
  <2>1. CASE InitSession(t)
    <3>1. \A s \in Streams : mutex'[s] = mutex[s] \/ mutex'[s] = "free"
      BY <2>1 DEF InitSession, Types
    <3> QED
      BY <2>1, <3>1, Goes, NotHolding, HolderStays
      DEF InitSession, Labels, Loose, Critical, Replaced
  <2>2. CASE InitFails(t)
    <3>1. \A s \in Streams : mutex'[s] = mutex[s] \/ mutex'[s] = "destroyed"
      BY <2>2 DEF InitFails, Types
    <3> QED
      BY <2>2, <3>1, Returns, NotHolding, HolderStays DEF InitFails, Critical, Popped
  <2>3. CASE AddBug(t)
    BY <2>3, Goes, NotHolding, HolderStays DEF AddBug, Labels, Loose, Critical, Replaced
  <2>4. CASE AddBugFails(t)
    BY <2>4, Goes, NotHolding, HolderStays
    DEF AddBugFails, Labels, Loose, Critical, Replaced, streamVars
  <2>5. CASE Publish(t)
    BY <2>5, Returns, NotHolding, HolderStays DEF Publish, Critical, Popped, streamVars
  <2>6. CASE CopyStreamer(t)
    <3>1. At(t, "copy") /\ mutex' = [mutex EXCEPT ![Of(t)] = t]
      BY <2>6 DEF CopyStreamer
    <3>2. Replaced(t, Frame("copied", Of(t), stack[t][1].closing))
      BY <2>6, <3>1, Goes DEF CopyStreamer, Labels, Loose
    <3> QED
      BY <3>1, <3>2, HolderLocks DEF Loose, Critical
  <2>7. CASE UnlockCopy(t)
    BY <2>7, Goes, HolderUnlocks DEF UnlockCopy, Labels, Loose, Replaced
  <2>8. CASE Write(t)
    BY <2>8, Returns, NotHolding, HolderStays DEF Write, Critical, Popped
  <2>9. CASE LoadPause(t)
    BY <2>9, Goes, NotHolding, HolderStays
    DEF LoadPause, Labels, Loose, Critical, Replaced, streamVars
  <2>10. CASE StorePause(t)
    BY <2>10, Returns, NotHolding, HolderStays DEF StorePause, Critical, Popped
  <2>11. CASE LockQueue(t)
    <3>1. At(t, "queue") /\ mutex' = [mutex EXCEPT ![Of(t)] = t]
      BY <2>11 DEF LockQueue
    <3>2. Replaced(t, Frame("queued", Of(t), stack[t][1].closing))
      BY <2>11, <3>1, Goes DEF LockQueue, Labels, Loose
    <3> QED
      BY <3>1, <3>2, HolderLocks DEF Loose, Critical
  <2>12. CASE UnlockQueue(t)
    BY <2>12, Returns, HolderUnlocks DEF UnlockQueue, Loose, Popped
  <2> QED
    BY <1>2, <2>1, <2>2, <2>3, <2>4, <2>5, <2>6, <2>7, <2>8, <2>9, <2>10, <2>11, <2>12
    DEF Command
<1>3. ASSUME NEW t \in Threads, LockDestroyed(t)
      PROVE  Holder'
  BY <1>3 DEF LockDestroyed, Holder, streamVars
<1>4. CASE TryLock
  <2>1. At("media", "try") /\ mutex' = [mutex EXCEPT ![Of("media")] = "media"]
    BY <1>4 DEF TryLock
  <2>2. Replaced("media", Frame("copied", Of("media"), stack["media"][1].closing))
    BY <1>4, <2>1, Goes DEF TryLock, Labels, Loose
  <2> QED
    BY <2>1, <2>2, HolderLocks DEF Loose, Critical
<1>5. CASE TryLockFails
  BY <1>5, Returns, NotHolding, HolderStays DEF TryLockFails, Critical, Popped, streamVars
<1>6. ASSUME NEW t \in Api, Stop(t)
      PROVE  Holder'
  BY <1>6, Calls, Cleanups, NotHolding, HolderStays DEF Stop, streamVars
<1>7. ASSUME NEW t \in Api, SendText(t)
      PROVE  Holder'
  <2>1. Frame("copy", private, FALSE) \in Frames
    BY <1>7, FrameType DEF SendText, Types, Labels
  <2> QED
    BY <2>1, <1>7, Calls, NotHolding, HolderStays DEF SendText, streamVars
<1>8. ASSUME NEW t \in Api, NEW s \in Streams, Start(t, s)
      PROVE  Holder'
  <2>1. Frame("init", s, FALSE) \in Frames
    BY FrameType DEF Labels
  <2> QED
    BY <2>1, <1>8, Calls, NotHolding, HolderStays DEF Start, streamVars
<1>9. ASSUME NEW s \in Streams, MediaFrame(s)
      PROVE  Holder'
  <2>1. Frame("try", s, FALSE) \in Frames
    BY FrameType DEF Labels
  <2> QED
    BY <2>1, <1>9, Calls, NotHolding, HolderStays DEF MediaFrame, streamVars
<1>10. ASSUME NEW s \in Streams, CoreCloses(s)
      PROVE  Holder'
  <2>1. Cleanup(~closeReq[s]) \in Frames
    BY Cleanups DEF Types
  <2> QED
    BY <2>1, <1>10, Calls, NotHolding, HolderStays DEF CoreCloses
<1>11. ASSUME NEW s \in Streams, WorkerMoves(s)
      PROVE  Holder'
  BY <1>11, WorkerStack, NotHolding, HolderStays DEF WorkerMoves
<1>12. ASSUME NEW s \in Streams, Worker(s)
      PROVE  Holder'
  <2>1. CASE NobodyListens(s) \/ NothingToClose(s) \/ Done(s)
    <3>1. PICK label \in {"message", "failing", "done"} : At(s, label) /\ CallbackReturns(s)
      BY <2>1 DEF NobodyListens, NothingToClose, Done
    <3> QED
      BY <3>1, Returns, NotHolding, HolderStays DEF CallbackReturns, Critical, Popped
  <2>2. CASE FindBug(s)
    BY <2>2, Learns, NotHolding, HolderStays
    DEF FindBug, Labels, Critical, Replaced, streamVars
  <2>3. CASE LockPlayback(s)
    <3>1. At(s, "play") /\ mutex' = [mutex EXCEPT ![Of(s)] = s]
      BY <2>3 DEF LockPlayback
    <3>2. Replaced(s, Frame("played", Of(s), stack[s][1].closing))
      BY <2>3, <3>1, Goes DEF LockPlayback, Labels, Loose
    <3> QED
      BY <3>1, <3>2, HolderLocks DEF Loose, Critical
  <2>4. CASE UnlockPlayback(s)
    BY <2>4, Goes, HolderUnlocks DEF UnlockPlayback, Labels, Loose, Replaced
  <2>5. CASE FindBugToClose(s)
    BY <2>5, Learns, NotHolding, HolderStays
    DEF FindBugToClose, Labels, Critical, Replaced, streamVars
  <2>6. CASE LoadRequest(s)
    BY <2>6, Goes, NotHolding, HolderStays
    DEF LoadRequest, Labels, Loose, Critical, Replaced, streamVars
  <2>7. CASE StoreRequest(s)
    BY <2>7, Goes, NotHolding, HolderStays
    DEF StoreRequest, Labels, Loose, Critical, Replaced
  <2>8. CASE CloseBug(s)
    <3>1. At(s, "close") /\ Of(s) \in Streams
      BY <2>8, InCall DEF CloseBug, Loose
    <3>2. Cleanup(~closeReq[Of(s)]) \in Frames
      BY <3>1, Cleanups DEF Types
    <3>3. Elsewhere(s)
      BY <3>1, <3>2, <2>8, Nests DEF CloseBug, Labels, Loose, ReplacedAndPushed
    <3> QED
      BY <2>8, <3>1, <3>3, NotHolding, HolderStays DEF CloseBug, Critical, streamVars
  <2> QED
    BY <1>12, <2>1, <2>2, <2>3, <2>4, <2>5, <2>6, <2>7, <2>8 DEF Worker
<1>13. CASE UNCHANGED vars
  BY <1>13 DEF vars, streamVars, Holder
<1>14. ASSUME NEW t \in Api, Pause(t)
       PROVE  Holder'
  <2>1. Frame("pause", private, FALSE) \in Frames
    BY <1>14, FrameType DEF Pause, Types, Labels
  <2> QED
    BY <2>1, <1>14, Calls, NotHolding, HolderStays DEF Pause, streamVars
<1>15. ASSUME NEW t \in Api, Break(t)
       PROVE  Holder'
  <2>1. Frame("queue", private, FALSE) \in Frames
    BY <1>15, FrameType DEF Break, Types, Labels
  <2> QED
    BY <2>1, <1>15, Calls, NotHolding, HolderStays DEF Break, streamVars
<1>16. ASSUME NEW s \in Streams, MediaWrite(s)
       PROVE  Holder'
  <2>1. Frame("queue", s, FALSE) \in Frames
    BY FrameType DEF Labels
  <2> QED
    BY <2>1, <1>16, Calls, NotHolding, HolderStays DEF MediaWrite, streamVars
<1> QED
  BY <1>1, <1>2, <1>3, <1>4, <1>5, <1>6, <1>7, <1>8, <1>9, <1>10, <1>11, <1>12, <1>13,
     <1>14, <1>15, <1>16, CommandsAssumption
  DEF Next, Run, RunMedia

-----------------------------------------------------------------------------
(***************************************************************************)
(* The inductive invariant, which holds until a store undoes a flag that   *)
(* is not its own (lost).  c is the stream in use: the streams of a        *)
(* channel take turns.                                                     *)
(***************************************************************************)

\* Where a thread with stack q is.  What follows is said of stacks, so that a thread
\* whose stack did not change is as it was.
Label(q) == IF q = <<>> THEN "idle" ELSE q[1].at

\* In start_capture, until the private is set.
Setup == {"init", "add", "publish"}

\* In a teardown.
Closing == {"remove", "quiet", "join", "destroy"}

\* In a callback of the client.
Callbacks == {"message", "play", "played", "failing", "request", "requesting", "close",
              "done"}

\* In a callback of the media bug.
MediaCalls == {"try", "copied", "write", "queue", "queued"}

\* It tears down, and is in the CLOSE callback its removal of the bug has caused.
Nested(q) == Len(q) >= 2 /\ q[2].at = "quiet"

\* It has claimed a teardown, or destroys a session whose bug the core refused.
Tears(q) == Label(q) \in Closing \/ Nested(q)

\* It sets a stream up or tears it down.
Owns(q) == Label(q) \in Setup \/ Tears(q)

\* It cleans up because the channel closes.
Closes(q) == Label(q) \in {"fetch", "claim", "claiming"} /\ q[1].closing

\* The stacks of API threads and of the core, of the media thread and of a worker.
CallerShape(q) ==
    \/ Len(q) = 0
    \/ Len(q) = 1 /\ q[1].at \notin Callbacks
    \/ Len(q) = 2 /\ q[1].at = "fetch" /\ q[2].at = "quiet"

MediaShape(q) == Len(q) = 0 \/ (Len(q) = 1 /\ q[1].at \in MediaCalls)

WorkerShape(q) ==
    \/ Len(q) = 0
    \/ Len(q) = 1 /\ q[1].at \in Callbacks
    \/ Len(q) = 2 /\ q[2].at = "done"
           /\ q[1].at \in Closing \cup {"fetch", "claim", "claiming"}
    \/ Len(q) = 3 /\ q[1].at = "fetch" /\ q[2].at = "quiet" /\ q[3].at = "done"

Shape(t, q) ==
    /\ t \in Api \cup {"core"} => CallerShape(q)
    /\ t \in Streams => WorkerShape(q)
    /\ t = "media" => MediaShape(q)

\* Every call that is about a stream is about c.
About(q, c) ==
    /\ Label(q) \notin Loose \cup {"idle"} => q[1].s = c
    /\ Nested(q) => q[2].s = c

\* Every stack has the shape of its thread, and is about c.
Local(c) == \A t \in Threads : Shape(t, stack[t]) /\ About(stack[t], c)

\* Nothing is left of s but, if it tore itself down, its worker.
Gone(s) ==
    /\ bug[s] = "removed"
    /\ mutex[s] = "destroyed"
    /\ phase[s] = "ended" \/ \E closing \in BOOLEAN : <<s, closing>> \in tornBy[s]

\* The streams beside c are over, or have not begun.
Over(c) == \A r \in Streams \ {c} :
    /\ private # r
    /\ phase[r] \in {"new", "ended"}
    /\ bug[r] # "attached"
    /\ stack[r] = <<>>
    /\ cleaning[r] => Gone(r)

\* A stream that has not begun has nothing.
Fresh == \A s \in Streams : phase[s] = "new" =>
    mutex[s] = "none" /\ bug[s] = "none" /\ ~cleaning[s]

\* One thread at a time sets a stream up or tears it down.
Alone == \A t, u \in Threads : Owns(stack[t]) /\ Owns(stack[u]) => t = u

\* c has been published: others may get hold of it.
Known(c) ==
    private = c \/ cleaning[c]
        \/ \E t \in Threads : Label(stack[t]) \in {"claim", "claiming"}

\* How far start_capture is.
SettingUp(c) == \A t \in Threads :
    /\ Label(stack[t]) = "init" => phase[c] = "new"
    /\ Label(stack[t]) \in {"add", "publish"} => phase[c] # "new" /\ mutex[c] # "destroyed"
    /\ Label(stack[t]) \in {"init", "add"} => bug[c] = "none"
    /\ Label(stack[t]) = "publish" => bug[c] # "none"
    /\ Label(stack[t]) \in Setup => ~Known(c)

\* How far the teardown is, and that it was one teardown that got so far.
Tearing(c) == \A t \in Threads :
    /\ Label(stack[t]) = "claiming" => ~cleaning[c]
    /\ Label(stack[t]) = "remove" => cleaning[c]
    /\ Label(stack[t]) \in {"quiet", "join", "destroy"} =>
          bug[c] # "attached" /\ (Known(c) => cleaning[c])
    /\ Nested(stack[t]) => bug[c] # "attached" /\ cleaning[c]
    /\ Label(stack[t]) = "destroy" => t = c \/ phase[c] = "ended"
    /\ Tears(stack[t]) /\ cleaning[c] =>
          \E closing \in BOOLEAN : <<t, closing>> \in tornBy[c]

\* Once cleanup_started is set, the teardown is under way or has left nothing.
Torn(c) == cleaning[c] => private # c /\ (Gone(c) \/ \E t \in Threads : Tears(stack[t]))

\* The channel closes only after its bug is removed, and after the start is through.
Closings(c) == \A t \in Threads : Closes(stack[t]) =>
    bug[c] # "attached" /\ \A u \in Threads : Label(stack[u]) \notin {"init", "add"}

\* Critical sections exclude each other, and a destroyed mutex is out of reach of the
\* media thread, of the worker and of whoever looks for the bug of the channel.
Mutexes(c) ==
    /\ misuse = {} => \A t \in Threads : Label(stack[t]) \in Critical => mutex[c] = t
    /\ mutex[c] = "destroyed" =>
          bug[c] # "attached" /\ private # c /\ Label(stack[c]) \notin {"claim", "play"}

\* Who may still find an attached bug, and when the media thread and the worker run.
Bugs(c) ==
    /\ Known(c) => bug[c] # "none" /\ phase[c] # "new"
    /\ bug[c] = "attached" => private = c
          \/ \E t \in Threads : Label(stack[t]) \in {"publish", "remove"}
    /\ stack["media"] # <<>> => bug[c] = "attached"
    /\ stack[c] # <<>> => phase[c] \in {"message", "failing"}

\* The teardown takes pAudioStreamer out of tech_pvt.
Wraps == \A s \in Streams : cleaning[s] => "wrap" \notin refs[s]

\* pAudioStreamer is there until a teardown takes it, and the teardown has it then.
Owned(c) ==
    /\ Known(c) /\ ~cleaning[c] => "wrap" \in refs[c]
    /\ \A t \in Threads :
           /\ Label(stack[t]) \in {"add", "publish"} => "wrap" \in refs[c]
           /\ Label(stack[t]) \in Closing \/ Nested(stack[t]) => t \in refs[c]

\* The worker closes the bug on request.
Requested(c) == \A t \in Threads : Label(stack[t]) = "close" => closeReq[c]

\* SafeLocks while no flag is lost.
Safe == misuse \cap (Streams \cup {"media"}) = {}

\* The inductive invariant, for the stream c in use.
Inv(c) == Local(c) /\ Over(c) /\ Fresh /\ Alone /\ SettingUp(c) /\ Tearing(c) /\ Torn(c)
    /\ Closings(c) /\ Mutexes(c) /\ Bugs(c) /\ Wraps
    /\ Owned(c) /\ Requested(c) /\ Safe

-----------------------------------------------------------------------------
(* Steps and the shapes of stacks. *)

\* What the shapes of the stacks say of a thread about to take a step.
LEMMA CallShape ==
    ASSUME Types, NEW c \in Streams, Local(c), NEW t \in Threads, NEW label, At(t, label)
    PROVE  /\ misuse = {} /\ stack[t] # <<>> /\ Label(stack[t]) = label
           /\ label \notin Loose \cup {"idle"} => Of(t) = c
           /\ Nested(stack[t]) => label = "fetch"
           /\ Len(stack[t]) = 1 \/ Nested(stack[t]) \/ (t \in Streams /\ Len(stack[t]) = 2)
           /\ t \in Streams => (Len(stack[t]) = 1 <=> label \in Callbacks)
           /\ t \notin Streams => label \notin Callbacks
<1> USE Threading
<1>1. /\ misuse = {} /\ stack[t] # <<>> /\ Len(stack[t]) \in Nat /\ Len(stack[t]) >= 1
      /\ stack[t][1].at = label /\ Of(t) = stack[t][1].s
  BY InCall
<1>2. Shape(t, stack[t]) /\ About(stack[t], c)
  BY DEF Local
<1>3. Label(stack[t]) = label
  BY <1>1 DEF Label
<1>4. t \in Api \cup {"core"} \/ t \in Streams \/ t = "media"
  BY DEF Threads
<1>5. label \notin Loose \cup {"idle"} => Of(t) = c
  BY <1>1, <1>2, <1>3 DEF About
<1>6. CASE t \in Api \cup {"core"}
  BY <1>1, <1>2, <1>3, <1>5, <1>6, NamesDistinct
  DEF Shape, CallerShape, Nested, Callbacks
<1>7. CASE t \in Streams
  BY <1>1, <1>2, <1>3, <1>5, <1>7 DEF Shape, WorkerShape, Nested, Callbacks, Closing
<1>8. CASE t = "media"
  BY <1>1, <1>2, <1>3, <1>5, <1>8 DEF Shape, MediaShape, MediaCalls, Nested, Callbacks
<1> QED
  BY <1>4, <1>6, <1>7, <1>8

\* The next stacks have their shapes when that of the one thread that moves has: when
\* its call goes on, returns, begins, removes the bug, or closes it.
LEMMA LocalElsewhere ==
    ASSUME NEW c \in Streams, Local(c), NEW t \in Threads, Elsewhere(t),
           Shape(t, stack'[t]), About(stack'[t], c)
    PROVE  Local(c)'
BY DEF Local, Elsewhere

LEMMA ReplacedShape ==
    ASSUME Types, Types', NEW c \in Streams, Local(c), NEW t \in Threads,
           NEW label, At(t, label), ~Nested(stack[t]), NEW f, Replaced(t, f),
           f.at \notin Loose => f.s = c,
           label \in Callbacks <=> f.at \in Callbacks,
           t \in Streams /\ label \notin Callbacks =>
               f.at \in Closing \cup {"claim", "claiming"},
           t = "media" => f.at \in MediaCalls
    PROVE  /\ Elsewhere(t) /\ Local(c)' /\ stack'[t] # <<>>
           /\ Label(stack'[t]) = f.at /\ ~Nested(stack'[t])
           /\ Closes(stack'[t]) => f.closing
<1> USE Threading
<1>1. /\ Len(stack[t]) = 1 \/ (t \in Streams /\ Len(stack[t]) = 2)
      /\ t \in Streams => (Len(stack[t]) = 1 <=> label \in Callbacks)
      /\ t \notin Streams => label \notin Callbacks
  BY CallShape
<1>2. /\ Elsewhere(t) /\ Len(stack'[t]) = Len(stack[t]) /\ stack'[t][1] = f
      /\ Len(stack[t]) = 2 => stack'[t][2] = stack[t][2]
  BY <1>1 DEF Replaced
<1>3. stack'[t] # <<>>
  BY <1>1, <1>2
<1>4. Label(stack'[t]) = f.at
  BY <1>2, <1>3 DEF Label
<1>5. ~Nested(stack'[t])
  BY <1>1, <1>2 DEF Nested
<1>6. About(stack'[t], c)
  BY <1>2, <1>4, <1>5 DEF About
<1>7. Shape(t, stack[t])
  BY DEF Local
<1>8. Shape(t, stack'[t])
  BY <1>1, <1>2, <1>7, NamesDistinct
  DEF Shape, CallerShape, WorkerShape, MediaShape, MediaCalls, Nested, Callbacks, Closing
<1>9. Local(c)'
  BY <1>2, <1>6, <1>8, LocalElsewhere
<1> QED
  BY <1>2, <1>3, <1>4, <1>5, <1>9 DEF Closes

LEMMA PoppedShape ==
    ASSUME Types, Types', NEW c \in Streams, Local(c), NEW t \in Threads,
           NEW label, At(t, label), Popped(t)
    PROVE  /\ Elsewhere(t) /\ Local(c)'
           /\ Label(stack'[t]) \in {"idle", "done", "quiet"}
           /\ Label(stack'[t]) = "quiet" <=> Nested(stack[t])
           /\ ~Nested(stack'[t]) /\ ~Closes(stack'[t])
<1> USE Threading
<1>1. /\ Len(stack[t]) = 1 \/ Nested(stack[t]) \/ (t \in Streams /\ Len(stack[t]) = 2)
  BY CallShape
<1>2. Shape(t, stack[t]) /\ About(stack[t], c)
  BY DEF Local
<1>3. /\ Len(stack[t]) \in Nat /\ Len(stack[t]) >= 1 /\ stack'[t] \in Seq(Frames)
      /\ Len(stack[t]) \in 0..3
  <2>1. Len(stack[t]) \in Nat /\ Len(stack[t]) >= 1
    BY InCall
  <2>2. stack'[t] \in Seq(Frames)
    BY DEF Types
  <2>3. ASSUME t \in Streams PROVE Len(stack[t]) \in 0..3
    <3>1. WorkerShape(stack[t])
      BY <1>2, <2>3 DEF Shape
    <3>2. Len(stack[t]) \in {0, 1, 2, 3}
      BY <3>1 DEF WorkerShape
    <3> QED
      BY <2>1, <3>2
  <2>4. ASSUME t \notin Streams PROVE Len(stack[t]) \in 0..3
    <3>1. CallerShape(stack[t]) \/ MediaShape(stack[t])
      BY <1>2, <2>4 DEF Shape, Threads
    <3>2. Len(stack[t]) \in {0, 1, 2, 3}
      BY <3>1 DEF CallerShape, MediaShape
    <3> QED
      BY <2>1, <3>2
  <2> QED
    BY <2>1, <2>2, <2>3, <2>4
<1>4. /\ Elsewhere(t) /\ Len(stack'[t]) = Len(stack[t]) - 1
      /\ Len(stack[t]) >= 2 => stack'[t][1] = stack[t][2]
      /\ Len(stack[t]) >= 3 => stack'[t][2] = stack[t][3]
  BY <1>3 DEF Popped
<1>5. stack'[t] = <<>> <=> Len(stack[t]) = 1
  <2>1. stack'[t] = <<>> <=> Len(stack'[t]) = 0
    BY <1>3, TopOf
  <2> QED
    BY <1>3, <1>4, <2>1
<1>6. Label(stack'[t]) = IF Len(stack[t]) = 1 THEN "idle" ELSE stack[t][2].at
  BY <1>3, <1>4, <1>5 DEF Label
<1>7. CASE t \in Streams
  <2>1. Label(stack'[t]) \in {"idle", "done", "quiet"}
    BY <1>2, <1>3, <1>6, <1>7 DEF Shape, WorkerShape
  <2>2. Label(stack'[t]) = "quiet" <=> Nested(stack[t])
    BY <1>2, <1>3, <1>6, <1>7 DEF Shape, WorkerShape, Nested
  <2>3. ~Nested(stack'[t])
    BY <1>2, <1>3, <1>4, <1>7 DEF Shape, WorkerShape, Nested
  <2>4. Shape(t, stack'[t])
    BY <1>2, <1>3, <1>4, <1>7, NamesDistinct DEF Shape, WorkerShape, Closing, Callbacks
  <2>5. About(stack'[t], c)
    BY <1>2, <1>3, <1>4, <2>1, <2>2, <2>3 DEF About, Loose, Nested
  <2> QED
    BY <1>4, <2>1, <2>2, <2>3, <2>4, <2>5, LocalElsewhere DEF Closes
<1>8. CASE t \notin Streams
  <2>1. Label(stack'[t]) \in {"idle", "quiet"}
    BY <1>2, <1>3, <1>6, <1>8 DEF Shape, CallerShape, MediaShape, Threads
  <2>2. Label(stack'[t]) = "quiet" <=> Nested(stack[t])
    BY <1>2, <1>3, <1>6, <1>8 DEF Shape, CallerShape, MediaShape, Threads, Nested
  <2>3. ~Nested(stack'[t])
    BY <1>2, <1>3, <1>4, <1>8 DEF Shape, CallerShape, MediaShape, Threads, Nested
  <2>4. Shape(t, stack'[t])
    BY <1>2, <1>3, <1>4, <1>8, NamesDistinct
    DEF Shape, CallerShape, MediaShape, Threads, Callbacks
  <2>5. About(stack'[t], c)
    BY <1>2, <1>3, <1>4, <2>1, <2>2, <2>3 DEF About, Loose, Nested
  <2> QED
    BY <1>4, <2>1, <2>2, <2>3, <2>4, <2>5, LocalElsewhere DEF Closes
<1> QED
  BY <1>7, <1>8

LEMMA CalledShape ==
    ASSUME Types, Types', NEW c \in Streams, Local(c), NEW t \in Threads,
           Elsewhere(t), NEW f \in Frames, Len(stack'[t]) = 1, stack'[t][1] = f,
           f.at \notin Loose => f.s = c,
           t \in Streams <=> f.at \in Callbacks,
           t = "media" => f.at \in MediaCalls
    PROVE  /\ Local(c)' /\ stack'[t] # <<>>
           /\ Label(stack'[t]) = f.at /\ ~Nested(stack'[t])
           /\ Closes(stack'[t]) => f.closing
<1> USE Threading
<1>1. stack'[t] # <<>>
  OBVIOUS
<1>2. Label(stack'[t]) = f.at
  BY <1>1 DEF Label
<1>3. ~Nested(stack'[t])
  BY DEF Nested
<1>4. About(stack'[t], c)
  BY <1>2, <1>3 DEF About
<1>5. Shape(t, stack'[t])
  BY NamesDistinct DEF Shape, CallerShape, WorkerShape, MediaShape, MediaCalls, Callbacks
<1> QED
  BY <1>1, <1>2, <1>3, <1>4, <1>5, LocalElsewhere DEF Closes

LEMMA RemovedShape ==
    ASSUME Types, NEW c \in Streams, Local(c), NEW t \in Threads,
           At(t, "remove"), NEW b \in BOOLEAN, NEW d,
           ReplacedAndPushed(t, Cleanup(b), Frame("quiet", c, d))
    PROVE  /\ Elsewhere(t) /\ Local(c)' /\ stack'[t] # <<>>
           /\ Label(stack'[t]) = "fetch" /\ Nested(stack'[t])
           /\ ~Nested(stack[t])
<1> USE Threading
<1>1. /\ Len(stack[t]) = 1 \/ (t \in Streams /\ Len(stack[t]) = 2)
      /\ t \in Streams => Len(stack[t]) # 1
      /\ ~Nested(stack[t]) /\ Label(stack[t]) = "remove"
  BY CallShape DEF Callbacks
<1>2. /\ Elsewhere(t) /\ Len(stack'[t]) = Len(stack[t]) + 1
      /\ stack'[t][1] = Cleanup(b) /\ stack'[t][2] = Frame("quiet", c, d)
      /\ Len(stack[t]) = 2 => stack'[t][3] = stack[t][2]
  BY <1>1 DEF ReplacedAndPushed
<1>3. Cleanup(b).at = "fetch" /\ Cleanup(b).s = None /\ Frame("quiet", c, d).at = "quiet"
      /\ Frame("quiet", c, d).s = c
  BY DEF Cleanup, Frame
<1>4. stack'[t] # <<>> /\ Len(stack'[t]) >= 2
  BY <1>1, <1>2, SMTT(30)
<1>5. Label(stack'[t]) = "fetch"
  BY <1>2, <1>3, <1>4 DEF Label
<1>6. Nested(stack'[t])
  BY <1>2, <1>3, <1>4 DEF Nested
<1>7. About(stack'[t], c)
  BY <1>2, <1>3, <1>5 DEF About, Loose
<1>8. Shape(t, stack[t]) /\ t \in Api \cup {"core"} \cup Streams \cup {"media"}
  BY DEF Local, Threads
<1>9. t # "media"
  BY <1>1, <1>8 DEF Shape, MediaShape, MediaCalls, Label
<1>10. Shape(t, stack'[t])
  <2>1. CASE t \in Streams
    <3>1. Len(stack[t]) = 2 /\ WorkerShape(stack[t])
      BY <2>1, <1>1, <1>8 DEF Shape
    <3>2. stack'[t][3].at = "done" /\ Len(stack'[t]) = 3
      BY <3>1, <1>2 DEF WorkerShape
    <3>3. WorkerShape(stack'[t])
      BY <3>2, <1>2, <1>3 DEF WorkerShape
    <3> QED
      BY <2>1, <3>3, NamesDistinct DEF Shape
  <2>2. CASE t \notin Streams
    <3>1. Len(stack'[t]) = 2
      <4>1. Len(stack[t]) = 1
        BY <2>2, <1>1
      <4> QED
        BY <4>1, <1>2
    <3>2. CallerShape(stack'[t])
      BY <3>1, <1>2, <1>3 DEF CallerShape
    <3> QED
      BY <2>2, <1>9, <3>2 DEF Shape
  <2> QED
    BY <2>1, <2>2
<1>11. Local(c)'
  BY <1>2, <1>7, <1>10, LocalElsewhere
<1> QED
  BY <1>1, <1>2, <1>4, <1>5, <1>6, <1>11

LEMMA ClosedShape ==
    ASSUME Types, NEW c \in Streams, Local(c), NEW t \in Streams,
           At(t, "close"), NEW s, NEW d,
           ReplacedAndPushed(t, Cleanup(FALSE), Frame("done", s, d))
    PROVE  /\ Elsewhere(t) /\ Local(c)' /\ stack'[t] # <<>>
           /\ Label(stack'[t]) = "fetch" /\ ~Nested(stack'[t]) /\ ~Closes(stack'[t])
<1> USE Threading
<1>1. Len(stack[t]) = 1
  BY CallShape DEF Callbacks
<1>2. /\ Elsewhere(t) /\ Len(stack'[t]) = 2
      /\ stack'[t][1] = Cleanup(FALSE) /\ stack'[t][2] = Frame("done", s, d)
  BY <1>1 DEF ReplacedAndPushed
<1>3. /\ Cleanup(FALSE).at = "fetch" /\ Cleanup(FALSE).closing = FALSE
      /\ Frame("done", s, d).at = "done"
  BY DEF Cleanup, Frame
<1>4. stack'[t] # <<>>
  BY <1>2
<1>5. Label(stack'[t]) = "fetch"
  BY <1>2, <1>3, <1>4 DEF Label
<1>6. ~Nested(stack'[t])
  BY <1>2, <1>3 DEF Nested
<1>7. About(stack'[t], c)
  BY <1>5, <1>6 DEF About, Loose
<1>8. Shape(t, stack'[t])
  BY <1>2, <1>3, NamesDistinct DEF Shape, WorkerShape
<1>9. Local(c)'
  BY <1>2, <1>7, <1>8, LocalElsewhere
<1> QED
  BY <1>2, <1>3, <1>4, <1>5, <1>6, <1>9 DEF Closes

-----------------------------------------------------------------------------
(* Steps and the invariant. *)

\* What every step of t does to the owners of c, unless it takes c over.
Keeps(t, c) ==
    /\ \A s \in Streams : "wrap" \in refs'[s] => "wrap" \in refs[s]
    /\ "wrap" \in refs[c] => "wrap" \in refs'[c] \/ Label(stack[t]) = "add"
    /\ \A u \in Threads \ {t} : u \in refs[c] => u \in refs'[c]
    /\ closeReq[c] => closeReq'[c]

\* Steps that preserve the invariant, said by what they do to the state and to the stack
\* of the thread t that takes them.  First, t becomes the one that tears c down.
LEMMA ClaimStep ==
    ASSUME Types, Types', NEW c \in Streams, Inv(c), NEW t \in Threads,
           misuse = {}, Label(stack[t]) = "claiming",
           Elsewhere(t), Local(c)', Label(stack'[t]) \in {"remove", "quiet"},
           Label(stack'[t]) = "quiet" => bug[c] # "attached",
           ~Nested(stack'[t]),
           mutex' = Unlocked(c),
           cleaning' = [cleaning EXCEPT ![c] = TRUE],
           private' = None,
           refs' = [refs EXCEPT ![c] = IF "wrap" \in refs[c]
                                       THEN (refs[c] \ {"wrap"}) \cup {t} ELSE refs[c]],
           \E closing \in BOOLEAN :
               tornBy' = [tornBy EXCEPT ![c] = tornBy[c] \cup {<<t, closing>>}],
           closeReq[c] => closeReq'[c],
           UNCHANGED <<bug, phase, misuse>>
    PROVE  Inv(c)'
<1> USE Threading DEF Elsewhere
<1>1. Known(c) /\ ~cleaning[c]
  BY DEF Known, Inv, Tearing
<1>2. \A u \in Threads : ~Owns(stack[u])
  BY <1>1 DEF Inv, SettingUp, Tearing, Owns, Tears, Closing
<1>3. \A u \in Threads : Owns(stack'[u]) => u = t
  BY <1>2
<1>4. /\ mutex[c] = t
      /\ \A u \in Threads \ {t} : Label(stack[u]) \notin Critical
  <2>1. mutex[c] = t
    BY DEF Inv, Mutexes, Critical
  <2> QED
    BY <2>1 DEF Inv, Mutexes
<1>5. /\ mutex'[c] = "free" /\ cleaning'[c]
      /\ \A r \in Streams : r # c =>
            /\ mutex'[r] = mutex[r] /\ cleaning'[r] = cleaning[r] /\ tornBy'[r] = tornBy[r]
            /\ refs'[r] = refs[r]
  BY DEF Types, Unlocked
<1>17. /\ t \in refs'[c] /\ "wrap" \notin refs'[c]
  BY <1>1 DEF Types, Inv, Owned
<1>6. Over(c)'
  BY <1>5 DEF Inv, Over, Gone, Label
<1>7. Fresh'
  BY <1>1, <1>5 DEF Inv, Fresh, Bugs
<1>8. Alone'
  BY <1>3 DEF Alone
<1>9. SettingUp(c)'
  BY <1>2, <1>3 DEF SettingUp, Owns, Setup
<1>10. Tearing(c)'
  <2>1. \E closing \in BOOLEAN : <<t, closing>> \in tornBy'[c]
    BY DEF Types
  <2>2. \A u \in Threads \ {t} : ~Tears(stack'[u]) /\ Label(stack'[u]) \notin Closing
    BY <1>3 DEF Owns, Tears
  <2>3. \A u \in Threads : Label(stack'[u]) # "claiming"
    BY <1>4 DEF Critical
  <2> QED BY <2>1, <2>2, <2>3, <1>5 DEF Tearing, Closing, Tears
<1>11. Torn(c)'
  BY <1>5 DEF Torn, Tears, Closing
<1>12. Closings(c)'
  BY DEF Inv, Closings, Closes
<1>13. Mutexes(c)'
  BY <1>4, <1>5 DEF Mutexes, Critical
<1>14. Bugs(c)'
  BY <1>1, <1>5 DEF Inv, Bugs, Label
<1>15. Wraps' /\ Owned(c)'
  <2>1. Wraps'
    BY <1>5, <1>17 DEF Inv, Wraps
  <2>2. \A u \in Threads \ {t} : Label(stack'[u]) \notin {"add", "publish"} \cup Closing
                                 /\ ~Nested(stack'[u])
    BY <1>3 DEF Owns, Tears, Setup, Closing
  <2> QED
    BY <2>1, <2>2, <1>5, <1>17 DEF Owned, Closing
<1>16. Safe' /\ Requested(c)'
  BY DEF Inv, Safe, Requested
<1> QED
  BY <1>6, <1>7, <1>8, <1>9, <1>10, <1>11, <1>12, <1>13, <1>14, <1>15, <1>16 DEF Inv

\* A step that changes no state others rely on.
LEMMA MoveStep ==
    ASSUME Types, Types', NEW c \in Streams, Inv(c), NEW t \in Threads,
           Elsewhere(t), Local(c)',
           Owns(stack'[t]) => Owns(stack[t]),
           cleaning[c] => (Tears(stack'[t]) <=> Tears(stack[t])),
           Label(stack'[t]) \notin Setup \cup Critical \cup {"remove"},
           Label(stack[t]) \in {"publish", "remove"} => bug[c] # "attached",
           Label(stack'[t]) # "claiming", Label(stack'[t]) = "close" => closeReq'[c],
           Label(stack'[t]) \in Closing \/ Nested(stack'[t]) => t \in refs'[c],
           Label(stack'[t]) \in {"claim", "play"} => private = c,
           Nested(stack'[t]) => Nested(stack[t]),
           Label(stack'[t]) \in {"quiet", "join", "destroy"} =>
               bug[c] # "attached" /\ (Known(c) => cleaning[c]),
           Label(stack'[t]) = "destroy" => t = c \/ phase[c] = "ended",
           stack[t] = <<>> => t \notin Streams /\ (t = "media" => bug[c] = "attached"),
           Closes(stack'[t]) => Closes(stack[t]),
           Keeps(t, c),
           UNCHANGED <<private, bug, mutex, cleaning, phase, tornBy, misuse>>
    PROVE  Inv(c)'
<1> USE Threading DEF Elsewhere
<1>1. Known(c)' => Known(c)
  BY DEF Known
<1>19. Label(stack[t]) = "add" => ~Known(c) /\ \A u \in Threads \ {t} : ~Owns(stack[u])
  BY DEF Inv, SettingUp, Setup, Alone, Owns
<1>2. Over(c)'
  BY DEF Inv, Over, Gone
<1>3. Fresh'
  BY DEF Inv, Fresh
<1>4. Alone'
  BY DEF Inv, Alone
<1>5. SettingUp(c)'
  BY <1>1 DEF Inv, SettingUp, Setup
<1>6. Tearing(c)'
  BY <1>1 DEF Inv, Tearing, Setup, Critical
<1>7. Torn(c)'
  BY DEF Inv, Torn, Gone
<1>8. Closings(c)'
  BY DEF Inv, Closings, Setup
<1>9. Mutexes(c)'
  BY DEF Inv, Mutexes
<1>10. Bugs(c)'
  BY <1>1 DEF Inv, Bugs
<1>11. Wraps' /\ Safe'
  BY DEF Inv, Wraps, Safe, Keeps
<1>18. Owned(c)' /\ Requested(c)'
  BY <1>1, <1>19 DEF Inv, Owned, Requested, Keeps, Owns, Setup, Closing
<1> QED
  BY <1>2, <1>3, <1>4, <1>5, <1>6, <1>7, <1>8, <1>9, <1>10, <1>11,
     <1>18 DEF Inv

\* A mutex is locked for a short time, ...
LEMMA LockStep ==
    ASSUME Types, Types', NEW c \in Streams, Inv(c), NEW t \in Threads,
           Elsewhere(t), Local(c)', misuse = {}, stack[t] # <<>>,
           \/ /\ Label(stack[t]) \in {"copy", "try", "play", "queue"}
              /\ Label(stack'[t]) \in {"copied", "played", "queued"}
           \/ Label(stack[t]) = "claim" /\ Label(stack'[t]) = "claiming" /\ ~cleaning[c],
           Closes(stack'[t]) => Closes(stack[t]),
           ~Nested(stack[t]), ~Nested(stack'[t]),
           mutex[c] = "free", mutex' = [mutex EXCEPT ![c] = t],
           Keeps(t, c),
           UNCHANGED <<private, bug, cleaning, phase, tornBy, misuse>>
    PROVE  Inv(c)'
<1> USE Threading DEF Elsewhere
<1>0. mutex'[c] = t /\ \A r \in Streams : r # c => mutex'[r] = mutex[r]
  BY DEF Types
<1>1. /\ Known(c)' => Known(c)
      /\ ~Tears(stack[t]) /\ ~Tears(stack'[t]) /\ ~Owns(stack'[t])
  BY DEF Known, Tears, Owns, Closing, Setup
<1>19. Label(stack'[t]) \notin Setup \cup {"remove", "quiet", "close"}
       /\ Label(stack[t]) # "add"
  BY DEF Setup
<1>2. Over(c)'
  BY <1>0 DEF Inv, Over, Gone
<1>3. Fresh'
  BY <1>0 DEF Inv, Fresh
<1>4. Alone'
  BY <1>1 DEF Inv, Alone
<1>5. SettingUp(c)'
  BY <1>0, <1>1 DEF Inv, SettingUp, Setup
<1>6. Tearing(c)'
  BY <1>1 DEF Inv, Tearing
<1>7. Torn(c)'
  BY <1>0, <1>1 DEF Inv, Torn, Gone
<1>8. Closings(c)'
  BY <1>1 DEF Inv, Closings
<1>9. Mutexes(c)'
  BY <1>0 DEF Inv, Mutexes
<1>10. Bugs(c)'
  BY <1>1 DEF Inv, Bugs
<1>11. Wraps' /\ Safe'
  BY DEF Inv, Wraps, Safe, Keeps
<1>18. Owned(c)' /\ Requested(c)'
  BY <1>1, <1>19 DEF Inv, Owned, Requested, Keeps, Setup, Closing
<1> QED
  BY <1>2, <1>3, <1>4, <1>5, <1>6, <1>7, <1>8, <1>9, <1>10, <1>11,
     <1>18 DEF Inv

\* ... and unlocked.
LEMMA UnlockStep ==
    ASSUME Types, Types', NEW c \in Streams, Inv(c), NEW t \in Threads,
           Elsewhere(t), Local(c)', misuse = {}, stack[t] # <<>>,
           \/ Label(stack[t]) = "copied" /\ Label(stack'[t]) = "write"
           \/ Label(stack[t]) = "played" /\ Label(stack'[t]) = "done"
           \/ Label(stack[t]) = "queued" /\ Label(stack'[t]) = "idle",
           ~Nested(stack[t]), ~Nested(stack'[t]),
           mutex' = Unlocked(c),
           UNCHANGED <<private, bug, cleaning, closeReq, refs, phase, tornBy, misuse>>
    PROVE  Inv(c)'
<1> USE Threading DEF Elsewhere
<1>0. mutex'[c] = "free" /\ \A r \in Streams : r # c => mutex'[r] = mutex[r]
  BY DEF Types, Unlocked
<1>1. /\ Known(c)' => Known(c)
      /\ ~Tears(stack'[t]) /\ ~Tears(stack[t])
      /\ ~Owns(stack'[t]) /\ ~Owns(stack[t])
      /\ ~Closes(stack'[t])
  BY DEF Known, Tears, Owns, Closing, Setup, Closes
<1>12. mutex[c] = t
  BY DEF Inv, Mutexes, Critical
<1>13. mutex[c] \notin {"none", "destroyed"}
  BY <1>12
<1>14. \A u \in Threads \ {t} : Label(stack[u]) \notin Critical
  BY <1>12 DEF Inv, Mutexes
<1>2. Over(c)'
  BY <1>0 DEF Inv, Over, Gone
<1>3. Fresh'
  BY <1>0, <1>13 DEF Inv, Fresh
<1>4. Alone'
  BY <1>1 DEF Inv, Alone
<1>5. SettingUp(c)'
  BY <1>0, <1>1 DEF Inv, SettingUp, Setup
<1>6. Tearing(c)'
  BY <1>1 DEF Inv, Tearing
<1>7. Torn(c)'
  BY <1>0, <1>1, <1>13 DEF Inv, Torn, Gone
<1>8. Closings(c)'
  BY <1>1 DEF Inv, Closings
<1>9. Mutexes(c)'
  BY <1>0, <1>14 DEF Inv, Mutexes, Critical
<1>10. Bugs(c)'
  BY <1>1 DEF Inv, Bugs
<1>11. Wraps' /\ Safe'
  BY DEF Inv, Wraps, Safe, Keeps
<1>18. Owned(c)' /\ Requested(c)'
  BY <1>1 DEF Inv, Owned, Requested, Keeps, Nested, Closing
<1> QED
  BY <1>2, <1>3, <1>4, <1>5, <1>6, <1>7, <1>8, <1>9, <1>10, <1>11,
     <1>18 DEF Inv

\* The bug is removed, by the teardown or by the core, and the remover gets the CLOSE
\* callback.
LEMMA DetachStep ==
    ASSUME Types, Types', NEW c \in Streams, Inv(c), NEW t \in Threads,
           Elsewhere(t), Local(c)', misuse = {}, bug[c] = "attached",
           stack["media"] = <<>>, t # "media",
           Label(stack'[t]) = "fetch", stack'[t] # <<>>,
           \/ stack[t] = <<>> /\ t \notin Streams /\ ~Nested(stack'[t])
           \/ Label(stack[t]) = "remove" /\ stack[t] # <<>> /\ Nested(stack'[t]),
           bug' = [bug EXCEPT ![c] = "removed"],
           UNCHANGED <<private, mutex, cleaning, closeReq, refs, phase, tornBy, misuse>>
    PROVE  Inv(c)'
<1> USE Threading DEF Elsewhere
<1>0. bug'[c] = "removed" /\ \A r \in Streams : r # c => bug'[r] = bug[r]
  BY DEF Types
<1>1. /\ Known(c)' => Known(c)
      /\ Label(stack[t]) # "remove" => ~Tears(stack'[t])
      /\ Label(stack[t]) = "remove" => Tears(stack[t]) /\ Tears(stack'[t])
  BY DEF Known, Label, Tears, Closing
<1>12. Owns(stack'[t]) => Owns(stack[t])
  BY <1>1 DEF Owns, Setup
<1>13. phase[c] # "new"
  BY DEF Inv, Fresh
<1>14. \A u \in Threads : Label(stack[u]) \notin {"init", "add", "quiet", "join", "destroy"}
                          /\ ~Nested(stack[u])
  BY DEF Inv, SettingUp, Tearing
<1>15. Label(stack[t]) = "remove" => cleaning[c]
  BY DEF Inv, Tearing
<1>19. Nested(stack'[t]) => t \in refs[c]
  BY DEF Inv, Owned, Closing
<1>2. Over(c)'
  BY <1>0 DEF Inv, Over, Gone
<1>3. Fresh'
  BY <1>0, <1>13 DEF Inv, Fresh
<1>4. Alone'
  BY <1>12 DEF Inv, Alone
<1>5. SettingUp(c)'
  BY <1>0, <1>1, <1>14 DEF Inv, SettingUp, Setup
<1>6. Tearing(c)'
  <2>1. ASSUME NEW u \in Threads, Tears(stack'[u]) PROVE Tears(stack[u])
    BY <2>1, <1>1
  <2>2. \A u \in Threads : Nested(stack'[u]) => cleaning[c]
    BY <1>14, <1>15, <1>1 DEF Tears
  <2> QED
    BY <2>1, <2>2, <1>0, <1>14 DEF Inv, Tearing
<1>7. Torn(c)'
  BY <1>0, <1>1 DEF Inv, Torn, Gone, Tears
<1>8. Closings(c)'
  BY <1>0, <1>14 DEF Inv, Closings
<1>9. Mutexes(c)'
  BY <1>0 DEF Inv, Mutexes, Critical
<1>10. Bugs(c)'
  BY <1>0, <1>1 DEF Inv, Bugs
<1>11. Wraps' /\ Safe'
  BY DEF Inv, Wraps, Safe, Keeps
<1>18. Owned(c)' /\ Requested(c)'
  BY <1>1, <1>19 DEF Inv, Owned, Requested, Keeps, Nested, Closing
<1> QED
  BY <1>2, <1>3, <1>4, <1>5, <1>6, <1>7, <1>8, <1>9, <1>10, <1>11,
     <1>18 DEF Inv

\* The teardown ends: the mutex is destroyed, and nobody who cannot know holds it.
LEMMA DestroyStep ==
    ASSUME Types, Types', NEW c \in Streams, Inv(c), NEW t \in Threads,
           Elsewhere(t), Local(c)', misuse = {}, stack[t] # <<>>,
           Label(stack[t]) = "destroy", ~Nested(stack[t]),
           Label(stack'[t]) \in {"idle", "done"}, ~Nested(stack'[t]),
           mutex' = [mutex EXCEPT ![c] = "destroyed"],
           misuse' = misuse \cup ({mutex[c]} \cap Threads),
           Holder,
           Keeps(t, c),
           UNCHANGED <<private, bug, cleaning, phase, tornBy>>
    PROVE  Inv(c)'
<1> USE Threading DEF Elsewhere
<1>0. mutex'[c] = "destroyed" /\ \A r \in Streams : r # c => mutex'[r] = mutex[r]
  BY DEF Types
<1>1. /\ Known(c)' => Known(c)
      /\ Tears(stack[t]) /\ ~Tears(stack'[t]) /\ ~Owns(stack'[t]) /\ ~Closes(stack'[t])
  BY DEF Known, Tears, Owns, Closing, Setup, Closes
<1>12. \A u \in Threads \ {t} : ~Owns(stack[u])
  BY <1>1 DEF Inv, Alone, Owns
<1>13. /\ bug[c] # "attached"
       /\ Known(c) => cleaning[c]
       /\ t = c \/ phase[c] = "ended"
       /\ cleaning[c] => \E closing \in BOOLEAN : <<t, closing>> \in tornBy[c]
  BY <1>1 DEF Inv, Tearing
<1>14. private # c
  BY <1>13 DEF Inv, Torn, Known
<1>15. stack[c] = <<>> \/ t = c
  BY <1>13 DEF Inv, Bugs
<1>16. Label(stack'[c]) \notin {"claim", "play"}
  BY <1>15 DEF Label
<1>17. mutex[c] \notin Streams \cup {"media"}
  <2>1. mutex[c] # "media"
    <3>1. stack["media"] = <<>>
      BY <1>13 DEF Inv, Bugs
    <3> QED
      BY <3>1 DEF Holder
  <2>2. mutex[c] # c
    <3>1. t = c => Label(stack[c]) = "destroy" /\ stack[c] # <<>>
      OBVIOUS
    <3>2. t = c => stack[c][1].at = "destroy"
      BY <3>1 DEF Label
    <3> QED
      BY <1>15, <3>2 DEF Holder, Critical
  <2>3. \A r \in Streams \ {c} : mutex[c] # r
    <3>1. \A r \in Streams \ {c} : stack[r] = <<>>
      BY DEF Inv, Over
    <3> QED
      BY <3>1 DEF Holder
  <2> QED
    BY <2>1, <2>2, <2>3
<1>19. Label(stack'[t]) \notin {"add", "publish", "remove", "quiet", "close"}
  OBVIOUS
<1>2. Over(c)'
  BY <1>0, <1>15, <1>1 DEF Inv, Over, Gone
<1>3. Fresh'
  <2>1. phase[c] # "new"
    BY <1>13, <1>15 DEF Inv, Bugs
  <2> QED
    BY <2>1, <1>0 DEF Inv, Fresh
<1>4. Alone'
  BY <1>1 DEF Inv, Alone
<1>5. SettingUp(c)'
  BY <1>1, <1>12 DEF SettingUp, Setup, Owns
<1>6. Tearing(c)'
  <2>1. \A u \in Threads : ~Tears(stack'[u])
    BY <1>1, <1>12 DEF Owns
  <2>2. \A u \in Threads : Label(stack'[u]) \notin Closing /\ ~Nested(stack'[u])
    BY <2>1 DEF Tears
  <2>3. \A u \in Threads : Label(stack'[u]) = "claiming" => ~cleaning[c]
    BY DEF Inv, Tearing
  <2> QED
    BY <2>1, <2>2, <2>3 DEF Tearing, Closing
<1>7. Torn(c)'
  <2>1. cleaning[c] => bug[c] = "removed"
    BY <1>13 DEF Inv, Bugs, Known, Types
  <2> QED
    BY <2>1, <1>0, <1>13, <1>14 DEF Torn, Gone
<1>8. Closings(c)'
  BY <1>1 DEF Inv, Closings
<1>9. Mutexes(c)'
  <2>1. ASSUME misuse' = {} PROVE \A u \in Threads : Label(stack'[u]) \notin Critical
    <3>1. mutex[c] \notin Threads
      BY <2>1
    <3> QED
      BY <3>1 DEF Inv, Mutexes, Critical
  <2> QED
    BY <2>1, <1>13, <1>14, <1>16 DEF Mutexes
<1>10. Bugs(c)'
  BY <1>1, <1>15 DEF Inv, Bugs
<1>11. Wraps' /\ Safe'
  BY <1>17 DEF Inv, Wraps, Safe, Keeps
<1>18. Owned(c)' /\ Requested(c)'
  BY <1>1, <1>12, <1>13, <1>19 DEF Inv, Owned, Requested, Keeps, Nested, Closing
<1> QED
  BY <1>2, <1>3, <1>4, <1>5, <1>6, <1>7, <1>8, <1>9, <1>10, <1>11,
     <1>18 DEF Inv

\* A stream is created, or fails to be.
LEMMA InitStep ==
    ASSUME Types, Types', NEW c \in Streams, Inv(c), NEW t \in Threads,
           Elsewhere(t), Local(c)', misuse = {}, stack[t] # <<>>,
           Label(stack[t]) = "init", ~Nested(stack[t]),
           \/ Label(stack'[t]) = "add" /\ mutex' = [mutex EXCEPT ![c] = "free"]
           \/ Label(stack'[t]) = "idle" /\ mutex' = [mutex EXCEPT ![c] = "destroyed"],
           ~Nested(stack'[t]),
           phase' = [phase EXCEPT ![c] = "dialing"],
           refs' = [refs EXCEPT ![c] = {"wrap"}],
           UNCHANGED <<private, bug, cleaning, closeReq, tornBy, misuse>>
    PROVE  Inv(c)'
<1> USE Threading DEF Elsewhere
<1>0. /\ mutex'[c] = IF Label(stack'[t]) = "add" THEN "free" ELSE "destroyed"
      /\ phase'[c] = "dialing"
      /\ \A r \in Streams : r # c => mutex'[r] = mutex[r] /\ phase'[r] = phase[r]
                                     /\ refs'[r] = refs[r]
  BY DEF Types
<1>1. /\ Known(c)' => Known(c)
      /\ Owns(stack[t]) /\ ~Tears(stack[t]) /\ ~Tears(stack'[t]) /\ ~Closes(stack'[t])
  BY DEF Known, Tears, Owns, Closing, Setup, Closes
<1>12. /\ \A u \in Threads \ {t} : ~Owns(stack[u])
       /\ ~Known(c) /\ phase[c] = "new" /\ bug[c] = "none"
  BY <1>1 DEF Inv, Alone, SettingUp, Setup
<1>13. /\ ~cleaning[c] /\ private # c /\ stack[c] = <<>> /\ mutex[c] = "none"
  BY <1>12 DEF Inv, Bugs, Known, Fresh
<1>14. t # c
  BY <1>13
<1>15. \A u \in Threads : Label(stack'[u]) \notin Critical
  BY <1>13 DEF Inv, Mutexes, Critical
<1>19. /\ "wrap" \in refs'[c]
       /\ \A u \in Threads \ {t} : /\ Label(stack[u]) \notin Closing
                                  /\ ~Nested(stack[u])
  BY <1>12 DEF Types, Owns, Tears, Closing
<1>2. Over(c)'
  BY <1>0 DEF Inv, Over, Gone
<1>3. Fresh'
  BY <1>0 DEF Inv, Fresh
<1>4. Alone'
  BY <1>12 DEF Alone
<1>5. SettingUp(c)'
  BY <1>0, <1>1, <1>12 DEF SettingUp, Setup, Owns
<1>6. Tearing(c)'
  BY <1>1, <1>12, <1>13 DEF Tearing, Owns, Tears, Closing
<1>7. Torn(c)'
  BY <1>13 DEF Torn
<1>8. Closings(c)'
  BY <1>1 DEF Inv, Closings
<1>9. Mutexes(c)'
  BY <1>12, <1>13, <1>14, <1>15 DEF Mutexes, Label
<1>10. Bugs(c)'
  BY <1>0, <1>1, <1>12, <1>13, <1>14 DEF Inv, Bugs
<1>11. Wraps' /\ Safe'
  BY <1>0, <1>13 DEF Inv, Wraps, Safe, Keeps
<1>18. Owned(c)' /\ Requested(c)'
  BY <1>0, <1>1, <1>12, <1>19 DEF Inv, Owned, Requested, Keeps, Nested, Closing
<1> QED
  BY <1>2, <1>3, <1>4, <1>5, <1>6, <1>7, <1>8, <1>9, <1>10, <1>11,
     <1>18 DEF Inv

LEMMA AddBugStep ==
    ASSUME Types, Types', NEW c \in Streams, Inv(c), NEW t \in Threads,
           Elsewhere(t), Local(c)', misuse = {}, stack[t] # <<>>,
           Label(stack[t]) = "add", ~Nested(stack[t]),
           Label(stack'[t]) = "publish", ~Nested(stack'[t]),
           bug' = [bug EXCEPT ![c] = "attached"],
           UNCHANGED <<private, mutex, refs, closeReq, cleaning, phase, tornBy, misuse>>
    PROVE  Inv(c)'
<1> USE Threading DEF Elsewhere
<1>0. bug'[c] = "attached" /\ \A r \in Streams : r # c => bug'[r] = bug[r]
  BY DEF Types
<1>1. /\ Known(c)' => Known(c)
      /\ Owns(stack[t]) /\ ~Tears(stack[t]) /\ ~Tears(stack'[t]) /\ ~Closes(stack'[t])
  BY DEF Known, Tears, Owns, Closing, Setup, Closes
<1>12. /\ \A u \in Threads \ {t} : ~Owns(stack[u])
       /\ ~Known(c) /\ phase[c] # "new" /\ mutex[c] # "destroyed"
  BY <1>1 DEF Inv, Alone, SettingUp, Setup
<1>13. ~cleaning[c]
  BY <1>12 DEF Known
<1>14. \A u \in Threads : ~Closes(stack[u])
  BY DEF Inv, Closings
<1>2. Over(c)'
  BY <1>0 DEF Inv, Over, Gone
<1>3. Fresh'
  BY <1>0, <1>12 DEF Inv, Fresh
<1>4. Alone'
  BY <1>12 DEF Alone
<1>5. SettingUp(c)'
  BY <1>0, <1>1, <1>12 DEF SettingUp, Setup, Owns
<1>6. Tearing(c)'
  BY <1>1, <1>12, <1>13 DEF Tearing, Owns, Tears, Closing
<1>7. Torn(c)'
  BY <1>13 DEF Torn
<1>8. Closings(c)'
  BY <1>1, <1>14 DEF Closings
<1>9. Mutexes(c)'
  BY <1>12 DEF Inv, Mutexes, Critical
<1>10. Bugs(c)'
  BY <1>0, <1>12 DEF Inv, Bugs
<1>11. Wraps' /\ Safe'
  BY DEF Inv, Wraps, Safe, Keeps
<1>18. Owned(c)' /\ Requested(c)'
  BY <1>1, <1>12 DEF Inv, Owned, Requested, Keeps, Nested, Closing
<1> QED
  BY <1>2, <1>3, <1>4, <1>5, <1>6, <1>7, <1>8, <1>9, <1>10, <1>11,
     <1>18 DEF Inv

LEMMA PublishStep ==
    ASSUME Types, Types', NEW c \in Streams, Inv(c), NEW t \in Threads,
           Elsewhere(t), Local(c)', misuse = {}, stack[t] # <<>>,
           Label(stack[t]) = "publish", ~Nested(stack[t]),
           Label(stack'[t]) = "idle", ~Nested(stack'[t]),
           private' = c,
           UNCHANGED <<bug, mutex, refs, closeReq, cleaning, phase, tornBy, misuse>>
    PROVE  Inv(c)'
<1> USE Threading DEF Elsewhere
<1>1. /\ Owns(stack[t]) /\ ~Owns(stack'[t]) /\ ~Tears(stack'[t]) /\ ~Closes(stack'[t])
  BY DEF Known, Tears, Owns, Closing, Setup, Closes
<1>12. /\ \A u \in Threads \ {t} : ~Owns(stack[u])
       /\ ~Known(c) /\ phase[c] # "new" /\ mutex[c] # "destroyed" /\ bug[c] # "none"
  BY <1>1 DEF Inv, Alone, SettingUp, Setup
<1>13. ~cleaning[c] /\ \A u \in Threads : ~Owns(stack'[u])
  BY <1>1, <1>12 DEF Known
<1>2. Over(c)'
  BY DEF Inv, Over, Gone, Label
<1>3. Fresh'
  BY DEF Inv, Fresh
<1>4. Alone'
  BY <1>13 DEF Alone
<1>5. SettingUp(c)'
  BY <1>13 DEF SettingUp, Setup, Owns
<1>6. Tearing(c)'
  BY <1>13 DEF Tearing, Owns, Tears, Closing
<1>7. Torn(c)'
  BY <1>13 DEF Torn
<1>8. Closings(c)'
  BY <1>1 DEF Inv, Closings
<1>9. Mutexes(c)'
  BY <1>12 DEF Inv, Mutexes, Critical
<1>10. Bugs(c)'
  BY <1>12 DEF Inv, Bugs, Label
<1>11. Wraps' /\ Safe'
  BY DEF Inv, Wraps, Safe, Keeps
<1>18. Owned(c)' /\ Requested(c)'
  BY <1>1, <1>12, <1>13 DEF Inv, Owned, Requested, Keeps, Nested, Closing
<1> QED
  BY <1>2, <1>3, <1>4, <1>5, <1>6, <1>7, <1>8, <1>9, <1>10, <1>11,
     <1>18 DEF Inv

LEMMA WorkerMovesStep ==
    ASSUME Types, Types', NEW c \in Streams, Inv(c),
           Elsewhere(c), Local(c)', misuse = {}, stack[c] = <<>>,
           phase[c] \notin {"new", "ended"},
           phase' = [phase EXCEPT ![c] = phase'[c]], phase'[c] # "new",
           \/ stack'[c] = <<>>
           \/ Label(stack'[c]) \in {"message", "failing"} /\ ~Nested(stack'[c])
                /\ phase'[c] \in {"message", "failing"},
           Keeps(c, c),
           UNCHANGED <<private, bug, mutex, cleaning, tornBy, misuse>>
    PROVE  Inv(c)'
<1> USE Threading DEF Elsewhere
<1>0. \A r \in Streams : r # c => phase'[r] = phase[r]
  BY DEF Types
<1>1. /\ Label(stack[c]) = "idle" /\ ~Nested(stack[c])
      /\ Label(stack'[c]) \in {"idle", "message", "failing"} /\ ~Nested(stack'[c])
  BY DEF Label, Nested
<1>12. /\ Known(c)' => Known(c)
       /\ ~Owns(stack'[c]) /\ ~Tears(stack'[c]) /\ ~Closes(stack'[c]) /\ ~Tears(stack[c])
  BY <1>1 DEF Known, Tears, Owns, Closing, Setup, Closes
<1>13. \A u \in Threads : Label(stack[u]) \notin {"init", "destroy"}
  BY <1>1 DEF Inv, SettingUp, Tearing
<1>2. Over(c)'
  BY <1>0 DEF Inv, Over, Gone
<1>3. Fresh'
  BY <1>0 DEF Inv, Fresh
<1>4. Alone'
  BY <1>12 DEF Inv, Alone
<1>5. SettingUp(c)'
  BY <1>1, <1>12, <1>13 DEF Inv, SettingUp, Setup
<1>6. Tearing(c)'
  BY <1>1, <1>12, <1>13 DEF Inv, Tearing
<1>7. Torn(c)'
  BY <1>12 DEF Inv, Torn, Gone
<1>8. Closings(c)'
  BY <1>1, <1>12 DEF Inv, Closings
<1>9. Mutexes(c)'
  BY <1>1 DEF Inv, Mutexes, Critical
<1>10. Bugs(c)'
  BY <1>1, <1>12 DEF Inv, Bugs
<1>11. Wraps' /\ Safe'
  BY DEF Inv, Wraps, Safe, Keeps
<1>18. Owned(c)' /\ Requested(c)'
  BY <1>1, <1>12 DEF Inv, Owned, Requested, Keeps, Nested, Closing
<1> QED
  BY <1>2, <1>3, <1>4, <1>5, <1>6, <1>7, <1>8, <1>9, <1>10, <1>11,
     <1>18 DEF Inv

\* Only a thread that has looked up the bug before the teardown can lock too late.
LEMMA LockDestroyedStep ==
    ASSUME Types, Types', NEW c \in Streams, Inv(c), NEW t \in Threads, LockDestroyed(t)
    PROVE  Inv(c)'
<1> USE Threading
<1>1. PICK label \in {"claim", "copy", "queue", "try", "play"} : At(t, label)
  BY DEF LockDestroyed
<1>2. Local(c)
  BY DEF Inv
<1>3. /\ stack[t] # <<>> /\ Label(stack[t]) = label /\ Of(t) = c
      /\ t \in Streams => Len(stack[t]) = 1 <=> label \in Callbacks
  BY <1>1, <1>2, CallShape DEF Loose
<1>4. mutex[c] = "destroyed" /\ misuse' = misuse \cup {t}
      /\ UNCHANGED <<private, bug, mutex, cleaning, closeReq, refs, phase, stack, tornBy>>
  BY <1>3 DEF LockDestroyed, streamVars
<1>5. t # "media"
  BY <1>3, <1>4 DEF Inv, Mutexes, Bugs
<1>6. t \notin Streams
  <2>1. t \in Streams => t = c
    BY <1>3 DEF Inv, Over
  <2>2. t = c => label \in {"copy", "queue", "try"}
    BY <1>3, <1>4 DEF Inv, Mutexes
  <2>3. t = c => label \in Callbacks \cup Closing \cup {"fetch", "claim", "claiming"}
    <3>1. ASSUME t = c PROVE WorkerShape(stack[t])
      BY <1>2, <3>1 DEF Local, Shape
    <3>2. t = c => stack[t][1].at = label
      BY <1>3 DEF Label
    <3> QED
      BY <3>1, <3>2, <1>3, InCall, <1>1 DEF WorkerShape
  <2> QED
    BY <2>1, <2>2, <2>3 DEF Callbacks, Closing
<1>7. Safe'
  BY <1>4, <1>5, <1>6 DEF Inv, Safe
<1>8. Mutexes(c)'
  BY <1>4 DEF Inv, Mutexes
<1>9. Known(c)' <=> Known(c)
  BY <1>4 DEF Known
<1>10. Local(c)' /\ Over(c)' /\ Fresh' /\ Alone' /\ Wraps'
  BY <1>4 DEF Inv, Local, Over, Gone, Fresh, Alone, Wraps
<1>11. SettingUp(c)' /\ Tearing(c)' /\ Torn(c)' /\ Closings(c)' /\ Bugs(c)'
  BY <1>4, <1>9 DEF Inv, SettingUp, Tearing, Torn, Gone, Closings, Bugs
<1>12. Owned(c)' /\ Requested(c)'
  BY <1>4, <1>9 DEF Inv, Owned, Requested
<1> QED
  BY <1>7, <1>8, <1>10, <1>11, <1>12 DEF Inv

-----------------------------------------------------------------------------
(* Streams after each other. *)

\* Nothing of an earlier stream is under way, but a command that has not looked for the
\* bug yet.
Still ==
    /\ private = None
    /\ \A s \in Streams : phase[s] \in {"new", "ended"}
    /\ \A t \in Threads :
           \/ stack[t] = <<>>
           \/ t \in Api /\ Len(stack[t]) = 1 /\ stack[t][1] = Cleanup(FALSE)

\* start_capture is not run while an earlier stream of the channel is being set up, in
\* use by a call, torn down, or left with a worker that has not ended.  Nothing in the
\* code sees to that but the private it looks at, which a teardown clears first.
StartsAlone == \A t \in Api, s \in Streams : Start(t, s) => Still

\* There is one stream in use.
IInv == \E c \in Streams : Inv(c)

\* A start makes the new stream the one in use.
LEMMA StartStep ==
    ASSUME Types, Types', NEW c \in Streams, Inv(c), NEW t \in Api, NEW s \in Streams,
           Start(t, s), Still
    PROVE  Inv(s)'
<1> USE Threading
<1>1. Frame("init", s, FALSE) \in Frames /\ Frame("init", s, FALSE).at = "init"
      /\ Frame("init", s, FALSE).s = s /\ Frame("init", s, FALSE).closing = FALSE
  BY FrameType DEF Labels, Frame
<1>2. /\ misuse = {} /\ Len(stack[t]) = 0 /\ Elsewhere(t)
      /\ Len(stack'[t]) = 1 /\ stack'[t][1] = Frame("init", s, FALSE)
  BY <1>1, Calls DEF Start
<1>3. /\ phase[s] = "new" /\ private = None /\ ~cleaning[s] /\ mutex[s] = "none"
      /\ bug[s] = "none"
      /\ UNCHANGED <<private, bug, mutex, cleaning, refs, phase, tornBy, misuse>>
  BY DEF Start, Used, Inv, Fresh, streamVars
<1>4. ASSUME NEW u \in Threads
      PROVE  Label(stack[u]) \in {"idle", "fetch"} /\ Len(stack[u]) <= 1
             /\ ~Nested(stack[u]) /\ ~Closes(stack[u])
  <2>1. CASE stack[u] = <<>>
    BY <2>1 DEF Label, Nested, Closes
  <2>2. CASE Len(stack[u]) = 1 /\ stack[u][1] = Cleanup(FALSE)
    <3>1. stack[u] # <<>> /\ Len(stack[u]) = 1 /\ stack[u][1] = Cleanup(FALSE)
      BY <2>2
    <3>2. stack[u][1].at = "fetch" /\ stack[u][1].closing = FALSE
      BY <3>1, Cleanups
    <3>3. Label(stack[u]) = "fetch"
      BY <3>1, <3>2 DEF Label
    <3>4. ~Closes(stack[u])
      BY <3>2 DEF Closes
    <3> QED
      BY <3>1, <3>3, <3>4 DEF Nested
  <2> QED
    BY <2>1, <2>2 DEF Still
<1>5. \A u \in Threads \ {t} : stack'[u] = stack[u]
  BY <1>2 DEF Elsewhere
<1>6. ASSUME NEW u \in Threads \ {t} PROVE Shape(u, stack[u]) /\ About(stack[u], s)
  <2>1. Shape(u, stack[u])
    BY DEF Inv, Local
  <2> QED
    BY <2>1, <1>4 DEF About, Loose
<1>7. /\ Label(stack'[t]) = "init" /\ ~Nested(stack'[t]) /\ ~Closes(stack'[t])
      /\ About(stack'[t], s)
  <2>1. stack'[t] # <<>>
    BY <1>2
  <2>2. Label(stack'[t]) = "init"
    BY <1>1, <1>2, <2>1 DEF Label
  <2>3. ~Nested(stack'[t])
    BY <1>2 DEF Nested
  <2> QED
    BY <1>1, <1>2, <2>2, <2>3 DEF About, Closes
<1>8. Shape(t, stack'[t])
  BY <1>1, <1>2, NamesDistinct DEF Shape, CallerShape, Callbacks
<1>9. Local(s)'
  BY <1>5, <1>6, <1>7, <1>8 DEF Local
<1>10. \A r \in Streams : stack[r] = <<>> /\ stack'[r] = <<>>
  BY <1>5, NamesDistinct DEF Still
<1>11. \A u \in Threads : ~Tears(stack[u]) /\ ~Tears(stack'[u])
  BY <1>4, <1>5, <1>7 DEF Tears, Closing
<1>12. \A u \in Threads : Owns(stack'[u]) => u = t
  BY <1>4, <1>5, <1>11 DEF Owns, Setup
<1>13. ~Known(s)'
  BY <1>3, <1>4, <1>5, <1>7 DEF Known
<1>14. Over(s)'
  <2>1. bug[c] # "attached"
    BY <1>3, <1>4 DEF Inv, Bugs
  <2>2. cleaning[c] => Gone(c)
    BY <1>11 DEF Inv, Torn
  <2>3. \A r \in Streams \ {s} : bug[r] # "attached" /\ (cleaning[r] => Gone(r))
    BY <2>1, <2>2 DEF Inv, Over
  <2> QED
    BY <2>3, <1>3, <1>10 DEF Over, Gone, Still
<1>15. Fresh' /\ Wraps' /\ Safe'
  BY <1>3 DEF Inv, Fresh, Wraps, Safe
<1>16. Alone'
  BY <1>12 DEF Alone
<1>17. SettingUp(s)'
  BY <1>3, <1>4, <1>5, <1>7, <1>13 DEF SettingUp, Setup
<1>18. Tearing(s)' /\ Torn(s)'
  BY <1>3, <1>11 DEF Tearing, Torn, Tears, Closing
<1>19. Closings(s)'
  BY <1>4, <1>5, <1>7 DEF Closings
<1>20. Mutexes(s)'
  BY <1>3, <1>4, <1>5, <1>7 DEF Mutexes, Critical
<1>21. Bugs(s)'
  <2>1. stack'["media"] = <<>>
    BY <1>5, NamesDistinct DEF Still
  <2> QED
    BY <1>3, <1>10, <1>13, <2>1 DEF Bugs
<1>22. Owned(s)' /\ Requested(s)'
  BY <1>4, <1>5, <1>7, <1>13 DEF Owned, Requested, Closing
<1> QED
  BY <1>9, <1>14, <1>15, <1>16, <1>17, <1>18, <1>19, <1>20, <1>21, <1>22 DEF Inv

LEMMA IInvInit ==
    ASSUME Init
    PROVE  Types /\ Holder /\ IInv
<1> USE Threading
<1>1. Types
  <2>1. stack \in [Threads -> Seq(Frames)]
    BY DEF Init
  <2> QED
    BY <2>1 DEF Init, Types, NoWord
<1>2. Holder
  BY DEF Init, Holder
<1>3. PICK c \in Streams : TRUE
  BY NamesDistinct
<1>4. \A t \in Threads : stack[t] = <<>> /\ Label(stack[t]) = "idle" /\ ~Nested(stack[t])
                         /\ ~Tears(stack[t]) /\ ~Owns(stack[t]) /\ ~Closes(stack[t])
  <2>1. ASSUME NEW t \in Threads PROVE stack[t] = <<>>
    BY DEF Init
  <2> QED
    BY <2>1 DEF Label, Nested, Tears, Owns, Closes, Closing, Setup
<1>5. Local(c)
  BY <1>4 DEF Local, Shape, About, CallerShape, WorkerShape, MediaShape
<1>6. /\ private = None /\ bug[c] = "none" /\ mutex[c] = "none" /\ misuse = {}
      /\ \A s \in Streams : phase[s] = "new" /\ ~cleaning[s] /\ mutex[s] = "none"
                            /\ bug[s] = "none"
  BY DEF Init
<1>7. ~Known(c)
  BY <1>4, <1>6 DEF Known
<1>8. Over(c) /\ Fresh /\ Alone /\ Wraps /\ Safe
  BY <1>4, <1>6 DEF Over, Fresh, Alone, Wraps, Safe
<1>9. SettingUp(c) /\ Tearing(c) /\ Torn(c) /\ Closings(c)
  BY <1>4, <1>6, <1>7 DEF SettingUp, Tearing, Torn, Closings, Setup
<1>10. Mutexes(c) /\ Bugs(c)
  BY <1>4, <1>6, <1>7 DEF Mutexes, Bugs, Critical
<1>12. Owned(c) /\ Requested(c)
  BY <1>4, <1>7 DEF Owned, Requested, Closing
<1>11. Inv(c)
  BY <1>5, <1>8, <1>9, <1>10, <1>12 DEF Inv
<1> QED
  BY <1>1, <1>2, <1>11 DEF IInv

-----------------------------------------------------------------------------
(* Moves. *)

\* A store that undoes nothing sets its own flag.
LEMMA StoreKeeps ==
    ASSUME Types, NEW t \in Threads, NEW s \in Streams, NEW flag, Store(t, s, flag), ~lost'
    PROVE  /\ cleaning' = IF flag = "cleanup_started" THEN [cleaning EXCEPT ![s] = TRUE]
                          ELSE cleaning
           /\ closeReq' = IF flag = "close_requested" THEN [closeReq EXCEPT ![s] = TRUE]
                          ELSE closeReq
<1>1. /\ cleaning'[s] = (cleaning[s] \/ flag = "cleanup_started")
      /\ closeReq'[s] = (closeReq[s] \/ flag = "close_requested")
  BY DEF Store
<1>2. /\ cleaning' \in [Streams -> BOOLEAN] /\ closeReq' \in [Streams -> BOOLEAN]
      /\ cleaning \in [Streams -> BOOLEAN] /\ closeReq \in [Streams -> BOOLEAN]
  BY StoreTypes DEF Types
<1>3. \A r \in Streams \ {s} : cleaning'[r] = cleaning[r] /\ closeReq'[r] = closeReq[r]
  BY <1>2 DEF Store
<1>4. cleaning[s] \in BOOLEAN /\ closeReq[s] \in BOOLEAN
  BY <1>2
<1>5. CASE flag = "cleanup_started"
  <2>1. cleaning'[s] = TRUE /\ closeReq'[s] = closeReq[s]
    BY <1>1, <1>4, <1>5
  <2> QED
    BY <1>2, <1>3, <1>5, <2>1
<1>6. CASE flag = "close_requested"
  <2>1. cleaning'[s] = cleaning[s] /\ closeReq'[s] = TRUE
    BY <1>1, <1>4, <1>6
  <2> QED
    BY <1>2, <1>3, <1>6, <2>1
<1>7. CASE flag \notin {"cleanup_started", "close_requested"}
  <2>1. cleaning'[s] = cleaning[s] /\ closeReq'[s] = closeReq[s]
    BY <1>1, <1>4, <1>7
  <2> QED
    BY <1>2, <1>3, <1>7, <2>1
<1> QED
  BY <1>5, <1>6, <1>7

LEMMA StoreOrNotKeeps ==
    ASSUME Types, NEW t \in Threads, NEW s \in Streams, StoreOrNot(t, s), ~lost'
    PROVE  UNCHANGED <<cleaning, closeReq>>
BY StoreKeeps DEF StoreOrNot

\* Owners that stay are kept.
LEMMA KeepsAll ==
    ASSUME NEW c, NEW t, UNCHANGED <<refs, closeReq>>
    PROVE  Keeps(t, c)
BY DEF Keeps

\* The innermost call of t returns, ...
LEMMA ReturnMove ==
    ASSUME Types, Types', NEW c \in Streams, Inv(c), NEW t \in Threads,
           NEW label \in {"fetch", "claim", "write", "try", "queue", "pausing", "message",
                          "failing", "done"},
           At(t, label), Return(t), Keeps(t, c), label = "fetch" => refs' = refs,
           UNCHANGED <<private, bug, mutex, cleaning, phase, tornBy, misuse>>
    PROVE  Inv(c)'
<1>1. Local(c) /\ Popped(t)
  BY Returns DEF Inv
<1>2. /\ stack[t] # <<>> /\ Label(stack[t]) = label
      /\ Elsewhere(t) /\ Local(c)'
      /\ Label(stack'[t]) \in {"idle", "done", "quiet"}
      /\ Label(stack'[t]) = "quiet" <=> Nested(stack[t])
      /\ ~Nested(stack'[t]) /\ ~Closes(stack'[t])
  BY <1>1, CallShape, PoppedShape
<1>3. /\ Tears(stack'[t]) <=> Tears(stack[t])
      /\ Owns(stack'[t]) => Owns(stack[t])
      /\ Label(stack'[t]) \notin Setup \cup Critical \cup {"remove"}
  BY <1>2 DEF Tears, Owns, Closing, Setup, Critical
<1>4. Label(stack'[t]) \in {"quiet", "join", "destroy"} =>
          bug[c] # "attached" /\ (Known(c) => cleaning[c])
  BY <1>2 DEF Inv, Tearing
<1>5. Label(stack'[t]) \in Closing => t \in refs'[c]
  <2>1. Nested(stack[t]) => label = "fetch" /\ t \in refs[c]
    BY <1>1, CallShape DEF Inv, Owned
  <2> QED
    BY <1>2, <2>1 DEF Closing
<1> QED
  BY <1>2, <1>3, <1>4, <1>5, MoveStep

\* ... goes on to its next step, ...
LEMMA GoMove ==
    ASSUME Types, Types', NEW c \in Streams, Inv(c), NEW t \in Threads,
           NEW label, At(t, label), ~Nested(stack[t]),
           NEW next, NEW s, Replaced(t, Frame(next, s, stack[t][1].closing)),
           \/ label = "fetch" /\ next = "claim" /\ private = c /\ s = c
           \/ label = "message" /\ next = "play" /\ private = c /\ s = c
           \/ label = "failing" /\ next = "request" /\ private = c /\ s = c
           \/ label = "request" /\ next = "requesting" /\ s = c
           \/ label = "requesting" /\ next = "close" /\ s = c /\ closeReq'[c]
           \/ label = "pause" /\ next = "pausing" /\ s = c
           \/ label = "remove" /\ next = "quiet" /\ s = c /\ bug[c] # "attached"
           \/ label = "quiet" /\ next = "join" /\ s = c
           \/ label = "join" /\ next = "destroy" /\ s = c /\ (t = c \/ phase[c] = "ended"),
           closeReq[c] => closeReq'[c],
           UNCHANGED <<private, bug, mutex, cleaning, refs, phase, tornBy, misuse>>
    PROVE  Inv(c)'
<1> DEFINE f == Frame(next, s, stack[t][1].closing)
<1>1. Local(c) /\ f.at = next /\ f.s = s /\ f.closing = stack[t][1].closing
  BY DEF Inv, Frame
<1>2. /\ stack[t] # <<>> /\ Label(stack[t]) = label
      /\ t # "media" /\ (label = "pause" => t \notin Streams)
  <2>1. /\ stack[t] # <<>> /\ Label(stack[t]) = label
    BY <1>1, CallShape
  <2>2. stack[t][1].at = label /\ Len(stack[t]) >= 1 /\ Len(stack[t]) \in Nat
    BY InCall
  <2>3. Shape(t, stack[t])
    BY <1>1 DEF Local
  <2> QED
    BY <2>1, <2>2, <2>3
    DEF Shape, MediaShape, MediaCalls, WorkerShape, Callbacks, Closing
<1>3. /\ f.at \notin Loose => f.s = c
      /\ label \in Callbacks <=> f.at \in Callbacks
      /\ t \in Streams /\ label \notin Callbacks => f.at \in Closing \cup {"claim"}
  BY <1>1, <1>2 DEF Callbacks, Closing
<1> HIDE DEF f
<1>4. /\ Elsewhere(t) /\ Local(c)' /\ stack'[t] # <<>>
      /\ Label(stack'[t]) = f.at /\ ~Nested(stack'[t])
      /\ Closes(stack'[t]) => f.closing
  <2>1. Replaced(t, f)
    BY DEF f
  <2> QED
    BY <1>1, <1>2, <1>3, <2>1, ReplacedShape
<1>5. Closes(stack'[t]) => Closes(stack[t])
  BY <1>1, <1>2, <1>4 DEF Closes
<1>6. /\ Owns(stack'[t]) => Owns(stack[t])
      /\ Tears(stack'[t]) <=> Tears(stack[t])
      /\ Label(stack'[t]) \notin Setup \cup Critical \cup {"remove"}
  BY <1>1, <1>2, <1>4 DEF Tears, Owns, Closing, Setup, Critical
<1>8. /\ label = "remove" => cleaning[c]
      /\ label \in {"quiet", "join"} => bug[c] # "attached" /\ (Known(c) => cleaning[c])
  BY <1>2 DEF Inv, Tearing
<1>9. Label(stack'[t]) = next
  BY <1>1, <1>4
<1>10. cleaning[c] => (Tears(stack'[t]) <=> Tears(stack[t]))
  BY <1>6
<1>11. Label(stack'[t]) \in {"quiet", "join", "destroy"} =>
               bug[c] # "attached" /\ (Known(c) => cleaning[c])
  BY <1>8, <1>9
<1>12. /\ Label(stack'[t]) \in {"claim", "play"} => private = c
       /\ Label(stack'[t]) = "destroy" => t = c \/ phase[c] = "ended"
       /\ Label(stack[t]) \in {"publish", "remove"} => bug[c] # "attached"
       /\ Label(stack'[t]) # "claiming" /\ (Label(stack'[t]) = "close" => closeReq'[c])
  BY <1>2, <1>9
<1>13. Label(stack'[t]) \in Closing => t \in refs'[c]
  BY <1>2, <1>9 DEF Inv, Owned, Closing
<1>14. Keeps(t, c)
  BY DEF Keeps
<1> QED
  BY <1>2, <1>4, <1>5, <1>6, <1>10, <1>11, <1>12, <1>13, <1>14, MoveStep

\* ... or begins.
LEMMA CallMove ==
    ASSUME Types, Types', NEW c \in Streams, Inv(c), NEW t \in Threads, t \notin Streams,
           NEW f \in Frames, Idle(t), Call(t, f),
           f.at \in {"fetch", "copy", "pause", "queue", "try"}, f.closing = FALSE,
           f.at # "fetch" => f.s = c,
           t = "media" => f.at \in {"try", "queue"} /\ bug[c] = "attached",
           UNCHANGED <<private, bug, mutex, cleaning, closeReq, refs, phase, tornBy, misuse>>
    PROVE  Inv(c)'
<1>1. Elsewhere(t) /\ Len(stack'[t]) = 1 /\ stack'[t][1] = f /\ stack[t] = <<>>
  BY Calls DEF Idle
<1>2. /\ Local(c)
      /\ f.at \notin Loose => f.s = c
      /\ t \in Streams <=> f.at \in Callbacks
      /\ t = "media" => f.at \in MediaCalls
  BY DEF Inv, Loose, Callbacks, MediaCalls
<1>3. /\ Local(c)' /\ stack'[t] # <<>>
      /\ Label(stack'[t]) = f.at /\ ~Nested(stack'[t]) /\ ~Closes(stack'[t])
  BY <1>1, <1>2, CalledShape
<1>4. Label(stack[t]) = "idle" /\ ~Nested(stack[t])
  BY <1>1 DEF Label, Nested
<1>5. /\ ~Owns(stack'[t]) /\ ~Tears(stack'[t]) /\ ~Tears(stack[t])
      /\ Label(stack'[t]) \notin Setup \cup Critical \cup {"remove"}
  BY <1>3, <1>4 DEF Tears, Owns, Closing, Setup, Critical
<1>6. Keeps(t, c) /\ Label(stack'[t]) \notin Closing
  BY <1>5 DEF Keeps, Tears
<1> QED
  BY <1>1, <1>3, <1>4, <1>5, <1>6, MoveStep

-----------------------------------------------------------------------------
(* The actions. *)

\* Any stream that is attached, called about or running is the one in use.
LEMMA Only ==
    ASSUME Types, NEW c \in Streams, Inv(c)
    PROVE  /\ private # None => private = c
           /\ \A s \in Streams : bug[s] = "attached" \/ stack[s] # <<>>
                                 \/ phase[s] \notin {"new", "ended"} => s = c
BY DEF Types, Inv, Over

\* One step per action: the teardown, ...
LEMMA TeardownInv ==
    ASSUME Types, Types', Holder, NEW c \in Streams, Inv(c), ~lost', NEW t \in Threads,
           Teardown(t)
    PROVE  Inv(c)'
<1> USE Threading
<1>1. Local(c)
  BY DEF Inv
<1>2. CASE Fetch(t) /\ private = None
  BY <1>2, ReturnMove, KeepsAll DEF Fetch, streamVars
<1>3. CASE Fetch(t) /\ private # None
  <2>1. At(t, "fetch") /\ GotoWithBug(t, "claim") /\ private = c
    BY <1>3, Only DEF Fetch
  <2>2. Replaced(t, Frame("claim", c, stack[t][1].closing))
    BY <1>3, <2>1, Learns DEF Labels
  <2>3. ~Nested(stack[t])
    <3>1. Nested(stack[t]) => cleaning[c]
      BY DEF Inv, Tearing
    <3> QED
      BY <3>1, <2>1 DEF Inv, Torn
  <2> QED
    BY <1>3, <2>1, <2>2, <2>3, GoMove DEF Fetch, streamVars
<1>4. CASE Claim(t)
  <2>1. At(t, "claim")
    BY <1>4 DEF Claim
  <2>2. /\ misuse = {} /\ stack[t] # <<>> /\ Label(stack[t]) = "claim" /\ Of(t) = c
        /\ ~Nested(stack[t])
    BY <1>1, <2>1, CallShape DEF Loose
  <2> DEFINE f == Frame("claiming", c, stack[t][1].closing)
  <2>3. Replaced(t, f)
    BY <1>4, <2>1, <2>2, Goes DEF Claim, Labels, Loose
  <2>4. f.at = "claiming" /\ f.s = c /\ f.closing = stack[t][1].closing
    BY DEF Frame
  <2>5. t # "media"
    <3>1. Shape(t, stack[t]) /\ stack[t][1].at = "claim" /\ Len(stack[t]) >= 1
      BY <1>1, <2>1, InCall DEF Local
    <3> QED
      BY <3>1 DEF Shape, MediaShape, MediaCalls
  <2> HIDE DEF f
  <2>6. /\ Elsewhere(t) /\ Local(c)' /\ Label(stack'[t]) = "claiming" /\ ~Nested(stack'[t])
        /\ Closes(stack'[t]) => f.closing
    <3>1. "claim" \notin Callbacks /\ f.at \notin Callbacks
      BY <2>4 DEF Callbacks
    <3> QED
      BY <1>1, <2>1, <2>2, <2>3, <2>4, <2>5, <3>1, ReplacedShape
  <2>7. Closes(stack'[t]) => Closes(stack[t])
    BY <2>2, <2>4, <2>6 DEF Closes
  <2>8. ~cleaning[c] /\ mutex[c] = "free" /\ mutex' = [mutex EXCEPT ![c] = t]
        /\ UNCHANGED <<private, bug, cleaning, closeReq, refs, phase, tornBy, misuse>>
    BY <1>4, <2>2 DEF Claim, MayClaim
  <2>9. Keeps(t, c)
    BY <2>8, KeepsAll
  <2> QED
    BY <2>2, <2>6, <2>7, <2>8, <2>9, LockStep
<1>5. CASE ComeTooLate(t)
  BY <1>5, ReturnMove, KeepsAll DEF ComeTooLate, streamVars
<1>6. CASE TakeOver(t)
  <2> DEFINE next == IF MustRemove(stack[t][1].closing) THEN "remove" ELSE "quiet"
             f == Frame(next, c, stack[t][1].closing)
  <2>1. At(t, "claiming")
    BY <1>6 DEF TakeOver
  <2>2. /\ misuse = {} /\ stack[t] # <<>> /\ Label(stack[t]) = "claiming" /\ Of(t) = c
        /\ ~Nested(stack[t]) /\ Head(stack[t]) = stack[t][1] /\ stack[t][1] \in Frames
    BY <1>1, <2>1, CallShape, InCall DEF Loose
  <2>3. Goto(t, next)
    BY <1>6, <2>2 DEF TakeOver
  <2>4. next \in {"remove", "quiet"} /\ (next = "quiet" => stack[t][1].closing)
    BY <2>2 DEF MustRemove, Frames
  <2> HIDE DEF next
  <2>5. Replaced(t, f)
    BY <2>1, <2>2, <2>3, <2>4, Goes DEF Labels, Loose
  <2>6. f.at = next /\ f.s = c
    BY DEF Frame
  <2>7. t # "media"
    <3>1. Shape(t, stack[t]) /\ stack[t][1].at = "claiming" /\ Len(stack[t]) >= 1
      BY <1>1, <2>1, InCall DEF Local
    <3> QED
      BY <3>1 DEF Shape, MediaShape, MediaCalls
  <2> HIDE DEF f
  <2>8. /\ Elsewhere(t) /\ Local(c)' /\ Label(stack'[t]) = next /\ ~Nested(stack'[t])
    <3>1. "claiming" \notin Callbacks /\ f.at \notin Callbacks /\ f.at \in Closing
      BY <2>4, <2>6 DEF Callbacks, Closing
    <3> QED
      BY <1>1, <2>1, <2>2, <2>5, <2>6, <2>7, <3>1, ReplacedShape
  <2>9. next = "quiet" => bug[c] # "attached"
    BY <2>2, <2>4 DEF Closes, Inv, Closings
  <2>10. Store(t, c, "cleanup_started")
    BY <1>6, <2>2 DEF TakeOver
  <2>11. cleaning' = [cleaning EXCEPT ![c] = TRUE] /\ closeReq' = closeReq
    BY <2>10, StoreKeeps
  <2>12. \E closing \in BOOLEAN :
             tornBy' = [tornBy EXCEPT ![c] = tornBy[c] \cup {<<t, closing>>}]
    <3>1. stack[t][1].closing \in BOOLEAN
      BY <2>2 DEF Frames
    <3>2. tornBy' = [tornBy EXCEPT ![c] = tornBy[c] \cup {<<t, stack[t][1].closing>>}]
      BY <1>6, <2>2 DEF TakeOver
    <3> QED
      BY <3>1, <3>2
  <2>13. /\ private' = None /\ mutex' = Unlocked(c)
         /\ refs' = [refs EXCEPT ![c] = IF "wrap" \in refs[c]
                                        THEN (refs[c] \ {"wrap"}) \cup {t} ELSE refs[c]]
         /\ UNCHANGED <<bug, phase, misuse>>
    BY <1>6, <2>2 DEF TakeOver
  <2>14. Label(stack'[t]) \in {"remove", "quiet"}
         /\ (Label(stack'[t]) = "quiet" => bug[c] # "attached")
    BY <2>4, <2>8, <2>9
  <2> QED
    BY <2>2, <2>8, <2>11, <2>12, <2>13, <2>14, ClaimStep
<1>7. CASE Remove(t)
  <2>1. At(t, "remove") /\ "remove" \notin Loose
    BY <1>7 DEF Remove, Loose
  <2>2. /\ misuse = {} /\ stack[t] # <<>> /\ Label(stack[t]) = "remove" /\ Of(t) = c
        /\ ~Nested(stack[t])
    BY <1>1, <2>1, CallShape
  <2>3. CASE bug[c] = "attached"
    <3>1. (~closeReq[c]) \in BOOLEAN
      BY DEF Types
    <3>2. Cleanup(~closeReq[c]) \in Frames
      BY Cleanups
    <3>3. GotoAndCall(t, "quiet", Cleanup(~closeReq[c]))
      BY <1>7, <2>2, <2>3 DEF Remove
    <3>4. ReplacedAndPushed(t, Cleanup(~closeReq[c]),
                            Frame("quiet", c, stack[t][1].closing))
      BY <2>1, <2>2, <3>2, <3>3, Nests DEF Labels
    <3>5. /\ Elsewhere(t) /\ Local(c)' /\ stack'[t] # <<>>
          /\ Label(stack'[t]) = "fetch" /\ Nested(stack'[t])
      BY <1>1, <2>1, <3>1, <3>4, RemovedShape
    <3>6. stack["media"] = <<>> /\ t # "media"
      BY <1>7, <2>2, <2>3 DEF Remove, MayRemove
    <3>7. /\ bug' = [bug EXCEPT ![c] = "removed"]
          /\ UNCHANGED <<private, mutex, cleaning, closeReq, refs, phase, tornBy, misuse>>
      BY <1>7, <2>2, <2>3 DEF Remove
    <3> QED
      BY <2>2, <2>3, <3>5, <3>6, <3>7, DetachStep
  <2>4. CASE bug[c] # "attached"
    <3>1. /\ Goto(t, "quiet")
          /\ UNCHANGED <<private, bug, mutex, cleaning, closeReq, refs, phase, tornBy, misuse>>
      BY <1>7, <2>2, <2>4 DEF Remove
    <3>2. Replaced(t, Frame("quiet", c, stack[t][1].closing))
      BY <2>1, <2>2, <3>1, Goes DEF Labels
    <3> QED
      BY <2>1, <2>2, <2>4, <3>1, <3>2, GoMove
  <2> QED
    BY <2>3, <2>4
<1>8. CASE Quieten(t)
  <2>1. At(t, "quiet") /\ "quiet" \notin Loose /\ Goto(t, "join")
    BY <1>8 DEF Quieten, Loose
  <2>2. Of(t) = c /\ ~Nested(stack[t])
    BY <1>1, <2>1, CallShape
  <2>3. Replaced(t, Frame("join", c, stack[t][1].closing))
    BY <2>1, <2>2, Goes DEF Labels
  <2> QED
    BY <1>8, <2>1, <2>2, <2>3, GoMove DEF Quieten
<1>9. CASE Join(t)
  <2>1. At(t, "join") /\ "join" \notin Loose /\ Goto(t, "destroy")
    BY <1>9 DEF Join, Loose
  <2>2. Of(t) = c /\ ~Nested(stack[t])
    BY <1>1, <2>1, CallShape
  <2>3. Replaced(t, Frame("destroy", c, stack[t][1].closing))
    BY <2>1, <2>2, Goes DEF Labels
  <2>4. t = c \/ phase[c] = "ended"
    BY <1>9, <2>2 DEF Join, Joined
  <2> QED
    BY <1>9, <2>1, <2>2, <2>3, <2>4, GoMove DEF Join, streamVars
<1>10. CASE Destroy(t)
  <2>1. At(t, "destroy") /\ "destroy" \notin Loose /\ Return(t)
    BY <1>10 DEF Destroy, Loose
  <2>2. /\ misuse = {} /\ stack[t] # <<>> /\ Label(stack[t]) = "destroy" /\ Of(t) = c
        /\ ~Nested(stack[t])
    BY <1>1, <2>1, CallShape
  <2>3. Popped(t)
    BY <2>1, Returns
  <2>4. /\ Elsewhere(t) /\ Local(c)'
        /\ Label(stack'[t]) \in {"idle", "done"} /\ ~Nested(stack'[t])
    BY <1>1, <2>1, <2>2, <2>3, PoppedShape
  <2>5. Keeps(t, c)
    <3>1. refs' = [refs EXCEPT ![c] = refs[c] \ {t}] /\ closeReq' = closeReq
      BY <1>10, <2>2 DEF Destroy
    <3> QED
      BY <3>1 DEF Types, Keeps
  <2> QED
    BY <1>10, <2>2, <2>4, <2>5, DestroyStep DEF Destroy
<1>11. CASE NoStreamer(t)
  <2>1. At(t, "quiet") /\ t \notin refs[Of(t)]
    BY <1>11 DEF NoStreamer
  <2>2. Of(t) = c /\ Label(stack[t]) = "quiet"
    BY <1>1, <2>1, CallShape DEF Loose
  <2>3. FALSE
    BY <2>1, <2>2 DEF Inv, Owned, Closing
  <2> QED
    BY <2>3
<1> QED
  BY <1>2, <1>3, <1>4, <1>5, <1>6, <1>7, <1>8, <1>9, <1>10, <1>11 DEF Teardown

\* ... the API commands and what the media thread shares with them, ...
LEMMA CommandInv ==
    ASSUME Types, Types', NEW c \in Streams, Inv(c), ~lost', NEW t \in Threads, Command(t)
    PROVE  Inv(c)'
<1> USE Threading
<1>1. Local(c)
  BY DEF Inv
<1>2. ASSUME NEW label \in {"init", "add", "publish", "copy", "copied", "pause", "pausing",
                           "queue", "queued"}, At(t, label)
      PROVE  /\ misuse = {} /\ stack[t] # <<>> /\ Label(stack[t]) = label /\ Of(t) = c
             /\ ~Nested(stack[t]) /\ t \notin Streams
             /\ t = "media" => label \in {"copied", "queue", "queued"}
  <2>1. /\ misuse = {} /\ stack[t] # <<>> /\ Label(stack[t]) = label /\ Of(t) = c
        /\ ~Nested(stack[t])
    BY <1>1, <1>2, CallShape DEF Loose
  <2>2. stack[t][1].at = label /\ Len(stack[t]) >= 1
    BY <1>2, InCall
  <2>3. t \in Streams => WorkerShape(stack[t])
    BY <1>1 DEF Local, Shape
  <2>4. t \notin Streams
    BY <2>2, <2>3 DEF WorkerShape, Callbacks, Closing
  <2>5. t = "media" => MediaShape(stack[t])
    BY <1>1 DEF Local, Shape
  <2>6. t = "media" => label \in {"copied", "queue", "queued"}
    BY <2>2, <2>5 DEF MediaShape, MediaCalls
  <2> QED
    BY <2>1, <2>4, <2>6
<1>3. ASSUME NEW label \in {"init", "add", "copy", "copied", "queue"}, At(t, label),
             NEW next \in {"add", "publish", "quiet", "copied", "write", "queued"},
             Goto(t, next), t = "media" => next \in {"write", "queued"}
      PROVE  /\ Elsewhere(t) /\ Local(c)' /\ Label(stack'[t]) = next /\ ~Nested(stack'[t])
  <2> DEFINE f == Frame(next, c, stack[t][1].closing)
  <2>1. Of(t) = c /\ ~Nested(stack[t]) /\ t \notin Streams
    BY <1>2, <1>3
  <2>2. Replaced(t, f)
    BY <1>3, <2>1, Goes DEF Labels, Loose
  <2>3. f.at = next /\ f.s = c
    BY DEF Frame
  <2> HIDE DEF f
  <2>4. label \notin Callbacks /\ f.at \notin Callbacks
        /\ (t = "media" => f.at \in MediaCalls)
    BY <1>3, <2>3 DEF Callbacks, MediaCalls
  <2> QED
    BY <1>1, <1>3, <2>1, <2>2, <2>3, <2>4, ReplacedShape
<1>4. ASSUME NEW label \in {"init", "publish", "queued"}, At(t, label), Return(t)
      PROVE  /\ Elsewhere(t) /\ Local(c)' /\ Label(stack'[t]) = "idle" /\ ~Nested(stack'[t])
  <2>1. Popped(t)
    BY <1>4, Returns
  <2>2. /\ Elsewhere(t) /\ Local(c)' /\ Label(stack'[t]) \in {"idle", "done"}
        /\ ~Nested(stack'[t])
    BY <1>1, <1>2, <1>4, <2>1, PoppedShape
  <2>3. t \notin Streams
    BY <1>2, <1>4
  <2>4. Label(stack'[t]) # "done"
    <3>1. Shape(t, stack'[t]) /\ stack'[t] \in Seq(Frames)
      BY <2>2 DEF Local, Types
    <3>2. CallerShape(stack'[t]) \/ MediaShape(stack'[t])
      BY <3>1, <2>3 DEF Shape, Threads
    <3>3. stack'[t] # <<>> => Len(stack'[t]) # 0
      BY <3>1, TopOf
    <3> QED
      BY <3>2, <3>3 DEF CallerShape, MediaShape, MediaCalls, Callbacks, Label
  <2> QED
    BY <2>2, <2>4
<1>5. CASE InitSession(t)
  <2>1. At(t, "init") /\ Goto(t, "add")
    BY <1>5 DEF InitSession
  <2>2. /\ Of(t) = c /\ misuse = {} /\ stack[t] # <<>> /\ Label(stack[t]) = "init"
        /\ ~Nested(stack[t]) /\ t # "media"
    BY <1>2, <2>1
  <2>3. /\ Elsewhere(t) /\ Local(c)' /\ Label(stack'[t]) = "add" /\ ~Nested(stack'[t])
    BY <1>3, <2>1, <2>2
  <2> QED
    BY <1>5, <2>2, <2>3, InitStep DEF InitSession
<1>6. CASE InitFails(t)
  <2>1. At(t, "init") /\ Return(t)
    BY <1>6 DEF InitFails
  <2>2. /\ Of(t) = c /\ misuse = {} /\ stack[t] # <<>> /\ Label(stack[t]) = "init"
        /\ ~Nested(stack[t])
    BY <1>2, <2>1
  <2>3. /\ Elsewhere(t) /\ Local(c)' /\ Label(stack'[t]) = "idle" /\ ~Nested(stack'[t])
    BY <1>4, <2>1
  <2> QED
    BY <1>6, <2>2, <2>3, InitStep DEF InitFails
<1>7. CASE AddBug(t)
  <2>1. At(t, "add") /\ Goto(t, "publish")
    BY <1>7 DEF AddBug
  <2>2. /\ Of(t) = c /\ misuse = {} /\ stack[t] # <<>> /\ Label(stack[t]) = "add"
        /\ ~Nested(stack[t]) /\ t # "media"
    BY <1>2, <2>1
  <2>3. /\ Elsewhere(t) /\ Local(c)' /\ Label(stack'[t]) = "publish" /\ ~Nested(stack'[t])
    BY <1>3, <2>1, <2>2
  <2> QED
    BY <1>7, <2>2, <2>3, AddBugStep DEF AddBug
<1>8. CASE AddBugFails(t)
  <2>1. At(t, "add") /\ Goto(t, "quiet")
    BY <1>8 DEF AddBugFails
  <2>2. /\ Of(t) = c /\ misuse = {} /\ stack[t] # <<>> /\ Label(stack[t]) = "add"
        /\ ~Nested(stack[t]) /\ t # "media" /\ t \notin Streams
    BY <1>2, <2>1
  <2>3. /\ Elsewhere(t) /\ Local(c)' /\ Label(stack'[t]) = "quiet" /\ ~Nested(stack'[t])
    BY <1>3, <2>1, <2>2
  <2>4. /\ ~Known(c) /\ ~cleaning[c] /\ bug[c] = "none"
    BY <2>2 DEF Inv, SettingUp, Setup, Known
  <2>5. refs' = [refs EXCEPT ![c] = (refs[c] \ {"wrap"}) \cup {t}]
        /\ UNCHANGED <<private, bug, mutex, cleaning, closeReq, phase, tornBy, misuse>>
    BY <1>8, <2>2 DEF AddBugFails
  <2>6. Keeps(t, c) /\ t \in refs'[c]
    BY <2>2, <2>5, NamesDistinct DEF Types, Keeps
  <2>7. /\ Owns(stack[t]) /\ ~Closes(stack'[t])
        /\ Label(stack'[t]) \notin Setup \cup Critical \cup {"remove"}
    BY <2>2, <2>3 DEF Owns, Closes, Setup, Critical
  <2> QED
    BY <2>2, <2>3, <2>4, <2>5, <2>6, <2>7, MoveStep
<1>9. CASE Publish(t)
  <2>1. At(t, "publish") /\ Return(t)
    BY <1>9 DEF Publish
  <2>2. /\ Of(t) = c /\ misuse = {} /\ stack[t] # <<>> /\ Label(stack[t]) = "publish"
        /\ ~Nested(stack[t])
    BY <1>2, <2>1
  <2>3. /\ Elsewhere(t) /\ Local(c)' /\ Label(stack'[t]) = "idle" /\ ~Nested(stack'[t])
    BY <1>4, <2>1
  <2> QED
    BY <1>9, <2>2, <2>3, PublishStep DEF Publish, streamVars
<1>10. CASE CopyStreamer(t)
  <2>1. At(t, "copy") /\ Goto(t, "copied")
    BY <1>10 DEF CopyStreamer
  <2>2. /\ Of(t) = c /\ misuse = {} /\ stack[t] # <<>> /\ Label(stack[t]) = "copy"
        /\ ~Nested(stack[t]) /\ t # "media"
    BY <1>2, <2>1
  <2>3. /\ Elsewhere(t) /\ Local(c)' /\ Label(stack'[t]) = "copied" /\ ~Nested(stack'[t])
    BY <1>3, <2>1, <2>2
  <2>4. Keeps(t, c)
    <3>1. /\ refs' = [refs EXCEPT ![c] = IF "wrap" \in refs[c] THEN refs[c] \cup {t}
                                         ELSE refs[c]]
          /\ closeReq' = closeReq
      BY <1>10, <2>2 DEF CopyStreamer
    <3> QED
      BY <3>1 DEF Types, Keeps
  <2>5. ~Closes(stack'[t])
    BY <2>3 DEF Closes
  <2> QED
    BY <1>10, <2>2, <2>3, <2>4, <2>5, LockStep DEF CopyStreamer
<1>11. CASE UnlockCopy(t)
  <2>1. At(t, "copied") /\ Goto(t, "write")
    BY <1>11 DEF UnlockCopy
  <2>2. /\ Of(t) = c /\ misuse = {} /\ stack[t] # <<>> /\ Label(stack[t]) = "copied"
        /\ ~Nested(stack[t])
    BY <1>2, <2>1
  <2>3. /\ Elsewhere(t) /\ Local(c)' /\ Label(stack'[t]) = "write" /\ ~Nested(stack'[t])
    BY <1>3, <2>1, <2>2
  <2> QED
    BY <1>11, <2>2, <2>3, UnlockStep DEF UnlockCopy
<1>12. CASE Write(t)
  <2>1. Keeps(t, c)
    BY <1>12 DEF Write, Types, Keeps
  <2> QED
    BY <1>12, <2>1, ReturnMove DEF Write
<1>13. CASE LoadPause(t)
  <2>1. At(t, "pause") /\ "pause" \notin Loose /\ Goto(t, "pausing")
    BY <1>13 DEF LoadPause, Loose
  <2>2. Of(t) = c /\ ~Nested(stack[t])
    BY <1>2, <2>1
  <2>3. Replaced(t, Frame("pausing", c, stack[t][1].closing))
    BY <2>1, <2>2, Goes DEF Labels
  <2>4. UNCHANGED <<private, bug, mutex, cleaning, closeReq, refs, phase, tornBy, misuse>>
    BY <1>13 DEF LoadPause, streamVars
  <2> QED
    BY <2>1, <2>2, <2>3, <2>4, GoMove
<1>14. CASE StorePause(t)
  <2>1. At(t, "pausing") /\ Return(t) /\ Store(t, Of(t), "audio_paused")
    BY <1>14 DEF StorePause
  <2>2. Of(t) = c
    BY <1>2, <2>1
  <2>3. UNCHANGED <<cleaning, closeReq>>
    BY <2>1, <2>2, StoreKeeps
  <2>4. UNCHANGED <<private, bug, mutex, refs, phase, tornBy, misuse>>
    BY <1>14 DEF StorePause
  <2>5. Keeps(t, c)
    BY <2>3, <2>4, KeepsAll
  <2> QED
    BY <2>1, <2>3, <2>4, <2>5, ReturnMove
<1>15. CASE LockQueue(t)
  <2>1. At(t, "queue") /\ Goto(t, "queued")
    BY <1>15 DEF LockQueue
  <2>2. /\ Of(t) = c /\ misuse = {} /\ stack[t] # <<>> /\ Label(stack[t]) = "queue"
        /\ ~Nested(stack[t])
    BY <1>2, <2>1
  <2>3. /\ Elsewhere(t) /\ Local(c)' /\ Label(stack'[t]) = "queued" /\ ~Nested(stack'[t])
    BY <1>3, <2>1, <2>2
  <2>4. Keeps(t, c) /\ ~Closes(stack'[t])
    BY <1>15, <2>3, KeepsAll DEF LockQueue, Closes
  <2> QED
    BY <1>15, <2>2, <2>3, <2>4, LockStep DEF LockQueue
<1>16. CASE UnlockQueue(t)
  <2>1. At(t, "queued") /\ Return(t) /\ StoreOrNot(t, Of(t))
    BY <1>16 DEF UnlockQueue
  <2>2. /\ Of(t) = c /\ misuse = {} /\ stack[t] # <<>> /\ Label(stack[t]) = "queued"
        /\ ~Nested(stack[t])
    BY <1>2, <2>1
  <2>3. /\ Elsewhere(t) /\ Local(c)' /\ Label(stack'[t]) = "idle" /\ ~Nested(stack'[t])
    BY <1>4, <2>1
  <2>4. UNCHANGED <<cleaning, closeReq>>
    BY <2>1, <2>2, StoreOrNotKeeps
  <2> QED
    BY <1>16, <2>2, <2>3, <2>4, UnlockStep DEF UnlockQueue
<1> QED
  BY <1>5, <1>6, <1>7, <1>8, <1>9, <1>10, <1>11, <1>12, <1>13, <1>14, <1>15, <1>16
  DEF Command

\* ... the callbacks of the worker, ...
LEMMA WorkerInv ==
    ASSUME Types, Types', NEW c \in Streams, Inv(c), ~lost', NEW s \in Streams, Worker(s)
    PROVE  Inv(c)'
<1> USE Threading
<1>1. Local(c)
  BY DEF Inv
<1>2. PICK label \in Callbacks : At(s, label)
  BY DEF Worker, NobodyListens, FindBug, LockPlayback, UnlockPlayback, FindBugToClose,
         LoadRequest, StoreRequest, CloseBug, NothingToClose, Done, Callbacks
<1>3. /\ misuse = {} /\ stack[s] # <<>> /\ Label(stack[s]) = label /\ ~Nested(stack[s])
  BY <1>1, <1>2, CallShape DEF Callbacks
<1>4. s = c
  BY <1>3, Only
<1>5. CASE NobodyListens(s) \/ NothingToClose(s) \/ Done(s)
  <2>1. CallbackReturns(s) /\ \E l \in {"message", "failing", "done"} : At(s, l)
    BY <1>5 DEF NobodyListens, NothingToClose, Done
  <2>2. Keeps(s, c)
    BY <2>1 DEF CallbackReturns, Types, Keeps
  <2> QED
    BY <2>1, <2>2, ReturnMove DEF CallbackReturns
<1>6. CASE FindBug(s)
  <2>1. At(s, "message") /\ private = c /\ GotoWithBug(s, "play") /\ private # None
    BY <1>6, Only DEF FindBug
  <2>2. Replaced(s, Frame("play", c, stack[s][1].closing))
    BY <2>1, Learns DEF Labels
  <2> QED
    BY <1>6, <1>3, <2>1, <2>2, GoMove DEF FindBug, streamVars
<1>7. CASE LockPlayback(s)
  <2>1. At(s, "play") /\ "play" \notin Loose /\ Goto(s, "played")
    BY <1>7 DEF LockPlayback, Loose
  <2>2. Of(s) = c /\ Label(stack[s]) = "play"
    BY <1>1, <2>1, CallShape
  <2> DEFINE f == Frame("played", c, stack[s][1].closing)
  <2>3. Replaced(s, f)
    BY <2>1, <2>2, Goes DEF Labels
  <2>4. f.at = "played" /\ f.s = c
    BY DEF Frame
  <2> HIDE DEF f
  <2>5. /\ Elsewhere(s) /\ Local(c)' /\ Label(stack'[s]) = "played" /\ ~Nested(stack'[s])
    <3>1. "play" \in Callbacks /\ f.at \in Callbacks
      BY <2>4 DEF Callbacks
    <3> QED
      BY <1>1, <1>3, <2>1, <2>3, <2>4, <3>1, ReplacedShape
  <2>6. Keeps(s, c) /\ ~Closes(stack'[s])
    BY <1>7, <2>5, KeepsAll DEF LockPlayback, Closes
  <2> QED
    BY <1>7, <1>3, <2>2, <2>5, <2>6, LockStep DEF LockPlayback
<1>8. CASE UnlockPlayback(s)
  <2>1. At(s, "played") /\ "played" \notin Loose /\ Goto(s, "done")
    BY <1>8 DEF UnlockPlayback, Loose
  <2>2. Of(s) = c /\ Label(stack[s]) = "played"
    BY <1>1, <2>1, CallShape
  <2> DEFINE f == Frame("done", c, stack[s][1].closing)
  <2>3. Replaced(s, f)
    BY <2>1, <2>2, Goes DEF Labels
  <2>4. f.at = "done" /\ f.s = c
    BY DEF Frame
  <2> HIDE DEF f
  <2>5. /\ Elsewhere(s) /\ Local(c)' /\ Label(stack'[s]) = "done" /\ ~Nested(stack'[s])
    <3>1. "played" \in Callbacks /\ f.at \in Callbacks
      BY <2>4 DEF Callbacks
    <3> QED
      BY <1>1, <1>3, <2>1, <2>3, <2>4, <3>1, ReplacedShape
  <2>6. UNCHANGED <<cleaning, closeReq>>
    BY <1>8, <2>2, StoreOrNotKeeps DEF UnlockPlayback
  <2> QED
    BY <1>8, <1>3, <2>2, <2>5, <2>6, UnlockStep DEF UnlockPlayback
<1>9. CASE FindBugToClose(s)
  <2>1. At(s, "failing") /\ private = c /\ GotoWithBug(s, "request") /\ private # None
    BY <1>9, Only DEF FindBugToClose
  <2>2. Replaced(s, Frame("request", c, stack[s][1].closing))
    BY <2>1, Learns DEF Labels
  <2> QED
    BY <1>9, <1>3, <2>1, <2>2, GoMove DEF FindBugToClose, streamVars
<1>10. CASE LoadRequest(s)
  <2>1. At(s, "request") /\ "request" \notin Loose /\ Goto(s, "requesting")
    BY <1>10 DEF LoadRequest, Loose
  <2>2. Of(s) = c
    BY <1>1, <2>1, CallShape
  <2>3. Replaced(s, Frame("requesting", c, stack[s][1].closing))
    BY <2>1, <2>2, Goes DEF Labels
  <2>4. UNCHANGED <<private, bug, mutex, cleaning, closeReq, refs, phase, tornBy, misuse>>
    BY <1>10 DEF LoadRequest, streamVars
  <2> QED
    BY <1>3, <2>1, <2>3, <2>4, GoMove
<1>11. CASE StoreRequest(s)
  <2>1. /\ At(s, "requesting") /\ "requesting" \notin Loose /\ Goto(s, "close")
        /\ Store(s, Of(s), "close_requested")
    BY <1>11 DEF StoreRequest, Loose
  <2>2. Of(s) = c
    BY <1>1, <2>1, CallShape
  <2>3. Replaced(s, Frame("close", c, stack[s][1].closing))
    BY <2>1, <2>2, Goes DEF Labels
  <2>4. cleaning' = cleaning /\ closeReq' = [closeReq EXCEPT ![c] = TRUE]
    BY <2>1, <2>2, StoreKeeps
  <2>5. closeReq'[c]
    BY <2>4 DEF Types
  <2>6. UNCHANGED <<private, bug, mutex, refs, phase, tornBy, misuse>>
    BY <1>11 DEF StoreRequest
  <2> QED
    BY <1>3, <2>1, <2>3, <2>4, <2>5, <2>6, GoMove
<1>12. CASE CloseBug(s)
  <2>1. At(s, "close") /\ "close" \notin Loose
    BY <1>12 DEF CloseBug, Loose
  <2>2. Of(s) = c /\ Label(stack[s]) = "close"
    BY <1>1, <2>1, CallShape
  <2>3. closeReq[c]
    BY <2>2 DEF Inv, Requested
  <2>4. (~closeReq[c]) = FALSE
    BY <2>3
  <2>5. GotoAndCall(s, "done", Cleanup(FALSE))
    BY <1>12, <2>2, <2>4, Zenon DEF CloseBug
  <2>6. ReplacedAndPushed(s, Cleanup(FALSE), Frame("done", Of(s), stack[s][1].closing))
    BY <2>1, <2>5, Nests, Cleanups DEF Labels, Loose
  <2>7. /\ Elsewhere(s) /\ Local(c)' /\ stack'[s] # <<>>
        /\ Label(stack'[s]) = "fetch" /\ ~Nested(stack'[s]) /\ ~Closes(stack'[s])
    BY <1>1, <2>1, <2>6, ClosedShape
  <2>8. /\ ~Owns(stack'[s]) /\ ~Tears(stack'[s]) /\ ~Tears(stack[s])
        /\ Label(stack'[s]) \notin Setup \cup Critical \cup {"remove"} \cup Closing
    BY <1>3, <2>2, <2>7 DEF Tears, Owns, Closing, Setup, Critical
  <2>9. /\ UNCHANGED <<private, bug, mutex, cleaning, closeReq, refs, phase, tornBy, misuse>>
        /\ Keeps(s, c)
    BY <1>12, KeepsAll DEF CloseBug, streamVars
  <2> QED
    BY <1>3, <2>2, <2>7, <2>8, <2>9, MoveStep
<1> QED
  BY <1>5, <1>6, <1>7, <1>8, <1>9, <1>10, <1>11, <1>12 DEF Worker

\* ... the media thread, ...
LEMMA MediaInv ==
    ASSUME Types, Types', NEW c \in Streams, Inv(c), RunMedia
    PROVE  Inv(c)'
<1> USE Threading
<1> DEFINE t == "media"
<1>1. Local(c)
  BY DEF Inv
<1>2. CASE TryLockFails
  BY <1>2, ReturnMove, KeepsAll DEF TryLockFails, streamVars
<1>3. CASE TryLock
  <2>1. At(t, "try") /\ "try" \notin Loose /\ Goto(t, "copied")
    BY <1>3 DEF TryLock, Loose
  <2>2. /\ misuse = {} /\ stack[t] # <<>> /\ Label(stack[t]) = "try" /\ Of(t) = c
        /\ ~Nested(stack[t])
    BY <1>1, <2>1, CallShape
  <2> DEFINE f == Frame("copied", c, stack[t][1].closing)
  <2>3. Replaced(t, f)
    BY <2>1, <2>2, Goes DEF Labels
  <2>4. f.at = "copied" /\ f.s = c
    BY DEF Frame
  <2> HIDE DEF f
  <2>5. /\ Elsewhere(t) /\ Local(c)' /\ Label(stack'[t]) = "copied" /\ ~Nested(stack'[t])
    <3>1. "try" \notin Callbacks /\ f.at \notin Callbacks /\ f.at \in MediaCalls
      BY <2>4 DEF Callbacks, MediaCalls
    <3> QED
      BY <1>1, <2>1, <2>2, <2>3, <2>4, <3>1, ReplacedShape
  <2>6. Keeps(t, c) /\ ~Closes(stack'[t])
    <3>1. /\ refs' = [refs EXCEPT ![c] = IF "wrap" \in refs[c] THEN refs[c] \cup {t}
                                         ELSE refs[c]]
          /\ closeReq' = closeReq
      BY <1>3, <2>2 DEF TryLock
    <3>2. ~Closes(stack'[t])
      BY <2>5 DEF Closes
    <3> QED
      BY <3>1, <3>2 DEF Types, Keeps
  <2>7. /\ mutex[c] = "free" /\ mutex' = [mutex EXCEPT ![c] = t]
        /\ UNCHANGED <<private, bug, cleaning, phase, tornBy, misuse>>
    BY <1>3, <2>2 DEF TryLock
  <2> QED
    BY <2>2, <2>5, <2>6, <2>7, LockStep
<1> QED
  BY <1>2, <1>3 DEF RunMedia

\* ... the worker itself, ...
LEMMA MovesInv ==
    ASSUME Types, Types', NEW c \in Streams, Inv(c), NEW s \in Streams, WorkerMoves(s)
    PROVE  Inv(c)'
<1> USE Threading
<1>1. Idle(s) /\ misuse = {} /\ stack[s] = <<>> /\ Local(c)
      /\ UNCHANGED <<private, bug, mutex, cleaning, closeReq, tornBy, misuse>>
  BY DEF WorkerMoves, Idle, Inv
<1>2. PICK next \in Follows(s) : phase' = [phase EXCEPT ![s] = next]
  BY DEF WorkerMoves
<1>3. phase[s] \notin {"new", "ended"} /\ next # "new" /\ phase'[s] = next
  BY <1>2 DEF Follows, Types
<1>4. s = c
  BY <1>3, Only
<1>5. Keeps(c, c)
  <2>1. CASE refs' = [refs EXCEPT ![s] = refs[s] \cup {"self"}]
    BY <1>1, <2>1 DEF Types, Keeps
  <2>2. CASE refs' = refs
    BY <1>1, <2>2 DEF Keeps
  <2> QED
    BY <2>1, <2>2, WorkerStack
<1>6. /\ Elsewhere(c)
      /\ \/ Len(stack'[c]) = 0
         \/ /\ Len(stack'[c]) = 1 /\ phase'[c] \in {"message", "failing"}
            /\ stack'[c][1] = Frame(phase'[c], None, FALSE)
  BY <1>4, WorkerStack
<1>7. CASE Len(stack'[c]) = 0
  <2>1. stack'[c] = <<>>
    <3>1. stack'[c] \in Seq(Frames)
      BY DEF Types
    <3> QED
      BY <1>7, <3>1, TopOf
  <2>2. Label(stack'[c]) = "idle" /\ ~Nested(stack'[c])
    BY <2>1 DEF Label, Nested
  <2>3. Shape(c, stack'[c]) /\ About(stack'[c], c)
    BY <1>7, <2>2, NamesDistinct DEF Shape, WorkerShape, About
  <2>4. Local(c)'
    BY <1>1, <1>6, <2>3, LocalElsewhere
  <2> QED
    BY <1>1, <1>2, <1>3, <1>4, <1>5, <1>6, <2>1, <2>4, WorkerMovesStep
<1>8. CASE Len(stack'[c]) = 1 /\ next \in {"message", "failing"}
           /\ stack'[c][1] = Frame(next, None, FALSE)
  <2> DEFINE f == Frame(next, None, FALSE)
  <2>1. f \in Frames
    BY <1>8, FrameType DEF Labels, Loose
  <2>2. f.at = next
    BY DEF Frame
  <2>3. Len(stack'[c]) = 1 /\ stack'[c][1] = f
    BY <1>8
  <2> HIDE DEF f
  <2>4. Local(c)' /\ Label(stack'[c]) = next /\ ~Nested(stack'[c])
    <3>1. f.at \in Loose /\ f.at \in Callbacks
      BY <1>8, <2>2 DEF Loose, Callbacks
    <3> QED
      BY <1>1, <1>6, <2>1, <2>2, <2>3, <3>1, CalledShape
  <2> QED
    BY <1>1, <1>2, <1>3, <1>4, <1>5, <1>6, <1>8, <2>4, WorkerMovesStep
<1> QED
  BY <1>3, <1>4, <1>6, <1>7, <1>8

\* ... the core ...
LEMMA CoreInv ==
    ASSUME Types, Types', NEW c \in Streams, Inv(c), NEW s \in Streams, CoreCloses(s)
    PROVE  Inv(c)'
<1> USE Threading
<1> DEFINE t == "core"
           f == Cleanup(~closeReq[c])
<1>1. bug[s] = "attached"
  BY DEF CoreCloses
<1>2. s = c
  BY <1>1, Only
<1>3. /\ Idle(t) /\ stack["media"] = <<>> /\ bug' = [bug EXCEPT ![c] = "removed"]
      /\ Call(t, f)
      /\ UNCHANGED <<private, mutex, cleaning, closeReq, refs, phase, tornBy, misuse>>
  BY <1>2 DEF CoreCloses, MayRemove
<1>4. f \in Frames /\ f.at = "fetch"
  BY Cleanups DEF Types
<1> HIDE DEF f
<1>5. /\ misuse = {} /\ stack[t] = <<>>
      /\ Elsewhere(t) /\ Len(stack'[t]) = 1 /\ stack'[t][1] = f
  BY <1>3, <1>4, Calls DEF Idle
<1>6. Local(c)' /\ stack'[t] # <<>> /\ Label(stack'[t]) = "fetch" /\ ~Nested(stack'[t])
  <2>1. Local(c) /\ f.at \in Loose /\ f.at \notin Callbacks
    BY <1>4 DEF Inv, Loose, Callbacks
  <2> QED
    BY <1>4, <1>5, <2>1, CalledShape
<1> QED
  BY <1>1, <1>2, <1>3, <1>5, <1>6, DetachStep

\* ... and what begins a call.
LEMMA BeginInv ==
    ASSUME Types, Types', NEW c \in Streams, Inv(c),
           \/ \E t \in Api : Stop(t) \/ SendText(t) \/ Pause(t) \/ Break(t)
           \/ \E s \in Streams : MediaFrame(s) \/ MediaWrite(s)
    PROVE  Inv(c)'
<1> USE Threading
<1>1. ASSUME NEW t \in Api, Stop(t) PROVE Inv(c)'
  <2>1. t \in Threads /\ t \notin Streams /\ t # "media"
    BY NamesDistinct
  <2>2. /\ Cleanup(FALSE) \in Frames /\ Cleanup(FALSE).at = "fetch"
        /\ Cleanup(FALSE).closing = FALSE
    BY Cleanups
  <2> QED
    BY <1>1, <2>1, <2>2, CallMove DEF Stop, streamVars
<1>2. ASSUME NEW t \in Api, NEW at \in {"copy", "pause", "queue"}, Idle(t),
             private # None, Call(t, Frame(at, private, FALSE)),
             UNCHANGED <<private, streamVars, tornBy, misuse>>
      PROVE  Inv(c)'
  <2>1. t \in Threads /\ t \notin Streams /\ t # "media"
    BY NamesDistinct
  <2>2. private = c
    BY <1>2, Only
  <2> DEFINE f == Frame(at, c, FALSE)
  <2>3. f \in Frames /\ f.at = at /\ f.closing = FALSE /\ f.s = c
    BY FrameType DEF Labels, Frame
  <2>4. /\ Idle(t) /\ Call(t, f)
        /\ UNCHANGED <<private, bug, mutex, cleaning, closeReq, refs, phase, tornBy, misuse>>
    BY <1>2, <2>2 DEF streamVars
  <2> HIDE DEF f
  <2> QED
    BY <2>1, <2>3, <2>4, CallMove
<1>3. ASSUME NEW s \in Streams, NEW at \in {"try", "queue"}, Idle("media"),
             bug[s] = "attached", Call("media", Frame(at, s, FALSE)),
             UNCHANGED <<private, streamVars, tornBy, misuse>>
      PROVE  Inv(c)'
  <2>1. s = c
    BY <1>3, Only
  <2> DEFINE f == Frame(at, c, FALSE)
  <2>3. f \in Frames /\ f.at = at /\ f.closing = FALSE /\ f.s = c
    BY FrameType DEF Labels, Frame
  <2>4. /\ Idle("media") /\ Call("media", f) /\ bug[c] = "attached"
        /\ UNCHANGED <<private, bug, mutex, cleaning, closeReq, refs, phase, tornBy, misuse>>
    BY <1>3, <2>1 DEF streamVars
  <2> HIDE DEF f
  <2> QED
    BY <2>3, <2>4, CallMove
<1>4. ASSUME NEW t \in Api, SendText(t) PROVE Inv(c)'
  BY <1>2, <1>4 DEF SendText
<1>5. ASSUME NEW t \in Api, Pause(t) PROVE Inv(c)'
  BY <1>2, <1>5 DEF Pause
<1>6. ASSUME NEW t \in Api, Break(t) PROVE Inv(c)'
  BY <1>2, <1>6 DEF Break
<1>7. ASSUME NEW s \in Streams, MediaFrame(s) PROVE Inv(c)'
  BY <1>3, <1>7 DEF MediaFrame
<1>8. ASSUME NEW s \in Streams, MediaWrite(s) PROVE Inv(c)'
  BY <1>3, <1>8 DEF MediaWrite
<1> QED
  BY <1>1, <1>4, <1>5, <1>6, <1>7, <1>8

\* Who stores the word of the flags.
LEMMA LostStep ==
    ASSUME [Next]_vars
    PROVE  \/ \E t \in Threads : TakeOver(t) \/ StorePause(t) \/ UnlockQueue(t)
           \/ \E s \in Streams : UnlockPlayback(s) \/ StoreRequest(s)
           \/ UNCHANGED lost
BY DEF Next, Run, RunMedia, Teardown, Command, Fetch, Claim, ComeTooLate, Remove, Quieten,
       NoStreamer, Join, Destroy, InitSession, InitFails, AddBug, AddBugFails, Publish,
       CopyStreamer, UnlockCopy, Write, LoadPause, LockQueue, LockDestroyed, TryLock,
       TryLockFails, Stop, SendText, Pause, Break, Start, MediaFrame, MediaWrite, CoreCloses,
       WorkerMoves, Worker, NobodyListens, FindBug, LockPlayback, FindBugToClose, LoadRequest,
       CloseBug, NothingToClose, Done, CallbackReturns, vars, streamVars, wordVars

\* A flag that was undone stays one that was.
LEMMA LostStays ==
    ASSUME [Next]_vars, lost
    PROVE  lost'
<1>1. ASSUME NEW t, NEW s, NEW flag, Store(t, s, flag) PROVE lost'
  BY <1>1 DEF Store
<1>2. ASSUME NEW t, NEW s, StoreOrNot(t, s) PROVE lost'
  BY <1>1, <1>2 DEF StoreOrNot
<1> QED
  BY <1>1, <1>2, LostStep
  DEF TakeOver, StorePause, UnlockQueue, UnlockPlayback, StoreRequest

\* No step that undoes no flag spoils the invariant, if starts are alone.
LEMMA IInvStep ==
    ASSUME Types, Types', Holder, IInv, [Next]_vars, [StartsAlone]_vars, ~lost'
    PROVE  IInv'
<1> USE Threading, CommandsAssumption
<1>1. PICK c \in Streams : Inv(c)
  BY DEF IInv
<1>2. ASSUME NEW t \in Threads, Run(t) PROVE IInv'
  BY <1>1, <1>2, TeardownInv, CommandInv, LockDestroyedStep DEF Run, IInv
<1>3. CASE RunMedia
  BY <1>1, <1>3, MediaInv DEF IInv
<1>4. CASE \/ \E t \in Api : Stop(t) \/ SendText(t) \/ Pause(t) \/ Break(t)
           \/ \E s \in Streams : MediaFrame(s) \/ MediaWrite(s)
  BY <1>1, <1>4, BeginInv DEF IInv
<1>5. ASSUME NEW t \in Api, NEW s \in Streams, Start(t, s), ~UNCHANGED vars PROVE IInv'
  <2>1. Still
    BY <1>5 DEF StartsAlone
  <2> QED
    BY <1>1, <1>5, <2>1, StartStep DEF IInv
<1>6. ASSUME NEW s \in Streams, CoreCloses(s) PROVE IInv'
  BY <1>1, <1>6, CoreInv DEF IInv
<1>7. ASSUME NEW s \in Streams, WorkerMoves(s) PROVE IInv'
  BY <1>1, <1>7, MovesInv DEF IInv
<1>8. ASSUME NEW s \in Streams, Worker(s) PROVE IInv'
  BY <1>1, <1>8, WorkerInv DEF IInv
<1>9. CASE UNCHANGED vars
  <2>1. UNCHANGED <<private, bug, mutex, cleaning, closeReq, refs, phase, stack, tornBy,
                    misuse>>
    BY <1>9 DEF vars, streamVars
  <2>2. Known(c)' <=> Known(c)
    BY <2>1 DEF Known
  <2>3. Local(c)' /\ Over(c)' /\ Fresh' /\ Alone' /\ Wraps' /\ Safe' /\ Mutexes(c)'
    BY <1>1, <2>1 DEF Inv, Local, Over, Gone, Fresh, Alone, Wraps, Safe, Mutexes
  <2>4. SettingUp(c)' /\ Tearing(c)' /\ Torn(c)' /\ Closings(c)' /\ Bugs(c)'
    BY <1>1, <2>1, <2>2 DEF Inv, SettingUp, Tearing, Torn, Gone, Closings, Bugs
  <2>5. Owned(c)' /\ Requested(c)'
    BY <1>1, <2>1, <2>2 DEF Inv, Owned, Requested
  <2> QED
    BY <2>3, <2>4, <2>5 DEF Inv, IInv
<1> QED
  BY <1>2, <1>3, <1>4, <1>5, <1>6, <1>7, <1>8, <1>9 DEF Next

-----------------------------------------------------------------------------
(* What the invariant implies. *)

LEMMA TypesImplyTypeOK ==
    ASSUME Types, Holder, IInv
    PROVE  TypeOK
<1> USE Threading
<1>1. PICK c \in Streams : Inv(c)
  BY DEF IInv
<1>2. ASSUME NEW s \in Streams, mutex[s] \in Threads
      PROVE  \E label \in {"claiming", "copied", "queued", "played"} : In(mutex[s], label)
  <2> DEFINE q == stack[mutex[s]]
  <2>1. q \in Seq(Frames)
    BY <1>2 DEF Types
  <2>2. Len(q) >= 1 /\ q[1].at \in Critical
    BY <1>2 DEF Holder
  <2>3. q # <<>> /\ Head(q) = q[1]
    BY <2>1, <2>2, TopOf
  <2> QED
    BY <2>2, <2>3 DEF In, Critical
<1>3. ASSUME NEW t \in Threads
      PROVE  /\ Len(stack[t]) <= 3
             /\ \A i \in DOMAIN stack[t] :
                   stack[t][i] \in [at : Labels, s : Streams \cup {None}, closing : BOOLEAN]
  <2>1. stack[t] \in Seq(Frames)
    BY DEF Types
  <2>2. \A i \in DOMAIN stack[t] : stack[t][i] \in Frames
    BY <2>1, TopOf
  <2>3. Shape(t, stack[t])
    BY <1>1 DEF Inv, Local
  <2>4. CallerShape(stack[t]) \/ MediaShape(stack[t]) \/ WorkerShape(stack[t])
    BY <2>3 DEF Shape, Threads
  <2>5. Len(stack[t]) \in {0, 1, 2, 3}
    BY <2>4 DEF CallerShape, MediaShape, WorkerShape
  <2>6. \A n \in {0, 1, 2, 3} : n <= 3
    OBVIOUS
  <2>7. Len(stack[t]) <= 3
    BY <2>5, <2>6, Zenon
  <2> QED
    BY <2>2, <2>7 DEF Frames
<1> QED
  BY <1>2, <1>3 DEF Types, TypeOK

\* The invariant holds of any number of streams, one after the other, with any number of
\* threads that give commands, until a flag is undone.
THEOREM Invariance ==
    Spec /\ [][StartsAlone]_vars => [](Types /\ Holder /\ (lost \/ IInv))
<1>1. Init => Types /\ Holder /\ (lost \/ IInv)
  BY IInvInit
<1>2. Types /\ Holder /\ (lost \/ IInv) /\ [Next]_vars /\ [StartsAlone]_vars
        => (Types /\ Holder /\ (lost \/ IInv))'
  BY TypesStep, HolderStep, IInvStep, LostStays
<1> QED
  BY <1>1, <1>2, PTL DEF Spec

\* TypeOK, with it that a mutex is held only in a critical section, and that calls nest
\* at most three deep: onError_, CLOSE, and CLOSE again.
THEOREM TypeCorrect == Spec /\ [][StartsAlone]_vars => [](lost \/ TypeOK)
<1>1. Types /\ Holder /\ (lost \/ IInv) => lost \/ TypeOK
  BY TypesImplyTypeOK
<1> QED
  BY <1>1, Invariance, PTL

\* The media thread and the workers never lock or hold a mutex that destroy_tech_pvt has
\* destroyed: stream_frame tries the mutex, and playback locks it, with no way to tell.
\* SafeLocks has the exception in it: a store of pauseresume or media_bug_close that
\* undoes cleanup_started lets in a second teardown, which finds no streamer to join.
THEOREM LocksAreSafe == Spec /\ [][StartsAlone]_vars => []SafeLocks
<1>1. Types /\ Holder /\ (lost \/ IInv) => SafeLocks
  BY DEF IInv, Inv, Safe, SafeLocks
<1> QED
  BY <1>1, Invariance, PTL

-----------------------------------------------------------------------------
(* A single stream. *)

\* All that happens before the first stream is created.
Waiting == \A t \in Threads :
    \/ stack[t] = <<>>
    \/ /\ t \in Api /\ Len(stack[t]) = 1
       /\ stack[t][1] = Cleanup(FALSE) \/ stack[t][1].at = "init"

\* ... which is how things are until the stream is created.
NotYet(s) == phase[s] = "new" => Waiting /\ ~lost

LEMMA NewStream ==
    ASSUME Types, IInv, NEW s, Streams = {s}, phase[s] = "new"
    PROVE  private = None /\ bug[s] = "none" /\ mutex[s] = "none" /\ ~cleaning[s]
BY DEF Types, IInv, Inv, Bugs, Known, Fresh

\* So the first stream is started alone.
LEMMA Settled ==
    ASSUME Types, IInv, NEW s, Streams = {s}, NotYet(s), NEW t \in Api, NEW r \in Streams,
           Start(t, r)
    PROVE  Still
<1>1. r = s /\ phase[s] = "new"
  BY DEF Start, Used
<1>2. private = None
  BY <1>1, NewStream
<1>3. ASSUME NEW u \in Threads
      PROVE  \/ stack[u] = <<>>
             \/ u \in Api /\ Len(stack[u]) = 1 /\ stack[u][1] = Cleanup(FALSE)
  <2>1. CASE stack[u] # <<>> /\ stack[u][1].at = "init"
    <3>1. stack[u][1] \in Frames /\ 1 \in DOMAIN stack[u]
      BY <2>1, TopOf DEF Types
    <3>2. stack[u][1].s = s
      BY <2>1, <3>1 DEF Frames, Loose
    <3> QED
      BY <1>1, <3>1, <3>2 DEF Start, Used
  <2> QED
    BY <1>1, <2>1 DEF NotYet, Waiting
<1> QED
  BY <1>1, <1>2, <1>3 DEF Still

LEMMA PhaseStep ==
    ASSUME [Next]_vars
    PROVE  \/ \E t \in Threads : InitSession(t) \/ InitFails(t)
           \/ \E s \in Streams : WorkerMoves(s)
           \/ UNCHANGED phase
BY DEF Next, Run, RunMedia, Teardown, Command, Fetch, Claim, ComeTooLate, TakeOver, Remove,
       Quieten, NoStreamer, Join, Destroy, AddBug, AddBugFails, Publish, CopyStreamer,
       UnlockCopy, Write, LoadPause, StorePause, LockQueue, UnlockQueue, LockDestroyed,
       TryLock, TryLockFails, Stop, SendText, Pause, Break, Start, MediaFrame, MediaWrite,
       CoreCloses, Worker, NobodyListens, FindBug, LockPlayback, UnlockPlayback,
       FindBugToClose, LoadRequest, StoreRequest, CloseBug, NothingToClose, Done,
       CallbackReturns, vars, streamVars

LEMMA NotYetStep ==
    ASSUME Types, Types', lost \/ IInv, NEW s, Streams = {s}, NotYet(s), [Next]_vars
    PROVE  NotYet(s)'
<1> USE Threading, CommandsAssumption
<1> SUFFICES ASSUME phase'[s] = "new"
             PROVE  Waiting' /\ ~lost'
  BY DEF NotYet
<1>1. ASSUME NEW t \in Threads, InitSession(t) \/ InitFails(t) PROVE FALSE
  <2>1. Of(t) = s /\ phase' = [phase EXCEPT ![Of(t)] = "dialing"]
    BY <1>1, InCall DEF InitSession, InitFails, Loose
  <2> QED
    BY <2>1 DEF Types
<1>2. ASSUME NEW r \in Streams, WorkerMoves(r) PROVE FALSE
  <2>1. PICK next \in Follows(r) : phase' = [phase EXCEPT ![r] = next]
    BY <1>2 DEF WorkerMoves
  <2> QED
    BY <2>1 DEF Follows, Types
<1>3. phase[s] = "new" /\ Waiting /\ ~lost
  BY <1>1, <1>2, PhaseStep DEF NotYet
<1>4. private = None /\ bug[s] = "none"
  BY <1>3, NewStream
<1>5. ASSUME NEW t \in Threads, NEW label, At(t, label)
      PROVE  label \in {"fetch", "init"} /\ Len(stack[t]) = 1 /\ t \in Api
  <2>1. stack[t] # <<>> /\ stack[t][1].at = label
    BY <1>5, InCall
  <2>2. Cleanup(FALSE).at = "fetch"
    BY Cleanups
  <2> QED
    BY <1>3, <2>1, <2>2 DEF Waiting
<1>6. ASSUME NEW t \in Threads, Run(t) PROVE Waiting'
  <2>1. CASE Fetch(t)
    <3>1. At(t, "fetch") /\ Return(t) /\ Len(stack[t]) = 1
      BY <1>4, <1>5, <2>1 DEF Fetch
    <3>4. Popped(t)
      BY <3>1, Returns
    <3>2. Elsewhere(t) /\ Len(stack'[t]) = 0
      BY <3>1, <3>4 DEF Popped
    <3>3. stack'[t] = <<>>
      BY <3>2, TopOf DEF Types
    <3> QED
      BY <1>3, <3>2, <3>3 DEF Waiting, Elsewhere
  <2>2. CASE LockDestroyed(t)
    BY <1>3, <2>2 DEF Waiting, LockDestroyed
  <2>3. CASE Teardown(t) /\ ~Fetch(t)
    BY <1>5, <2>3 DEF Teardown, Claim, ComeTooLate, TakeOver, Remove, Quieten, NoStreamer,
                      Join, Destroy
  <2>4. CASE Command(t)
    BY <1>1, <1>5, <2>4 DEF Command, AddBug, AddBugFails, Publish, CopyStreamer, UnlockCopy,
                            Write, LoadPause, StorePause, LockQueue, UnlockQueue
  <2> QED
    BY <1>6, <2>1, <2>2, <2>3, <2>4 DEF Run
<1>7. ASSUME RunMedia PROVE FALSE
  BY <1>5, <1>7 DEF RunMedia, TryLock, TryLockFails
<1>8. ASSUME NEW t \in Api, Stop(t) PROVE Waiting'
  <2>1. Elsewhere(t) /\ Len(stack'[t]) = 1 /\ stack'[t][1] = Cleanup(FALSE)
    BY <1>8, Calls, Cleanups DEF Stop
  <2> QED
    BY <1>3, <2>1 DEF Waiting, Elsewhere
<1>9. ASSUME NEW t \in Api, SendText(t) \/ Pause(t) \/ Break(t) PROVE FALSE
  BY <1>4, <1>9 DEF SendText, Pause, Break
<1>10. ASSUME NEW t \in Api, NEW r \in Streams, Start(t, r) PROVE Waiting'
  <2> DEFINE f == Frame("init", r, FALSE)
  <2>1. f \in Frames /\ f.at = "init"
    BY FrameType DEF Labels, Frame
  <2>2. Idle(t) /\ Call(t, f)
    BY <1>10 DEF Start
  <2> HIDE DEF f
  <2>3. Elsewhere(t) /\ Len(stack'[t]) = 1 /\ stack'[t][1] = f
    BY <2>1, <2>2, Calls
  <2> QED
    BY <1>3, <2>1, <2>3 DEF Waiting, Elsewhere
<1>11. ASSUME NEW r \in Streams, MediaFrame(r) \/ MediaWrite(r) \/ CoreCloses(r)
       PROVE  FALSE
  BY <1>4, <1>11 DEF MediaFrame, MediaWrite, CoreCloses
<1>12. ASSUME NEW r \in Streams, Worker(r) PROVE FALSE
  <2>1. \E label \in Callbacks : At(r, label)
    BY <1>12 DEF Worker, NobodyListens, FindBug, LockPlayback, UnlockPlayback,
                 FindBugToClose, LoadRequest, StoreRequest, CloseBug, NothingToClose, Done,
                 Callbacks
  <2> QED
    BY <1>5, <2>1 DEF Callbacks
<1>13. ASSUME UNCHANGED vars PROVE Waiting'
  BY <1>3, <1>13 DEF Waiting, vars
<1>14. Waiting'
  BY <1>2, <1>6, <1>7, <1>8, <1>9, <1>10, <1>11, <1>12, <1>13 DEF Next
<1>15. ~lost'
  <2>1. \A t \in Threads : ~TakeOver(t) /\ ~StorePause(t) /\ ~UnlockQueue(t)
    BY <1>5 DEF TakeOver, StorePause, UnlockQueue
  <2>2. \A r \in Streams : ~UnlockPlayback(r) /\ ~StoreRequest(r)
    BY <1>5 DEF UnlockPlayback, StoreRequest
  <2> QED
    BY <1>3, <2>1, <2>2, LostStep
<1> QED
  BY <1>14, <1>15

\* With one stream, nothing is asked of the starts: while it has not begun there is
\* nothing else, and it is not started again.
THEOREM OneStream == ASSUME NEW s, Streams = {s}
                     PROVE  Spec => [][StartsAlone]_vars
<1> DEFINE J == Types /\ Holder /\ (lost \/ IInv) /\ NotYet(s)
<1>1. Init => J
  <2> SUFFICES ASSUME Init PROVE J
    OBVIOUS
  <2>1. ~lost /\ \A t \in Threads : stack[t] = <<>>
    BY DEF Init
  <2>2. NotYet(s)
    BY <2>1 DEF NotYet, Waiting
  <2> QED
    BY <2>2, IInvInit
<1>2. J /\ [Next]_vars => [StartsAlone]_vars
  <2> SUFFICES ASSUME J, NEW t \in Api, NEW r \in Streams, Start(t, r) PROVE Still
    BY DEF StartsAlone
  <2>1. phase[s] = "new"
    BY DEF Start, Used
  <2>2. IInv
    BY <2>1 DEF NotYet
  <2> QED
    BY <2>2, Settled
<1>3. J /\ [Next]_vars => J'
  BY <1>2, TypesStep, HolderStep, IInvStep, LostStays, NotYetStep
<1> HIDE DEF J
<1> QED
  BY <1>1, <1>2, <1>3, PTL DEF Spec

-----------------------------------------------------------------------------
(* The clients of the streams. *)

\* What a call of t knows of the stream it is about.
Knows(t, f) ==
    f.s \in Streams =>
        /\ f.at = "init" <=> phase[f.s] = "new"
        /\ f.at \in Setup => t \in Api
        /\ f.at \in Critical => mutex[f.s] = t \/ misuse # {}
        /\ f.at = "claiming" => ~cleaning[f.s] \/ misuse # {}
        /\ f.at \in {"join", "destroy"} /\ t \in refs[f.s] => asked[f.s]
        /\ f.at = "destroy" /\ t \in refs[f.s] => t = f.s \/ phase[f.s] = "ended"
        /\ f.at \in Closing => t \in Api \/ \E torn \in tornBy[f.s] : torn[1] = t

\* The calls that may have called another.
Waits == {"quiet", "done"}

\* The calls of every thread know that, and only the innermost is anywhere else.
Calling == \A t \in Threads : \A i \in 1..Len(stack[t]) :
    Knows(t, stack[t][i]) /\ (i # 1 => stack[t][i].at \in Waits)

\* A stream that is being started is so by one thread.
OneStarts == \A t, u \in Threads :
    Label(stack[t]) = "init" /\ Label(stack[u]) = "init" /\ stack[t][1].s = stack[u][1].s
        => t = u

\* What can be seen of a stream is that of one that was started.
Begun ==
    /\ private \in Streams => phase[private] # "new"
    /\ \A s \in Streams :
          bug[s] = "attached" \/ tornBy[s] # {} => phase[s] # "new"

\* cleanup_started is set by the one teardown there is.
Once == \A s \in Streams :
    /\ ~cleaning[s] => tornBy[s] = {}
    /\ tornBy[s] = {} \/ \E x : tornBy[s] = {x}

\* The invariant, ...
Usage == Calling /\ OneStarts /\ Begun /\ Once

\* ... and what it is for: a client is destroyed when it has been disconnected ...
Returned == \A s \in Streams :
    DisconnectReturned(s) => asked[s] /\ phase[s] = "ended"

\* ... provided that who destroys it had it.
Found == \A t \in Threads : Destroy(t) => lost' \/ t \in refs[Of(t)]

\* A step of t that takes nothing from what the other calls know.
Mild(t) ==
    /\ \A s \in Streams :
          /\ phase'[s] = phase[s] \/ (phase[s] \notin {"new", "ended"} /\ phase'[s] # "new")
          /\ asked[s] => asked'[s]
          /\ tornBy[s] \subseteq tornBy'[s]
          /\ \/ mutex'[s] = mutex[s] \/ mutex[s] \notin Threads \/ mutex[s] = t
             \/ misuse' # {}
          /\ cleaning'[s] = cleaning[s] \/ mutex[s] = t
          /\ \A u \in Threads \ {t} : u \in refs'[s] => u \in refs[s]
    /\ misuse \subseteq misuse'

\* So the calls know what they should after a step that goes on, calls, returns, begins a
\* call, or does nothing to the stacks, if its own call does.
LEMMA Replacing ==
    ASSUME Types, Types', Calling, OneStarts, NEW t \in Threads, NEW f, Replaced(t, f),
           f.at # "init", Mild(t), Knows(t, f)'
    PROVE  Calling' /\ OneStarts'
<1>1. ASSUME NEW u \in Threads, NEW i \in 1..Len(stack'[u])
      PROVE  Knows(u, stack[u][i])' /\ (i # 1 => stack'[u][i].at \in Waits)
  <2>1. CASE u # t \/ i # 1
    <3>1. i \in 1..Len(stack[u]) /\ stack'[u][i] = stack[u][i]
      <4>1. Len(stack[u]) \in Nat
        BY TopOf DEF Types
      <4>2. CASE u # t
        BY <4>2 DEF Replaced, Elsewhere
      <4>3. CASE u = t
        BY <2>1, <4>1, <4>3 DEF Replaced
      <4> QED
        BY <4>2, <4>3
    <3> DEFINE g == stack[u][i]
    <3>2. Knows(u, g) /\ (i # 1 => g.at \in Waits)
      BY <3>1 DEF Calling
    <3>3. stack'[u][i] = g /\ g = stack[u][i]
      BY <3>1
    <3> QED
      BY <2>1, <3>1, <3>2, <3>3 DEF Knows, Mild, Waits, Critical
  <2>2. CASE u = t /\ i = 1
    BY <2>2 DEF Replaced, Knows
  <2> QED
    BY <2>1, <2>2
<1>2. ASSUME NEW u \in Threads, Label(stack'[u]) = "init"
      PROVE  u # t /\ stack'[u] = stack[u]
  <2>1. stack'[u][1].at = "init"
    BY <1>2 DEF Label
  <2> QED
    BY <2>1 DEF Replaced, Elsewhere
<1> QED
  BY <1>1, <1>2 DEF Calling, OneStarts

LEMMA Nesting ==
    ASSUME Types, Types', Calling, OneStarts, NEW t \in Threads, NEW f, NEW g,
           ReplacedAndPushed(t, f, g), stack[t] # <<>>,
           f.at # "init", g.at \in Waits, Mild(t), Knows(t, f)', Knows(t, g)'
    PROVE  Calling' /\ OneStarts'
<1>1. ASSUME NEW u \in Threads, NEW i \in 1..Len(stack'[u])
      PROVE  Knows(u, stack[u][i])' /\ (i # 1 => stack'[u][i].at \in Waits)
  <2>1. CASE u # t
    <3>1. i \in 1..Len(stack[u]) /\ stack'[u][i] = stack[u][i]
      BY <2>1 DEF ReplacedAndPushed, Elsewhere
    <3>2. Knows(u, stack[u][i]) /\ (i # 1 => stack[u][i].at \in Waits)
      BY <3>1 DEF Calling
    <3> QED
      BY <2>1, <3>1, <3>2 DEF Knows, Mild, Waits, Critical
  <2>2. CASE u = t /\ i = 1
    BY <2>2 DEF ReplacedAndPushed, Knows
  <2>3. CASE u = t /\ i = 2
    BY <2>3 DEF ReplacedAndPushed, Knows
  <2>4. CASE u = t /\ i \notin {1, 2}
    <3>1. i - 1 \in 1..Len(stack[t]) /\ i - 1 # 1 /\ stack'[t][i] = stack[t][i - 1]
      BY <2>4, TopOf DEF ReplacedAndPushed, Types
    <3>2. Knows(t, stack[t][i - 1]) /\ stack[t][i - 1].at \in Waits
      BY <3>1 DEF Calling
    <3> QED
      BY <2>4, <3>1, <3>2 DEF Knows, Mild, Waits, Critical
  <2> QED
    BY <2>1, <2>2, <2>3, <2>4
<1>2. ASSUME NEW u \in Threads, Label(stack'[u]) = "init"
      PROVE  u # t /\ stack'[u] = stack[u]
  <2>1. stack'[u][1].at = "init"
    BY <1>2 DEF Label
  <2> QED
    BY <2>1 DEF ReplacedAndPushed, Elsewhere
<1> QED
  BY <1>1, <1>2 DEF Calling, OneStarts

LEMMA Popping ==
    ASSUME Types, Types', Calling, OneStarts, NEW t \in Threads, Popped(t),
           stack[t] # <<>>, Mild(t)
    PROVE  Calling' /\ OneStarts'
<1>1. ASSUME NEW u \in Threads, NEW i \in 1..Len(stack'[u])
      PROVE  Knows(u, stack[u][i])' /\ (i # 1 \/ u = t => stack'[u][i].at \in Waits)
  <2>1. CASE u # t
    <3>1. i \in 1..Len(stack[u]) /\ stack'[u][i] = stack[u][i]
      BY <2>1 DEF Popped, Elsewhere
    <3>2. Knows(u, stack[u][i]) /\ (i # 1 => stack[u][i].at \in Waits)
      BY <3>1 DEF Calling
    <3> QED
      BY <2>1, <3>1, <3>2 DEF Knows, Mild, Waits, Critical
  <2>2. CASE u = t
    <3>3. Len(stack[t]) \in Nat /\ Len(stack[t]) >= 1 /\ i \in 1..(Len(stack[t]) - 1)
      BY <2>2, TopOf DEF Popped, Types
    <3>1. i + 1 \in 1..Len(stack[t]) /\ i + 1 # 1 /\ stack'[t][i] = stack[t][i + 1]
      BY <2>2, <3>3 DEF Popped
    <3>2. Knows(t, stack[t][i + 1]) /\ stack[t][i + 1].at \in Waits
      BY <3>1 DEF Calling
    <3> QED
      BY <2>2, <3>1, <3>2 DEF Knows, Mild, Waits, Critical
  <2> QED
    BY <2>1, <2>2
<1>2. ASSUME NEW u \in Threads, Label(stack'[u]) = "init"
      PROVE  u # t /\ stack'[u] = stack[u]
  <2>1. 1 \in 1..Len(stack'[u]) /\ stack'[u][1].at = "init"
    BY <1>2, TopOf DEF Label, Types
  <2> QED
    BY <1>1, <2>1 DEF Popped, Elsewhere, Waits
<1> QED
  BY <1>1, <1>2 DEF Calling, OneStarts

LEMMA Beginning ==
    ASSUME Types, Types', Calling, OneStarts, NEW t \in Threads, NEW f,
           Elsewhere(t), Len(stack'[t]) = 1, stack'[t][1] = f, Mild(t), Knows(t, f)',
           f.at # "init"
    PROVE  Calling' /\ OneStarts'
<1>1. ASSUME NEW u \in Threads, NEW i \in 1..Len(stack'[u])
      PROVE  Knows(u, stack[u][i])' /\ (i # 1 => stack'[u][i].at \in Waits)
  <2>1. CASE u # t
    <3>1. i \in 1..Len(stack[u]) /\ stack'[u][i] = stack[u][i]
      BY <2>1 DEF Elsewhere
    <3>2. Knows(u, stack[u][i]) /\ (i # 1 => stack[u][i].at \in Waits)
      BY <3>1 DEF Calling
    <3> QED
      BY <2>1, <3>1, <3>2 DEF Knows, Mild, Waits, Critical
  <2>2. CASE u = t
    BY <2>2 DEF Knows
  <2> QED
    BY <2>1, <2>2
<1>2. ASSUME NEW u \in Threads, Label(stack'[u]) = "init"
      PROVE  u # t /\ stack'[u] = stack[u]
  <2>1. stack'[u][1].at = "init"
    BY <1>2 DEF Label
  <2> QED
    BY <2>1 DEF Elsewhere
<1> QED
  BY <1>1, <1>2 DEF Calling, OneStarts

\* A step of t that leaves the stacks alone.
LEMMA Standing ==
    ASSUME Calling, OneStarts, NEW t \in Threads, UNCHANGED stack, Mild(t),
           misuse' # {} \/ UNCHANGED <<mutex, misuse>>, UNCHANGED <<cleaning, refs>>
    PROVE  Calling' /\ OneStarts'
<1>1. ASSUME NEW u \in Threads, NEW i \in 1..Len(stack'[u])
      PROVE  Knows(u, stack[u][i])' /\ (i # 1 => stack'[u][i].at \in Waits)
  <2>1. Knows(u, stack[u][i]) /\ (i # 1 => stack[u][i].at \in Waits)
    BY DEF Calling
  <2> QED
    BY <2>1 DEF Knows, Mild
<1> QED
  BY <1>1 DEF Calling, OneStarts

\* What the innermost call of t, at `label`, knows.
LEMMA Innermost ==
    ASSUME Types, Calling, NEW t \in Threads, NEW label, At(t, label), Of(t) \in Streams
    PROVE  /\ label = "init" <=> phase[Of(t)] = "new"
           /\ label \in Setup => t \in Api
           /\ label \in Critical => mutex[Of(t)] = t
           /\ label = "claiming" => ~cleaning[Of(t)]
           /\ label \in {"join", "destroy"} /\ t \in refs[Of(t)] => asked[Of(t)]
           /\ label = "destroy" /\ t \in refs[Of(t)] => t = Of(t) \/ phase[Of(t)] = "ended"
           /\ label \in Closing => t \in Api \/ \E torn \in tornBy[Of(t)] : torn[1] = t
<1>1. /\ misuse = {} /\ stack[t][1].at = label /\ Of(t) = stack[t][1].s
      /\ 1 \in 1..Len(stack[t])
  BY InCall
<1>2. Knows(t, stack[t][1])
  BY <1>1 DEF Calling
<1> QED
  BY <1>1, <1>2 DEF Knows

\* A call about a stream goes on, ...
LEMMA GoesUse ==
    ASSUME Types, Types', Calling, OneStarts, NEW t \in Threads,
           NEW label, label \notin Loose \cup {"init"}, At(t, label),
           NEW next \in Labels \ {"init"}, Goto(t, next), Mild(t), NEW s, s = Of(t),
           next \in Setup => t \in Api,
           next \in Critical => mutex'[s] = t,
           next = "claiming" => ~cleaning'[s],
           next \in {"join", "destroy"} /\ t \in refs'[s] => asked'[s],
           next = "destroy" /\ t \in refs'[s] => t = s \/ phase'[s] = "ended",
           next \in Closing => t \in Api \/ \E torn \in tornBy'[s] : torn[1] = t
    PROVE  Calling' /\ OneStarts'
<1>1. s \in Streams
  BY InCall
<1>2. Replaced(t, Frame(next, s, stack[t][1].closing))
  BY Goes
<1>3. PICK f : f.at = next /\ f.s = s /\ Replaced(t, f)
  BY <1>2 DEF Frame
<1>4. phase[s] # "new"
  BY <1>1, Innermost
<1>5. phase'[s] # "new"
  BY <1>1, <1>4 DEF Mild
<1>6. Knows(t, f)'
  BY <1>3, <1>5 DEF Knows
<1> QED
  BY <1>3, <1>6, Replacing

\* ... or a call returns.
LEMMA ReturnsUse ==
    ASSUME Types, Types', Calling, OneStarts, NEW t \in Threads, NEW label,
           At(t, label), Return(t), Mild(t)
    PROVE  Calling' /\ OneStarts'
<1>1. Popped(t) /\ stack[t] # <<>>
  BY Returns, InCall
<1> QED
  BY <1>1, Popping

-----------------------------------------------------------------------------

\* Every step of a teardown knows what the next one needs: Quieten that the worker was
\* asked, Join that it has ended or is the one that runs.
LEMMA TeardownUse ==
    ASSUME Types, Types', Calling, OneStarts, Begun, ~lost', NEW t \in Threads, Teardown(t)
    PROVE  Calling' /\ OneStarts'
<1> USE Threading
<1> DEFINE s == Of(t)
<1>1. CASE Fetch(t)
  <2>1. Mild(t)
    BY <1>1 DEF Fetch, Mild, streamVars
  <2>2. CASE private = None
    BY <1>1, <2>1, <2>2, ReturnsUse DEF Fetch
  <2>3. CASE private # None
    <3>1. Replaced(t, Frame("claim", private, stack[t][1].closing))
      BY <1>1, <2>3, Learns DEF Fetch, Labels
    <3>2. PICK f : f.at = "claim" /\ f.s = private /\ Replaced(t, f)
      BY <3>1 DEF Frame
    <3>3. private' = private /\ phase' = phase
      BY <1>1 DEF Fetch, streamVars
    <3>4. Knows(t, f)'
      BY <3>2, <3>3 DEF Knows, Begun, Setup, Critical, Closing
    <3> QED
      BY <2>1, <3>2, <3>4, Replacing
  <2> QED
    BY <2>2, <2>3
<1>2. CASE Claim(t)
  <2>1. At(t, "claim") /\ s \in Streams /\ Goto(t, "claiming")
    BY <1>2, InCall DEF Claim, Loose
  <2>2. /\ mutex[s] = "free" /\ mutex' = [mutex EXCEPT ![s] = t] /\ ~cleaning[s]
        /\ UNCHANGED <<cleaning, refs, phase, asked, tornBy, misuse>>
    BY <1>2 DEF Claim, MayClaim
  <2>3. mutex'[s] = t /\ ~cleaning'[s] /\ Mild(t)
    BY <2>1, <2>2 DEF Mild, Types
  <2> HIDE DEF s
  <2>4. s = Of(t)
    BY DEF s
  <2> QED
    BY <2>1, <2>3, <2>4, GoesUse DEF Loose, Labels, Setup, Critical, Closing
<1>3. CASE ComeTooLate(t)
  <2>1. Mild(t)
    BY <1>3 DEF ComeTooLate, Mild, streamVars
  <2> QED
    BY <1>3, <2>1, ReturnsUse DEF ComeTooLate
<1>4. CASE TakeOver(t)
  <2> DEFINE next == IF MustRemove(Head(stack[t]).closing) THEN "remove" ELSE "quiet"
             torn == <<t, Head(stack[t]).closing>>
  <2>1. At(t, "claiming") /\ s \in Streams /\ Goto(t, next) /\ next \in {"remove", "quiet"}
    BY <1>4, InCall DEF TakeOver, Loose
  <2>2. /\ mutex' = [mutex EXCEPT ![s] = "free"]
        /\ refs' = [refs EXCEPT ![s] = IF "wrap" \in refs[s]
                                       THEN (refs[s] \ {"wrap"}) \cup {t} ELSE refs[s]]
        /\ tornBy' = [tornBy EXCEPT ![s] = tornBy[s] \cup {torn}]
        /\ UNCHANGED <<phase, asked, misuse>>
    BY <1>4 DEF TakeOver, Unlocked
  <2>3. cleaning' = [cleaning EXCEPT ![s] = TRUE]
    BY <1>4, <2>1, StoreKeeps DEF TakeOver
  <2>4. mutex[s] = t
    BY <2>1, Innermost DEF Critical
  <2>5. torn \in tornBy'[s] /\ torn[1] = t
    BY <2>1, <2>2 DEF Types
  <2> HIDE DEF torn, next
  <2>9. \A u \in Threads \ {t} : \A r \in Streams : u \in refs'[r] => u \in refs[r]
    BY <2>1, <2>2 DEF Types
  <2>10. \A r \in Streams :
            /\ cleaning'[r] = cleaning[r] \/ mutex[r] = t
            /\ mutex'[r] = mutex[r] \/ mutex[r] = t
            /\ tornBy[r] \subseteq tornBy'[r]
    <3>1. ASSUME NEW r \in Streams, r # s
          PROVE  cleaning'[r] = cleaning[r] /\ mutex'[r] = mutex[r] /\ tornBy'[r] = tornBy[r]
      BY <3>1, <2>2, <2>3 DEF Types
    <3>2. tornBy[s] \subseteq tornBy'[s]
      BY <2>1, <2>2 DEF Types
    <3> QED
      BY <2>4, <3>1, <3>2
  <2>6. Mild(t)
    BY <2>2, <2>9, <2>10 DEF Mild
  <2>7. \E x \in tornBy'[s] : x[1] = t
    BY <2>5
  <2> HIDE DEF s
  <2>8. s = Of(t)
    BY DEF s
  <2> QED
    BY <2>1, <2>6, <2>7, <2>8, GoesUse DEF Loose, Labels, Setup, Critical, Closing
<1>5. CASE Remove(t)
  <2>1. At(t, "remove") /\ s \in Streams /\ stack[t] # <<>>
    BY <1>5, InCall DEF Remove, Loose
  <2>2. PICK f : f.at = "quiet" /\ f.s = s /\ f = Frame("quiet", s, stack[t][1].closing)
    BY DEF Frame
  <2>3. phase[s] # "new" /\ (t \in Api \/ \E torn \in tornBy[s] : torn[1] = t)
    BY <2>1, Innermost DEF Closing
  <2>4. UNCHANGED <<mutex, cleaning, refs, phase, asked, tornBy, misuse>>
    BY <1>5 DEF Remove
  <2>5. Mild(t)
    BY <2>4 DEF Mild
  <2>6. ASSUME bug[s] # "attached" PROVE Replaced(t, f)
    BY <1>5, <2>1, <2>2, <2>6, Goes DEF Remove, Labels, Loose
  <2>7. ASSUME bug[s] = "attached"
        PROVE  \E g : g.at = "fetch" /\ g.s = None /\ ReplacedAndPushed(t, g, f)
    <3>1. (~closeReq[s]) \in BOOLEAN
      OBVIOUS
    <3>2. /\ Cleanup(~closeReq[s]) \in Frames /\ Cleanup(~closeReq[s]).at = "fetch"
          /\ Cleanup(~closeReq[s]).s = None
      BY <3>1, Cleanups
    <3>3. GotoAndCall(t, "quiet", Cleanup(~closeReq[s]))
      BY <1>5, <2>7 DEF Remove
    <3>4. ReplacedAndPushed(t, Cleanup(~closeReq[s]), f)
      BY <2>1, <2>2, <3>2, <3>3, Nests DEF Labels, Loose
    <3> QED
      BY <3>2, <3>4
  <2> HIDE DEF s
  <2>8. Knows(t, f)'
    BY <2>2, <2>3, <2>4 DEF Knows, Setup, Critical, Closing
  <2>9. ASSUME NEW g, g.at = "fetch", g.s = None, ReplacedAndPushed(t, g, f)
        PROVE  Calling' /\ OneStarts'
    <3>1. Knows(t, g)'
      BY <2>9 DEF Knows
    <3> QED
      BY <2>1, <2>2, <2>5, <2>8, <2>9, <3>1, Nesting DEF Waits
  <2> QED
    BY <2>2, <2>5, <2>6, <2>7, <2>8, <2>9, Replacing
<1>6. CASE Quieten(t)
  <2>1. At(t, "quiet") /\ s \in Streams /\ Goto(t, "join")
    BY <1>6, InCall DEF Quieten, Loose
  <2>2. t \in Api \/ \E torn \in tornBy[s] : torn[1] = t
    BY <2>1, Innermost DEF Closing
  <2>3. /\ asked' = [asked EXCEPT ![s] = TRUE]
        /\ UNCHANGED <<mutex, cleaning, refs, phase, tornBy, misuse>>
    BY <1>6 DEF Quieten
  <2>4. asked'[s] /\ Mild(t)
    BY <2>1, <2>3 DEF Mild, Types
  <2>5. t \in Api \/ \E torn \in tornBy'[s] : torn[1] = t
    BY <2>2, <2>3
  <2> HIDE DEF s
  <2>6. s = Of(t)
    BY DEF s
  <2> QED
    BY <2>1, <2>4, <2>5, <2>6, GoesUse DEF Loose, Labels, Setup, Critical, Closing
<1>7. CASE NoStreamer(t)
  <2>1. At(t, "quiet") /\ s \in Streams /\ Goto(t, "destroy") /\ t \notin refs[s]
    BY <1>7, InCall DEF NoStreamer, Loose
  <2>2. t \in Api \/ \E torn \in tornBy[s] : torn[1] = t
    BY <2>1, Innermost DEF Closing
  <2>3. UNCHANGED <<mutex, cleaning, refs, phase, asked, tornBy, misuse>>
    BY <1>7 DEF NoStreamer, streamVars
  <2>4. t \notin refs'[s] /\ Mild(t)
    BY <2>1, <2>3 DEF Mild
  <2>5. t \in Api \/ \E torn \in tornBy'[s] : torn[1] = t
    BY <2>2, <2>3
  <2> HIDE DEF s
  <2>6. s = Of(t)
    BY DEF s
  <2> QED
    BY <2>1, <2>4, <2>5, <2>6, GoesUse DEF Loose, Labels, Setup, Critical, Closing
<1>8. CASE Join(t)
  <2>1. At(t, "join") /\ s \in Streams /\ Goto(t, "destroy")
    BY <1>8, InCall DEF Join, Loose
  <2>2. /\ t \in refs[s] => asked[s]
        /\ t \in Api \/ \E torn \in tornBy[s] : torn[1] = t
    BY <2>1, Innermost DEF Closing
  <2>3. /\ UNCHANGED <<asked, mutex, cleaning, refs, phase, tornBy, misuse>>
        /\ t = s \/ phase[s] = "ended"
    BY <1>8 DEF Join, Joined, streamVars
  <2>4. /\ Mild(t) /\ (t \in refs'[s] => asked'[s]) /\ (t = s \/ phase'[s] = "ended")
        /\ t \in Api \/ \E torn \in tornBy'[s] : torn[1] = t
    BY <2>2, <2>3 DEF Mild
  <2> HIDE DEF s
  <2>5. s = Of(t)
    BY DEF s
  <2> QED
    BY <2>1, <2>4, <2>5, GoesUse DEF Loose, Labels, Setup, Critical, Closing
<1>9. CASE Destroy(t)
  <2>1. At(t, "destroy") /\ s \in Streams /\ Return(t)
    BY <1>9, InCall DEF Destroy, Loose
  <2>2. /\ mutex' = [mutex EXCEPT ![s] = "destroyed"]
        /\ misuse' = misuse \cup ({mutex[s]} \cap Threads)
        /\ refs' = [refs EXCEPT ![s] = refs[s] \ {t}]
        /\ UNCHANGED <<phase, asked, cleaning, tornBy>>
    BY <1>9 DEF Destroy
  <2>3. mutex[s] \in Threads => misuse' # {}
    BY <2>2
  <2>4. Mild(t)
    BY <2>1, <2>2, <2>3 DEF Mild, Types
  <2> QED
    BY <2>1, <2>4, ReturnsUse
<1> QED
  BY <1>1, <1>2, <1>3, <1>4, <1>5, <1>6, <1>7, <1>8, <1>9 DEF Teardown

\* InitSession starts the worker of a stream nobody else is about.
LEMMA StartingUse ==
    ASSUME Types, Types', Calling, OneStarts, NEW t \in Threads,
           InitSession(t) \/ InitFails(t)
    PROVE  Calling' /\ OneStarts'
<1> USE Threading
<1> DEFINE s == Of(t)
<1>1. /\ At(t, "init") /\ s \in Streams /\ stack[t] # <<>> /\ misuse = {}
      /\ stack[t][1].at = "init" /\ stack[t][1].s = s
  BY InCall DEF InitSession, InitFails, Loose
<1>2. phase[s] = "new"
  BY <1>1, Innermost
<1>3. /\ phase' = [phase EXCEPT ![s] = "dialing"]
      /\ \A r \in Streams : r # s => mutex'[r] = mutex[r]
      /\ \A r \in Streams : r # s => refs'[r] = refs[r]
      /\ UNCHANGED <<asked, cleaning, tornBy, misuse>>
  BY DEF InitSession, InitFails, Types
<1>4. phase'[s] # "new" /\ \A r \in Streams : r # s => phase'[r] = phase[r]
  BY <1>1, <1>3 DEF Types
<1>5. ASSUME NEW u \in Threads, NEW i \in 1..Len(stack[u]), u # t \/ i # 1,
             NEW f, f = stack[u][i]
      PROVE  f.s # s /\ Knows(u, f)' /\ (i # 1 => f.at \in Waits)
  <2>1. Knows(u, f) /\ (i # 1 => f.at \in Waits)
    BY <1>5 DEF Calling
  <2>2. ASSUME f.s = s PROVE FALSE
    <3>1. f.at = "init"
      BY <1>1, <1>2, <2>1, <2>2 DEF Knows
    <3>2. i = 1 /\ stack[u] # <<>>
      BY <2>1, <3>1 DEF Waits
    <3>3. Label(stack[u]) = "init" /\ Label(stack[t]) = "init"
      BY <1>1, <1>5, <3>1, <3>2 DEF Label
    <3>4. stack[u][1].s = stack[t][1].s
      BY <1>1, <1>5, <2>2, <3>2
    <3> QED
      BY <1>5, <3>2, <3>3, <3>4 DEF OneStarts
  <2> QED
    BY <1>3, <1>4, <2>1, <2>2 DEF Knows
<1>6. ASSUME NEW u \in Threads, u # t, NEW i \in 1..Len(stack'[u]), stack'[u] = stack[u]
      PROVE  Knows(u, stack[u][i])' /\ (i # 1 => stack'[u][i].at \in Waits)
  <2>1. PICK f : f = stack[u][i]
    OBVIOUS
  <2>2. Knows(u, f)' /\ (i # 1 => f.at \in Waits)
    BY <1>5, <1>6, <2>1
  <2> QED
    BY <1>6, <2>1, <2>2 DEF Knows
<1>7. CASE InitSession(t)
  <2>1. Replaced(t, Frame("add", s, stack[t][1].closing))
    BY <1>1, <1>7, Goes DEF InitSession, Labels, Loose
  <2>2. PICK f : f.at = "add" /\ f.s = s /\ Replaced(t, f)
    BY <2>1 DEF Frame
  <2>3. t \in Api
    BY <1>1, Innermost DEF Setup
  <2> HIDE DEF s
  <2>4. Knows(t, f)'
    BY <1>4, <2>2, <2>3 DEF Knows, Setup, Critical, Closing
  <2>5. ASSUME NEW i \in 1..Len(stack'[t])
        PROVE  Knows(t, stack[t][i])' /\ (i # 1 => stack'[t][i].at \in Waits)
    <3>1. CASE i = 1
      BY <2>2, <2>4, <3>1 DEF Replaced, Knows
    <3>2. CASE i # 1
      <4>1. i \in 1..Len(stack[t]) /\ stack'[t][i] = stack[t][i]
        BY <2>2, <3>2, TopOf DEF Replaced, Types
      <4>2. PICK g : g = stack[t][i]
        OBVIOUS
      <4>3. Knows(t, g)' /\ g.at \in Waits
        BY <1>5, <3>2, <4>1, <4>2
      <4> QED
        BY <4>1, <4>2, <4>3 DEF Knows
    <3> QED
      BY <3>1, <3>2
  <2>6. ASSUME NEW u \in Threads, Label(stack'[u]) = "init"
        PROVE  u # t /\ stack'[u] = stack[u]
    BY <2>2, <2>6 DEF Replaced, Elsewhere, Label
  <2>7. \A u \in Threads : u # t => stack'[u] = stack[u]
    BY <2>2 DEF Replaced, Elsewhere
  <2> QED
    BY <1>6, <2>5, <2>6, <2>7 DEF Calling, OneStarts
<1>8. CASE InitFails(t)
  <2>1. Popped(t)
    BY <1>1, <1>8, Returns DEF InitFails
  <2> HIDE DEF s
  <2>2. ASSUME NEW i \in 1..Len(stack'[t])
        PROVE  Knows(t, stack[t][i])' /\ stack'[t][i].at \in Waits
    <3>1. i + 1 \in 1..Len(stack[t]) /\ i + 1 # 1 /\ stack'[t][i] = stack[t][i + 1]
      BY <2>1, TopOf DEF Popped, Types
    <3>2. PICK g : g = stack[t][i + 1]
      OBVIOUS
    <3>3. Knows(t, g)' /\ g.at \in Waits
      BY <1>5, <3>1, <3>2
    <3> QED
      BY <3>1, <3>2, <3>3 DEF Knows
  <2>3. ASSUME NEW u \in Threads, Label(stack'[u]) = "init"
        PROVE  u # t /\ stack'[u] = stack[u]
    <3>1. 1 \in 1..Len(stack'[u]) /\ stack'[u][1].at = "init"
      BY <2>3, TopOf DEF Label, Types
    <3> QED
      BY <2>1, <2>2, <3>1 DEF Popped, Elsewhere, Waits
  <2>4. \A u \in Threads : u # t => stack'[u] = stack[u]
    BY <2>1 DEF Popped, Elsewhere
  <2> QED
    BY <1>6, <2>2, <2>3, <2>4 DEF Calling, OneStarts
<1> QED
  BY <1>7, <1>8

LEMMA CommandUse ==
    ASSUME Types, Types', Calling, OneStarts, ~lost', NEW t \in Threads, Command(t)
    PROVE  Calling' /\ OneStarts'
<1> USE Threading
<1> DEFINE s == Of(t)
<1>1. CASE InitSession(t) \/ InitFails(t)
  BY <1>1, StartingUse
<1>2. CASE AddBug(t)
  <2>1. At(t, "add") /\ s \in Streams /\ Goto(t, "publish") /\ Mild(t)
    BY <1>2, InCall DEF AddBug, Loose, Mild
  <2>2. t \in Api
    BY <2>1, Innermost DEF Setup
  <2> QED
    BY <2>1, <2>2, GoesUse DEF Loose, Labels, Setup, Critical, Closing
<1>3. CASE AddBugFails(t)
  <2>1. At(t, "add") /\ s \in Streams /\ Goto(t, "quiet")
    BY <1>3, InCall DEF AddBugFails, Loose
  <2>2. /\ refs' = [refs EXCEPT ![s] = (refs[s] \ {"wrap"}) \cup {t}]
        /\ UNCHANGED <<mutex, cleaning, phase, asked, tornBy, misuse>>
    BY <1>3 DEF AddBugFails
  <2>3. Mild(t)
    BY <2>1, <2>2 DEF Mild, Types
  <2>4. t \in Api
    BY <2>1, Innermost DEF Setup
  <2> QED
    BY <2>1, <2>3, <2>4, GoesUse DEF Loose, Labels, Setup, Critical, Closing
<1>4. CASE Publish(t)
  <2>1. Mild(t)
    BY <1>4 DEF Publish, Mild, streamVars
  <2> QED
    BY <1>4, <2>1, ReturnsUse DEF Publish
<1>5. CASE CopyStreamer(t)
  <2>1. At(t, "copy") /\ s \in Streams /\ Goto(t, "copied")
    BY <1>5, InCall DEF CopyStreamer, Loose
  <2>2. /\ mutex[s] = "free" /\ mutex' = [mutex EXCEPT ![s] = t]
        /\ refs' = [refs EXCEPT ![s] = IF "wrap" \in refs[s] THEN refs[s] \cup {t}
                                       ELSE refs[s]]
        /\ UNCHANGED <<cleaning, phase, asked, tornBy, misuse>>
    BY <1>5 DEF CopyStreamer
  <2>3. mutex'[s] = t /\ Mild(t)
    BY <2>1, <2>2 DEF Mild, Types
  <2> HIDE DEF s
  <2>4. s = Of(t)
    BY DEF s
  <2> QED
    BY <2>1, <2>3, <2>4, GoesUse DEF Loose, Labels, Setup, Critical, Closing
<1>6. CASE UnlockCopy(t)
  <2>1. At(t, "copied") /\ s \in Streams /\ Goto(t, "write")
    BY <1>6, InCall DEF UnlockCopy, Loose
  <2>2. mutex[s] = t
    BY <2>1, Innermost DEF Critical
  <2>3. mutex' = [mutex EXCEPT ![s] = "free"]
        /\ UNCHANGED <<cleaning, refs, phase, asked, tornBy, misuse>>
    BY <1>6 DEF UnlockCopy, Unlocked
  <2>4. Mild(t)
    BY <2>1, <2>2, <2>3 DEF Mild, Types
  <2> QED
    BY <2>1, <2>4, GoesUse DEF Loose, Labels, Setup, Critical, Closing
<1>7. CASE Write(t)
  <2>1. Of(t) \in Streams
    BY <1>7, InCall DEF Write, Loose
  <2>2. Mild(t)
    BY <1>7, <2>1 DEF Write, Mild, Types
  <2> QED
    BY <1>7, <2>2, ReturnsUse DEF Write
<1>8. CASE LoadPause(t)
  <2>1. At(t, "pause") /\ Goto(t, "pausing") /\ Mild(t)
    BY <1>8 DEF LoadPause, Mild, streamVars
  <2> QED
    BY <2>1, GoesUse DEF Loose, Labels, Setup, Critical, Closing
<1>9. CASE StorePause(t)
  <2>1. At(t, "pausing") /\ s \in Streams /\ Return(t)
    BY <1>9, InCall DEF StorePause, Loose
  <2>2. cleaning' = cleaning
    BY <1>9, <2>1, StoreKeeps DEF StorePause
  <2>3. Mild(t)
    BY <1>9, <2>2 DEF StorePause, Mild
  <2> QED
    BY <2>1, <2>3, ReturnsUse
<1>10. CASE LockQueue(t)
  <2>1. At(t, "queue") /\ s \in Streams /\ Goto(t, "queued")
    BY <1>10, InCall DEF LockQueue, Loose
  <2>2. /\ mutex[s] = "free" /\ mutex' = [mutex EXCEPT ![s] = t]
        /\ UNCHANGED <<cleaning, refs, phase, asked, tornBy, misuse>>
    BY <1>10 DEF LockQueue
  <2>3. mutex'[s] = t /\ Mild(t)
    BY <2>1, <2>2 DEF Mild, Types
  <2> HIDE DEF s
  <2>4. s = Of(t)
    BY DEF s
  <2> QED
    BY <2>1, <2>3, <2>4, GoesUse DEF Loose, Labels, Setup, Critical, Closing
<1>11. CASE UnlockQueue(t)
  <2>1. At(t, "queued") /\ s \in Streams /\ Return(t)
    BY <1>11, InCall DEF UnlockQueue, Loose
  <2>2. mutex[s] = t
    BY <2>1, Innermost DEF Critical
  <2>3. cleaning' = cleaning
    BY <1>11, <2>1, StoreOrNotKeeps DEF UnlockQueue
  <2>4. mutex' = [mutex EXCEPT ![s] = "free"] /\ UNCHANGED <<refs, phase, asked, tornBy, misuse>>
    BY <1>11 DEF UnlockQueue, Unlocked
  <2>5. Mild(t)
    BY <2>1, <2>2, <2>3, <2>4 DEF Mild, Types
  <2> QED
    BY <2>1, <2>5, ReturnsUse
<1> QED
  BY <1>1, <1>2, <1>3, <1>4, <1>5, <1>6, <1>7, <1>8, <1>9, <1>10, <1>11 DEF Command

LEMMA MediaUse ==
    ASSUME Types, Types', Calling, OneStarts, RunMedia
    PROVE  Calling' /\ OneStarts'
<1> USE Threading
<1> DEFINE t == "media"
           s == Of(t)
<1>1. CASE TryLock
  <2>1. At(t, "try") /\ s \in Streams /\ Goto(t, "copied")
    BY <1>1, InCall DEF TryLock, Loose
  <2>2. /\ mutex[s] = "free" /\ mutex' = [mutex EXCEPT ![s] = t]
        /\ refs' = [refs EXCEPT ![s] = IF "wrap" \in refs[s] THEN refs[s] \cup {t}
                                       ELSE refs[s]]
        /\ UNCHANGED <<cleaning, phase, asked, tornBy, misuse>>
    BY <1>1 DEF TryLock
  <2>3. mutex'[s] = t /\ Mild(t)
    BY <2>1, <2>2 DEF Mild, Types
  <2> HIDE DEF s
  <2>4. s = Of(t)
    BY DEF s
  <2> QED
    BY <2>1, <2>3, <2>4, GoesUse DEF Loose, Labels, Setup, Critical, Closing
<1>2. CASE TryLockFails
  <2>1. Mild(t)
    BY <1>2 DEF TryLockFails, Mild, streamVars
  <2> QED
    BY <1>2, <2>1, ReturnsUse DEF TryLockFails
<1> QED
  BY <1>1, <1>2 DEF RunMedia

LEMMA WorkerUse ==
    ASSUME Types, Types', Calling, OneStarts, Begun, ~lost', NEW s \in Streams, Worker(s)
    PROVE  Calling' /\ OneStarts'
<1> USE Threading
<1> DEFINE r == Of(s)
<1>1. ASSUME NEW label, At(s, label), CallbackReturns(s) PROVE Calling' /\ OneStarts'
  <2>1. refs' = [refs EXCEPT ![s] = refs[s] \ {"self"}] /\ Return(s)
        /\ UNCHANGED <<mutex, cleaning, asked, phase, tornBy, misuse>>
    BY <1>1 DEF CallbackReturns
  <2>2. Mild(s)
    BY <2>1 DEF Mild, Types
  <2> QED
    BY <1>1, <2>1, <2>2, ReturnsUse
<1>2. CASE NobodyListens(s) \/ NothingToClose(s) \/ Done(s)
  BY <1>1, <1>2 DEF NobodyListens, NothingToClose, Done
<1>3. ASSUME NEW label, At(s, label), NEW next \in {"play", "request"}, private # None,
             GotoWithBug(s, next), UNCHANGED <<private, streamVars, tornBy, misuse>>
      PROVE  Calling' /\ OneStarts'
  <2>1. Replaced(s, Frame(next, private, stack[s][1].closing))
    BY <1>3, Learns DEF Labels
  <2>2. PICK f : f.at = next /\ f.s = private /\ Replaced(s, f)
    BY <2>1 DEF Frame
  <2>3. private' = private /\ phase' = phase /\ Mild(s)
    BY <1>3 DEF streamVars, Mild
  <2>4. Knows(s, f)'
    BY <2>2, <2>3 DEF Knows, Begun, Setup, Critical, Closing
  <2> QED
    BY <2>2, <2>3, <2>4, Replacing
<1>4. CASE FindBug(s) \/ FindBugToClose(s)
  BY <1>3, <1>4 DEF FindBug, FindBugToClose
<1>5. CASE LockPlayback(s)
  <2>1. At(s, "play") /\ r \in Streams /\ Goto(s, "played")
    BY <1>5, InCall DEF LockPlayback, Loose
  <2>2. /\ mutex[r] = "free" /\ mutex' = [mutex EXCEPT ![r] = s]
        /\ UNCHANGED <<cleaning, refs, phase, asked, tornBy, misuse>>
    BY <1>5 DEF LockPlayback
  <2>3. mutex'[r] = s /\ Mild(s)
    BY <2>1, <2>2 DEF Mild, Types
  <2> HIDE DEF r
  <2>4. r = Of(s)
    BY DEF r
  <2> QED
    BY <2>1, <2>3, <2>4, GoesUse DEF Loose, Labels, Setup, Critical, Closing
<1>6. CASE UnlockPlayback(s)
  <2>1. At(s, "played") /\ r \in Streams /\ Goto(s, "done")
    BY <1>6, InCall DEF UnlockPlayback, Loose
  <2>2. mutex[r] = s
    BY <2>1, Innermost DEF Critical
  <2>3. cleaning' = cleaning
    BY <1>6, <2>1, StoreOrNotKeeps DEF UnlockPlayback
  <2>4. mutex' = [mutex EXCEPT ![r] = "free"] /\ UNCHANGED <<refs, phase, asked, tornBy, misuse>>
    BY <1>6 DEF UnlockPlayback, Unlocked
  <2>5. Mild(s)
    BY <2>1, <2>2, <2>3, <2>4 DEF Mild, Types
  <2> QED
    BY <2>1, <2>5, GoesUse DEF Loose, Labels, Setup, Critical, Closing
<1>7. CASE LoadRequest(s)
  <2>1. At(s, "request") /\ Goto(s, "requesting") /\ Mild(s)
    BY <1>7 DEF LoadRequest, Mild, streamVars
  <2> QED
    BY <2>1, GoesUse DEF Loose, Labels, Setup, Critical, Closing
<1>8. CASE StoreRequest(s)
  <2>1. At(s, "requesting") /\ r \in Streams /\ Goto(s, "close")
    BY <1>8, InCall DEF StoreRequest, Loose
  <2>2. cleaning' = cleaning
    BY <1>8, <2>1, StoreKeeps DEF StoreRequest
  <2>3. Mild(s)
    BY <1>8, <2>2 DEF StoreRequest, Mild
  <2> QED
    BY <2>1, <2>3, GoesUse DEF Loose, Labels, Setup, Critical, Closing
<1>9. CASE CloseBug(s)
  <2>1. /\ At(s, "close") /\ stack[s] # <<>> /\ r \in Streams
        /\ GotoAndCall(s, "done", Cleanup(~closeReq[r]))
    BY <1>9, InCall DEF CloseBug, Loose
  <2> DEFINE b == ~closeReq[r]
  <2>2. b \in BOOLEAN
    OBVIOUS
  <2> HIDE DEF b
  <2>3. Cleanup(b) \in Frames /\ Cleanup(b).at = "fetch" /\ Cleanup(b).s = None
    BY <2>2, Cleanups
  <2>4. GotoAndCall(s, "done", Cleanup(b))
    BY <2>1 DEF b
  <2>5. ReplacedAndPushed(s, Cleanup(b), Frame("done", r, stack[s][1].closing))
    BY <2>1, <2>3, <2>4, Nests DEF Labels, Loose
  <2>6. PICK f, g : /\ f.at = "fetch" /\ f.s = None /\ g.at = "done" /\ g.s = r
                    /\ ReplacedAndPushed(s, f, g)
    BY <2>3, <2>5 DEF Frame
  <2>7. phase[r] # "new"
    BY <2>1, Innermost
  <2>8. UNCHANGED phase /\ Mild(s)
    BY <1>9 DEF CloseBug, Mild, streamVars
  <2> HIDE DEF r
  <2>9. Knows(s, f)' /\ Knows(s, g)'
    BY <2>6, <2>7, <2>8 DEF Knows, Setup, Critical, Closing
  <2> QED
    BY <2>1, <2>6, <2>8, <2>9, Nesting DEF Waits
<1> QED
  BY <1>2, <1>4, <1>5, <1>6, <1>7, <1>8, <1>9 DEF Worker

\* Threads that begin a call, workers that move, and misuse.
LEMMA BeginUse ==
    ASSUME Types, Types', Calling, OneStarts, Begun,
           \/ \E t \in Api : Stop(t) \/ SendText(t) \/ Pause(t) \/ Break(t)
           \/ \E s \in Streams : MediaFrame(s) \/ MediaWrite(s) \/ CoreCloses(s)
    PROVE  Calling' /\ OneStarts'
<1> USE Threading
<1>1. ASSUME NEW t \in Threads, NEW f \in Frames, Idle(t), Call(t, f), f.at # "init",
             UNCHANGED <<mutex, cleaning, refs, asked, phase, tornBy, misuse>>,
             f.s \in Streams =>
                 f.at \in {"copy", "pause", "queue", "try"} /\ phase[f.s] # "new"
      PROVE  Calling' /\ OneStarts'
  <2>1. Elsewhere(t) /\ Len(stack'[t]) = 1 /\ stack'[t][1] = f
    BY <1>1, Calls
  <2>2. Mild(t)
    BY <1>1 DEF Mild
  <2>3. Knows(t, f)'
    BY <1>1 DEF Knows, Setup, Critical, Closing
  <2> QED
    BY <1>1, <2>1, <2>2, <2>3, Beginning
<1>2. ASSUME NEW closing \in BOOLEAN
      PROVE  \E f \in Frames : f = Cleanup(closing) /\ f.at # "init" /\ f.s \notin Streams
  BY Cleanups
<1>3. ASSUME NEW t \in Threads, NEW s \in Streams, NEW at \in {"copy", "pause", "queue", "try"},
             Idle(t), Call(t, Frame(at, s, FALSE)), phase[s] # "new",
             UNCHANGED <<streamVars, tornBy, misuse>>
      PROVE  Calling' /\ OneStarts'
  <2>1. Frame(at, s, FALSE) \in Frames
    BY FrameType DEF Labels
  <2>2. PICK f \in Frames : f = Frame(at, s, FALSE) /\ f.at = at /\ f.s = s
    BY <2>1 DEF Frame
  <2> QED
    BY <1>1, <1>3, <2>2 DEF streamVars
<1>4. ASSUME NEW t \in Api, Stop(t) PROVE Calling' /\ OneStarts'
  <2>1. PICK f \in Frames : f = Cleanup(FALSE) /\ f.at # "init" /\ f.s \notin Streams
    BY <1>2
  <2> QED
    BY <1>1, <1>4, <2>1 DEF Stop, streamVars
<1>5. ASSUME NEW t \in Api, SendText(t) \/ Pause(t) \/ Break(t)
      PROVE  Calling' /\ OneStarts'
  <2>1. private \in Streams /\ phase[private] # "new"
    BY <1>5 DEF SendText, Pause, Break, Types, Begun
  <2> QED
    BY <1>3, <1>5, <2>1 DEF SendText, Pause, Break
<1>6. ASSUME NEW s \in Streams, MediaFrame(s) \/ MediaWrite(s) PROVE Calling' /\ OneStarts'
  <2>1. phase[s] # "new"
    BY <1>6 DEF MediaFrame, MediaWrite, Begun
  <2> QED
    BY <1>3, <1>6, <2>1 DEF MediaFrame, MediaWrite
<1>7. ASSUME NEW s \in Streams, CoreCloses(s) PROVE Calling' /\ OneStarts'
  <2>1. (~closeReq[s]) \in BOOLEAN
    OBVIOUS
  <2>2. PICK f \in Frames : f = Cleanup(~closeReq[s]) /\ f.at # "init" /\ f.s \notin Streams
    BY <1>2, <2>1
  <2> QED
    BY <1>1, <1>7, <2>2 DEF CoreCloses
<1> QED
  BY <1>4, <1>5, <1>6, <1>7

\* start_capture takes a stream nobody is about.
LEMMA StartUse ==
    ASSUME Types, Types', Calling, OneStarts, NEW t \in Api, NEW s \in Streams, Start(t, s)
    PROVE  Calling' /\ OneStarts'
<1> USE Threading
<1>1. PICK f \in Frames : f = Frame("init", s, FALSE) /\ f.at = "init" /\ f.s = s
  <2>1. Frame("init", s, FALSE) \in Frames
    BY FrameType DEF Labels
  <2> QED
    BY <2>1 DEF Frame
<1>2. /\ Idle(t) /\ Call(t, f) /\ phase[s] = "new"
      /\ UNCHANGED <<mutex, cleaning, refs, asked, phase, tornBy, misuse>>
      /\ \A u \in Threads : \A i \in DOMAIN stack[u] : stack[u][i].s # s
  BY <1>1 DEF Start, Used, streamVars
<1>3. Elsewhere(t) /\ Len(stack'[t]) = 1 /\ stack'[t][1] = f
  BY <1>1, <1>2, Calls
<1>4. Knows(t, f)'
  BY <1>1, <1>2 DEF Knows, Setup, Critical, Closing
<1>5. ASSUME NEW u \in Threads, NEW i \in 1..Len(stack'[u])
      PROVE  Knows(u, stack[u][i])' /\ (i # 1 => stack'[u][i].at \in Waits)
  <2>1. CASE u = t
    BY <1>3, <1>4, <2>1 DEF Knows
  <2>2. CASE u # t
    <3>1. stack'[u] = stack[u]
      BY <1>3, <2>2 DEF Elsewhere
    <3>2. Knows(u, stack[u][i]) /\ (i # 1 => stack[u][i].at \in Waits)
      BY <3>1 DEF Calling
    <3> QED
      BY <1>2, <3>1, <3>2 DEF Knows
  <2> QED
    BY <2>1, <2>2
<1>6. ASSUME NEW u \in Threads, Label(stack'[u]) = "init", stack'[u][1].s = s
      PROVE  u = t
  <2> SUFFICES ASSUME u # t PROVE FALSE
    OBVIOUS
  <2>1. stack'[u] = stack[u]
    BY <1>3 DEF Elsewhere
  <2>2. 1 \in DOMAIN stack[u]
    BY <1>6, <2>1, TopOf DEF Label, Types
  <2> QED
    BY <1>2, <1>6, <2>1, <2>2
<1>7. ASSUME NEW u \in Threads, NEW v \in Threads, Label(stack'[u]) = "init",
             Label(stack'[v]) = "init", stack'[u][1].s = stack'[v][1].s
      PROVE  u = v
  <2>1. CASE u = t \/ v = t
    BY <1>1, <1>3, <1>6, <1>7, <2>1
  <2>2. CASE u # t /\ v # t
    BY <1>3, <1>7, <2>2 DEF Elsewhere, OneStarts
  <2> QED
    BY <2>1, <2>2
<1> QED
  BY <1>5, <1>7 DEF Calling, OneStarts

LEMMA MovesUse ==
    ASSUME Types, Types', Calling, OneStarts, NEW s \in Streams, WorkerMoves(s)
    PROVE  Calling' /\ OneStarts'
<1> USE Threading
<1>1. /\ Len(stack[s]) = 0 /\ Elsewhere(s)
      /\ \/ Len(stack'[s]) = 0
         \/ /\ Len(stack'[s]) = 1 /\ phase'[s] \in {"message", "failing"}
            /\ stack'[s][1] = Frame(phase'[s], None, FALSE)
      /\ phase' = [phase EXCEPT ![s] = phase'[s]]
      /\ phase'[s] \in Follows(s)
  BY WorkerStack
<1>2. /\ UNCHANGED <<mutex, cleaning, asked, tornBy, misuse>>
      /\ \A r \in Streams, u \in Threads : u \in refs'[r] <=> u \in refs[r]
  <2>1. UNCHANGED <<mutex, cleaning, asked, tornBy, misuse>>
    BY DEF WorkerMoves
  <2>2. refs' = refs \/ refs' = [refs EXCEPT ![s] = refs[s] \cup {"self"}]
    BY WorkerStack
  <2>3. CASE refs' = refs
    BY <2>1, <2>3
  <2>4. CASE refs' = [refs EXCEPT ![s] = refs[s] \cup {"self"}]
    BY <2>1, <2>4 DEF Types
  <2> QED
    BY <2>2, <2>3, <2>4
<1>3. phase[s] \notin {"new", "ended"} /\ phase'[s] # "new"
  BY <1>1 DEF Follows
<1>4. Mild(s)
  BY <1>1, <1>2, <1>3 DEF Mild, Types
<1>5. CASE Len(stack'[s]) = 1
  <2>1. PICK f : f.at \in {"message", "failing"} /\ f.s = None /\ stack'[s][1] = f
    BY <1>1, <1>5 DEF Frame
  <2>2. Knows(s, f)'
    BY <2>1 DEF Knows
  <2> QED
    BY <1>1, <1>4, <1>5, <2>1, <2>2, Beginning
<1>6. CASE Len(stack'[s]) = 0
  <2>1. \A u \in Threads : stack'[u] = stack[u]
    BY <1>1, <1>6, TopOf DEF Elsewhere, Types
  <2>2. ASSUME NEW u \in Threads, NEW i \in 1..Len(stack'[u])
        PROVE  Knows(u, stack[u][i])' /\ (i # 1 => stack'[u][i].at \in Waits)
    <3>1. Knows(u, stack[u][i]) /\ (i # 1 => stack[u][i].at \in Waits)
      BY <2>1 DEF Calling
    <3> QED
      BY <1>2, <1>4, <2>1, <3>1 DEF Knows, Mild
  <2> QED
    BY <2>1, <2>2 DEF Calling, OneStarts
<1> QED
  BY <1>1, <1>5, <1>6

\* No step of any thread makes a call wrong about its stream.
LEMMA CallingStep ==
    ASSUME Types, Types', Calling, OneStarts, Begun, [Next]_vars, ~lost'
    PROVE  Calling' /\ OneStarts'
<1> USE Threading, CommandsAssumption
<1>1. ASSUME NEW t \in Threads, LockDestroyed(t) PROVE Calling' /\ OneStarts'
  <2>1. UNCHANGED <<stack, cleaning, refs>> /\ Mild(t) /\ misuse' # {}
    BY <1>1 DEF LockDestroyed, Mild, streamVars
  <2> QED
    BY <2>1, Standing
<1>2. ASSUME UNCHANGED vars PROVE Calling' /\ OneStarts'
  <2>1. UNCHANGED <<stack, mutex, cleaning, refs, misuse>> /\ Mild("core")
    BY <1>2 DEF vars, streamVars, Mild
  <2> QED
    BY <2>1, Standing
<1>3. ASSUME NEW t \in Threads, Run(t) PROVE Calling' /\ OneStarts'
  BY <1>1, <1>3, TeardownUse, CommandUse DEF Run
<1>4. ASSUME NEW t \in Api, \/ Stop(t) \/ SendText(t) \/ Pause(t) \/ Break(t)
                            \/ \E s \in Streams : Start(t, s)
      PROVE  Calling' /\ OneStarts'
  BY <1>4, BeginUse, StartUse
<1>5. ASSUME NEW s \in Streams,
             \/ MediaFrame(s) \/ MediaWrite(s) \/ CoreCloses(s) \/ WorkerMoves(s)
             \/ Worker(s)
      PROVE  Calling' /\ OneStarts'
  BY <1>5, BeginUse, MovesUse, WorkerUse
<1> QED
  BY <1>2, <1>3, <1>4, <1>5, MediaUse DEF Next

-----------------------------------------------------------------------------

\* Who writes what.
LEMMA TornStep ==
    ASSUME [Next]_vars
    PROVE  (\E t \in Threads : TakeOver(t)) \/ UNCHANGED tornBy
BY DEF Next, Run, RunMedia, Teardown, Command, Fetch, Claim, ComeTooLate, Remove, Quieten,
       NoStreamer, Join, Destroy, InitSession, InitFails, AddBug, AddBugFails, Publish,
       CopyStreamer, UnlockCopy, Write, LoadPause, StorePause, LockQueue, UnlockQueue,
       LockDestroyed, TryLock, TryLockFails, Stop, SendText, Pause, Break, Start,
       MediaFrame, MediaWrite, CoreCloses, WorkerMoves, Worker, NobodyListens, FindBug,
       LockPlayback, UnlockPlayback, FindBugToClose, LoadRequest, StoreRequest, CloseBug,
       NothingToClose, Done, CallbackReturns, vars, streamVars

LEMMA OnceStep ==
    ASSUME [Next]_vars
    PROVE  \/ \E t \in Threads : TakeOver(t) \/ StorePause(t) \/ UnlockQueue(t)
           \/ \E s \in Streams : UnlockPlayback(s) \/ StoreRequest(s)
           \/ UNCHANGED <<cleaning, tornBy>>
BY DEF Next, Run, RunMedia, Teardown, Command, Fetch, Claim, ComeTooLate, Remove, Quieten,
       NoStreamer, Join, Destroy, InitSession, InitFails, AddBug, AddBugFails, Publish,
       CopyStreamer, UnlockCopy, Write, LoadPause, LockQueue, LockDestroyed, TryLock,
       TryLockFails, Stop, SendText, Pause, Break, Start, MediaFrame, MediaWrite,
       CoreCloses, WorkerMoves, Worker, NobodyListens, FindBug, LockPlayback,
       FindBugToClose, LoadRequest, CloseBug, NothingToClose, Done, CallbackReturns, vars,
       streamVars

\* While no flag is undone, cleanup_started is stored by TakeOver only.
LEMMA CleaningStep ==
    ASSUME Types, [Next]_vars, ~lost'
    PROVE  (\E t \in Threads : TakeOver(t)) \/ UNCHANGED <<cleaning, tornBy>>
<1> USE Threading
<1>1. ASSUME NEW t \in Threads, StorePause(t) PROVE UNCHANGED <<cleaning, tornBy>>
  <2>1. Of(t) \in Streams
    BY <1>1, InCall DEF StorePause, Loose
  <2> QED
    BY <1>1, <2>1, StoreKeeps DEF StorePause
<1>2. ASSUME NEW t \in Threads, UnlockQueue(t) PROVE UNCHANGED <<cleaning, tornBy>>
  <2>1. Of(t) \in Streams
    BY <1>2, InCall DEF UnlockQueue, Loose
  <2> QED
    BY <1>2, <2>1, StoreOrNotKeeps DEF UnlockQueue
<1>3. ASSUME NEW t \in Streams, UnlockPlayback(t) PROVE UNCHANGED <<cleaning, tornBy>>
  <2>1. Of(t) \in Streams
    BY <1>3, InCall DEF UnlockPlayback, Loose
  <2> QED
    BY <1>3, <2>1, StoreOrNotKeeps DEF UnlockPlayback
<1>4. ASSUME NEW t \in Streams, StoreRequest(t) PROVE UNCHANGED <<cleaning, tornBy>>
  <2>1. Of(t) \in Streams
    BY <1>4, InCall DEF StoreRequest, Loose
  <2> QED
    BY <1>4, <2>1, StoreKeeps DEF StoreRequest
<1> QED
  BY <1>1, <1>2, <1>3, <1>4, OnceStep

\* What TakeOver finds and leaves.
LEMMA Takes ==
    ASSUME Types, Calling, NEW t \in Threads, TakeOver(t), ~lost'
    PROVE  /\ At(t, "claiming") /\ Of(t) \in Streams
           /\ mutex[Of(t)] = t /\ ~cleaning[Of(t)] /\ phase[Of(t)] # "new"
           /\ mutex' = [mutex EXCEPT ![Of(t)] = "free"]
           /\ cleaning' = [cleaning EXCEPT ![Of(t)] = TRUE]
           /\ tornBy' = [tornBy EXCEPT ![Of(t)] =
                             tornBy[Of(t)] \cup {<<t, Head(stack[t]).closing>>}]
           /\ phase' = phase
<1>1. At(t, "claiming") /\ Of(t) \in Streams
  BY InCall DEF TakeOver, Loose
<1>2. mutex[Of(t)] = t /\ ~cleaning[Of(t)] /\ phase[Of(t)] # "new"
  BY <1>1, Innermost DEF Critical
<1>3. cleaning' = [cleaning EXCEPT ![Of(t)] = TRUE]
  BY <1>1, StoreKeeps DEF TakeOver
<1>4. /\ mutex' = [mutex EXCEPT ![Of(t)] = "free"]
      /\ tornBy' = [tornBy EXCEPT ![Of(t)] =
                        tornBy[Of(t)] \cup {<<t, Head(stack[t]).closing>>}]
      /\ phase' = phase
  BY DEF TakeOver, Unlocked
<1> QED
  BY <1>1, <1>2, <1>3, <1>4

\* The test of cleanup_started and its setting are under one lock of the mutex.
LEMMA OnceKept ==
    ASSUME Types, Calling, Once, [Next]_vars, ~lost'
    PROVE  Once'
<1>1. ASSUME NEW t \in Threads, TakeOver(t) PROVE Once'
  <2> DEFINE s == Of(t)
             torn == <<t, Head(stack[t]).closing>>
  <2>1. /\ s \in Streams /\ ~cleaning[s]
        /\ cleaning' = [cleaning EXCEPT ![s] = TRUE]
        /\ tornBy' = [tornBy EXCEPT ![s] = tornBy[s] \cup {torn}]
    BY <1>1, Takes
  <2>2. tornBy[s] = {}
    BY <2>1 DEF Once
  <2> HIDE DEF s, torn
  <2>3. cleaning'[s] = TRUE /\ tornBy'[s] = {torn}
    BY <2>1, <2>2 DEF Types
  <2>4. \A r \in Streams : r # s => cleaning'[r] = cleaning[r] /\ tornBy'[r] = tornBy[r]
    BY <2>1 DEF Types
  <2> QED
    BY <2>3, <2>4 DEF Once
<1>2. ASSUME UNCHANGED <<cleaning, tornBy>> PROVE Once'
  BY <1>2 DEF Once
<1> QED
  BY <1>1, <1>2, CleaningStep

LEMMA AskedStep ==
    ASSUME [Next]_vars
    PROVE  (\E t \in Threads : Quieten(t)) \/ UNCHANGED asked
BY DEF Next, Run, RunMedia, Teardown, Command, Fetch, Claim, ComeTooLate, TakeOver, Remove,
       NoStreamer, Join, Destroy, InitSession, InitFails, AddBug, AddBugFails, Publish,
       CopyStreamer, UnlockCopy, Write, LoadPause, StorePause, LockQueue, UnlockQueue,
       LockDestroyed, TryLock, TryLockFails, Stop, SendText, Pause, Break, Start,
       MediaFrame, MediaWrite, CoreCloses, WorkerMoves, Worker, NobodyListens, FindBug,
       LockPlayback, UnlockPlayback, FindBugToClose, LoadRequest, StoreRequest, CloseBug,
       NothingToClose, Done, CallbackReturns, vars, streamVars

LEMMA PrivateStep ==
    ASSUME [Next]_vars
    PROVE  (\E t \in Threads : Publish(t)) \/ private' \in {private, None}
BY DEF Next, Run, RunMedia, Teardown, Command, Fetch, Claim, ComeTooLate, TakeOver, Remove,
       Quieten, NoStreamer, Join, Destroy, InitSession, InitFails, AddBug, AddBugFails,
       CopyStreamer, UnlockCopy, Write, LoadPause, StorePause, LockQueue, UnlockQueue,
       LockDestroyed, TryLock, TryLockFails, Stop, SendText, Pause, Break, Start,
       MediaFrame, MediaWrite, CoreCloses, WorkerMoves, Worker, NobodyListens, FindBug,
       LockPlayback, UnlockPlayback, FindBugToClose, LoadRequest, StoreRequest, CloseBug,
       NothingToClose, Done, CallbackReturns, vars, streamVars

LEMMA BugStep ==
    ASSUME [Next]_vars
    PROVE  \/ \E t \in Threads : AddBug(t) \/ Remove(t)
           \/ \E s \in Streams : CoreCloses(s)
           \/ UNCHANGED bug
BY DEF Next, Run, RunMedia, Teardown, Command, Fetch, Claim, ComeTooLate, TakeOver,
       Quieten, NoStreamer, Join, Destroy, InitSession, InitFails, AddBugFails, Publish,
       CopyStreamer, UnlockCopy, Write, LoadPause, StorePause, LockQueue, UnlockQueue,
       LockDestroyed, TryLock, TryLockFails, Stop, SendText, Pause, Break, Start,
       MediaFrame, MediaWrite, WorkerMoves, Worker, NobodyListens, FindBug, LockPlayback,
       UnlockPlayback, FindBugToClose, LoadRequest, StoreRequest, CloseBug, NothingToClose,
       Done, CallbackReturns, vars, streamVars

LEMMA MutexStep ==
    ASSUME [Next]_vars
    PROVE  \/ \E t \in Threads :
                 \/ Claim(t) \/ CopyStreamer(t) \/ LockQueue(t)
                 \/ TakeOver(t) \/ UnlockCopy(t) \/ UnlockQueue(t)
                 \/ InitSession(t) \/ InitFails(t) \/ Destroy(t)
           \/ TryLock
           \/ \E s \in Streams : LockPlayback(s) \/ UnlockPlayback(s)
           \/ UNCHANGED mutex
BY DEF Next, Run, RunMedia, Teardown, Command, Fetch, ComeTooLate, Remove, Quieten,
       NoStreamer, Join, AddBug, AddBugFails, Publish, Write, LoadPause, StorePause,
       LockDestroyed, TryLockFails, Stop, SendText, Pause, Break, Start, MediaFrame,
       MediaWrite, CoreCloses, WorkerMoves, Worker, NobodyListens, FindBug, FindBugToClose,
       LoadRequest, StoreRequest, CloseBug, NothingToClose, Done, CallbackReturns, vars,
       streamVars

\* A phase moves as the contract says, from "new" by stream_session_init only.
LEMMA PhaseMoves ==
    ASSUME Types, Calling, [Next]_vars, NEW s \in Streams
    PROVE  \/ phase'[s] = phase[s]
           \/ WorkerMoves(s) /\ phase'[s] \in Follows(s)
           \/ /\ phase[s] = "new" /\ phase'[s] = "dialing"
              /\ \E t \in Threads : InitSession(t) \/ InitFails(t)
<1>1. ASSUME NEW t \in Threads, InitSession(t) \/ InitFails(t)
      PROVE  phase'[s] = phase[s] \/ (phase[s] = "new" /\ phase'[s] = "dialing")
  <2>1. At(t, "init") /\ Of(t) \in Streams /\ phase' = [phase EXCEPT ![Of(t)] = "dialing"]
    BY <1>1, InCall DEF InitSession, InitFails, Loose
  <2>2. phase[Of(t)] = "new"
    BY <2>1, Innermost
  <2> QED
    BY <2>1, <2>2 DEF Types
<1>2. ASSUME NEW r \in Streams, WorkerMoves(r)
      PROVE  phase'[s] = phase[s] \/ (WorkerMoves(s) /\ phase'[s] \in Follows(s))
  <2>1. phase' = [phase EXCEPT ![r] = phase'[r]] /\ phase'[r] \in Follows(r)
    BY <1>2, WorkerStack
  <2> QED
    BY <1>2, <2>1 DEF Types
<1> QED
  BY <1>1, <1>2, PhaseStep

\* A mutex is destroyed, and made again, by these only.
LEMMA DestroyedMoves ==
    ASSUME Types, Calling, [Next]_vars, NEW s \in Streams
    PROVE  \/ mutex'[s] = "destroyed" <=> mutex[s] = "destroyed"
           \/ \E t \in Threads : Of(t) = s /\ (InitSession(t) \/ InitFails(t) \/ Destroy(t))
<1> USE Threading
<1> DEFINE Same == mutex'[s] = "destroyed" <=> mutex[s] = "destroyed"
<1>1. ASSUME NEW t \in Threads, Claim(t) \/ CopyStreamer(t) \/ LockQueue(t)
      PROVE  Same
  <2>1. mutex[Of(t)] = "free" /\ mutex' = [mutex EXCEPT ![Of(t)] = t]
    BY <1>1 DEF Claim, CopyStreamer, LockQueue
  <2> QED
    BY <2>1 DEF Types
<1>2. ASSUME TryLock PROVE Same
  <2>1. mutex[Of("media")] = "free" /\ mutex' = [mutex EXCEPT ![Of("media")] = "media"]
    BY <1>2 DEF TryLock
  <2> QED
    BY <2>1 DEF Types
<1>3. ASSUME NEW r \in Streams, LockPlayback(r) PROVE Same
  <2>1. mutex[Of(r)] = "free" /\ mutex' = [mutex EXCEPT ![Of(r)] = r]
    BY <1>3 DEF LockPlayback
  <2> QED
    BY <2>1 DEF Types
<1>4. ASSUME NEW t \in Threads, NEW label \in Critical, At(t, label),
             mutex' = Unlocked(Of(t))
      PROVE  Same
  <2>1. Of(t) \in Streams
    BY <1>4, InCall DEF Critical, Loose
  <2>2. mutex[Of(t)] = t
    BY <1>4, <2>1, Innermost
  <2> QED
    BY <1>4, <2>1, <2>2 DEF Unlocked, Types
<1>5. ASSUME NEW t \in Threads, TakeOver(t) \/ UnlockCopy(t) \/ UnlockQueue(t)
      PROVE  Same
  BY <1>4, <1>5 DEF TakeOver, UnlockCopy, UnlockQueue, Critical
<1>6. ASSUME NEW r \in Streams, UnlockPlayback(r) PROVE Same
  BY <1>4, <1>6 DEF UnlockPlayback, Critical
<1>7. ASSUME NEW t \in Threads, InitSession(t) \/ InitFails(t) \/ Destroy(t), Of(t) # s
      PROVE  Same
  <2>1. \E x : mutex' = [mutex EXCEPT ![Of(t)] = x]
    BY <1>7 DEF InitSession, InitFails, Destroy
  <2> QED
    BY <1>7, <2>1 DEF Types
<1> QED
  BY <1>1, <1>2, <1>3, <1>5, <1>6, <1>7, MutexStep

\* DisconnectReturned becomes true by destroy_tech_pvt only, and stays so.
LEMMA ReturnedMoves ==
    ASSUME Types, Types', Calling, Begun, [Next]_vars, ~lost', NEW s \in Streams
    PROVE  \/ DisconnectReturned(s)' <=> DisconnectReturned(s)
           \/ \E t \in Threads : Of(t) = s /\ Destroy(t)
<1> USE Threading
<1>1. ASSUME NEW t \in Threads, TakeOver(t)
      PROVE  DisconnectReturned(s)' <=> DisconnectReturned(s)
  <2>1. /\ mutex[Of(t)] = t /\ mutex' = [mutex EXCEPT ![Of(t)] = "free"]
        /\ \E x : tornBy' = [tornBy EXCEPT ![Of(t)] = x]
    BY <1>1, Takes
  <2>2. CASE Of(t) = s
    <3>1. mutex[s] # "destroyed" /\ mutex'[s] # "destroyed"
      BY <2>1, <2>2 DEF Types
    <3> QED
      BY <3>1 DEF DisconnectReturned
  <2>3. CASE Of(t) # s
    <3>1. mutex'[s] = mutex[s] /\ tornBy'[s] = tornBy[s]
      BY <2>1, <2>3 DEF Types
    <3> QED
      BY <3>1 DEF DisconnectReturned
  <2> QED
    BY <2>2, <2>3
<1>2. ASSUME UNCHANGED tornBy, ~\E t \in Threads : Of(t) = s /\ Destroy(t)
      PROVE  DisconnectReturned(s)' <=> DisconnectReturned(s)
  <2>1. CASE mutex'[s] = "destroyed" <=> mutex[s] = "destroyed"
    BY <1>2, <2>1 DEF DisconnectReturned
  <2>2. ASSUME NEW t \in Threads, Of(t) = s, InitSession(t) \/ InitFails(t)
        PROVE  DisconnectReturned(s)' <=> DisconnectReturned(s)
    <3>1. At(t, "init")
      BY <2>2 DEF InitSession, InitFails
    <3>2. phase[s] = "new"
      BY <2>2, <3>1, Innermost
    <3>3. tornBy[s] = {}
      BY <3>2 DEF Begun
    <3> QED
      BY <1>2, <3>3 DEF DisconnectReturned
  <2> QED
    BY <1>2, <2>1, <2>2, DestroyedMoves
<1> QED
  BY <1>1, <1>2, TornStep

\* When destroy_tech_pvt runs after disconnect(), that has returned.
LEMMA DestroyedAfter ==
    ASSUME Types, Calling, Once, NEW t \in Threads, NEW s \in Streams, Of(t) = s,
           Destroy(t), t \in refs[s], DisconnectReturned(s)'
    PROVE  asked[s] /\ phase[s] = "ended"
<1> USE Threading
<1>1. At(t, "destroy")
  BY DEF Destroy
<1>2. /\ asked[s] /\ (t = s \/ phase[s] = "ended")
      /\ t \in Api \/ \E torn \in tornBy[s] : torn[1] = t
  BY <1>1, Innermost DEF Closing
<1>3. tornBy' = tornBy
  BY DEF Destroy
<1>4. ASSUME t = s PROVE FALSE
  <2>1. t \notin Api
    BY <1>4, NamesDistinct
  <2>2. PICK torn \in tornBy[s] : torn[1] = s
    BY <1>2, <1>4, <2>1
  <2>3. PICK other \in tornBy[s] : other[1] # s
    BY <1>3 DEF DisconnectReturned
  <2> QED
    BY <2>2, <2>3 DEF Once
<1> QED
  BY <1>2, <1>4

\* Nothing is seen of a stream before it is started.
LEMMA BegunStep ==
    ASSUME Types, Types', Calling, OneStarts, Begun, [Next]_vars, ~lost'
    PROVE  Begun'
<1> USE Threading
<1>1. ASSUME NEW s \in Streams, phase'[s] = "new" PROVE phase[s] = "new"
  <2>1. "new" \notin Follows(s)
    BY DEF Follows
  <2> QED
    BY <1>1, <2>1, PhaseMoves
<1>2. ASSUME private' \in Streams PROVE phase'[private'] # "new"
  <2>1. CASE private' \in {private, None}
    BY <1>1, <1>2, <2>1 DEF Begun
  <2>2. ASSUME NEW t \in Threads, Publish(t) PROVE phase'[private'] # "new"
    <3>1. At(t, "publish") /\ private' = Of(t) /\ phase' = phase
      BY <2>2 DEF Publish, streamVars
    <3> QED
      BY <1>2, <3>1, Innermost
  <2> QED
    BY <2>1, <2>2, PrivateStep
<1>3. ASSUME NEW s \in Streams, bug'[s] = "attached" PROVE phase'[s] # "new"
  <2>1. CASE bug[s] = "attached"
    BY <1>1, <2>1 DEF Begun
  <2>2. CASE bug[s] # "attached"
    <3>1. ASSUME NEW t \in Threads, AddBug(t) PROVE phase'[s] # "new"
      <4>1. At(t, "add") /\ bug' = [bug EXCEPT ![Of(t)] = "attached"] /\ phase' = phase
        BY <3>1 DEF AddBug
      <4>2. Of(t) = s
        BY <1>3, <2>2, <4>1 DEF Types
      <4> QED
        BY <4>1, <4>2, Innermost
    <3>2. ASSUME NEW t \in Threads, Remove(t) PROVE FALSE
      <4>1. bug' = bug \/ bug' = [bug EXCEPT ![Of(t)] = "removed"]
        BY <3>2 DEF Remove
      <4> QED
        BY <1>3, <2>2, <4>1 DEF Types
    <3>3. ASSUME NEW r \in Streams, CoreCloses(r) PROVE FALSE
      <4>1. bug' = [bug EXCEPT ![r] = "removed"]
        BY <3>3 DEF CoreCloses
      <4> QED
        BY <1>3, <2>2, <4>1 DEF Types
    <3> QED
      BY <1>3, <2>2, <3>1, <3>2, <3>3, BugStep
  <2> QED
    BY <2>1, <2>2
<1>4. ASSUME NEW s \in Streams, tornBy'[s] # {} PROVE phase'[s] # "new"
  <2>1. CASE tornBy[s] # {}
    BY <1>1, <2>1 DEF Begun
  <2>2. CASE tornBy[s] = {}
    <3>1. PICK t \in Threads : TakeOver(t)
      BY <1>4, <2>2, TornStep
    <3>2. phase[Of(t)] # "new" /\ phase' = phase /\ \E x : tornBy' = [tornBy EXCEPT ![Of(t)] = x]
      BY <3>1, Takes
    <3>3. Of(t) = s
      BY <1>4, <2>2, <3>2 DEF Types
    <3> QED
      BY <3>2, <3>3
  <2> QED
    BY <2>1, <2>2
<1> QED
  BY <1>2, <1>3, <1>4 DEF Begun

\* Nothing moves after DisconnectReturned.
LEMMA ReturnedStep ==
    ASSUME Types, Types', Usage, Returned, [Next]_vars, ~lost', [Found]_vars
    PROVE  Returned'
<1> USE Threading DEF Usage
<1> SUFFICES ASSUME NEW s \in Streams, DisconnectReturned(s)'
             PROVE  asked'[s] /\ phase'[s] = "ended"
  BY DEF Returned
<1>1. asked[s] /\ phase[s] = "ended"
  <2>1. CASE DisconnectReturned(s)
    BY <2>1 DEF Returned
  <2>2. ASSUME NEW t \in Threads, Of(t) = s, Destroy(t), ~DisconnectReturned(s)
        PROVE  asked[s] /\ phase[s] = "ended"
    <3>1. vars' # vars
      <4>1. mutex[s] # "destroyed" \/ ~\E torn \in tornBy[s] : torn[1] # s
        BY <2>2 DEF DisconnectReturned
      <4>2. tornBy' = tornBy
        BY <2>2 DEF Destroy
      <4>3. mutex'[s] = "destroyed" /\ \E torn \in tornBy[s] : torn[1] # s
        BY <4>2 DEF DisconnectReturned
      <4>4. mutex' # mutex
        BY <4>1, <4>3
      <4> QED
        BY <4>4 DEF vars, streamVars
    <3>2. t \in refs[s]
      BY <2>2, <3>1 DEF Found
    <3> QED
      BY <2>2, <3>2, DestroyedAfter
  <2> QED
    BY <2>1, <2>2, ReturnedMoves
<1>2. asked'[s]
  <2>1. ASSUME NEW t \in Threads, Quieten(t) PROVE asked'[s]
    <3>1. asked' = [asked EXCEPT ![Of(t)] = TRUE]
      BY <2>1 DEF Quieten
    <3> QED
      BY <1>1, <3>1 DEF Types
  <2> QED
    BY <1>1, <2>1, AskedStep
<1>3. phase'[s] = "ended"
  BY <1>1, PhaseMoves DEF Follows
<1> QED
  BY <1>2, <1>3

LEMMA UsageInit ==
    ASSUME Init
    PROVE  Usage /\ Returned
<1>1. \A t \in Threads : stack[t] = <<>> /\ Len(stack[t]) = 0
  BY DEF Init
<1>2. Calling
  BY <1>1 DEF Calling
<1>3. OneStarts
  BY <1>1 DEF OneStarts, Label
<1>4. Begun /\ Once /\ Returned
  BY NamesDistinct DEF Init, Begun, Once, Returned, DisconnectReturned
<1> QED
  BY <1>2, <1>3, <1>4 DEF Usage

LEMMA UsageStep ==
    ASSUME Types, Usage, [Next]_vars, ~lost'
    PROVE  Types' /\ Usage'
<1>1. Types'
  BY TypesStep
<1>2. Calling' /\ OneStarts' /\ Begun' /\ Once'
  BY <1>1, CallingStep, BegunStep, OnceKept DEF Usage
<1> QED
  BY <1>1, <1>2 DEF Usage

\* A change of phase is a step of the contract.
LEMMA MovesOn ==
    ASSUME NEW s \in Streams, asked'[s] = asked[s],
           DisconnectReturned(s)' = DisconnectReturned(s),
           \/ phase[s] = "new" /\ phase'[s] = "dialing"
           \/ phase'[s] \in Follows(s)
    PROVE  Client(s)!LifeNext
<1>1. CASE phase[s] = "new" /\ phase'[s] = "dialing"
  <2>1. Client(s)!Dial
    BY <1>1 DEF Client!Dial, Client!Move
  <2> QED
    BY <2>1 DEF Client!LifeNext
<1>2. CASE phase[s] = "dialing" /\ phase'[s] = "failing"
  <2>1. Client(s)!Fail
    BY <1>2 DEF Client!Fail, Client!Move
  <2> QED
    BY <2>1 DEF Client!LifeNext
<1>3. CASE phase[s] = "dialing" /\ phase'[s] = "opening"
  <2>1. Client(s)!Open
    BY <1>3 DEF Client!Open, Client!Move
  <2> QED
    BY <2>1 DEF Client!LifeNext
<1>4. CASE \/ phase[s] = "opening" /\ phase'[s] = "open"
           \/ phase[s] = "open" /\ phase'[s] = "message"
           \/ phase[s] = "message" /\ phase'[s] = "open"
  <2>1. Client(s)!Settle
    BY <1>4 DEF Client!Settle, Client!Move
  <2> QED
    BY <2>1 DEF Client!LifeNext
<1>5. CASE phase[s] \in {"failing", "open"} /\ phase'[s] = "closing"
  <2>1. Client(s)!Close
    BY <1>5 DEF Client!Close, Client!Move, Client!CloseCodes
  <2> QED
    BY <2>1 DEF Client!LifeNext
<1>6. CASE phase[s] = "closing" /\ phase'[s] = "ended"
  <2>1. Client(s)!End
    BY <1>6 DEF Client!End, Client!Move
  <2> QED
    BY <2>1 DEF Client!LifeNext
<1> QED
  BY <1>1, <1>2, <1>3, <1>4, <1>5, <1>6 DEF Follows

\* So is disconnect() on a client that was connected, ...
LEMMA GetsAsked ==
    ASSUME NEW s \in Streams, phase'[s] = phase[s], phase[s] # "new", asked'[s] = TRUE,
           DisconnectReturned(s)' = DisconnectReturned(s)
    PROVE  Client(s)!LifeNext
<1>1. Client(s)!Ask
  BY DEF Client!Ask
<1> QED
  BY <1>1 DEF Client!LifeNext

\* ... its return, ...
LEMMA HasReturned ==
    ASSUME NEW s \in Streams, phase'[s] = phase[s], phase[s] = "ended",
           asked'[s] = asked[s], asked[s], DisconnectReturned(s)' = TRUE
    PROVE  Client(s)!LifeNext
<1>1. Client(s)!Return
  BY DEF Client!Return
<1> QED
  BY <1>1 DEF Client!LifeNext

\* ... and what changes none of this is no step.
LEMMA MovesNot ==
    ASSUME NEW s \in Streams, phase'[s] = phase[s], asked'[s] = asked[s],
           DisconnectReturned(s)' = DisconnectReturned(s)
    PROVE  UNCHANGED Client(s)!lifeVars
BY DEF Client!lifeVars
LEMMA BeginsNew ==
    ASSUME NEW s \in Streams, Init PROVE Client(s)!LifeInit
<1>1. phase[s] = "new" /\ asked[s] = FALSE /\ tornBy[s] = {}
  BY DEF Init
<1>2. DisconnectReturned(s) = FALSE
  BY <1>1 DEF DisconnectReturned
<1> QED BY <1>1, <1>2 DEF Client!LifeInit

\* Every step is one of the contract, or none, for each of the clients.
LEMMA ClientStep ==
    ASSUME Types, Types', Usage, [Next]_vars, ~lost', [Found]_vars, NEW s \in Streams
    PROVE  [Client(s)!LifeNext]_(Client(s)!lifeVars)
<1> USE Threading DEF Usage
<1> DEFINE Same == DisconnectReturned(s)' = DisconnectReturned(s)
<1>1. CASE phase'[s] # phase[s]
  <2>1. ASSUME WorkerMoves(s), phase'[s] \in Follows(s)
        PROVE  Client(s)!LifeNext
    <3>1. asked' = asked /\ UNCHANGED <<mutex, tornBy>>
      BY <2>1 DEF WorkerMoves
    <3>2. Same
      BY <3>1 DEF DisconnectReturned
    <3> QED
      BY <2>1, <3>1, <3>2, MovesOn
  <2>2. ASSUME NEW t \in Threads, InitSession(t) \/ InitFails(t),
               phase[s] = "new", phase'[s] = "dialing"
        PROVE  Client(s)!LifeNext
    <3>1. asked' = asked /\ tornBy' = tornBy
      BY <2>2 DEF InitSession, InitFails
    <3>2. tornBy[s] = {}
      BY <2>2 DEF Begun
    <3>3. Same
      BY <3>1, <3>2 DEF DisconnectReturned
    <3> QED
      BY <2>2, <3>1, <3>3, MovesOn
  <2> QED
    BY <1>1, <2>1, <2>2, PhaseMoves
<1>2. CASE phase'[s] = phase[s] /\ asked'[s] # asked[s]
  <2>1. PICK t \in Threads : Quieten(t)
    BY <1>2, AskedStep
  <2>2. /\ At(t, "quiet") /\ asked' = [asked EXCEPT ![Of(t)] = TRUE]
        /\ UNCHANGED <<mutex, tornBy>>
    BY <2>1 DEF Quieten
  <2>3. Of(t) = s /\ asked'[s] = TRUE
    BY <1>2, <2>2 DEF Types
  <2>4. phase[s] # "new"
    BY <2>2, <2>3, Innermost
  <2>5. Same
    BY <2>2 DEF DisconnectReturned
  <2> QED
    BY <1>2, <2>3, <2>4, <2>5, GetsAsked
<1>3. CASE phase'[s] = phase[s] /\ asked'[s] = asked[s]
  <2>1. CASE DisconnectReturned(s)' <=> DisconnectReturned(s)
    <3>1. Same
      BY <2>1 DEF DisconnectReturned
    <3> QED
      BY <1>3, <3>1, MovesNot
  <2>2. CASE ~(DisconnectReturned(s)' <=> DisconnectReturned(s))
    <3>1. PICK t \in Threads : Of(t) = s /\ Destroy(t)
      BY <2>2, ReturnedMoves
    <3>2. DisconnectReturned(s)'
      <4>1. mutex' = [mutex EXCEPT ![s] = "destroyed"] /\ tornBy' = tornBy
        BY <3>1 DEF Destroy
      <4>2. mutex'[s] = "destroyed"
        BY <4>1 DEF Types
      <4> QED
        BY <2>2, <4>1, <4>2 DEF DisconnectReturned
    <3>5. t \in refs[s]
      <4>1. ~DisconnectReturned(s)
        BY <2>2, <3>2
      <4>2. vars' # vars
        BY <3>2, <4>1 DEF DisconnectReturned, vars, streamVars
      <4> QED
        BY <3>1, <4>2 DEF Found
    <3>3. asked[s] /\ phase[s] = "ended"
      BY <3>1, <3>2, <3>5, DestroyedAfter
    <3>4. DisconnectReturned(s)' = TRUE
      BY <3>2 DEF DisconnectReturned
    <3> QED
      BY <1>3, <3>3, <3>4, HasReturned
  <2> QED
    BY <2>1, <2>2
<1> QED
  BY <1>1, <1>2, <1>3

-----------------------------------------------------------------------------
(* The properties. *)

\* The invariant of any number of streams, overlapping as they like, with any number of
\* threads, until a flag is undone.
THEOREM UsageHolds == Spec => [](Types /\ (lost \/ Usage))
<1>1. Init => Types /\ (lost \/ Usage)
  BY IInvInit, UsageInit
<1>2. Types /\ (lost \/ Usage) /\ [Next]_vars => (Types /\ (lost \/ Usage))'
  BY TypesStep, UsageStep, LostStays
<1> QED
  BY <1>1, <1>2, PTL DEF Spec

\* stream_session_cleanup does its work once for a stream, however starts, stops, hangups
\* and errors overlap, because cleanup_started is tested and set under one lock of the
\* mutex.  OneTeardown has the exception in it: stores of the word without the mutex, by
\* pauseresume and media_bug_close, are steps of Spec, and may undo cleanup_started.
THEOREM TornDownOnce == Spec => []OneTeardown
<1>1. lost \/ Usage => OneTeardown
  <2> SUFFICES ASSUME Once, NEW s \in Streams PROVE Cardinality(tornBy[s]) <= 1
    BY DEF OneTeardown, Usage
  <2>1. CASE tornBy[s] = {}
    BY <2>1, FS_EmptySet
  <2>2. ASSUME NEW x, tornBy[s] = {x} PROVE Cardinality(tornBy[s]) <= 1
    <3>1. Cardinality({x}) = 1
      BY FS_Singleton
    <3> QED
      BY <2>2, <3>1
  <2> QED
    BY <2>1, <2>2 DEF Once
<1> QED
  BY <1>1, UsageHolds, PTL

LEMMA TeardownsComplete ==
    ASSUME Types, IInv, Once
    PROVE  TeardownComplete
<1> USE Threading
<1>1. PICK c \in Streams : Inv(c)
  BY DEF IInv
<1>2. ASSUME NEW s \in Streams, cleaning[s], ~TearingDown(s)
      PROVE  private # s /\ Gone(s) /\ "wrap" \notin refs[s]
  <2>1. "wrap" \notin refs[s]
    BY <1>1, <1>2 DEF Inv, Wraps
  <2>2. CASE s # c
    BY <2>1, <2>2, <1>1, <1>2 DEF Inv, Over
  <2>3. CASE s = c
    <3>1. ASSUME NEW t \in Threads PROVE ~Tears(stack[t])
      <4>1. /\ Len(stack[t]) \in Nat /\ DOMAIN stack[t] = 1..Len(stack[t])
            /\ stack[t] # <<>> => Len(stack[t]) >= 1
        BY TopOf DEF Types
      <4>2. About(stack[t], c)
        BY <1>1 DEF Inv, Local
      <4>3. Label(stack[t]) \notin Closing
        <5> SUFFICES ASSUME Label(stack[t]) \in Closing PROVE FALSE
          OBVIOUS
        <5>1. stack[t] # <<>> /\ stack[t][1].at \in Closing
          BY DEF Label, Closing
        <5>2. stack[t][1].s = c
          BY <4>2 DEF About, Loose, Closing
        <5>3. 1 \in DOMAIN stack[t]
          BY <4>1, <5>1
        <5> QED
          BY <1>2, <2>3, <5>1, <5>2, <5>3 DEF TearingDown, Closing
      <4>4. ~Nested(stack[t])
        <5> SUFFICES ASSUME Nested(stack[t]) PROVE FALSE
          OBVIOUS
        <5>1. Len(stack[t]) >= 2 /\ stack[t][2].at = "quiet" /\ stack[t][2].s = c
          BY <4>2 DEF About, Nested
        <5>2. 2 \in DOMAIN stack[t]
          BY <4>1, <5>1
        <5> QED
          BY <1>2, <2>3, <5>1, <5>2 DEF TearingDown
      <4> QED
        BY <4>3, <4>4 DEF Tears
    <3> QED
      BY <1>1, <1>2, <2>1, <2>3, <3>1 DEF Inv, Torn
  <2> QED
    BY <2>2, <2>3
<1> QED
  BY <1>2 DEF TeardownComplete, Gone, Once

\* A stream whose stream_session_cleanup has returned has left no bug, no mutex, no
\* pAudioStreamer and no worker but the one that did the teardown; as long as no flag is
\* undone (what TeardownComplete says of the rest is only model-checked).
THEOREM TeardownIsComplete == Spec /\ [][StartsAlone]_vars => [](lost \/ TeardownComplete)
<1>1. Types /\ (lost \/ IInv) /\ (lost \/ Usage) => lost \/ TeardownComplete
  BY TeardownsComplete DEF Usage
<1> QED
  BY <1>1, Invariance, UsageHolds, PTL

\* Streams that are started alone have their streamer until they are torn down: no
\* teardown skips markCleanedUp and disconnect(), until a flag is undone.
THEOREM StreamersFound == Spec /\ [][StartsAlone]_vars => [][Found]_vars
<1>1. Types /\ (lost \/ IInv) /\ [Next]_vars => [Found]_vars
  <2> SUFFICES ASSUME Types, lost \/ IInv, [Next]_vars, NEW t \in Threads, Destroy(t), ~lost'
               PROVE  t \in refs[Of(t)]
    BY DEF Found
  <2>1. IInv
    BY LostStays
  <2>2. PICK c \in Streams : Inv(c)
    BY <2>1 DEF IInv
  <2>3. At(t, "destroy") /\ Local(c)
    BY <2>2 DEF Destroy, Inv
  <2>4. Label(stack[t]) = "destroy" /\ Of(t) = c
    BY <2>3, CallShape DEF Loose
  <2> QED
    BY <2>2, <2>4 DEF Inv, Owned, Closing
<1> QED
  BY <1>1, Invariance, PTL DEF Spec

\* start_capture, stream_session_cleanup and stream_session_destroy call connect() before
\* disconnect(), and destroy a stream only when disconnect() has ended its worker or is
\* called by it: however streams, threads and failures overlap, if whoever destroys the
\* tech_pvt has found the streamer in it.  UsesClient excepts what follows an undone flag.
THEOREM ClientsAreUsedRight == Spec /\ [][Found]_vars => UsesClient
<1>1. Init => Types /\ (lost \/ (Usage /\ Returned))
  BY IInvInit, UsageInit
<1>2. Init => \A s \in Streams : Client(s)!LifeInit
  BY BeginsNew
<1>3. Types /\ (lost \/ (Usage /\ Returned)) /\ [Next]_vars /\ [Found]_vars
        => (Types /\ (lost \/ (Usage /\ Returned)))'
  BY TypesStep, UsageStep, ReturnedStep, LostStays
<1>4. Types /\ (lost \/ (Usage /\ Returned)) /\ [Next]_vars /\ [Found]_vars
        => [lost' \/ \A s \in Streams : [Client(s)!LifeNext]_(Client(s)!lifeVars)]_vars
  BY UsageStep, ClientStep, LostStays
<1> QED
  BY <1>1, <1>2, <1>3, <1>4, PTL DEF Spec, UsesClient

\* What Session takes the client of a stream to do is what WsLifecycle allows, and WsClient
\* implements that: the two modules fit together, in every behaviour in which no flag is
\* undone and no teardown misses its streamer.
THEOREM ClientContract == ASSUME NEW s \in Streams
                          PROVE  Spec /\ []~lost /\ [][Found]_vars => Client(s)!LifeSpec
<1>1. Init => Types /\ (lost \/ Usage) /\ Client(s)!LifeInit
  BY IInvInit, UsageInit, BeginsNew
<1>2. Types /\ (lost \/ Usage) /\ [Next]_vars => (Types /\ (lost \/ Usage))'
  BY TypesStep, UsageStep, LostStays
<1>3. Types /\ (lost \/ Usage) /\ [Next]_vars /\ [Found]_vars /\ ~lost /\ ~lost'
        => [Client(s)!LifeNext]_(Client(s)!lifeVars)
  BY UsageStep, ClientStep
<1> QED
  BY <1>1, <1>2, <1>3, PTL DEF Spec, Client!LifeSpec

\* The properties of one stream of a channel, with any number of API threads and no
\* assumption on what they do: each excepts what follows an undone flag.
THEOREM OneStreamIsSafe ==
    ASSUME NEW s, Streams = {s}
    PROVE  Spec => /\ [](OneTeardown /\ SafeLocks)
                   /\ [](lost \/ (TypeOK /\ TeardownComplete))
                   /\ UsesClient
<1>1. Spec => [][StartsAlone]_vars
  BY OneStream
<1> QED
  BY <1>1, TypeCorrect, LocksAreSafe, TornDownOnce, TeardownIsComplete, StreamersFound,
     ClientsAreUsedRight, PTL
=============================================================================
