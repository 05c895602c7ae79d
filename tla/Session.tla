------------------------------- MODULE Session -------------------------------
(***************************************************************************)
(* The lifetime of a stream on one FreeSWITCH channel (mod_audio_stream.c, *)
(* audio_streamer_glue.cpp): start attaches a media bug whose user data is *)
(* a tech_pvt owning an AudioStreamer, and four kinds of threads share it  *)
(* until somebody tears it down: API threads (start, stop, send_text), the *)
(* media thread (stream_frame), the WebSocket worker with its callbacks,   *)
(* and the core, which closes the bug when the channel hangs up.           *)
(*                                                                         *)
(* A thread is a stack of frames, one per call in progress that touches    *)
(* shared state; a step is what a call does between two accesses to state  *)
(* that others change.  The worker of stream s is the thread named s, and  *)
(* its client is seen through the contract of WsLifecycle: `phase` and     *)
(* `asked` are those of that module.                                       *)
(*                                                                         *)
(* audio_paused, close_requested, cleanup_started and the flags of the     *)
(* playback are bit fields of one word.  A store of one of them loads the  *)
(* word and later stores all of it: `loaded` is what a thread has loaded,  *)
(* and `lost` records that a store has undone a change made since.         *)
(*                                                                         *)
(* tech_pvt and the media bug live in the pool of the channel and outlast  *)
(* every call.  What does not is the mutex: destroy_tech_pvt destroys it   *)
(* and clears the pointer.  A thread that locks it after that, or holds it *)
(* then, is recorded in misuse; nothing is claimed of what follows.        *)
(***************************************************************************)
EXTENDS Naturals, Sequences, FiniteSets

CONSTANTS Streams,   \* what successive starts create, told apart
          Api,       \* the threads that execute API commands
          Starters, Stoppers, Senders, Pausers, Breakers,
                     \* those of them that start, stop, send_text, pause or resume, break
          None       \* no stream

VARIABLES
    private,    \* the channel's private MY_BUG_NAME: a stream, for its bug, or None
    bug,        \* its media bug: "none", "attached" or "removed"
    mutex,      \* tech_pvt->mutex: "none", "free", "destroyed" or who holds it
    cleaning,   \* cleanup_started
    closeReq,   \* close_requested
    refs,       \* who owns a shared_ptr to the AudioStreamer: "wrap" for
                \* pAudioStreamer, "self" for a callback of its worker, threads
    quiet,      \* m_cleanedUp, and no callback in its slot
    asked,      \* client.disconnect() was called
    phase,      \* where the worker is, as in WsLifecycle
    stack,      \* the calls each thread is in, innermost first
    loaded,     \* the flags in the word a thread has loaded and not stored yet
    lost,       \* history: a store has undone a flag that is not the one it is for
    hungUp,     \* history: the channel has been hung up
    tornBy,     \* history: who executed the teardown, and as what
    misuse      \* history: threads that used a destroyed mutex

streamVars == <<bug, mutex, cleaning, closeReq, refs, quiet, asked, phase>>
wordVars == <<loaded, lost>>
vars == <<private, streamVars, stack, wordVars, hungUp, tornBy, misuse>>

Threads == Api \cup Streams \cup {"media", "core"}

\* Streams and threads are told apart, and from the words that stand beside them in
\* `mutex` and `refs`.
ASSUME NamesDistinct ==
    /\ Streams # {}
    /\ None \notin Streams
    /\ Api \cap Streams = {}
    /\ (Api \cup Streams)
           \cap {"media", "core", "none", "free", "destroyed", "wrap", "self"} = {}

ASSUME CommandsAssumption ==
    Starters \cup Stoppers \cup Senders \cup Pausers \cup Breakers \subseteq Api

-----------------------------------------------------------------------------
(***************************************************************************)
(* Faulty variants of the definitions below.  No action uses them: each is *)
(* put in the place of the definition it is named after to see that a      *)
(* property notices the fault.                                             *)
(***************************************************************************)
MayClaimAgain(s) == TRUE
MutexKept(s) == mutex
MayRemoveAtOnce == TRUE
JoinedAtOnce(t, s) == TRUE

-----------------------------------------------------------------------------
(* Frames *)

Frame(at, s, closing) == [at |-> at, s |-> s, closing |-> closing]

In(t, label) == stack[t] # <<>> /\ Head(stack[t]).at = label

\* t may take the step of its innermost call, or begin a call: every behaviour stops
\* at the first misuse.
At(t, label) == misuse = {} /\ In(t, label)
Idle(t) == misuse = {} /\ stack[t] = <<>>

\* The stream the innermost call of t is about.
Of(t) == Head(stack[t]).s

Goto(t, label) == stack' = [stack EXCEPT ![t][1].at = label]

\* It has looked up the channel's bug, and is about that from now on.
GotoWithBug(t, label) ==
    stack' = [stack EXCEPT ![t][1] = Frame(label, private, @.closing)]

Call(t, frame) == stack' = [stack EXCEPT ![t] = <<frame>> \o @]

\* The innermost call goes on to `label` and calls.
GotoAndCall(t, label, frame) ==
    stack' = [stack EXCEPT ![t] = <<frame, [Head(@) EXCEPT !.at = label]>> \o Tail(@)]

Return(t) == stack' = [stack EXCEPT ![t] = Tail(@)]

\* Stream s exists, or is being started.
Used(s) == phase[s] # "new" \/ \E t \in Threads : \E i \in DOMAIN stack[t] : stack[t][i].s = s

-----------------------------------------------------------------------------
(* The word of the flags *)

NoWord == [cleaning |-> FALSE, closeReq |-> FALSE]

\* t loads the word of stream s ...
Load(t, s) ==
    loaded' = [loaded EXCEPT ![t] = [cleaning |-> cleaning[s], closeReq |-> closeReq[s]]]

\* ... and stores it with `flag` changed, which may be one that nothing here looks at.
Store(t, s, flag) ==
    /\ cleaning' = [cleaning EXCEPT ![s] = loaded[t].cleaning \/ flag = "cleanup_started"]
    /\ closeReq' = [closeReq EXCEPT ![s] = loaded[t].closeReq \/ flag = "close_requested"]
    /\ lost' = (\/ lost
                \/ cleaning'[s] # (cleaning[s] \/ flag = "cleanup_started")
                \/ closeReq'[s] # (closeReq[s] \/ flag = "close_requested"))
    /\ loaded' = [loaded EXCEPT ![t] = NoWord]

\* In a critical section of the playback, playback_in_response is stored or not.
StoreOrNot(t, s) ==
    \/ Store(t, s, "playback_in_response")
    \/ loaded' = [loaded EXCEPT ![t] = NoWord] /\ UNCHANGED <<cleaning, closeReq, lost>>

-----------------------------------------------------------------------------
(* stream_session_cleanup, stream_session_destroy: the teardown of a stream *)

Cleanup(closing) == Frame("fetch", None, closing)

\* The channel's private is read without a lock.
Fetch(t) ==
    /\ At(t, "fetch")
    /\ IF private = None THEN Return(t)
       ELSE GotoWithBug(t, "claim")
    /\ UNCHANGED <<private, streamVars, hungUp, tornBy, misuse, wordVars>>

\* The first of several cleanups gets to do the work.
MayClaim(s) == ~cleaning[s]

\* The mutex is locked, and cleanup_started found to be clear.
Claim(t) ==
    LET s == Of(t) IN
    /\ At(t, "claim")
    /\ mutex[s] = "free"
    /\ MayClaim(s)
    /\ mutex' = [mutex EXCEPT ![s] = t]
    /\ Load(t, s)
    /\ Goto(t, "claiming")
    /\ UNCHANGED <<private, bug, cleaning, closeReq, refs, quiet, asked, phase,
                   lost, hungUp, tornBy, misuse>>

\* Somebody else is at it.
ComeTooLate(t) ==
    /\ At(t, "claim")
    /\ mutex[Of(t)] = "free"
    /\ ~MayClaim(Of(t))
    /\ Return(t)
    /\ UNCHANGED <<private, streamVars, hungUp, tornBy, misuse, wordVars>>

Unlocked(s) == [mutex EXCEPT ![s] = "free"]

\* The core has removed the bug already when the channel is closing.
MustRemove(closing) == ~closing

\* Still under the mutex: cleanup_started is set, the private cleared, and the streamer
\* taken out of tech_pvt, if it is still there.
TakeOver(t) ==
    LET s == Of(t)
        closing == Head(stack[t]).closing IN
    /\ At(t, "claiming")
    /\ Store(t, s, "cleanup_started")
    /\ private' = None
    /\ refs' = [refs EXCEPT ![s] = IF "wrap" \in @ THEN (@ \ {"wrap"}) \cup {t} ELSE @]
    /\ mutex' = Unlocked(s)
    /\ tornBy' = [tornBy EXCEPT ![s] = @ \cup {<<t, closing>>}]
    /\ Goto(t, IF MustRemove(closing) THEN "remove" ELSE "quiet")
    /\ UNCHANGED <<bug, quiet, asked, phase, hungUp, misuse>>

\* The core waits for the media thread to leave the bugs of the channel.
MayRemove == stack["media"] = <<>>

\* switch_core_media_bug_remove detaches the bug and closes it: its CLOSE callback
\* is another cleanup, for whatever the private holds by now.
Remove(t) ==
    LET s == Of(t) IN
    /\ At(t, "remove")
    /\ IF bug[s] = "attached"
       THEN /\ MayRemove
            /\ bug' = [bug EXCEPT ![s] = "removed"]
            /\ GotoAndCall(t, "quiet", Cleanup(~closeReq[s]))
       ELSE Goto(t, "quiet") /\ UNCHANGED bug
    /\ UNCHANGED <<private, mutex, cleaning, closeReq, refs, quiet, asked,
                   phase, hungUp, tornBy, misuse, wordVars>>

\* markCleanedUp, and the first half of client.disconnect() ...
Quieten(t) ==
    LET s == Of(t) IN
    /\ At(t, "quiet")
    /\ t \in refs[s]
    /\ quiet' = [quiet EXCEPT ![s] = TRUE]
    /\ asked' = [asked EXCEPT ![s] = TRUE]
    /\ Goto(t, "join")
    /\ UNCHANGED <<private, bug, mutex, cleaning, closeReq, refs, phase,
                   wordVars, hungUp, tornBy, misuse>>

\* ... unless another teardown has taken the streamer.
NoStreamer(t) ==
    /\ At(t, "quiet")
    /\ t \notin refs[Of(t)]
    /\ Goto(t, "destroy")
    /\ UNCHANGED <<private, streamVars, wordVars, hungUp, tornBy, misuse>>

\* The worker detaches itself; any other thread waits for it to end.
Joined(t, s) == t = s \/ phase[s] = "ended"

Join(t) ==
    /\ At(t, "join")
    /\ Joined(t, Of(t))
    /\ Goto(t, "destroy")
    /\ UNCHANGED <<private, streamVars, hungUp, tornBy, misuse, wordVars>>

\* destroy_tech_pvt; then the last reference of this call goes.
Destroy(t) ==
    LET s == Of(t) IN
    /\ At(t, "destroy")
    /\ mutex' = [mutex EXCEPT ![s] = "destroyed"]
    /\ misuse' = misuse \cup ({mutex[s]} \cap Threads)
    /\ refs' = [refs EXCEPT ![s] = @ \ {t}]
    /\ Return(t)
    /\ UNCHANGED <<private, bug, cleaning, closeReq, quiet, asked, phase,
                   hungUp, tornBy, wordVars>>

Teardown(t) ==
    \/ Fetch(t) \/ Claim(t) \/ ComeTooLate(t) \/ TakeOver(t)
    \/ Remove(t) \/ Quieten(t) \/ NoStreamer(t) \/ Join(t) \/ Destroy(t)

-----------------------------------------------------------------------------
(* The API threads *)

\* start_capture refuses a channel that has a bug.
Start(t, s) ==
    /\ Idle(t)
    /\ private = None
    /\ ~Used(s)
    /\ Call(t, Frame("init", s, FALSE))
    /\ UNCHANGED <<private, streamVars, hungUp, tornBy, misuse, wordVars>>

\* stream_session_init: the worker is started, the mutex made.
InitSession(t) ==
    LET s == Of(t) IN
    /\ At(t, "init")
    /\ phase' = [phase EXCEPT ![s] = "dialing"]
    /\ refs' = [refs EXCEPT ![s] = {"wrap"}]
    /\ mutex' = [mutex EXCEPT ![s] = "free"]
    /\ Goto(t, "add")
    /\ UNCHANGED <<private, bug, cleaning, closeReq, quiet, asked, hungUp,
                   tornBy, misuse, wordVars>>

\* A buffer or the resampler cannot be made: tech_pvt is destroyed, the streamer and
\* its worker stay.
InitFails(t) ==
    LET s == Of(t) IN
    /\ At(t, "init")
    /\ phase' = [phase EXCEPT ![s] = "dialing"]
    /\ refs' = [refs EXCEPT ![s] = {"wrap"}]
    /\ mutex' = [mutex EXCEPT ![s] = "destroyed"]
    /\ Return(t)
    /\ UNCHANGED <<private, bug, cleaning, closeReq, quiet, asked, hungUp,
                   tornBy, misuse, wordVars>>

\* From here on the media thread calls stream_frame.
AddBug(t) ==
    /\ At(t, "add")
    /\ bug' = [bug EXCEPT ![Of(t)] = "attached"]
    /\ Goto(t, "publish")
    /\ UNCHANGED <<private, mutex, cleaning, closeReq, refs, quiet, asked,
                   phase, hungUp, tornBy, misuse, wordVars>>

\* The core refuses the bug: stream_session_destroy.
AddBugFails(t) ==
    /\ At(t, "add")
    /\ refs' = [refs EXCEPT ![Of(t)] = (@ \ {"wrap"}) \cup {t}]
    /\ Goto(t, "quiet")
    /\ UNCHANGED <<private, bug, mutex, cleaning, closeReq, quiet, asked, phase,
                   wordVars, hungUp, tornBy, misuse>>

Publish(t) ==
    /\ At(t, "publish")
    /\ private' = Of(t)
    /\ Return(t)
    /\ UNCHANGED <<streamVars, hungUp, tornBy, misuse, wordVars>>

Stop(t) ==
    /\ Idle(t)
    /\ Call(t, Cleanup(FALSE))
    /\ UNCHANGED <<private, streamVars, hungUp, tornBy, misuse, wordVars>>

\* stream_session_send_text: the bug is looked up ...
SendText(t) ==
    /\ Idle(t)
    /\ private # None
    /\ Call(t, Frame("copy", private, FALSE))
    /\ UNCHANGED <<private, streamVars, hungUp, tornBy, misuse, wordVars>>

\* ... the shared_ptr is copied under the mutex ...
CopyStreamer(t) ==
    LET s == Of(t) IN
    /\ At(t, "copy")
    /\ mutex[s] = "free"
    /\ mutex' = [mutex EXCEPT ![s] = t]
    /\ refs' = [refs EXCEPT ![s] = IF "wrap" \in @ THEN @ \cup {t} ELSE @]
    /\ Goto(t, "copied")
    /\ UNCHANGED <<private, bug, cleaning, closeReq, quiet, asked, phase,
                   hungUp, tornBy, misuse, wordVars>>

UnlockCopy(t) ==
    /\ At(t, "copied")
    /\ mutex' = Unlocked(Of(t))
    /\ Goto(t, "write")
    /\ UNCHANGED <<private, bug, cleaning, closeReq, refs, quiet, asked, phase,
                   hungUp, tornBy, misuse, wordVars>>

\* ... and the text, or the audio of a media frame, is handed to the client.
Write(t) ==
    /\ At(t, "write")
    /\ refs' = [refs EXCEPT ![Of(t)] = @ \ {t}]
    /\ Return(t)
    /\ UNCHANGED <<private, bug, mutex, cleaning, closeReq, quiet, asked,
                   phase, hungUp, tornBy, misuse, wordVars>>

\* stream_session_pauseresume: the bug is looked up, and flushed ...
Pause(t) ==
    /\ Idle(t)
    /\ private # None
    /\ Call(t, Frame("pause", private, FALSE))
    /\ UNCHANGED <<private, streamVars, wordVars, hungUp, tornBy, misuse>>

\* ... and audio_paused stored without the mutex.
LoadPause(t) ==
    /\ At(t, "pause")
    /\ Load(t, Of(t))
    /\ Goto(t, "pausing")
    /\ UNCHANGED <<private, streamVars, lost, hungUp, tornBy, misuse>>

StorePause(t) ==
    /\ At(t, "pausing")
    /\ Store(t, Of(t), "audio_paused")
    /\ Return(t)
    /\ UNCHANGED <<private, bug, mutex, refs, quiet, asked, phase, hungUp, tornBy, misuse>>

\* stream_session_break: the bug is looked up ...
Break(t) ==
    /\ Idle(t)
    /\ private # None
    /\ Call(t, Frame("queue", private, FALSE))
    /\ UNCHANGED <<private, streamVars, wordVars, hungUp, tornBy, misuse>>

\* ... and the queue of the playback emptied under the mutex, as stream_frame_write
\* takes a frame from it.
LockQueue(t) ==
    LET s == Of(t) IN
    /\ At(t, "queue")
    /\ mutex[s] = "free"
    /\ mutex' = [mutex EXCEPT ![s] = t]
    /\ Load(t, s)
    /\ Goto(t, "queued")
    /\ UNCHANGED <<private, bug, cleaning, closeReq, refs, quiet, asked, phase,
                   lost, hungUp, tornBy, misuse>>

UnlockQueue(t) ==
    /\ At(t, "queued")
    /\ mutex' = Unlocked(Of(t))
    /\ StoreOrNot(t, Of(t))
    /\ Return(t)
    /\ UNCHANGED <<private, bug, refs, quiet, asked, phase, hungUp, tornBy, misuse>>

Command(t) ==
    \/ InitSession(t) \/ InitFails(t) \/ AddBug(t) \/ AddBugFails(t) \/ Publish(t)
    \/ CopyStreamer(t) \/ UnlockCopy(t) \/ Write(t)
    \/ LoadPause(t) \/ StorePause(t) \/ LockQueue(t) \/ UnlockQueue(t)

-----------------------------------------------------------------------------
(* The media thread and the core *)

\* stream_frame looks at cleanup_started without the mutex ...
MediaFrame(s) ==
    /\ Idle("media")
    /\ bug[s] = "attached"
    /\ ~cleaning[s]
    /\ ~closeReq[s]
    /\ Call("media", Frame("try", s, FALSE))
    /\ UNCHANGED <<private, streamVars, hungUp, tornBy, misuse, wordVars>>

\* ... as stream_frame_write does ...
MediaWrite(s) ==
    /\ Idle("media")
    /\ bug[s] = "attached"
    /\ ~cleaning[s]
    /\ Call("media", Frame("queue", s, FALSE))
    /\ UNCHANGED <<private, streamVars, wordVars, hungUp, tornBy, misuse>>

\* ... and tries to lock it.
TryLock ==
    LET s == Of("media") IN
    /\ At("media", "try")
    /\ mutex[s] = "free"
    /\ mutex' = [mutex EXCEPT ![s] = "media"]
    /\ refs' = [refs EXCEPT ![s] = IF "wrap" \in @ THEN @ \cup {"media"} ELSE @]
    /\ Goto("media", "copied")
    /\ UNCHANGED <<private, bug, cleaning, closeReq, quiet, asked, phase,
                   hungUp, tornBy, misuse, wordVars>>

TryLockFails ==
    /\ \E label \in {"try", "queue"} : At("media", label)
    /\ mutex[Of("media")] \in Threads
    /\ Return("media")
    /\ UNCHANGED <<private, streamVars, hungUp, tornBy, misuse, wordVars>>

\* The core detaches a bug, when the channel hangs up or because stream_frame's
\* caller returned SWITCH_FALSE, and calls it with CLOSE.
CoreCloses(s) ==
    /\ Idle("core")
    /\ bug[s] = "attached"
    /\ MayRemove
    /\ bug' = [bug EXCEPT ![s] = "removed"]
    /\ hungUp' \in {TRUE, hungUp \/ ~closeReq[s]}
    /\ Call("core", Cleanup(~closeReq[s]))
    /\ UNCHANGED <<private, mutex, cleaning, closeReq, refs, quiet, asked,
                   phase, tornBy, misuse, wordVars>>

-----------------------------------------------------------------------------
(* The WebSocket worker of stream s *)

\* What the contract of the client lets follow.
Follows(s) ==
    CASE phase[s] = "dialing" -> {"failing", "opening"}
      [] phase[s] = "failing" -> {"closing"}
      [] phase[s] = "opening" -> {"open"}
      [] phase[s] = "open" -> {"message", "closing"}
      [] phase[s] = "message" -> {"open"}
      [] phase[s] = "closing" -> {"ended"}
      [] OTHER -> {}

\* A callback locks its weak pointer and looks at m_cleanedUp; that of a message or
\* an error goes on to the bug of the channel.
Callback(s, next) ==
    /\ next \in {"message", "failing"}
    /\ ~quiet[s]
    /\ refs[s] # {}

WorkerMoves(s) ==
    /\ Idle(s)
    /\ \E next \in Follows(s) :
          /\ phase' = [phase EXCEPT ![s] = next]
          /\ IF Callback(s, next)
             THEN /\ Call(s, Frame(next, None, FALSE))
                  /\ refs' = [refs EXCEPT ![s] = @ \cup {"self"}]
             ELSE UNCHANGED <<stack, refs>>
    /\ UNCHANGED <<private, bug, mutex, cleaning, closeReq, quiet, asked,
                   hungUp, tornBy, misuse, wordVars>>

\* Back in the client, the callback's shared_ptr is gone.
CallbackReturns(s) ==
    /\ refs' = [refs EXCEPT ![s] = @ \ {"self"}]
    /\ Return(s)
    /\ UNCHANGED <<private, bug, mutex, cleaning, closeReq, quiet, asked,
                   phase, hungUp, tornBy, misuse, wordVars>>

\* Audio for playback, with no bug to play it to.
NobodyListens(s) ==
    /\ At(s, "message") /\ private = None
    /\ CallbackReturns(s)

FindBug(s) ==
    /\ At(s, "message") /\ private # None
    /\ GotoWithBug(s, "play")
    /\ UNCHANGED <<private, streamVars, hungUp, tornBy, misuse, wordVars>>

LockPlayback(s) ==
    /\ At(s, "play")
    /\ mutex[Of(s)] = "free"
    /\ mutex' = [mutex EXCEPT ![Of(s)] = s]
    /\ Load(s, Of(s))
    /\ Goto(s, "played")
    /\ UNCHANGED <<private, bug, cleaning, closeReq, refs, quiet, asked, phase,
                   lost, hungUp, tornBy, misuse>>

UnlockPlayback(s) ==
    /\ At(s, "played")
    /\ mutex' = Unlocked(Of(s))
    /\ StoreOrNot(s, Of(s))
    /\ Goto(s, "done")
    /\ UNCHANGED <<private, bug, refs, quiet, asked, phase, hungUp, tornBy, misuse>>

\* media_bug_close: the bug is looked up, ...
FindBugToClose(s) ==
    /\ At(s, "failing") /\ private # None
    /\ GotoWithBug(s, "request")
    /\ UNCHANGED <<private, streamVars, wordVars, hungUp, tornBy, misuse>>

\* ... close_requested stored without the mutex, ...
LoadRequest(s) ==
    /\ At(s, "request")
    /\ Load(s, Of(s))
    /\ Goto(s, "requesting")
    /\ UNCHANGED <<private, streamVars, lost, hungUp, tornBy, misuse>>

StoreRequest(s) ==
    /\ At(s, "requesting")
    /\ Store(s, Of(s), "close_requested")
    /\ Goto(s, "close")
    /\ UNCHANGED <<private, bug, mutex, refs, quiet, asked, phase, hungUp, tornBy, misuse>>

\* ... and the CLOSE callback called, as if the core did.
CloseBug(s) ==
    /\ At(s, "close")
    /\ GotoAndCall(s, "done", Cleanup(~closeReq[Of(s)]))
    /\ UNCHANGED <<private, streamVars, wordVars, hungUp, tornBy, misuse>>

NothingToClose(s) ==
    /\ At(s, "failing") /\ private = None
    /\ CallbackReturns(s)

Done(s) == At(s, "done") /\ CallbackReturns(s)

Worker(s) ==
    \/ NobodyListens(s) \/ FindBug(s) \/ LockPlayback(s) \/ UnlockPlayback(s)
    \/ FindBugToClose(s) \/ LoadRequest(s) \/ StoreRequest(s) \/ CloseBug(s)
    \/ NothingToClose(s) \/ Done(s)

-----------------------------------------------------------------------------

\* A destroyed mutex is locked.
LockDestroyed(t) ==
    /\ \E label \in {"claim", "copy", "queue", "try", "play"} : At(t, label)
    /\ mutex[Of(t)] = "destroyed"
    /\ misuse' = misuse \cup {t}
    /\ UNCHANGED <<private, streamVars, stack, hungUp, tornBy, wordVars>>

\* The next step of the calls t is in.
Run(t) ==
    \/ Teardown(t)
    \/ Command(t)
    \/ LockDestroyed(t)

RunMedia == TryLock \/ TryLockFails

Init ==
    /\ private = None
    /\ bug = [s \in Streams |-> "none"]
    /\ mutex = [s \in Streams |-> "none"]
    /\ cleaning = [s \in Streams |-> FALSE]
    /\ closeReq = [s \in Streams |-> FALSE]
    /\ refs = [s \in Streams |-> {}]
    /\ quiet = [s \in Streams |-> FALSE]
    /\ asked = [s \in Streams |-> FALSE]
    /\ phase = [s \in Streams |-> "new"]
    /\ stack = [t \in Threads |-> <<>>]
    /\ loaded = [t \in Threads |-> NoWord]
    /\ lost = FALSE
    /\ hungUp = FALSE
    /\ tornBy = [s \in Streams |-> {}]
    /\ misuse = {}

Next ==
    \/ \E t \in Threads : Run(t)
    \/ RunMedia
    \/ \E t \in Starters, s \in Streams : Start(t, s)
    \/ \E t \in Stoppers : Stop(t)
    \/ \E t \in Senders : SendText(t)
    \/ \E t \in Pausers : Pause(t)
    \/ \E t \in Breakers : Break(t)
    \/ \E s \in Streams : \/ MediaFrame(s) \/ MediaWrite(s) \/ CoreCloses(s)
                          \/ WorkerMoves(s) \/ Worker(s)

Spec == Init /\ [][Next]_vars

\* The worker leaves its poll loop once it has been asked to (WsClient).
Leave(s) == asked[s] /\ phase[s] = "open" /\ phase' = [phase EXCEPT ![s] = "closing"]

\* Threads run, a mutex or a lock of the core that is free again and again is got in
\* the end (nobody keeps one for long), and a peer answers or hangs up.
Fairness ==
    /\ \A t \in Threads : SF_vars(Run(t))
    /\ WF_vars(RunMedia)
    /\ \A s \in Streams : SF_vars(Worker(s)) /\ WF_vars(WorkerMoves(s))
                          /\ SF_vars(WorkerMoves(s) /\ Leave(s))

FairSpec == Spec /\ Fairness

-----------------------------------------------------------------------------
(* Properties *)

Labels == {"fetch", "claim", "claiming", "remove", "quiet", "join", "destroy",
           "init", "add", "publish", "copy", "copied", "write", "pause", "pausing",
           "queue", "queued", "try", "message", "play", "played",
           "failing", "request", "requesting", "close", "done"}

\* The mutex is held only by a thread in a critical section, and calls nest at most
\* three deep: onError_, CLOSE, and CLOSE again while the bug is removed.
TypeOK ==
    /\ private \in Streams \cup {None}
    /\ bug \in [Streams -> {"none", "attached", "removed"}]
    /\ mutex \in [Streams -> {"none", "free", "destroyed"} \cup Threads]
    /\ \A s \in Streams : mutex[s] \in Threads =>
           \E label \in {"claiming", "copied", "queued", "played"} : In(mutex[s], label)
    /\ cleaning \in [Streams -> BOOLEAN] /\ closeReq \in [Streams -> BOOLEAN]
    /\ refs \in [Streams -> SUBSET (Threads \cup {"wrap", "self"})]
    /\ quiet \in [Streams -> BOOLEAN] /\ asked \in [Streams -> BOOLEAN]
    /\ phase \in [Streams -> {"new", "dialing", "failing", "opening", "open",
                              "message", "closing", "ended"}]
    /\ \A t \in Threads : Len(stack[t]) <= 3 /\ \A i \in DOMAIN stack[t] :
           stack[t][i] \in [at : Labels, s : Streams \cup {None}, closing : BOOLEAN]
    /\ loaded \in [Threads -> [cleaning : BOOLEAN, closeReq : BOOLEAN]]
    /\ lost \in BOOLEAN /\ hungUp \in BOOLEAN
    /\ tornBy \in [Streams -> SUBSET (Threads \X BOOLEAN)]
    /\ misuse \subseteq Threads

\* A stream is torn down once, whoever comes: stop, stop again, the hangup of the
\* channel, an error of the connection, all at the same time.  The exception is a flag
\* that was undone: pause, resume and media_bug_close store their flag without the
\* mutex, and the word one of them loaded before cleanup_started was set and stores
\* afterwards clears it, so that the next cleanup claims the stream again.
OneTeardown == lost \/ \A s \in Streams : Cardinality(tornBy[s]) <= 1

\* Threads that cannot know of a teardown are safe from it: the media thread never
\* locks or holds a mutex that is destroyed, because the bug is removed first, nor
\* does the worker, because it is joined first.  Where a flag was undone a
\* second teardown may find the streamer taken, and destroy the mutex without waiting
\* for the worker.
SafeLocks == lost \/ misuse \cap (Streams \cup {"media"}) = {}

TearingDown(s) ==
    \E t \in Threads : \E i \in DOMAIN stack[t] :
        stack[t][i].s = s /\ stack[t][i].at \in {"remove", "quiet", "join", "destroy"}

\* When the teardown is over nothing of the stream is left: no bug, no mutex, no
\* owner of the streamer but calls about to return, and no worker that could fire
\* an event, unless the worker itself did the teardown.  All of this holds where a flag
\* was undone, too, but for the bug, which stays where close_requested was lost: the
\* callback then takes the channel to be closing.
TeardownComplete ==
    \A s \in Streams : tornBy[s] # {} /\ ~TearingDown(s) =>
        /\ private # s
        /\ bug[s] = "removed" \/ lost
        /\ mutex[s] = "destroyed"
        /\ "wrap" \notin refs[s]
        /\ phase[s] = "ended" \/ \E closing \in BOOLEAN : <<s, closing>> \in tornBy[s]

\* Another thread has disconnected the client of s, and destroys what its worker uses.
DisconnectReturned(s) ==
    mutex[s] = "destroyed" /\ \E torn \in tornBy[s] : torn[1] # s

\* The client of stream s, as its contract has it.
Client(s) == INSTANCE WsLifecycle
    WITH phase <- phase[s],
         connected <- phase[s] \in {"opening", "open", "message"},
         asked <- asked[s],
         quiet <- DisconnectReturned(s),
         code <- IF phase[s] \in {"closing", "ended"} THEN 1006 ELSE 0

\* Every client is used as WsLifecycle promises it may be: disconnect() is called on a
\* client that was connected, and who goes on to destroy the stream as if disconnect()
\* had ended the worker is right; except for a second teardown that an undone flag let
\* in, which has nobody to disconnect.
UsesClient ==
    /\ \A s \in Streams : Client(s)!LifeInit
    /\ [][lost' \/ \A s \in Streams : [Client(s)!LifeNext]_(Client(s)!lifeVars)]_vars

\* No command blocks for ever: stop does not wait for a worker that waits for the
\* mutex, nor for the bug of a media thread that waits for it.
CommandsReturn == \A t \in Api : stack[t] # <<>> ~> stack[t] = <<>> \/ misuse # {}

\* "disconnect: graceful close + join WS thread" (ws_client.h): a client is not
\* destroyed while its worker runs.
ClientOutlivesWorker ==
    \A s \in Streams : refs[s] = {} => phase[s] \in {"new", "ended"}

\* "Check if this is a normal channel closure or a requested closure" (comment in
\* capture_callback): a stream is torn down as part of a channel closure only when
\* the channel closes, or close_requested was undone.
ClosureMeansHangup ==
    \A s \in Streams, t \in Threads : <<t, TRUE>> \in tornBy[s] => hungUp \/ lost
=============================================================================
