----------------------------- MODULE WsLifecycle -----------------------------
(***************************************************************************)
(* The contract of WebSocketClient as its user sees it through callbacks,  *)
(* isConnected() and disconnect() (ws_client.h): which callback may follow *)
(* which, what isConnected() may say meanwhile, and what a returned        *)
(* disconnect() guarantees.  WsClient implements it, and Session relies on *)
(* it for the client of each stream.                                       *)
(***************************************************************************)

VARIABLES
    phase,      \* where the connection stands, and which callback runs
    connected,  \* what isConnected() returns
    asked,      \* disconnect() was called or the peer sent a close frame
    quiet,      \* a disconnect() made by another thread has returned
    code        \* the code given to onClose_, 0 before

lifeVars == <<phase, connected, asked, quiet, code>>

CloseCodes == {1000, 1002, 1006}

LifeInit ==
    /\ phase = "new"
    /\ connected = FALSE
    /\ asked = FALSE
    /\ quiet = FALSE
    /\ code = 0

Move(from, to) == phase = from /\ phase' = to

\* connect() starts the worker; it dials and fails, or succeeds.
Dial == Move("new", "dialing") /\ UNCHANGED <<connected, asked, quiet, code>>
Fail == Move("dialing", "failing") /\ UNCHANGED <<connected, asked, quiet, code>>

\* onOpen_ runs once, on a client that says it is connected.
Open ==
    /\ Move("dialing", "opening")
    /\ connected' = TRUE
    /\ UNCHANGED <<asked, quiet, code>>

\* onMessage_ and onBinary_ run after onOpen_ and before onClose_, one at a time.
Settle ==
    /\ Move("opening", "open") \/ Move("open", "message") \/ Move("message", "open")
    /\ UNCHANGED <<connected, asked, quiet, code>>

\* onClose_ follows onError_ or ends a connection, and runs on a client that no
\* longer says it is connected.  Only a close that was asked for is a normal one.
Close ==
    /\ Move("failing", "closing") \/ Move("open", "closing")
    /\ connected' = FALSE
    /\ code' \in CloseCodes
    /\ code' = 1000 => asked /\ phase = "open"
    /\ UNCHANGED <<asked, quiet>>

End == Move("closing", "ended") /\ UNCHANGED <<connected, asked, quiet, code>>

\* disconnect() is called, or the close frame handled, at any time after connect.
Ask ==
    /\ phase # "new"
    /\ asked' = TRUE
    /\ connected' \in {connected, FALSE}
    /\ UNCHANGED <<phase, quiet, code>>

\* disconnect() returns to another thread only when no callback will run again.
Return ==
    /\ asked
    /\ phase = "ended"
    /\ quiet' = TRUE
    /\ UNCHANGED <<phase, connected, asked, code>>

LifeNext == Dial \/ Fail \/ Open \/ Settle \/ Close \/ End \/ Ask \/ Return

LifeSpec == LifeInit /\ [][LifeNext]_lifeVars
=============================================================================
