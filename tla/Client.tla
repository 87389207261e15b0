------------------------------- MODULE Client -------------------------------
(***************************************************************************)
(* A Client of trip.js and the Router it owns.  The client starts and      *)
(* stops the router, hears its 'listen' and 'stop' events while it has its *)
(* listeners on it, opens one connection, and emits 'open' and 'close'.    *)
(*                                                                         *)
(* Handlers run to completion, and the router emits its events in the      *)
(* middle of its own, so the client's handlers are part of the router's    *)
(* step.  The user may call open() and close() at any time, and close() in *)
(* the middle of 'open'.                                                   *)
(***************************************************************************)
EXTENDS Router

\* mkClient sets the limit of its router.
ASSUME ClientAssumption == MaxConnections = 1

VARIABLES
    isListening,  \* _isListening
    attached,     \* is _router set, with the client's listeners on it?
    isClosed,     \* _isClosed
    promise,      \* what became of the promise of router.mkConnection
    hasConn,      \* is _conn set?
    opens,        \* history: 'open' events emitted
    closes        \* history: 'close' events emitted

clientVars == <<rstate, sock, listening, rtimers, immediates, incoming,
                outgoing, stops, isListening, attached, isClosed, promise,
                hasConn, opens, closes>>

(***************************************************************************)
(* "waiting" for the timeout of mkConnection, "connecting" while the       *)
(* connection is not up; "opening" while the user handles 'open', in the   *)
(* then callback, and "rejecting" before the catch callback.  The last two *)
(* are over before any other event is handled.                             *)
(***************************************************************************)
Promises == {"none", "waiting", "connecting", "opening", "rejecting",
             "resolved", "rejected"}

Quiet == promise \notin {"opening", "rejecting"}

ClientTypeOK ==
    /\ isListening \in BOOLEAN
    /\ attached \in BOOLEAN
    /\ isClosed \in BOOLEAN
    /\ promise \in Promises
    /\ hasConn \in BOOLEAN
    /\ opens \in {0, 1}
    /\ closes \in {0, 1}

ClientInit ==
    /\ RouterInit
    /\ isListening = FALSE
    /\ attached = TRUE
    /\ isClosed = FALSE
    /\ promise = "none"
    /\ hasConn = FALSE
    /\ opens = 0
    /\ closes = 0
-----------------------------------------------------------------------------
\* Mutants of ClearListeners: the listeners stay on; the connection is kept.
ClearNoListeners ==
    /\ attached' = attached
    /\ isListening' = FALSE
    /\ isClosed' = TRUE
    /\ hasConn' = FALSE

ClearNotConn ==
    /\ attached' = FALSE
    /\ isListening' = FALSE
    /\ isClosed' = TRUE
    /\ hasConn' = hasConn

ClearListeners ==
    /\ attached' = FALSE
    /\ isListening' = FALSE
    /\ isClosed' = TRUE
    /\ hasConn' = FALSE

\* handleListen asks the router for the connection.
HandleListen ==
    /\ isListening' = TRUE
    /\ promise' = "waiting"
    /\ UNCHANGED <<attached, isClosed, hasConn, opens, closes>>

HandleStop ==
    /\ closes' = closes + 1
    /\ ClearListeners
    /\ UNCHANGED <<promise, opens>>

\* What the client does in a step of the router, which emits 'listen' in
\* enter() of LISTEN and 'stop' in enter() of END.
Hears ==
    IF attached /\ rstate = "BIND" /\ rstate' = "LISTEN" THEN HandleListen
    ELSE IF attached /\ rstate # "END" /\ rstate' = "END" THEN HandleStop
    ELSE UNCHANGED <<isListening, attached, isClosed, promise, hasConn,
                     opens, closes>>

(***************************************************************************)
(* An event of the router, when nothing else is being handled.  Without    *)
(* the client's listener the router's 'error' is thrown, which ends the    *)
(* process: there is no such step.                                         *)
(***************************************************************************)
Heard(event) ==
    /\ Quiet
    /\ event
    /\ attached \/ rstate' \notin {"ERROR", "CLOSE_ERROR"}
    /\ Hears
-----------------------------------------------------------------------------
\* open() in a client that does not listen; one that does emits 'error', one
\* that has closed throws.
Open ==
    /\ attached
    /\ ~isListening
    /\ Heard(Start)

\* Mutant of CloseListening: 'close' does not wait for the router's 'stop'.
CloseListeningNow ==
    /\ isListening
    /\ Stop
    /\ closes' = closes + 1
    /\ ClearListeners

\* close() in a client that listens.  It throws when the router has a
\* connection, after the router has set its state and its timeout.
CloseListening ==
    /\ isListening
    /\ Stop
    /\ isClosed' = TRUE
    /\ UNCHANGED <<isListening, attached, hasConn, closes>>

\* close() in a client that does not listen yet: the router is not told.
CloseEarly ==
    /\ ~isListening
    /\ closes' = closes + 1
    /\ ClearListeners
    /\ UNCHANGED routerVars

\* Mutant of Close: _isClosed is not looked at.
CloseAgain ==
    /\ Quiet
    /\ CloseListening \/ CloseEarly
    /\ UNCHANGED <<promise, opens>>

Close ==
    /\ Quiet
    /\ ~isClosed
    /\ CloseListening \/ CloseEarly
    /\ UNCHANGED <<promise, opens>>

\* The timeout of mkConnection, which gets an id or not.
Connects ==
    /\ promise = "waiting"
    /\ MakeConnection
    /\ promise' = "connecting"
    /\ UNCHANGED <<isListening, attached, isClosed, hasConn, opens, closes>>

NoId ==
    /\ promise = "waiting"
    /\ rstate # "LISTEN" \/ incoming + outgoing >= MaxConnections
    /\ promise' = "rejecting"
    /\ UNCHANGED routerVars
    /\ UNCHANGED <<isListening, attached, isClosed, hasConn, opens, closes>>

\* The connection's 'error': it ends the attempt, or goes unnoticed.
Errors ==
    /\ Quiet
    /\ ConnectionFails
    /\ promise' = IF promise = "connecting" THEN "rejecting" ELSE promise
    /\ UNCHANGED <<isListening, attached, isClosed, hasConn, opens, closes>>

\* Mutant of Catch: it only emits 'error'.
CatchOnly ==
    /\ promise = "rejecting"
    /\ promise' = "rejected"
    /\ UNCHANGED routerVars
    /\ UNCHANGED <<isListening, attached, isClosed, hasConn, opens, closes>>

\* The catch callback: 'error', and close(), which finds the client listening.
Catch ==
    /\ promise = "rejecting"
    /\ promise' = "rejected"
    /\ IF isClosed
       THEN /\ UNCHANGED routerVars
            /\ UNCHANGED <<isListening, attached, isClosed, hasConn, closes>>
       ELSE CloseListening
    /\ UNCHANGED opens

\* A datagram brings the connection up, and the then callback emits 'open'.
Connected ==
    /\ promise = "connecting"
    /\ outgoing > 0
    /\ listening
    /\ rstate \in {"LISTEN", "STOP_NOTIFY"}
    /\ SocketMessage
    /\ promise' = "opening"
    /\ opens' = opens + 1
    /\ UNCHANGED <<isListening, attached, isClosed, hasConn, closes>>

\* The user's handler returns, and only then is _conn set.
Opened ==
    /\ promise = "opening"
    /\ promise' = "resolved"
    /\ hasConn' = TRUE
    /\ UNCHANGED routerVars
    /\ UNCHANGED <<isListening, attached, isClosed, opens, closes>>

\* The handler calls close(), which throws because there is a connection:
\* the catch callback finds the client closed, and _conn is not set.
CloseInOpen ==
    /\ promise = "opening"
    /\ ~isClosed
    /\ CloseListening
    /\ promise' = "rejected"
    /\ UNCHANGED opens
-----------------------------------------------------------------------------
\* StrayCloseTimeout is not among the router's events: only a stop() in the
\* screen callback can lead there, and a client screens nobody.
ClientNext ==
    \/ Open
    \/ Close
    \/ Connects
    \/ NoId
    \/ Errors
    \/ Catch
    \/ Connected
    \/ Opened
    \/ CloseInOpen
    \/ Heard(SocketBinds)
    \/ Heard(SocketFails)
    \/ Heard(SocketCloses)
    \/ Heard(SocketMessage)
    \/ Heard(BindTimeout)
    \/ Heard(StopTimeout)
    \/ Heard(CloseTimeout)
    \/ Heard(ZeroConnections)

ClientSpec == ClientInit /\ [][ClientNext]_clientVars

(***************************************************************************)
(* Fairness: the router's, and that the callbacks of a promise run, the    *)
(* user's handler returns and the timeout of mkConnection fires.           *)
(***************************************************************************)
ClientFairSpec ==
    /\ ClientSpec
    /\ WF_clientVars(Heard(BindTimeout))
    /\ WF_clientVars(Heard(StopTimeout))
    /\ WF_clientVars(Heard(CloseTimeout))
    /\ WF_clientVars(Heard(ZeroConnections))
    /\ WF_clientVars(Heard(SocketCloses))
    /\ WF_clientVars(Connects \/ NoId)
    /\ WF_clientVars(Catch)
    /\ WF_clientVars(Opened \/ CloseInOpen)
-----------------------------------------------------------------------------
(***************************************************************************)
(* 'open' comes once, 'close' comes once, and 'open' never after 'close',  *)
(* whatever the router does once the client has let go of it and whatever  *)
(* became of the promise in between.                                       *)
(***************************************************************************)
OpenThenClose ==
    [][/\ opens' > opens => opens = 0 /\ closes = 0
       /\ closes' > closes => closes = 0]_clientVars

(***************************************************************************)
(* A client that has been open says 'close' when its socket is closed and  *)
(* its router has stopped, not before.                                     *)
(***************************************************************************)
CloseMeansStopped ==
    opens = 1 /\ closes = 1 => sock = "closed" /\ stops = 1

(***************************************************************************)
(* The client makes streams (mkStream asks for _conn) only on a connection *)
(* that it has announced and until it says 'close'; a router that has      *)
(* stopped is never reached through it.                                    *)
(***************************************************************************)
StreamsWhileOpen ==
    hasConn => opens = 1 /\ closes = 0 /\ attached /\ stops = 0

(***************************************************************************)
(* A close() is answered by 'close', and a failed attempt closes the       *)
(* client, unless the router ends in ERROR, of which it sends no 'stop'.   *)
(***************************************************************************)
CloseIsSaid ==
    isClosed \/ promise = "rejected" ~> closes = 1 \/ rstate = "ERROR"

(***************************************************************************)
(* The inductive invariant: what the client has heard of its router.       *)
(***************************************************************************)
ClientInv ==
    /\ RouterInv
    /\ ClientTypeOK
    /\ CloseMeansStopped
    /\ StreamsWhileOpen
    /\ attached <=> closes = 0
    /\ isListening <=> attached /\ promise # "none"
    /\ promise # "none" => rstate \notin {"START", "BIND"}
    /\ promise \in {"none", "waiting", "connecting", "rejecting"} => opens = 0
    /\ promise = "opening" => opens = 1 /\ rstate \in {"LISTEN", "STOP_NOTIFY"}
    /\ closes = 1 => isClosed /\ (promise = "none" \/ stops = 1)
    /\ closes = 0 => stops = 0

(***************************************************************************)
(* close() should "Disconnect and close the underlying socket.".  A client *)
(* that was closed while its router was still in BIND has said 'close'; if *)
(* the bind then succeeds and the router listens, its socket is closed     *)
(* all the same.                                                           *)
(***************************************************************************)
SocketIsClosed == closes = 1 /\ rstate = "LISTEN" ~> sock = "closed"
=============================================================================
