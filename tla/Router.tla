------------------------------- MODULE Router -------------------------------
(***************************************************************************)
(* The life of a Router and of its socket: router.js's state machine from  *)
(* START to END or ERROR, the timers and the setImmediate of its states,   *)
(* and the connections it holds when it is told to stop.                   *)
(*                                                                         *)
(* The socket answers bind() and close() by events, in its own time or     *)
(* never; a close() overtakes a pending bind(), and messages and errors    *)
(* queued before it may still come after it.  Handlers run to completion.  *)
(* Of the user's callbacks only the screen callback is taken to call back  *)
(* into the router, by calling stop() once.                                *)
(***************************************************************************)
EXTENDS Limits

CONSTANT MaxImmediates    \* bound: zeroConnections callbacks pending at once

ASSUME RouterAssumption == MaxImmediates \in Nat \ {0}

VARIABLES
    rstate,      \* _internalState
    sock,        \* the socket
    listening,   \* are the router's listeners on the socket?
    rtimers,     \* timeouts armed
    immediates,  \* zeroConnections callbacks pending
    incoming,    \* connections in _map made for OPEN segments
    outgoing,    \* connections in _map made by mkConnection
    stops        \* history: 'stop' events emitted

routerVars == <<rstate, sock, listening, rtimers, immediates, incoming,
                outgoing, stops>>

RouterStates == {"START", "BIND", "LISTEN", "STOP_NOTIFY", "CLOSE",
                 "CLOSE_ERROR", "END", "ERROR"}

SocketStates == {"new", "binding", "open", "closing", "closed"}

Timeouts == {"bind", "stop", "close"}

RouterTypeOK ==
    /\ rstate \in RouterStates
    /\ sock \in SocketStates
    /\ listening \in BOOLEAN
    /\ rtimers \subseteq Timeouts
    /\ immediates \in 0 .. MaxImmediates
    /\ incoming \in 0 .. MaxConnections
    /\ outgoing \in 0 .. MaxConnections
    /\ stops \in Nat

RouterInit ==
    /\ rstate = "START"
    /\ sock = "new"
    /\ listening = TRUE
    /\ rtimers = {}
    /\ immediates = 0
    /\ incoming = 0
    /\ outgoing = 0
    /\ stops = 0
-----------------------------------------------------------------------------
\* Mutant of StopExpected: the socket is not closed first.
StopExpectedNow ==
    {<<"STOP_NOTIFY", e, "END">> :
        e \in {"STOP", "STOP_TIMEOUT", "STOP_ZERO_CONNECTIONS"}}

\* Insisting, waiting long enough and having no connections: all close.
StopExpected ==
    {<<"STOP_NOTIFY", e, "CLOSE">> :
        e \in {"STOP", "STOP_TIMEOUT", "STOP_ZERO_CONNECTIONS"}}

(***************************************************************************)
(* What each state expects and where that leads: <<state, event, next>>.   *)
(* CLOSE ignores what the socket still had to say.                         *)
(***************************************************************************)
Expected ==
    {<<"START", "START", "BIND">>,
     <<"BIND", "SOCKET_BIND", "LISTEN">>,
     <<"BIND", "STOP", "CLOSE">>,
     <<"LISTEN", "SOCKET_MESSAGE", "LISTEN">>,
     <<"LISTEN", "SOCKET_CLOSE", "ERROR">>,
     <<"LISTEN", "STOP", "STOP_NOTIFY">>,
     <<"STOP_NOTIFY", "SOCKET_MESSAGE", "STOP_NOTIFY">>,
     <<"STOP_NOTIFY", "SOCKET_CLOSE", "END">>,
     <<"CLOSE", "SOCKET_CLOSE", "END">>,
     <<"CLOSE", "SOCKET_CLOSE_TIMEOUT", "ERROR">>,
     <<"CLOSE", "SOCKET_ERROR", "CLOSE">>,
     <<"CLOSE", "SOCKET_MESSAGE", "CLOSE">>,
     <<"CLOSE", "SOCKET_BIND", "CLOSE">>}
    \cup StopExpected

\* Mutant of Otherwise: a router in ERROR closes its socket.
OtherwiseClosing(st) ==
    IF st = "START" THEN "START"
    ELSE IF st \in {"LISTEN", "STOP_NOTIFY", "ERROR"} THEN "CLOSE_ERROR"
    ELSE "ERROR"

\* The default branch, which also emits 'error'.
Otherwise(st) ==
    IF st = "START" THEN "START"
    ELSE IF st \in {"LISTEN", "STOP_NOTIFY"} THEN "CLOSE_ERROR"
    ELSE "ERROR"

\* transition() of state st answers event e with state new.
Answers(st, e, new) ==
    \/ <<st, e, new>> \in Expected
    \/ /\ \A other \in RouterStates : <<st, e, other>> \notin Expected
       /\ new = Otherwise(st)

\* The timeout that enter() of a state sets and exit() clears.
TimerOf(st) ==
    {t \in Timeouts :
        <<st, t>> \in {<<"BIND", "bind">>, <<"STOP_NOTIFY", "stop">>,
                      <<"CLOSE", "close">>, <<"CLOSE_ERROR", "close">>}}

\* Mutants of Rearm: exit() clears nothing; enter() sets nothing.
RearmOnly(new) == rtimers \cup TimerOf(new)

ClearOnly(new) == rtimers \ TimerOf(rstate)

\* The timeouts after exit() of the present state and enter() of the next.
Rearm(new) == (rtimers \ TimerOf(rstate)) \cup TimerOf(new)

\* enter() of BIND binds the socket, enter() of CLOSE and CLOSE_ERROR close
\* it.
SocketAfter(sk, st) ==
    IF st = "BIND" THEN "binding"
    ELSE IF st \in {"CLOSE", "CLOSE_ERROR"} THEN "closing"
    ELSE sk

\* close() on a closed socket emits 'error' at once: CLOSE ignores it, and
\* CLOSE_ERROR is left for ERROR before its enter() has set the timeout.
Lands(new, sk) == IF new = "CLOSE_ERROR" /\ sk = "closing" THEN "ERROR" ELSE new

(***************************************************************************)
(* The _state setter: exit() of the old state, enter() of the new one.     *)
(* STOP_NOTIFY only looks for an empty map; with connections in it,        *)
(* _signalStop throws, after the state and the timeout are set, and tells  *)
(* none of them.                                                           *)
(***************************************************************************)
Enter(new, sk, n) ==
    /\ rstate' = Lands(new, sk)
    /\ rtimers' = Rearm(new)
    /\ sock' = SocketAfter(sk, new)
    /\ immediates' = IF new = "STOP_NOTIFY" /\ incoming + outgoing = 0
                     THEN n + 1 ELSE n
    /\ listening' = (listening /\ new # "END")
    /\ stops' = IF new = "END" THEN stops + 1 ELSE stops
    /\ UNCHANGED <<incoming, outgoing>>

\* The _state setter when the state stays: it does nothing.
Stay(sk, n) ==
    /\ sock' = sk
    /\ immediates' = n
    /\ UNCHANGED <<rstate, rtimers, listening, stops, incoming, outgoing>>

\* _transition on event e; sk and n are the socket and the immediates
\* pending as the event leaves them.
Fire(e, sk, n) ==
    \E new \in RouterStates :
        /\ Answers(rstate, e, new)
        /\ IF new = rstate THEN Stay(sk, n) ELSE Enter(new, sk, n)

\* What the socket does reaches the router while its listeners are on.
SocketSays(e, sk) ==
    IF listening
    THEN Fire(e, sk, immediates)
    ELSE Stay(sk, immediates)
-----------------------------------------------------------------------------
\* start() and stop(), called by the user in any state.
Start == Fire("START", sock, immediates)

Stop ==
    /\ immediates < MaxImmediates
    /\ Fire("STOP", sock, immediates)

(***************************************************************************)
(* The screen callback calls stop() while the router handles an OPEN with  *)
(* an empty map: with connections stop() throws, here inside an event of   *)
(* the socket, which ends the process.  STOP_NOTIFY (from STOP_NOTIFY:     *)
(* CLOSE, which closes the socket) is entered inside the transition, which *)
(* then returns the state it was called in: that one is entered again,     *)
(* with its own timeout, and STOP_NOTIFY, entered once either way, leaves  *)
(* an immediate.                                                           *)
(***************************************************************************)
StopInScreen ==
    /\ rstate \in {"LISTEN", "STOP_NOTIFY"}
    /\ sock \in {"open", "closing"}
    /\ incoming + outgoing = 0
    /\ immediates < MaxImmediates
    /\ immediates' = immediates + 1
    /\ sock' = IF rstate = "STOP_NOTIFY" THEN "closing" ELSE sock
    /\ UNCHANGED <<rstate, listening, rtimers, incoming, outgoing, stops>>

SocketBinds ==
    /\ sock = "binding"
    /\ SocketSays("SOCKET_BIND", "open")

\* bind() fails, or something sent could not be delivered.
SocketFails ==
    /\ sock \in {"binding", "open", "closing"}
    /\ SocketSays("SOCKET_ERROR", IF sock = "binding" THEN "new" ELSE sock)

SocketCloses ==
    /\ sock = "closing"
    /\ SocketSays("SOCKET_CLOSE", "closed")

\* A datagram, perhaps queued before close(), that opens no connection.
SocketMessage ==
    /\ sock \in {"open", "closing"}
    /\ SocketSays("SOCKET_MESSAGE", sock)

\* Mutant of AcceptOpen: the size of the map is not looked at.
AcceptOpenUnlimited ==
    /\ rstate = "LISTEN"
    /\ sock = "open"
    /\ incoming <= MaxConnections
    /\ incoming' = incoming + 1
    /\ UNCHANGED <<rstate, sock, listening, rtimers, immediates, outgoing, stops>>

\* _processSegment on an OPEN: _newId wants LISTEN and room in the map.
AcceptOpen ==
    /\ rstate = "LISTEN"
    /\ sock = "open"
    /\ incoming + outgoing < MaxConnections
    /\ incoming' = incoming + 1
    /\ UNCHANGED <<rstate, sock, listening, rtimers, immediates, outgoing, stops>>

\* Mutant of MakeConnection: the size of the map is not looked at.
MakeConnectionUnlimited ==
    /\ rstate = "LISTEN"
    /\ outgoing <= MaxConnections
    /\ outgoing' = outgoing + 1
    /\ UNCHANGED <<rstate, sock, listening, rtimers, immediates, incoming, stops>>

\* The timeout of 0 of mkConnection, which also asks _newId.
MakeConnection ==
    /\ rstate = "LISTEN"
    /\ incoming + outgoing < MaxConnections
    /\ outgoing' = outgoing + 1
    /\ UNCHANGED <<rstate, sock, listening, rtimers, immediates, incoming, stops>>

\* The 'error' listener mkConnection adds; incoming connections have none.
ConnectionFails ==
    /\ outgoing > 0
    /\ outgoing' = outgoing - 1
    /\ UNCHANGED <<rstate, sock, listening, rtimers, immediates, incoming, stops>>

\* Mutant of BindTimeout: the event of another callback.
BindTimeoutBinds ==
    /\ "bind" \in rtimers
    /\ Fire("SOCKET_BIND", sock, immediates)

\* _bindTimeout fires SOCKET_CLOSE_TIMEOUT, as _closeTimeout does.
BindTimeout ==
    /\ "bind" \in rtimers
    /\ Fire("SOCKET_CLOSE_TIMEOUT", sock, immediates)

StopTimeout ==
    /\ "stop" \in rtimers
    /\ Fire("STOP_TIMEOUT", sock, immediates)

CloseTimeout ==
    /\ "close" \in rtimers
    /\ rstate # "ERROR"
    /\ Fire("SOCKET_CLOSE_TIMEOUT", sock, immediates)

\* A close timeout that CLOSE_ERROR left to ERROR: one more 'error' event.
StrayCloseTimeout ==
    /\ "close" \in rtimers
    /\ rstate = "ERROR"
    /\ rtimers' = rtimers \ {"close"}
    /\ UNCHANGED <<rstate, sock, listening, immediates, incoming, outgoing, stops>>

\* The immediate cannot be taken back: it fires in whatever state it finds.
ZeroConnections ==
    /\ immediates > 0
    /\ Fire("STOP_ZERO_CONNECTIONS", sock, immediates - 1)
-----------------------------------------------------------------------------
RouterNext ==
    \/ Start
    \/ Stop
    \/ StopInScreen
    \/ SocketBinds
    \/ SocketFails
    \/ SocketCloses
    \/ SocketMessage
    \/ AcceptOpen
    \/ MakeConnection
    \/ ConnectionFails
    \/ BindTimeout
    \/ StopTimeout
    \/ CloseTimeout
    \/ StrayCloseTimeout
    \/ ZeroConnections

RouterSpec == RouterInit /\ [][RouterNext]_routerVars

(***************************************************************************)
(* Fairness.  Timeouts and immediates of node.js fire while armed, and a   *)
(* closed socket says so in the end.  Nothing is asked of bind(), of the   *)
(* user or of the connections.                                             *)
(***************************************************************************)
RouterFairSpec ==
    /\ RouterSpec
    /\ WF_routerVars(BindTimeout)
    /\ WF_routerVars(StopTimeout)
    /\ WF_routerVars(CloseTimeout)
    /\ WF_routerVars(ZeroConnections)
    /\ WF_routerVars(SocketCloses)
-----------------------------------------------------------------------------
(***************************************************************************)
(* Each state has its own timeout armed, so that none waits for ever, and  *)
(* no other: no path, not even a stop() from inside a handler, leaves one  *)
(* behind, but to ERROR, which no event leaves.                            *)
(***************************************************************************)
StateOwnsTimer ==
    /\ TimerOf(rstate) \subseteq rtimers
    /\ \/ rtimers = TimerOf(rstate)
       \/ rstate = "ERROR" /\ rtimers = {"close"}

(***************************************************************************)
(* A router that serves does so on an open socket, and one that lets its   *)
(* connections wrap up is still to hear that its socket has closed.        *)
(***************************************************************************)
ServesOnOpenSocket ==
    /\ rstate = "LISTEN" => sock = "open"
    /\ rstate = "STOP_NOTIFY" => sock \in {"open", "closing"}

(***************************************************************************)
(* 'stop' is emitted once, and only when the socket is closed and nobody   *)
(* listens to it any more, however often stop() was called and whatever    *)
(* was pending then.                                                       *)
(***************************************************************************)
StopMeansClosed ==
    /\ stops <= 1
    /\ rstate = "END" => stops = 1
    /\ stops = 1 => sock = "closed" /\ ~listening /\ rstate \in {"END", "ERROR"}

(***************************************************************************)
(* A router closes only a socket whose 'close' event is still to come:     *)
(* CLOSE and CLOSE_ERROR wait for nothing else.                            *)
(***************************************************************************)
CloseIsAnswered ==
    [][(rstate' \in {"CLOSE", "CLOSE_ERROR"} /\ rstate' # rstate)
          => sock \in {"binding", "open", "closing"}]_routerVars

(***************************************************************************)
(* What a router still has before it: it goes from START towards END or    *)
(* ERROR, and CLOSE and CLOSE_ERROR are equally near.                      *)
(***************************************************************************)
StagesLeft(st) ==
    CASE st = "START" -> 5
      [] st = "BIND" -> 4
      [] st = "LISTEN" -> 3
      [] st = "STOP_NOTIFY" -> 2
      [] st \in {"CLOSE", "CLOSE_ERROR"} -> 1
      [] st \in {"END", "ERROR"} -> 0

(***************************************************************************)
(* Why a stop ends: no call, error, late answer or pending callback takes  *)
(* a router back, not even a stop() from inside a handler, and each        *)
(* timeout and the socket's 'close' bring it on.                           *)
(***************************************************************************)
StopAdvances ==
    [][/\ StagesLeft(rstate') <= StagesLeft(rstate)
       /\ \/ BindTimeout
          \/ StopTimeout
          \/ CloseTimeout
          \/ SocketCloses /\ rstate \in {"STOP_NOTIFY", "CLOSE", "CLOSE_ERROR"}
          => StagesLeft(rstate') < StagesLeft(rstate)]_routerVars

(***************************************************************************)
(* A router that has begun to stop, on request or after an error, gets     *)
(* there: its socket is closed and it rests in END or ERROR.  bind() does  *)
(* not keep it waiting for ever.                                           *)
(***************************************************************************)
StopEnds ==
    /\ rstate \in {"STOP_NOTIFY", "CLOSE", "CLOSE_ERROR"}
           ~> rstate \in {"END", "ERROR"} /\ sock = "closed"
    /\ rstate = "BIND" ~> rstate # "BIND"

(***************************************************************************)
(* The router implements Service.                                          *)
(***************************************************************************)
PhaseOf(st) ==
    CASE st = "START" -> "down"
      [] st = "BIND" -> "starting"
      [] st = "LISTEN" -> "serving"
      [] st \in {"STOP_NOTIFY", "CLOSE"} -> "stopping"
      [] st = "END" -> "ended"
      [] st \in {"CLOSE_ERROR", "ERROR"} -> "failed"

PortOf(sk) == IF sk \in {"new", "closed"} THEN "free" ELSE "held"

Promised == INSTANCE Service WITH
    phase <- PhaseOf(rstate),
    port <- PortOf(sock),
    said <- stops

\* The port is held from start() to 'stop', which is said once and gives it
\* back, and no router serves again, whatever is pending when it ends.
ImplementsService == Promised!ServiceSpec

(***************************************************************************)
(* The inductive invariant: where the socket is in each state, and that    *)
(* the listeners go with the one 'stop'.                                   *)
(***************************************************************************)
RouterInv ==
    /\ RouterTypeOK
    /\ StateOwnsTimer
    /\ ServesOnOpenSocket
    /\ StopMeansClosed
    /\ rstate = "START" => sock = "new"
    /\ rstate = "BIND" => sock = "binding"
    /\ rstate \in {"CLOSE", "CLOSE_ERROR"} => sock = "closing"
    /\ listening <=> stops = 0

(***************************************************************************)
(* END and ERROR say "No events expected": once a router has ended, only   *)
(* its user can make it fail.                                              *)
(***************************************************************************)
EndIsQuiet ==
    [][rstate = "END" /\ rstate' = "ERROR" => Start \/ Stop]_routerVars
=============================================================================
