------------------------------- MODULE System -------------------------------
(***************************************************************************)
(* A router that listens, with its socket, its stop and the connections in *)
(* its map, and the initiators that connect to it.  Handshake leaves the   *)
(* router's life out and Router what its connections do; here they meet:   *)
(* a segment is a message of the socket, _newId looks at the state of the  *)
(* router and at its map, and connections outlive the router that made     *)
(* them.                                                                   *)
(*                                                                         *)
(* A step of the router that throws inside an event of its socket ends the *)
(* process and is left out: stop() in the screen callback while there are  *)
(* connections.                                                            *)
(***************************************************************************)
EXTENDS HandshakeInvariant, Router

systemVars == <<handshakeVars, routerVars>>

SystemInit == Init /\ RouterInit

\* Mutant of Routes: a router that closes its socket serves what is queued.
RoutesToTheEnd == rstate \in {"LISTEN", "STOP_NOTIFY", "CLOSE"} /\ listening

\* The states whose transition() calls _processSegment, which the socket
\* reaches while the listeners are on.
Routes == rstate \in {"LISTEN", "STOP_NOTIFY"} /\ listening

\* The routers of the initiators, and their timers.
Elsewhere ==
    /\ InitiatorNext
    /\ UNCHANGED <<responderVars, routerVars>>

\* Mutant of Opens: _newId does not ask in which state the router is.
OpensUnasked(m, s) ==
    /\ OpenNew(m, s)
    /\ Routes
    /\ incoming + outgoing < MaxConnections
    /\ incoming' = incoming + 1
    /\ UNCHANGED <<rstate, sock, listening, rtimers, immediates, outgoing,
                   stops>>
    /\ UNCHANGED initiatorVars

\* _processSegment on an OPEN from an address without a connection: _newId
\* wants LISTEN, and room among the connections of both kinds.
Opens(m, s) ==
    /\ OpenNew(m, s)
    /\ AcceptOpen
    /\ UNCHANGED initiatorVars

\* _processSegment on a segment for a connection in one of the tables.
Handles(m, s) ==
    /\ Routes
    /\ \/ OpenAgain(m, s)
       \/ AcceptPing(m, s)
       \/ RepeatPing(m, s)
    /\ SocketMessage
    /\ UNCHANGED initiatorVars

\* The screen callback, asked about an OPEN from such an address, calls
\* stop(); the OPEN is refused, for _newId no longer finds LISTEN.
ScreenStops(m) ==
    /\ m.type = "OPEN"
    /\ addresses[AddressOf[m.from]] = None
    /\ StopInScreen
    /\ UNCHANGED handshakeVars

\* The timers of connections run, and their users may call kill(), whatever
\* has become of the router.
ConnectionEnds(s) ==
    /\ \/ ReadyTimeout(s)
       \/ KillResponder(s)
    /\ UNCHANGED <<initiatorVars, routerVars>>

\* What concerns the router alone: its timeouts, ...
TimeoutFires ==
    /\ \/ BindTimeout
       \/ StopTimeout
       \/ CloseTimeout
       \/ StrayCloseTimeout
    /\ UNCHANGED handshakeVars

\* ... its immediates, ...
ImmediateFires == ZeroConnections /\ UNCHANGED handshakeVars

\* ... its socket, messages that it drops included, ...
SocketActs ==
    /\ \/ SocketBinds
       \/ SocketFails
       \/ SocketCloses
       \/ SocketMessage
    /\ UNCHANGED handshakeVars

\* ... and its user, whose own connections take up room in the map.
UserActs ==
    /\ \/ Start
       \/ Stop
       \/ MakeConnection
       \/ ConnectionFails
    /\ UNCHANGED handshakeVars

SystemNext ==
    \/ Elsewhere
    \/ \E m \in net, s \in ServerId :
        \/ Opens(m, s)
        \/ Handles(m, s)
    \/ \E m \in net : ScreenStops(m)
    \/ \E s \in ServerId : ConnectionEnds(s)
    \/ TimeoutFires
    \/ ImmediateFires
    \/ SocketActs
    \/ UserActs

SystemSpec == SystemInit /\ [][SystemNext]_systemVars
-----------------------------------------------------------------------------
(***************************************************************************)
(* Fairness, as in Handshake and in Router: timers and immediates fire     *)
(* while they are armed, and a closed socket says so.                      *)
(***************************************************************************)
InitiatorTimerFires(c) ==
    InitiatorTimer(c) /\ UNCHANGED <<responderVars, routerVars>>

ReadyTimerRuns(s) ==
    \/ ReadyTimeout(s) /\ UNCHANGED <<initiatorVars, routerVars>>
    \/ \E m \in net : Handles(m, s) /\ RepeatPing(m, s)

SystemFairSpec ==
    /\ SystemSpec
    /\ \A c \in Conn : WF_systemVars(InitiatorTimerFires(c))
    /\ \A s \in ServerId : WF_systemVars(ReadyTimerRuns(s))
    /\ WF_systemVars(BindTimeout /\ UNCHANGED handshakeVars)
    /\ WF_systemVars(StopTimeout /\ UNCHANGED handshakeVars)
    /\ WF_systemVars(CloseTimeout /\ UNCHANGED handshakeVars)
    /\ WF_systemVars(ImmediateFires)
    /\ WF_systemVars(SocketCloses /\ UNCHANGED handshakeVars)
-----------------------------------------------------------------------------
\* The router's map holds the connections of both kinds, within its limit.
MapCounted ==
    /\ incoming = Cardinality(map)
    /\ incoming + outgoing <= MaxConnections

(***************************************************************************)
(* A router with connections that may still be answered has an open        *)
(* socket: send() on a closed one throws.  Connections are made in LISTEN  *)
(* only, and a stop() from inside a handler closes the socket under none.  *)
(***************************************************************************)
AnswersOnOpenSocket ==
    /\ Routes /\ incoming + outgoing > 0 => sock = "open"
    /\ rstate \in {"START", "BIND"} => incoming + outgoing = 0

(***************************************************************************)
(* The inductive invariant: those of the two parts, and what the map makes *)
(* of them.                                                                *)
(***************************************************************************)
SystemInv ==
    /\ IndInv
    /\ RouterInv
    /\ MapCounted
    /\ AnswersOnOpenSocket

(***************************************************************************)
(* Once the socket is not open, before it is bound or after it was told to *)
(* close, no connection is made, moved to another peer, accepted, or       *)
(* answers, whatever is still queued in the socket or on its way.          *)
(***************************************************************************)
SilentOnceClosed ==
    [][sock # "open" => UNCHANGED <<map, srvPeer, accepts, answered>>
      ]_systemVars

(***************************************************************************)
(* A router that ends takes its sessions with it: it tells nobody ('hard   *)
(* drop' leaves them in its map), but both sides notice by their timers.   *)
(* An initiator must have a round of pings left, for rounds are bounded.   *)
(***************************************************************************)
Over == rstate \in {"END", "ERROR"}

SessionsEnd ==
    /\ \A s \in ServerId :
          Over /\ srvState[s] = "READY" ~> srvState[s] = "ERROR"
    /\ \A c \in Conn :
          Over /\ state[c] = "READY_PING" /\ pingRound[c] < MaxRound
              ~> state[c] = "ERROR"
=============================================================================
