---------------------------- MODULE SystemProofs ----------------------------
(***************************************************************************)
(* Proofs about System.  Its steps are those of its two parts, so what was *)
(* proved of Handshake and of Router holds of it; what is left is what the *)
(* map makes the two know of each other.                                   *)
(***************************************************************************)
EXTENDS System, HandshakeRefinement, RouterRefinement

LEMMA SystemStepIsHandshakeStep ==
  ASSUME [SystemNext]_systemVars
  PROVE  [Next]_handshakeVars
<1> USE DEF Next, ResponderNext
<1>1. CASE Elsewhere
  BY <1>1 DEF Elsewhere
<1>2. ASSUME NEW m \in net, NEW s \in ServerId, Opens(m, s) \/ Handles(m, s)
      PROVE  Next
  BY <1>2 DEF Opens, Handles
<1>3. ASSUME NEW s \in ServerId, ConnectionEnds(s)
      PROVE  Next
  BY <1>3 DEF ConnectionEnds
<1>4. CASE \/ \E m \in net : ScreenStops(m)
           \/ TimeoutFires \/ ImmediateFires \/ SocketActs \/ UserActs
           \/ UNCHANGED systemVars
  BY <1>4
  DEF ScreenStops, TimeoutFires, ImmediateFires, SocketActs, UserActs,
      systemVars
<1> QED BY <1>1, <1>2, <1>3, <1>4 DEF SystemNext

LEMMA SystemStepIsRouterStep ==
  ASSUME [SystemNext]_systemVars
  PROVE  [RouterNext]_routerVars
<1> USE DEF RouterNext
<1>1. CASE \/ Elsewhere
           \/ \E s \in ServerId : ConnectionEnds(s)
           \/ UNCHANGED systemVars
  BY <1>1 DEF Elsewhere, ConnectionEnds, systemVars
<1>2. ASSUME NEW m \in net, NEW s \in ServerId, Opens(m, s) \/ Handles(m, s)
      PROVE  RouterNext
  BY <1>2 DEF Opens, Handles
<1>3. CASE \/ \E m \in net : ScreenStops(m)
           \/ TimeoutFires \/ ImmediateFires \/ SocketActs \/ UserActs
  BY <1>3 DEF ScreenStops, TimeoutFires, ImmediateFires, SocketActs, UserActs
<1> QED BY <1>1, <1>2, <1>3 DEF SystemNext

(***************************************************************************)
(* Every behaviour of the system is one of its handshake and one of its    *)
(* router.                                                                 *)
(***************************************************************************)
THEOREM RunsHandshake == SystemSpec => Spec
  BY SystemStepIsHandshakeStep, PTL DEF SystemSpec, SystemInit, Spec

THEOREM RunsRouter == SystemSpec => RouterSpec
  BY SystemStepIsRouterStep, PTL DEF SystemSpec, SystemInit, RouterSpec
-----------------------------------------------------------------------------
(***************************************************************************)
(* The map.  An incoming connection is counted when its id enters the map, *)
(* and neither goes again.                                                 *)
(***************************************************************************)
LEMMA MapStep ==
  ASSUME IndInv, RouterInv, MapCounted, [SystemNext]_systemVars
  PROVE  MapCounted'
<1> USE LimitsAssumption
<1>t. /\ incoming \in Nat /\ outgoing \in Nat /\ IsFiniteSet(map)
      /\ Cardinality(map) \in Nat
  BY FS_CardinalityType DEF IndInv, RouterInv, RouterTypeOK
<1>1. ASSUME NEW m \in net, NEW s \in ServerId, Opens(m, s)
      PROVE  MapCounted'
  <2>1. s \notin map /\ map' = map \cup {s}
    BY <1>1 DEF Opens, OpenNew, NewId
  <2>2. /\ incoming' = incoming + 1 /\ outgoing' = outgoing
        /\ incoming + outgoing < MaxConnections
    BY <1>1 DEF Opens, AcceptOpen
  <2>3. Cardinality(map') = Cardinality(map) + 1
    BY <1>t, <2>1, FS_AddElement
  <2> QED BY <1>t, <2>2, <2>3 DEF MapCounted
<1>2. ASSUME UNCHANGED <<map, incoming, outgoing>> PROVE MapCounted'
  BY <1>2 DEF MapCounted
<1>3. ASSUME UNCHANGED map, MakeConnection \/ ConnectionFails
      PROVE  MapCounted'
  BY <1>t, <1>3 DEF MapCounted, MakeConnection, ConnectionFails
<1>4. ASSUME NEW e, NEW sk, SocketSays(e, sk)
      PROVE  UNCHANGED <<incoming, outgoing>>
  BY <1>4 DEF SocketSays, Fire, Stay, Enter
<1>5. ASSUME NEW e, NEW sk, NEW n, Fire(e, sk, n)
      PROVE  UNCHANGED <<incoming, outgoing>>
  BY <1>5 DEF Fire, Stay, Enter
<1>6. ASSUME NEW m \in net, NEW s \in ServerId, Handles(m, s)
      PROVE  MapCounted'
  <2>1. UNCHANGED map
    BY <1>6 DEF Handles, OpenAgain, AcceptPing, RepeatPing, AnswerPing
  <2> QED BY <1>2, <1>4, <1>6, <2>1 DEF Handles, SocketMessage
<1>7. CASE \/ Elsewhere \/ UNCHANGED systemVars
           \/ \E s \in ServerId : ConnectionEnds(s)
  BY <1>2, <1>7
  DEF Elsewhere, ConnectionEnds, ReadyTimeout, KillResponder, SrvFail,
      systemVars, handshakeVars, responderVars, routerVars
<1>8. CASE \/ \E m \in net : ScreenStops(m)
           \/ TimeoutFires \/ ImmediateFires \/ SocketActs \/ UserActs
  <2>1. UNCHANGED map
    BY <1>8
    DEF ScreenStops, TimeoutFires, ImmediateFires, SocketActs, UserActs,
        handshakeVars, responderVars
  <2> QED
    BY <1>2, <1>3, <1>4, <1>5, <1>8, <2>1
    DEF ScreenStops, StopInScreen, TimeoutFires, BindTimeout, StopTimeout,
        CloseTimeout, StrayCloseTimeout, ImmediateFires, ZeroConnections,
        SocketActs, SocketBinds, SocketFails, SocketCloses, SocketMessage,
        UserActs, Start, Stop
<1> QED BY <1>1, <1>6, <1>7, <1>8 DEF SystemNext

(***************************************************************************)
(* The socket.  A router comes to LISTEN with an empty map and an open     *)
(* socket, and to STOP_NOTIFY from LISTEN; there only a stop() from inside *)
(* a handler closes the socket, and it finds the map empty.                *)
(***************************************************************************)
LEMMA SocketOfEvent ==
  ASSUME RouterInv, AnswersOnOpenSocket, NEW e, NEW sk, NEW n, Fire(e, sk, n),
         \/ /\ sk = sock
            /\ e \notin {"SOCKET_BIND", "SOCKET_CLOSE"}
         \/ Says(e, sk)
  PROVE  AnswersOnOpenSocket'
<1>c. UNCHANGED <<incoming, outgoing>>
  BY DEF Fire, Stay, Enter
<1>1. PICK new \in RouterStates :
          /\ Answers(rstate, e, new)
          /\ IF new = rstate THEN Stay(sk, n) ELSE Enter(new, sk, n)
  BY DEF Fire
<1>2. CASE new = rstate
  <2>1. rstate' = rstate /\ sock' = sk /\ listening' = listening
    BY <1>1, <1>2 DEF Stay
  <2>2. CASE incoming + outgoing > 0 /\ Routes
    <3>1. sock = "open" /\ rstate \in {"LISTEN", "STOP_NOTIFY"}
      BY <2>2 DEF AnswersOnOpenSocket, Routes
    <3>2. sk = "open"
      BY <3>1 DEF Says
    <3> QED BY <1>c, <2>1, <3>1, <3>2 DEF AnswersOnOpenSocket
  <2> QED BY <1>c, <2>1, <2>2 DEF AnswersOnOpenSocket, Routes
<1>3. CASE new # rstate
  <2>1. /\ rstate' = Lands(new, sk) /\ sock' = SocketAfter(sk, new)
    BY <1>1, <1>3 DEF Enter
  <2>2. CASE new \in {"BIND", "LISTEN"}
    <3>1. rstate \in {"START", "BIND"}
      BY <1>1, <1>3, <2>2, WhereFrom
    <3> QED BY <1>c, <3>1 DEF AnswersOnOpenSocket
  <2>3. CASE new = "STOP_NOTIFY"
    <3>1. rstate = "LISTEN" /\ e = "STOP"
      BY <1>1, <1>3, <2>3, WhereFrom
    <3>2. sock = "open" /\ sk = sock
      BY <3>1 DEF Says, RouterInv, ServesOnOpenSocket
    <3> QED BY <2>1, <2>3, <3>2 DEF Lands, SocketAfter, AnswersOnOpenSocket
  <2>4. CASE new \notin {"BIND", "LISTEN", "STOP_NOTIFY"}
    <3>1. rstate' \notin {"START", "BIND", "LISTEN", "STOP_NOTIFY"}
      BY <1>1, <1>3, <2>1, <2>4, WhereFrom DEF Lands
    <3> QED BY <3>1 DEF AnswersOnOpenSocket, Routes
  <2> QED BY <2>2, <2>3, <2>4
<1> QED BY <1>2, <1>3

LEMMA SocketStep ==
  ASSUME RouterInv, AnswersOnOpenSocket, [RouterNext]_routerVars
  PROVE  AnswersOnOpenSocket'
<1>t. incoming \in Nat /\ outgoing \in Nat
  BY LimitsAssumption DEF RouterInv, RouterTypeOK
<1>1. CASE SocketBinds \/ SocketFails \/ SocketCloses \/ SocketMessage
  <2>1. PICK e, sk : Says(e, sk) /\ SocketSays(e, sk)
    BY <1>1 DEF SocketBinds, SocketFails, SocketCloses, SocketMessage, Says
  <2>2. listening
    BY <2>1 DEF Says, RouterInv, RouterTypeOK, StopMeansClosed
  <2> QED BY <2>1, <2>2, SocketOfEvent DEF SocketSays
<1>2. CASE Start \/ Stop \/ BindTimeout \/ StopTimeout \/ CloseTimeout
           \/ ZeroConnections
  BY <1>2, SocketOfEvent
  DEF Start, Stop, BindTimeout, StopTimeout, CloseTimeout, ZeroConnections
<1>3. CASE StopInScreen
  BY <1>3 DEF StopInScreen, AnswersOnOpenSocket
<1>4. CASE AcceptOpen \/ MakeConnection
  BY <1>4
  DEF AcceptOpen, MakeConnection, AnswersOnOpenSocket, RouterInv,
      ServesOnOpenSocket
<1>5. CASE ConnectionFails
  <2>1. /\ UNCHANGED <<rstate, sock, listening, incoming>>
        /\ outgoing > 0 /\ outgoing' = outgoing - 1
    BY <1>5 DEF ConnectionFails
  <2>2. incoming + outgoing > 0
    BY <1>t, <2>1
  <2> QED BY <2>1, <2>2 DEF AnswersOnOpenSocket, Routes
<1>6. CASE StrayCloseTimeout \/ UNCHANGED routerVars
  BY <1>6 DEF StrayCloseTimeout, routerVars, AnswersOnOpenSocket, Routes
<1> QED BY <1>1, <1>2, <1>3, <1>4, <1>5, <1>6 DEF RouterNext
-----------------------------------------------------------------------------
LEMMA InitSystemInv == SystemInit => SystemInv
<1> SUFFICES ASSUME SystemInit PROVE SystemInv
  OBVIOUS
<1>1. IndInv /\ RouterInv
  BY InitInv, InitRouterInv DEF SystemInit
<1>2. map = {} /\ incoming = 0 /\ outgoing = 0 /\ rstate = "START"
  BY DEF SystemInit, Init, ResponderInit, RouterInit
<1>3. MapCounted
  BY <1>2, FS_EmptySet, LimitsAssumption DEF MapCounted
<1>4. AnswersOnOpenSocket
  BY <1>2 DEF AnswersOnOpenSocket, Routes
<1> QED BY <1>1, <1>3, <1>4 DEF SystemInv

LEMMA StepSystemInv == SystemInv /\ [SystemNext]_systemVars => SystemInv'
<1> SUFFICES ASSUME SystemInv, [SystemNext]_systemVars PROVE SystemInv'
  OBVIOUS
<1>1. IndInv'
  BY SystemStepIsHandshakeStep, StepInv DEF SystemInv
<1>2. RouterInv' /\ AnswersOnOpenSocket'
  BY SystemStepIsRouterStep, StepRouterInv, SocketStep DEF SystemInv
<1>3. MapCounted'
  BY MapStep DEF SystemInv
<1> QED BY <1>1, <1>2, <1>3 DEF SystemInv

(***************************************************************************)
(* The invariants of both parts, and what the map makes of them, hold in   *)
(* every reachable state of the system.                                    *)
(***************************************************************************)
THEOREM SystemInvariance == SystemSpec => []SystemInv
  BY InitSystemInv, StepSystemInv, PTL DEF SystemSpec

\* A connection that may be answered has an open socket to answer on.
THEOREM AnswersAreSent == SystemSpec => []AnswersOnOpenSocket
<1>1. SystemInv => AnswersOnOpenSocket
  BY DEF SystemInv
<1> QED BY <1>1, SystemInvariance, PTL

(***************************************************************************)
(* No connection is made, moved, accepted or answers while the socket is   *)
(* not open: a router that still routes has none then.                     *)
(***************************************************************************)
THEOREM Silence == SystemSpec => SilentOnceClosed
<1> DEFINE Silent == sock # "open"
                        => UNCHANGED <<map, srvPeer, accepts, answered>>
<1>1. ASSUME SystemInv, SystemNext, sock # "open"
      PROVE  UNCHANGED <<map, srvPeer, accepts, answered>>
  <2>1. ASSUME NEW m \in net, NEW s \in ServerId, Handles(m, s)
        PROVE  FALSE
    <3> ResponderStages
      BY <1>1 DEF SystemInv, IndInv
    <3>1. s \in map
      BY <2>1
      DEF Handles, OpenAgain, AcceptPing, RepeatPing, ValidPing,
          ResponderStages
    <3>2. incoming \in Nat \ {0} /\ outgoing \in Nat
      BY <1>1, <3>1, FS_EmptySet, FS_CardinalityType, LimitsAssumption
      DEF SystemInv, MapCounted, IndInv, RouterInv, RouterTypeOK
    <3>3. incoming + outgoing > 0
      BY <3>2
    <3> QED
      BY <1>1, <2>1, <3>3 DEF Handles, SystemInv, AnswersOnOpenSocket
  <2>2. ~ \E m \in net, s \in ServerId : Opens(m, s)
    BY <1>1 DEF Opens, AcceptOpen
  <2>3. CASE \/ Elsewhere
             \/ \E s \in ServerId : ConnectionEnds(s)
    BY <2>3
    DEF Elsewhere, responderVars, ConnectionEnds, ReadyTimeout, KillResponder,
        SrvFail
  <2>4. CASE \/ \E m \in net : ScreenStops(m)
             \/ TimeoutFires \/ ImmediateFires \/ SocketActs \/ UserActs
    BY <2>4
    DEF ScreenStops, TimeoutFires, ImmediateFires, SocketActs, UserActs,
        handshakeVars, responderVars
  <2> QED BY <1>1, <2>1, <2>2, <2>3, <2>4 DEF SystemNext
<1>2. SystemInv /\ [SystemNext]_systemVars => [Silent]_systemVars
  BY <1>1
<1> QED BY <1>2, SystemInvariance, PTL DEF SystemSpec, SilentOnceClosed
-----------------------------------------------------------------------------
(***************************************************************************)
(* What its parts promise, the system promises: each initiator is          *)
(* connected only to a responder that has committed to it, stop or not, ...*)
(***************************************************************************)
THEOREM SystemIsSession == SystemSpec => ImplementsSession
  BY RunsHandshake, Refinement, PTL

\* ... the port is held from start() to 'stop', connections or not, ...
THEOREM SystemIsService == SystemSpec => ImplementsService
  BY RunsRouter, RouterIsService, PTL

\* ... and neither an attempt nor a router that stops is ever taken back.
THEOREM SystemAdvances == SystemSpec => AttemptRunsDown /\ StopAdvances
  BY RunsHandshake, RunsDown, RunsRouter, StopsAdvance, PTL
=============================================================================
