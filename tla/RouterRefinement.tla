-------------------------- MODULE RouterRefinement --------------------------
(***************************************************************************)
(* Router implements Service: each step of a router is a step of the       *)
(* service or leaves its phase, its port and its 'stop' as they are.       *)
(***************************************************************************)
EXTENDS RouterProofs

LEMMA PhaseValues ==
  /\ PhaseOf("START") = "down" /\ PhaseOf("BIND") = "starting"
  /\ PhaseOf("LISTEN") = "serving" /\ PhaseOf("STOP_NOTIFY") = "stopping"
  /\ PhaseOf("CLOSE") = "stopping" /\ PhaseOf("END") = "ended"
  /\ PhaseOf("CLOSE_ERROR") = "failed" /\ PhaseOf("ERROR") = "failed"
  BY DEF PhaseOf

Phase == PhaseOf(rstate)
Port == PortOf(sock)

\* The service's step, in the words of the router.
PromisedStep ==
    \/ Phase' = Phase /\ Port' = Port /\ stops' = stops
    \/ Promised!ServiceNext

\* An event leaves the port as it was, or gives it back.
LEMMA PortOfEvent ==
  ASSUME NEW e, NEW sk, sk = sock \/ Says(e, sk)
  PROVE  PortOf(sk) \in {Port, "free"}
  BY DEF Says, PortOf, Port

\* A router that stays where it is gives its port back only in ERROR.
LEMMA StayKeepsPromise ==
  ASSUME RouterInv, NEW e, NEW sk, sk = sock \/ Says(e, sk),
         Answers(rstate, e, rstate), NEW n, Stay(sk, n)
  PROVE  PromisedStep
<1>1. rstate' = rstate /\ sock' = sk /\ stops' = stops
  BY DEF Stay
<1>2. Phase' = Phase
  BY <1>1 DEF Phase
<1>3. CASE PortOf(sk) = Port
  BY <1>1, <1>2, <1>3 DEF PromisedStep, Port
<1>4. CASE PortOf(sk) # Port
  <2>1. /\ \/ e = "SOCKET_ERROR" /\ sock = "binding"
           \/ e = "SOCKET_CLOSE" /\ sock = "closing"
        /\ PortOf(sk) = "free"
    BY <1>4 DEF Says, PortOf, Port
  <2>2. rstate \in RouterStates
    BY DEF RouterInv, RouterTypeOK
  <2>3. rstate \notin {"START", "LISTEN", "END"}
    BY <2>1 DEF RouterInv, ServesOnOpenSocket, StopMeansClosed
  <2>4. rstate \notin {"BIND", "STOP_NOTIFY", "CLOSE", "CLOSE_ERROR"}
    BY <2>1, <2>2, SocketMoves DEF RouterInv, ServesOnOpenSocket
  <2>5. rstate = "ERROR"
    BY <2>2, <2>3, <2>4 DEF RouterStates
  <2> QED
    BY <1>1, <1>2, <2>1, <2>5, PhaseValues
    DEF PromisedStep, Phase, Port, Promised!ServiceNext, Promised!FreePort
<1> QED BY <1>3, <1>4

(***************************************************************************)
(* Where a router may go, and on what: the table of its states, read by    *)
(* the state entered.                                                      *)
(***************************************************************************)
LEMMA WhereFrom ==
  ASSUME RouterInv, NEW e, NEW new \in RouterStates, Answers(rstate, e, new),
         new # rstate
  PROVE  /\ new # "START"
         /\ new = "BIND" => rstate = "START" /\ e = "START"
         /\ new = "LISTEN" => rstate = "BIND" /\ e = "SOCKET_BIND"
         /\ new = "STOP_NOTIFY" => rstate = "LISTEN" /\ e = "STOP"
         /\ new = "CLOSE" => \/ rstate = "BIND" /\ e = "STOP"
                             \/ /\ rstate = "STOP_NOTIFY"
                                /\ e \in {"STOP", "STOP_TIMEOUT",
                                          "STOP_ZERO_CONNECTIONS"}
         /\ new = "CLOSE_ERROR" => /\ rstate \in {"LISTEN", "STOP_NOTIFY"}
                                   /\ e # "SOCKET_CLOSE"
         /\ new = "END" => /\ rstate \in {"STOP_NOTIFY", "CLOSE"}
                           /\ e = "SOCKET_CLOSE"
         /\ new = "ERROR" => rstate # "START"
<1>1. rstate \in RouterStates
  BY DEF RouterInv, RouterTypeOK
<1>2. CASE <<rstate, e, new>> \in Expected
  BY <1>2 DEF Expected, StopExpected
<1>3. CASE new = Otherwise(rstate) /\ \A other \in RouterStates :
                                        <<rstate, e, other>> \notin Expected
  <2>1. new \in {"CLOSE_ERROR", "ERROR"} /\ rstate # "START"
        /\ (new = "CLOSE_ERROR" => rstate \in {"LISTEN", "STOP_NOTIFY"})
    BY <1>3 DEF Otherwise
  <2>2. e = "SOCKET_CLOSE" => rstate \notin {"LISTEN", "STOP_NOTIFY"}
    BY <1>3 DEF Expected, RouterStates
  <2> QED BY <2>1, <2>2
<1> QED BY <1>2, <1>3 DEF Answers

\* A router that moves.
LEMMA EnterKeepsPromise ==
  ASSUME RouterInv, NEW e, NEW sk,
         \/ /\ sk = sock
            /\ e \notin {"SOCKET_BIND", "SOCKET_CLOSE"}
         \/ Says(e, sk),
         NEW new \in RouterStates, Answers(rstate, e, new), new # rstate,
         NEW n, Enter(new, sk, n)
  PROVE  PromisedStep
<1>1. /\ rstate' = Lands(new, sk) /\ sock' = SocketAfter(sk, new)
      /\ stops' = IF new = "END" THEN stops + 1 ELSE stops
  BY DEF Enter
<1> USE <1>1, PhaseValues DEF Phase, Port, PromisedStep, Promised!ServiceNext
<1>2. CASE new = "BIND"
  <2>1. rstate = "START" /\ sk = sock /\ sock = "new"
    BY <1>2, WhereFrom DEF Says, RouterInv
  <2> QED BY <1>2, <2>1
          DEF Lands, SocketAfter, PortOf, Promised!TakePort
<1>3. CASE new = "LISTEN"
  <2>1. rstate = "BIND" /\ sock = "binding" /\ sk = "open"
    BY <1>3, WhereFrom DEF Says
  <2> QED BY <1>3, <2>1 DEF Lands, SocketAfter, PortOf, Promised!Serve
<1>4. CASE new = "STOP_NOTIFY"
  <2>1. rstate = "LISTEN" /\ sk = sock
    BY <1>4, WhereFrom DEF Says
  <2> QED BY <1>4, <2>1 DEF Lands, SocketAfter, PortOf, Promised!WindUp
<1>5. CASE new = "CLOSE"
  <2>1. /\ sk = sock /\ sock \in {"binding", "open", "closing"}
        /\ rstate \in {"BIND", "STOP_NOTIFY"}
    BY <1>5, WhereFrom DEF Says, RouterInv, ServesOnOpenSocket
  <2>2. rstate' = "CLOSE" /\ sock' = "closing" /\ stops' = stops
    BY <1>5 DEF Lands, SocketAfter
  <2> QED BY <2>1, <2>2 DEF PortOf, Promised!WindUp
<1>6. CASE new = "CLOSE_ERROR"
  <2>1. /\ rstate \in {"LISTEN", "STOP_NOTIFY"}
        /\ sock \in {"open", "closing"}
    BY <1>6, WhereFrom DEF RouterInv, ServesOnOpenSocket
  <2>2. rstate' \in {"CLOSE_ERROR", "ERROR"} /\ sock' = "closing"
        /\ stops' = stops
    BY <1>6 DEF Lands, SocketAfter
  <2> QED BY <2>1, <2>2 DEF PortOf, Promised!GiveUp
<1>7. CASE new = "END"
  <2>1. /\ rstate \in {"STOP_NOTIFY", "CLOSE"}
        /\ sock = "closing" /\ sk = "closed"
    BY <1>7, WhereFrom DEF Says
  <2>2. stops = 0
    BY <2>1 DEF RouterInv, RouterTypeOK, StopMeansClosed
  <2>3. rstate' = "END" /\ sock' = "closed" /\ stops' = 1
    BY <1>7, <2>1, <2>2 DEF Lands, SocketAfter
  <2> QED BY <2>1, <2>2, <2>3 DEF PortOf, Promised!Announce
<1>8. CASE new = "ERROR"
  <2>1. rstate # "START" /\ rstate \in RouterStates
    BY <1>8, WhereFrom DEF RouterInv, RouterTypeOK
  <2>2. rstate' = "ERROR" /\ sock' = sk /\ stops' = stops
    BY <1>8 DEF Lands, SocketAfter
  <2>3. Port' \in {Port, "free"}
    BY <2>2, PortOfEvent
  <2>4. CASE rstate \in {"CLOSE_ERROR", "ERROR"}
    BY <2>2, <2>3, <2>4 DEF Promised!FreePort
  <2>5. CASE rstate \notin {"CLOSE_ERROR", "ERROR"}
    <3>1. Phase \notin {"down", "failed"}
      BY <2>1, <2>5 DEF RouterStates
    <3> QED BY <2>2, <2>3, <3>1 DEF Promised!GiveUp
  <2> QED BY <2>4, <2>5
<1> QED
  BY <1>2, <1>3, <1>4, <1>5, <1>6, <1>7, <1>8, WhereFrom DEF RouterStates

LEMMA StepKeepsPromise ==
  ASSUME RouterInv, [RouterNext]_routerVars
  PROVE  PromisedStep
<1>1. ASSUME UNCHANGED <<rstate, sock, stops>> PROVE PromisedStep
  BY <1>1 DEF PromisedStep, Phase, Port
<1>2. ASSUME NEW e, NEW sk, NEW n, Fire(e, sk, n),
             \/ /\ sk = sock
                /\ e \notin {"SOCKET_BIND", "SOCKET_CLOSE"}
             \/ Says(e, sk)
      PROVE  PromisedStep
  <2>1. PICK new \in RouterStates :
            /\ Answers(rstate, e, new)
            /\ IF new = rstate THEN Stay(sk, n) ELSE Enter(new, sk, n)
    BY <1>2 DEF Fire
  <2>2. CASE new = rstate
    BY <1>2, <2>1, <2>2, StayKeepsPromise
  <2>3. CASE new # rstate
    BY <1>2, <2>1, <2>3, EnterKeepsPromise
  <2> QED BY <2>2, <2>3
<1>3. CASE SocketBinds \/ SocketFails \/ SocketCloses \/ SocketMessage
  <2>1. PICK e, sk : Says(e, sk) /\ SocketSays(e, sk)
    BY <1>3 DEF SocketBinds, SocketFails, SocketCloses, SocketMessage, Says
  <2>2. listening
    BY <2>1 DEF Says, RouterInv, RouterTypeOK, StopMeansClosed
  <2> QED BY <1>2, <2>1, <2>2 DEF SocketSays
<1>4. CASE Start \/ Stop \/ BindTimeout \/ StopTimeout \/ CloseTimeout
           \/ ZeroConnections
  BY <1>2, <1>4
  DEF Start, Stop, BindTimeout, StopTimeout, CloseTimeout, ZeroConnections
<1>5. CASE StopInScreen
  BY <1>5 DEF StopInScreen, PromisedStep, Phase, Port, PortOf
<1>6. CASE AcceptOpen \/ MakeConnection \/ ConnectionFails
           \/ StrayCloseTimeout \/ UNCHANGED routerVars
  BY <1>1, <1>6
  DEF AcceptOpen, MakeConnection, ConnectionFails, StrayCloseTimeout, routerVars
<1> QED BY <1>3, <1>4, <1>5, <1>6 DEF RouterNext

LEMMA InitKeepsPromise == RouterInit => Promised!ServiceInit
  BY PhaseValues DEF RouterInit, Promised!ServiceInit, PortOf

(***************************************************************************)
(* The port is held from start() to 'stop', which is said once, for any    *)
(* number of connections and of pending callbacks.                         *)
(***************************************************************************)
THEOREM RouterIsService == RouterSpec => ImplementsService
<1>1. RouterInv /\ [RouterNext]_routerVars
        => [Promised!ServiceNext]_(Promised!serviceVars)
  BY StepKeepsPromise DEF PromisedStep, Phase, Port, Promised!serviceVars
<1> QED
  BY <1>1, InitKeepsPromise, RouterInvariance, PTL
  DEF RouterSpec, ImplementsService, Promised!ServiceSpec

-----------------------------------------------------------------------------
(***************************************************************************)
(* Progress.  The states in the order of StagesLeft.                       *)
(***************************************************************************)
LEMMA StagesLeftValues ==
  /\ StagesLeft("START") = 5 /\ StagesLeft("BIND") = 4
  /\ StagesLeft("LISTEN") = 3 /\ StagesLeft("STOP_NOTIFY") = 2
  /\ StagesLeft("CLOSE") = 1 /\ StagesLeft("CLOSE_ERROR") = 1
  /\ StagesLeft("END") = 0 /\ StagesLeft("ERROR") = 0
  BY DEF StagesLeft

\* Whatever the event: a router that moves moves on, or from END to ERROR.
LEMMA EventAdvances ==
  ASSUME RouterInv, NEW e, NEW sk, NEW n, Fire(e, sk, n)
  PROVE  /\ StagesLeft(rstate') <= StagesLeft(rstate)
         /\ rstate' # rstate /\ rstate # "END"
                => StagesLeft(rstate') < StagesLeft(rstate)
<1> USE StagesLeftValues
<1>r. rstate \in RouterStates
  BY DEF RouterInv, RouterTypeOK
<1>1. PICK new \in RouterStates :
          /\ Answers(rstate, e, new)
          /\ IF new = rstate THEN Stay(sk, n) ELSE Enter(new, sk, n)
  BY DEF Fire
<1>2. CASE new = rstate
  <2>1. rstate' = rstate
    BY <1>1, <1>2 DEF Stay
  <2> QED BY <1>r, <2>1 DEF RouterStates
<1>3. CASE new # rstate
  <2>1. rstate' \in {new, "ERROR"} /\ StagesLeft(rstate') <= StagesLeft(new)
    BY <1>1, <1>3 DEF Enter, Lands, RouterStates
  <2>2. /\ StagesLeft(new) <= StagesLeft(rstate)
        /\ rstate # "END" => StagesLeft(new) < StagesLeft(rstate)
    BY <1>r, <1>1, <1>3, WhereFrom DEF RouterStates
  <2>3. /\ StagesLeft(new) \in Nat /\ StagesLeft(rstate) \in Nat
        /\ StagesLeft(rstate') \in Nat
    BY <1>r, <2>1 DEF RouterStates
  <2> QED BY <2>1, <2>2, <2>3
<1> QED BY <1>2, <1>3

\* The timeouts, each in its state, and the 'close' event move a router.
LEMMA TimeoutMoves ==
  ASSUME RouterInv,
         \/ BindTimeout \/ StopTimeout \/ CloseTimeout
         \/ SocketCloses /\ rstate \in {"STOP_NOTIFY", "CLOSE", "CLOSE_ERROR"}
  PROVE  rstate' # rstate /\ rstate # "END"
<1> USE DEF RouterInv, StateOwnsTimer, TimerOf, Enter, Lands, RouterStates
<1>1. CASE BindTimeout
  <2>1. rstate = "BIND"
    BY <1>1 DEF BindTimeout
  <2>2. \A new : Answers("BIND", "SOCKET_CLOSE_TIMEOUT", new) => new = "ERROR"
    BY DEF Answers, Expected, StopExpected, Otherwise
  <2> QED BY <1>1, <2>1, <2>2 DEF BindTimeout, Fire
<1>2. CASE StopTimeout
  <2>1. rstate = "STOP_NOTIFY"
    BY <1>2 DEF StopTimeout
  <2>2. \A new : Answers("STOP_NOTIFY", "STOP_TIMEOUT", new) => new = "CLOSE"
    BY DEF Answers, Expected, StopExpected, Otherwise
  <2> QED BY <1>2, <2>1, <2>2 DEF StopTimeout, Fire
<1>3. CASE CloseTimeout
  <2>1. rstate \in {"CLOSE", "CLOSE_ERROR"}
    BY <1>3 DEF CloseTimeout
  <2>2. \A st \in {"CLOSE", "CLOSE_ERROR"} : \A new :
           Answers(st, "SOCKET_CLOSE_TIMEOUT", new) => new = "ERROR"
    BY DEF Answers, Expected, StopExpected, Otherwise
  <2> QED BY <1>3, <2>1, <2>2 DEF CloseTimeout, Fire
<1>4. CASE /\ SocketCloses
           /\ rstate \in {"STOP_NOTIFY", "CLOSE", "CLOSE_ERROR"}
  <2>1. Fire("SOCKET_CLOSE", "closed", immediates)
    BY <1>4
    DEF SocketCloses, SocketSays, RouterTypeOK, StopMeansClosed
  <2>2. \A st \in {"STOP_NOTIFY", "CLOSE", "CLOSE_ERROR"} : \A new :
           Answers(st, "SOCKET_CLOSE", new) => new \in {"END", "ERROR"}
    BY DEF Answers, Expected, StopExpected, Otherwise
  <2> QED BY <1>4, <2>1, <2>2 DEF Fire
<1> QED BY <1>1, <1>2, <1>3, <1>4

(***************************************************************************)
(* No step takes a router back, and every timeout and the 'close' of its   *)
(* socket bring it nearer to END or ERROR, from which nothing is left.     *)
(***************************************************************************)
THEOREM StopsAdvance == RouterSpec => StopAdvances
<1> DEFINE Moved == \/ BindTimeout
                    \/ StopTimeout
                    \/ CloseTimeout
                    \/ /\ SocketCloses
                       /\ rstate \in {"STOP_NOTIFY", "CLOSE", "CLOSE_ERROR"}
           Advances == /\ StagesLeft(rstate') <= StagesLeft(rstate)
                       /\ Moved => StagesLeft(rstate') < StagesLeft(rstate)
<1>1. ASSUME RouterInv, RouterNext PROVE Advances
  <2>1. CASE UNCHANGED rstate
    <3>1. StagesLeft(rstate') <= StagesLeft(rstate)
      BY <1>1, <2>1, StagesLeftValues DEF RouterInv, RouterTypeOK, RouterStates
    <3>2. ~Moved
      BY <1>1, <2>1, TimeoutMoves
    <3> QED BY <3>1, <3>2
  <2>2. CASE \E e, sk, n : Fire(e, sk, n)
    <3>1. Moved => rstate' # rstate /\ rstate # "END"
      BY <1>1, TimeoutMoves
    <3> QED BY <1>1, <2>2, <3>1, EventAdvances
  <2>3. CASE SocketBinds \/ SocketFails \/ SocketCloses \/ SocketMessage
    BY <2>1, <2>2, <2>3
    DEF SocketBinds, SocketFails, SocketCloses, SocketMessage, SocketSays, Stay
  <2> QED
    BY <1>1, <2>1, <2>2, <2>3
    DEF RouterNext, Start, Stop, BindTimeout, StopTimeout, CloseTimeout,
        ZeroConnections, StopInScreen, AcceptOpen, MakeConnection,
        ConnectionFails, StrayCloseTimeout
<1>2. RouterInv /\ [RouterNext]_routerVars => [Advances]_routerVars
  BY <1>1
<1> QED BY <1>2, RouterInvariance, PTL DEF RouterSpec, StopAdvances
=============================================================================
