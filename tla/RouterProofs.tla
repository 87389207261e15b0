---------------------------- MODULE RouterProofs ----------------------------
(***************************************************************************)
(* Proofs about Router, for any number of connections and of pending       *)
(* immediates.                                                             *)
(***************************************************************************)
EXTENDS Router, TLAPS

\* Every state's timeout is one of the three, and START and LISTEN have none.
LEMMA TimerTypes == \A st \in RouterStates : TimerOf(st) \subseteq Timeouts
  BY DEF TimerOf

LEMMA InitRouterInv == RouterInit => RouterInv
  BY RouterAssumption, LimitsAssumption
  DEF RouterInit, RouterInv, RouterTypeOK, RouterStates, SocketStates,
      Timeouts, StateOwnsTimer, TimerOf, ServesOnOpenSocket, StopMeansClosed

(***************************************************************************)
(* A change of state keeps the timeouts right whatever the event was.      *)
(***************************************************************************)
LEMMA EnterTimers ==
  ASSUME RouterInv, rstate # "ERROR",
         NEW new \in RouterStates, NEW sk, NEW n, Enter(new, sk, n)
  PROVE  StateOwnsTimer' /\ rtimers' \subseteq Timeouts
<1>1. rtimers' = TimerOf(new)
  BY DEF RouterInv, StateOwnsTimer, Enter, Rearm
<1>2. CASE rstate' = new
  BY <1>1, <1>2, TimerTypes DEF StateOwnsTimer
<1>3. CASE new = "CLOSE_ERROR" /\ rstate' = "ERROR"
  BY <1>1, <1>3, TimerTypes DEF StateOwnsTimer, TimerOf, Timeouts
<1> QED BY <1>2, <1>3 DEF Enter, Lands

\* Nothing leaves ERROR.
LEMMA ErrorStays ==
  ASSUME NEW e, NEW new \in RouterStates, Answers("ERROR", e, new)
  PROVE  new = "ERROR"
  BY DEF Answers, Expected, StopExpected, Otherwise

(***************************************************************************)
(* What is left of the invariant after an event, for an event that leaves  *)
(* the socket in sk and n immediates pending.  OtherParts is what does not *)
(* speak of timeouts.                                                      *)
(***************************************************************************)
OtherParts ==
    /\ rstate \in RouterStates /\ sock \in SocketStates
    /\ listening \in BOOLEAN /\ stops \in Nat
    /\ ServesOnOpenSocket /\ StopMeansClosed
    /\ rstate = "START" => sock = "new"
    /\ rstate = "BIND" => sock = "binding"
    /\ rstate \in {"CLOSE", "CLOSE_ERROR"} => sock = "closing"
    /\ listening <=> stops = 0

\* The events that move the router by what they are, not by what they bring.
LEMMA TimedEvents ==
  ASSUME RouterInv, NEW n,
         NEW e \in {"START", "STOP", "SOCKET_CLOSE_TIMEOUT", "STOP_TIMEOUT",
                    "STOP_ZERO_CONNECTIONS"},
         Fire(e, sock, n)
  PROVE  OtherParts'
<1> USE DEF RouterInv, RouterTypeOK, OtherParts, ServesOnOpenSocket,
            StopMeansClosed, RouterStates, SocketStates
<1>1. PICK new \in RouterStates :
          /\ Answers(rstate, e, new)
          /\ IF new = rstate THEN Stay(sock, n) ELSE Enter(new, sock, n)
  BY DEF Fire
<1>2. CASE new = rstate
  BY <1>1, <1>2 DEF Stay
<1>3. CASE new # rstate
  BY <1>1, <1>3
  DEF Enter, Lands, SocketAfter, Answers, Expected, StopExpected, Otherwise
<1> QED BY <1>2, <1>3

\* What the socket says, and what it has become when it says it.
Says(e, sk) ==
    \/ e = "SOCKET_BIND" /\ sock = "binding" /\ sk = "open"
    \/ e = "SOCKET_ERROR" /\ sock = "binding" /\ sk = "new"
    \/ e = "SOCKET_ERROR" /\ sock \in {"open", "closing"} /\ sk = sock
    \/ e = "SOCKET_CLOSE" /\ sock = "closing" /\ sk = "closed"
    \/ e = "SOCKET_MESSAGE" /\ sock \in {"open", "closing"} /\ sk = sock

\* Where the events of a socket may lead.
LEMMA SocketMoves ==
  ASSUME NEW st \in RouterStates, NEW e, NEW new, Answers(st, e, new),
         e \in {"SOCKET_BIND", "SOCKET_ERROR", "SOCKET_CLOSE",
                "SOCKET_MESSAGE"}
  PROVE  /\ new # "BIND"
         /\ new \in {"START", "STOP_NOTIFY"} => st = new
         /\ new = "LISTEN" => st = new \/ e = "SOCKET_BIND"
         /\ new = "END" => st = new \/ e = "SOCKET_CLOSE"
         /\ e = "SOCKET_CLOSE" /\ st = new
                => new \notin {"STOP_NOTIFY", "CLOSE", "CLOSE_ERROR"}
<1>1. CASE <<st, e, new>> \in Expected
  BY <1>1 DEF Expected, StopExpected
<1>2. CASE new = Otherwise(st) /\ \A other \in RouterStates :
                                    <<st, e, other>> \notin Expected
  <2>1. new # "CLOSE" /\ (new \in {"STOP_NOTIFY", "CLOSE_ERROR"} => st # new)
    BY <1>2 DEF Otherwise
  <2> QED BY <1>2, <2>1 DEF Otherwise, RouterStates
<1> QED BY <1>1, <1>2 DEF Answers

\* The events of the socket.  A router that has taken its listeners off has
\* a closed socket, which says nothing.
LEMMA SocketEvents ==
  ASSUME RouterInv, NEW e, NEW sk, Says(e, sk), SocketSays(e, sk)
  PROVE  OtherParts'
<1> USE DEF RouterInv, RouterTypeOK, OtherParts, ServesOnOpenSocket,
            StopMeansClosed, RouterStates, SocketStates
<1>1. listening
  <2>1. sock # "closed"
    BY DEF Says
  <2> QED BY <2>1
<1>2. PICK new \in RouterStates :
          /\ Answers(rstate, e, new)
          /\ IF new = rstate THEN Stay(sk, immediates)
             ELSE Enter(new, sk, immediates)
  BY <1>1 DEF SocketSays, Fire
<1>3. e \in {"SOCKET_BIND", "SOCKET_ERROR", "SOCKET_CLOSE", "SOCKET_MESSAGE"}
      /\ sk \in SocketStates
  BY DEF Says
<1>4. CASE new = rstate
  <2>1. /\ rstate' = rstate /\ sock' = sk
        /\ listening' = listening /\ stops' = stops
    BY <1>2, <1>4 DEF Stay
  <2>2. /\ rstate # "BIND"
        /\ e = "SOCKET_CLOSE"
              => rstate \notin {"STOP_NOTIFY", "CLOSE", "CLOSE_ERROR"}
    BY <1>2, <1>3, <1>4, SocketMoves
  <2> QED BY <1>1, <1>3, <2>1, <2>2 DEF Says
<1>5. CASE new # rstate
  <2>1. /\ new \notin {"START", "BIND", "STOP_NOTIFY"}
        /\ new = "LISTEN" => e = "SOCKET_BIND"
        /\ new = "END" => e = "SOCKET_CLOSE"
    BY <1>2, <1>3, <1>5, SocketMoves
  <2>2. /\ rstate' = Lands(new, sk) /\ sock' = SocketAfter(sk, new)
        /\ listening' = (listening /\ new # "END")
        /\ stops' = IF new = "END" THEN stops + 1 ELSE stops
    BY <1>2, <1>5 DEF Enter
  <2>3. CASE new = "LISTEN"
    BY <1>1, <2>1, <2>2, <2>3 DEF SocketAfter, Lands, Says
  <2>4. CASE new = "END"
    <3>1. sk = "closed" /\ stops = 0
      BY <1>1, <2>1, <2>4 DEF Says
    <3>2. sock' = "closed" /\ stops' = 1 /\ rstate' = "END"
      BY <2>2, <2>4, <3>1 DEF SocketAfter, Lands
    <3>3. listening' = FALSE
      BY <2>2, <2>4
    <3>4. (listening <=> stops = 0)'
      BY <3>2, <3>3
    <3>5. StopMeansClosed' /\ ServesOnOpenSocket'
      BY <3>2, <3>3
    <3> QED BY <3>2, <3>3, <3>4, <3>5
  <2>5. CASE new = "ERROR"
    BY <1>1, <1>3, <2>2, <2>5 DEF SocketAfter, Lands
  <2>6. CASE new \in {"CLOSE", "CLOSE_ERROR"}
    BY <1>1, <2>2, <2>6 DEF SocketAfter, Lands
  <2> QED BY <1>2, <2>1, <2>3, <2>4, <2>5, <2>6
<1> QED BY <1>4, <1>5

\* The counts the type invariant bounds.
LEMMA CountsStep ==
  ASSUME RouterInv, RouterNext
  PROVE  /\ immediates' \in 0 .. MaxImmediates
         /\ incoming' \in 0 .. MaxConnections
         /\ outgoing' \in 0 .. MaxConnections
<1> USE RouterAssumption, LimitsAssumption DEF RouterInv, RouterTypeOK
<1>1. ASSUME NEW e, NEW sk, e # "STOP", Fire(e, sk, immediates)
      PROVE  UNCHANGED <<immediates, incoming, outgoing>>
  BY <1>1 DEF Fire, Stay, Enter, Answers, Expected, StopExpected, Otherwise
<1>2. CASE Start \/ BindTimeout \/ StopTimeout \/ CloseTimeout
  BY <1>1, <1>2 DEF Start, BindTimeout, StopTimeout, CloseTimeout
<1>3. CASE SocketBinds \/ SocketFails \/ SocketCloses \/ SocketMessage
  BY <1>1, <1>3
  DEF SocketBinds, SocketFails, SocketCloses, SocketMessage, SocketSays, Stay
<1>4. CASE Stop
  BY <1>4 DEF Stop, Fire, Stay, Enter
<1>5. CASE ZeroConnections
  <2>1. PICK new \in RouterStates :
            /\ Answers(rstate, "STOP_ZERO_CONNECTIONS", new)
            /\ IF new = rstate THEN Stay(sock, immediates - 1)
               ELSE Enter(new, sock, immediates - 1)
    BY <1>5 DEF ZeroConnections, Fire
  <2>2. ~(new = "STOP_NOTIFY" /\ new # rstate)
    BY <2>1 DEF Answers, Expected, StopExpected, Otherwise
  <2> QED BY <1>5, <2>1, <2>2 DEF ZeroConnections, Stay, Enter
<1>6. CASE StopInScreen \/ AcceptOpen \/ MakeConnection \/ ConnectionFails
           \/ StrayCloseTimeout
  BY <1>6 DEF StopInScreen, AcceptOpen, MakeConnection, ConnectionFails,
              StrayCloseTimeout
<1> QED BY <1>2, <1>3, <1>4, <1>5, <1>6 DEF RouterNext

LEMMA RouterTimersStep ==
  ASSUME RouterInv, RouterNext
  PROVE  StateOwnsTimer' /\ rtimers' \subseteq Timeouts
<1>1. ASSUME UNCHANGED <<rstate, rtimers>>
      PROVE  StateOwnsTimer' /\ rtimers' \subseteq Timeouts
  BY <1>1 DEF RouterInv, RouterTypeOK, StateOwnsTimer
<1>2. ASSUME NEW sk, NEW n, Stay(sk, n)
      PROVE  StateOwnsTimer' /\ rtimers' \subseteq Timeouts
  BY <1>1, <1>2 DEF Stay
<1>3. ASSUME NEW e, NEW sk, NEW n, Fire(e, sk, n)
      PROVE  StateOwnsTimer' /\ rtimers' \subseteq Timeouts
  <2>1. PICK new \in RouterStates :
            /\ Answers(rstate, e, new)
            /\ IF new = rstate THEN Stay(sk, n) ELSE Enter(new, sk, n)
    BY <1>3 DEF Fire
  <2>2. CASE new = rstate
    BY <1>2, <2>1, <2>2
  <2>3. CASE new # rstate
    BY <2>1, <2>3, EnterTimers, ErrorStays
  <2> QED BY <2>2, <2>3
<1>4. CASE StopInScreen \/ AcceptOpen \/ MakeConnection \/ ConnectionFails
  BY <1>1, <1>4 DEF StopInScreen, AcceptOpen, MakeConnection, ConnectionFails
<1>5. CASE \E e, sk : SocketSays(e, sk)
  BY <1>2, <1>3, <1>5 DEF SocketSays
<1>6. CASE \E e, n : Fire(e, sock, n)
  BY <1>3, <1>6
<1>7. CASE StrayCloseTimeout
  BY <1>7
  DEF StrayCloseTimeout, RouterInv, RouterTypeOK, StateOwnsTimer, TimerOf
<1> QED
  BY <1>4, <1>5, <1>6, <1>7
  DEF RouterNext, Start, Stop, SocketBinds, SocketFails, SocketCloses,
      SocketMessage, BindTimeout, StopTimeout, CloseTimeout, ZeroConnections

(***************************************************************************)
(* The invariant is inductive.                                             *)
(***************************************************************************)
LEMMA StepRouterInv == RouterInv /\ [RouterNext]_routerVars => RouterInv'
<1> SUFFICES ASSUME RouterInv, [RouterNext]_routerVars PROVE RouterInv'
  OBVIOUS
<1>1. CASE UNCHANGED routerVars
  BY <1>1
  DEF routerVars, RouterInv, RouterTypeOK, StateOwnsTimer, ServesOnOpenSocket,
      StopMeansClosed
<1>2. CASE RouterNext
  <2>1. OtherParts'
    <3>1. CASE StopInScreen \/ AcceptOpen \/ MakeConnection \/ ConnectionFails
               \/ StrayCloseTimeout
      BY <3>1
      DEF StopInScreen, AcceptOpen, MakeConnection, ConnectionFails,
          StrayCloseTimeout, SocketStates, OtherParts, RouterInv,
          RouterTypeOK, ServesOnOpenSocket,
          StopMeansClosed
    <3>2. CASE SocketBinds \/ SocketFails \/ SocketCloses \/ SocketMessage
      <4>1. \E e, sk : Says(e, sk) /\ SocketSays(e, sk)
        BY <3>2
        DEF SocketBinds, SocketFails, SocketCloses, SocketMessage, Says
      <4> QED BY <4>1, SocketEvents
    <3>3. CASE Start \/ Stop \/ BindTimeout \/ StopTimeout \/ CloseTimeout
               \/ ZeroConnections
      BY <3>3, TimedEvents
      DEF Start, Stop, BindTimeout, StopTimeout, CloseTimeout, ZeroConnections
    <3> QED BY <1>2, <3>1, <3>2, <3>3 DEF RouterNext
  <2> QED
    BY <1>2, <2>1, CountsStep, RouterTimersStep
    DEF OtherParts, RouterInv, RouterTypeOK
<1> QED BY <1>1, <1>2

THEOREM RouterInvariance == RouterSpec => []RouterInv
  BY InitRouterInv, StepRouterInv, PTL DEF RouterSpec

\* Type correctness of the router and its socket.
THEOREM RouterTypeCorrect == RouterSpec => []RouterTypeOK
<1>1. RouterInv => RouterTypeOK
  BY DEF RouterInv
<1> QED BY <1>1, RouterInvariance, PTL

\* Every state has its timeout armed; ERROR alone may have one it did not set.
THEOREM RouterTimers == RouterSpec => []StateOwnsTimer
<1>1. RouterInv => StateOwnsTimer
  BY DEF RouterInv
<1> QED BY <1>1, RouterInvariance, PTL

\* A router in LISTEN has an open socket, in STOP_NOTIFY one not yet closed.
THEOREM Serving == RouterSpec => []ServesOnOpenSocket
<1>1. RouterInv => ServesOnOpenSocket
  BY DEF RouterInv
<1> QED BY <1>1, RouterInvariance, PTL

\* 'stop' is emitted once, with the socket closed and the listeners off.
THEOREM StoppedOnce == RouterSpec => []StopMeansClosed
<1>1. RouterInv => StopMeansClosed
  BY DEF RouterInv
<1> QED BY <1>1, RouterInvariance, PTL

(***************************************************************************)
(* A socket is closed only while its 'close' event is to come: the states  *)
(* that close it are entered from states that have such a socket.          *)
(***************************************************************************)
THEOREM ClosesAreAnswered == RouterSpec => CloseIsAnswered
<1> DEFINE Closes == (rstate' \in {"CLOSE", "CLOSE_ERROR"} /\ rstate' # rstate)
                        => sock \in {"binding", "open", "closing"}
<1>1. RouterInv /\ [RouterNext]_routerVars => [Closes]_routerVars
  <2> SUFFICES ASSUME RouterInv, RouterNext,
                      rstate' \in {"CLOSE", "CLOSE_ERROR"}, rstate' # rstate
               PROVE  sock \in {"binding", "open", "closing"}
    OBVIOUS
  <2>1. PICK e, sk, n : Fire(e, sk, n)
    BY DEF RouterNext, Start, Stop, StopInScreen, SocketBinds, SocketFails,
           SocketCloses, SocketMessage, AcceptOpen, MakeConnection,
           ConnectionFails, BindTimeout, StopTimeout, CloseTimeout,
           StrayCloseTimeout, ZeroConnections, SocketSays, Stay
  <2>2. PICK new \in RouterStates :
            Answers(rstate, e, new) /\ rstate' = Lands(new, sk)
    BY <2>1 DEF Fire, Stay, Enter
  <2>3. new \in {"CLOSE", "CLOSE_ERROR"} /\ new # rstate
    BY <2>2 DEF Lands
  <2>4. rstate \in {"BIND", "LISTEN", "STOP_NOTIFY"}
    BY <2>2, <2>3
    DEF RouterInv, RouterTypeOK, RouterStates, Answers, Expected, StopExpected,
        Otherwise
  <2> QED BY <2>4 DEF RouterInv, ServesOnOpenSocket
<1> QED BY <1>1, RouterInvariance, PTL DEF RouterSpec, CloseIsAnswered
=============================================================================
