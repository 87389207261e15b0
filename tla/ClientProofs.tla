---------------------------- MODULE ClientProofs ----------------------------
(***************************************************************************)
(* Proofs about Client.  They rest on its composition with the router:     *)
(* every step of a client is a step of its router or leaves it alone, so   *)
(* what RouterProofs shows of the router holds of the client's.            *)
(***************************************************************************)
EXTENDS Client, RouterRefinement

\* What is left alone when only the router moves, and the reverse.
ownVars == <<isListening, attached, isClosed, promise, hasConn, opens, closes>>

LEMMA ClientStepIsRouterStep ==
  [ClientNext]_clientVars => [RouterNext]_routerVars
<1> SUFFICES ASSUME [ClientNext]_clientVars PROVE [RouterNext]_routerVars
  OBVIOUS
<1>1. CASE UNCHANGED clientVars
  BY <1>1 DEF clientVars, routerVars
<1>2. CASE Open \/ Heard(SocketBinds) \/ Heard(SocketFails)
           \/ Heard(SocketCloses) \/ Heard(SocketMessage)
           \/ Heard(BindTimeout) \/ Heard(StopTimeout)
           \/ Heard(CloseTimeout) \/ Heard(ZeroConnections)
  BY <1>2 DEF Open, Heard, RouterNext
<1>3. CASE Close \/ Catch \/ CloseInOpen
  BY <1>3
  DEF Close, Catch, CloseInOpen, CloseListening, CloseEarly, RouterNext
<1>4. CASE Connects \/ NoId \/ Errors \/ Connected \/ Opened
  BY <1>4 DEF Connects, NoId, Errors, Connected, Opened, RouterNext
<1> QED BY <1>1, <1>2, <1>3, <1>4 DEF ClientNext

(***************************************************************************)
(* What a client relies on: its router begins to listen only from BIND,    *)
(* never goes back to START or BIND, and says 'stop' when it enters END.   *)
(***************************************************************************)
RouterMoves ==
    /\ rstate' = "LISTEN" => rstate \in {"BIND", "LISTEN"}
    /\ rstate' \in {"START", "BIND"} => rstate \in {"START", "BIND"}
    /\ \/ stops' = stops
       \/ rstate # "END" /\ rstate' = "END" /\ stops' = stops + 1

LEMMA FireMoves ==
  ASSUME RouterInv, NEW e, NEW sk, NEW n, Fire(e, sk, n)
  PROVE  RouterMoves
<1>1. PICK new \in RouterStates :
          /\ Answers(rstate, e, new)
          /\ IF new = rstate THEN Stay(sk, n) ELSE Enter(new, sk, n)
  BY DEF Fire
<1>2. CASE new = rstate
  BY <1>1, <1>2 DEF Stay, RouterMoves
<1>3. CASE new # rstate
  <2>1. /\ new = "LISTEN" => rstate = "BIND"
        /\ new \in {"START", "BIND"} => rstate \in {"START", "BIND"}
    BY <1>1, <1>3 DEF Answers, Expected, StopExpected, Otherwise
  <2>2. /\ rstate' = Lands(new, sk)
        /\ stops' = IF new = "END" THEN stops + 1 ELSE stops
    BY <1>1, <1>3 DEF Enter
  <2> QED BY <1>3, <2>1, <2>2 DEF Lands, RouterMoves
<1> QED BY <1>2, <1>3

LEMMA StepMoves ==
  ASSUME RouterInv, [RouterNext]_routerVars
  PROVE  RouterMoves
<1>1. CASE UNCHANGED <<rstate, stops>>
  BY <1>1 DEF RouterMoves
<1>2. CASE \E e, sk, n : Fire(e, sk, n)
  BY <1>2, FireMoves
<1>3. CASE \E e, sk : SocketSays(e, sk)
  BY <1>1, <1>2, <1>3 DEF SocketSays, Stay
<1> QED
  BY <1>1, <1>2, <1>3
  DEF RouterNext, routerVars, Start, Stop, StopInScreen, SocketBinds,
      SocketFails, SocketCloses, SocketMessage, AcceptOpen, MakeConnection,
      ConnectionFails, BindTimeout, StopTimeout, CloseTimeout,
      StrayCloseTimeout, ZeroConnections

\* stop() never ends a router at once.
LEMMA StopIsNotTheEnd ==
  ASSUME RouterInv, Stop
  PROVE  stops' = stops
<1>1. PICK new \in RouterStates :
          /\ Answers(rstate, "STOP", new)
          /\ IF new = rstate THEN Stay(sock, immediates)
             ELSE Enter(new, sock, immediates)
  BY DEF Stop, Fire
<1>2. new = "END" => new = rstate
  BY <1>1 DEF Answers, Expected, StopExpected, Otherwise
<1> QED BY <1>1, <1>2 DEF Stay, Enter

\* A datagram does not move a router that serves or wraps up.
LEMMA MessageStays ==
  ASSUME rstate \in {"LISTEN", "STOP_NOTIFY"}, listening, SocketMessage
  PROVE  rstate' = rstate /\ stops' = stops
<1>1. PICK new \in RouterStates :
          /\ Answers(rstate, "SOCKET_MESSAGE", new)
          /\ IF new = rstate THEN Stay(sock, immediates)
             ELSE Enter(new, sock, immediates)
  BY DEF SocketMessage, SocketSays, Fire
<1>2. rstate \in RouterStates
      /\ <<rstate, "SOCKET_MESSAGE", rstate>> \in Expected
  BY DEF Expected, RouterStates
<1>3. new = rstate
  BY <1>1, <1>2 DEF Answers, Expected, StopExpected
<1> QED BY <1>1, <1>3 DEF Stay

LEMMA InitClientInv == ClientInit => ClientInv
<1>1. ClientInit => RouterInv
  BY InitRouterInv DEF ClientInit
<1>2. ClientInit => ClientTypeOK /\ isListening = FALSE /\ attached = TRUE
  BY DEF ClientInit, ClientTypeOK, Promises
<1>3. ClientInit => stops = 0
  BY DEF ClientInit, RouterInit
<1> QED
  BY <1>1, <1>2, <1>3
  DEF ClientInit, ClientInv, CloseMeansStopped, StreamsWhileOpen
-----------------------------------------------------------------------------
\* The client's own part of the invariant.
OwnInv ==
    /\ ClientTypeOK
    /\ CloseMeansStopped
    /\ StreamsWhileOpen
    /\ attached <=> closes = 0
    /\ isListening <=> attached /\ promise # "none"
    /\ promise # "none" => rstate \notin {"START", "BIND"}
    /\ promise \in {"none", "waiting", "connecting", "rejecting"} => opens = 0
    /\ promise = "opening" => opens = 1 /\ rstate \in {"LISTEN", "STOP_NOTIFY"}
    /\ closes = 1 => isClosed /\ (promise = "none" \/ stops = 1)
    /\ closes = 0 => stops = 0

LEMMA HeardInv ==
  ASSUME ClientInv, RouterInv', RouterMoves, Quiet, Hears
  PROVE  OwnInv'
<1> USE DEF ClientInv, ClientTypeOK, Promises, CloseMeansStopped,
            StreamsWhileOpen, OwnInv, RouterInv, RouterTypeOK
<1>1. CASE HandleListen /\ attached /\ rstate = "BIND" /\ rstate' = "LISTEN"
  <2>1. promise = "none" /\ opens = 0 /\ closes = 0 /\ stops' = stops
    BY <1>1 DEF RouterMoves
  <2>2. isListening' = TRUE /\ promise' = "waiting"
    BY <1>1 DEF HandleListen
  <2>3. hasConn = FALSE /\ stops = 0
    BY <2>1
  <2>4. UNCHANGED <<attached, isClosed, hasConn, opens, closes>>
    BY <1>1 DEF HandleListen
  <2> QED BY <1>1, <2>1, <2>2, <2>3, <2>4
<1>2. CASE HandleStop /\ attached /\ rstate # "END" /\ rstate' = "END"
  <2>1. closes = 0 /\ stops' = 1
    BY <1>2 DEF StopMeansClosed
  <2>2. sock' = "closed"
    BY <1>2, <2>1 DEF StopMeansClosed
  <2>3. closes' = 1 /\ opens' = opens /\ promise' = promise
    BY <1>2, <2>1 DEF HandleStop
  <2>4. attached' = FALSE /\ isListening' = FALSE /\ isClosed' = TRUE
        /\ hasConn' = FALSE
    BY <1>2 DEF HandleStop, ClearListeners
  <2>5. (attached <=> closes = 0)' /\ (isListening => attached)'
        /\ StreamsWhileOpen' /\ ~isListening'
    BY <2>3, <2>4
  <2>6. promise' # "opening"
        /\ (promise' # "none" => rstate' \notin {"START", "BIND"})
    BY <1>2, <2>3 DEF Quiet
  <2>7. ClientTypeOK' /\ CloseMeansStopped'
    BY <2>1, <2>2, <2>3, <2>4
  <2>8. (closes = 1 => isClosed /\ (promise = "none" \/ stops = 1))'
    BY <2>1, <2>4
  <2>9. (isListening <=> attached /\ promise # "none")'
    BY <2>4
  <2> QED BY <2>3, <2>5, <2>6, <2>7, <2>8, <2>9
<1>3. CASE /\ UNCHANGED ownVars
           /\ ~(attached /\ rstate # "END" /\ rstate' = "END")
  <2>1. closes = 0 => stops' = stops
    BY <1>3 DEF RouterMoves
  <2>2. stops = 1 => stops' = 1 /\ sock' = "closed"
    BY DEF RouterMoves, StopMeansClosed
  <2>3. UNCHANGED <<isListening, attached, isClosed, promise, hasConn,
                    opens, closes>>
    BY <1>3 DEF ownVars
  <2> QED BY <2>1, <2>2, <2>3 DEF Quiet, RouterMoves
<1> QED BY <1>1, <1>2, <1>3 DEF Hears, ownVars

\* close() of a client that listens leaves it waiting for the router's 'stop'.
LEMMA CloseListeningInv ==
  ASSUME ClientInv, RouterInv', RouterMoves, CloseListening, opens' = opens,
         \/ promise' = promise /\ Quiet
         \/ promise \in {"opening", "rejecting"} /\ promise' = "rejected"
  PROVE  OwnInv'
<1> USE DEF ClientInv, ClientTypeOK, Promises, CloseMeansStopped,
            StreamsWhileOpen, OwnInv, RouterInv, RouterTypeOK
<1>1. stops' = stops
  BY StopIsNotTheEnd DEF CloseListening
<1>2. closes = 0 /\ closes' = 0 /\ promise # "none" /\ stops = 0
  BY DEF CloseListening
<1>3. isClosed' = TRUE /\ UNCHANGED <<isListening, attached, hasConn, closes>>
  BY DEF CloseListening
<1>4. /\ promise' # "none" /\ promise' # "opening"
      /\ promise' \in Promises
      /\ promise' \in {"waiting", "connecting", "rejecting"}
            => promise \in {"waiting", "connecting", "rejecting"}
  BY <1>2 DEF Quiet
<1>5. (isListening <=> attached /\ promise # "none")'
  BY <1>2, <1>3, <1>4
<1>6. rstate' \notin {"START", "BIND"}
  BY <1>2 DEF RouterMoves
<1>7. StreamsWhileOpen' /\ ClientTypeOK'
  BY <1>1, <1>3, <1>4
<1>8. (attached <=> closes = 0)'
  BY <1>3
<1> QED BY <1>1, <1>2, <1>4, <1>5, <1>6, <1>7, <1>8

\* close() before 'listen': no connection was ever asked for.
LEMMA CloseEarlyInv ==
  ASSUME ClientInv, CloseEarly, ~isClosed, UNCHANGED <<promise, opens>>
  PROVE  OwnInv'
<1> USE DEF ClientInv, ClientTypeOK, Promises, CloseMeansStopped,
            StreamsWhileOpen, OwnInv
<1>1. closes = 0
  OBVIOUS
<1>2. promise = "none" /\ opens = 0 /\ closes' = 1
  BY <1>1 DEF CloseEarly
<1>3. attached' = FALSE /\ isListening' = FALSE /\ isClosed' = TRUE
      /\ hasConn' = FALSE
  BY DEF CloseEarly, ClearListeners
<1>4. UNCHANGED <<rstate, stops, sock>>
  BY DEF CloseEarly, routerVars
<1>5. (attached <=> closes = 0)' /\ StreamsWhileOpen'
  BY <1>2, <1>3
<1>6. (isListening <=> attached /\ promise # "none")'
  BY <1>3
<1>7. ClientTypeOK' /\ CloseMeansStopped'
  BY <1>2, <1>3
<1>8. promise' = "none" /\ opens' = 0 /\ isClosed'
  BY <1>2, <1>3
<1> QED BY <1>2, <1>5, <1>6, <1>7, <1>8

(***************************************************************************)
(* The steps of the promise: they move promise, opens and hasConn, and     *)
(* leave the router where it is.                                           *)
(***************************************************************************)
LEMMA PromiseInv ==
  ASSUME ClientInv, RouterInv', Connects \/ NoId \/ Errors \/ Connected \/ Opened
  PROVE  OwnInv'
<1> USE DEF ClientInv, ClientTypeOK, Promises, CloseMeansStopped,
            StreamsWhileOpen, OwnInv, RouterInv, RouterTypeOK
<1>1. UNCHANGED <<rstate, stops, isListening, attached, isClosed, closes>>
  BY MessageStays
  DEF Connects, NoId, Errors, Connected, Opened, routerVars, MakeConnection,
      ConnectionFails
<1>2. (attached <=> closes = 0)'
      /\ (closes = 0 => stops = 0)'
  BY <1>1
<1>3. CASE Connects \/ NoId \/ Errors
  <2>1. UNCHANGED <<hasConn, opens>>
    BY <1>3 DEF Connects, NoId, Errors
  <2>2. UNCHANGED sock
    BY <1>3 DEF Connects, NoId, Errors, routerVars, MakeConnection,
                ConnectionFails
  <2>3. \/ promise' = promise /\ promise # "opening"
        \/ /\ promise \in {"waiting", "connecting"}
           /\ promise' \in {"connecting", "rejecting"}
    BY <1>3 DEF Connects, NoId, Errors, Quiet
  <2>4. (isListening <=> attached /\ promise # "none")'
        /\ (closes = 1 => isClosed /\ (promise = "none" \/ stops = 1))'
    BY <1>1, <2>3
  <2> QED BY <1>1, <1>2, <2>1, <2>2, <2>3, <2>4
<1>4. CASE Connected
  <2>1. /\ promise = "connecting" /\ promise' = "opening"
        /\ rstate \in {"LISTEN", "STOP_NOTIFY"} /\ hasConn' = hasConn
    BY <1>4 DEF Connected
  <2>2. opens = 0 /\ opens' = 1 /\ stops = 0 /\ closes = 0
    BY <1>4, <2>1 DEF Connected, StopMeansClosed
  <2>3. (isListening <=> attached /\ promise # "none")'
    BY <1>1, <2>1
  <2>4. hasConn = FALSE
    BY <2>2
  <2> QED BY <1>1, <1>2, <2>1, <2>2, <2>3, <2>4
<1>5. CASE Opened
  <2>1. /\ promise = "opening" /\ promise' = "resolved" /\ hasConn' = TRUE
        /\ opens' = opens
    BY <1>5 DEF Opened
  <2>2. opens = 1 /\ stops = 0 /\ closes = 0
    BY <2>1 DEF StopMeansClosed
  <2>3. (isListening <=> attached /\ promise # "none")'
    BY <1>1, <2>1
  <2>4. StreamsWhileOpen' /\ CloseMeansStopped'
    BY <1>1, <2>1, <2>2
  <2> QED BY <1>1, <1>2, <2>1, <2>2, <2>3, <2>4
<1> QED BY <1>3, <1>4, <1>5

\* The catch callback of a client that the user has closed already.
LEMMA CatchClosedInv ==
  ASSUME ClientInv, Catch, isClosed
  PROVE  OwnInv'
<1> USE DEF ClientInv, ClientTypeOK, Promises, CloseMeansStopped,
            StreamsWhileOpen, OwnInv
<1>1. promise = "rejecting" /\ promise' = "rejected" /\ opens' = opens
  BY DEF Catch
<1>2. UNCHANGED <<rstate, sock, stops, isListening, attached, isClosed,
                  hasConn, closes>>
  BY DEF Catch, routerVars
<1>3. (isListening <=> attached /\ promise # "none")'
  BY <1>1, <1>2
<1> QED BY <1>1, <1>2, <1>3

LEMMA StepClientInv == ClientInv /\ [ClientNext]_clientVars => ClientInv'
<1> SUFFICES ASSUME ClientInv, [ClientNext]_clientVars PROVE ClientInv'
  OBVIOUS
<1>1. RouterInv
  BY DEF ClientInv
<1>2. RouterInv' /\ RouterMoves
  BY <1>1, ClientStepIsRouterStep, StepRouterInv, StepMoves
<1>3. OwnInv'
  <2>1. CASE UNCHANGED clientVars
    BY <2>1
    DEF clientVars, ClientInv, OwnInv, ClientTypeOK, CloseMeansStopped,
        StreamsWhileOpen
  <2>2. CASE Open \/ Heard(SocketBinds) \/ Heard(SocketFails)
             \/ Heard(SocketCloses) \/ Heard(SocketMessage)
             \/ Heard(BindTimeout) \/ Heard(StopTimeout)
             \/ Heard(CloseTimeout) \/ Heard(ZeroConnections)
    BY <1>2, <2>2, HeardInv DEF Open, Heard
  <2>3. CASE Close
    BY <1>2, <2>3, CloseListeningInv, CloseEarlyInv DEF Close
  <2>4. CASE Catch
    <3>1. CASE isClosed
      BY <2>4, <3>1, CatchClosedInv
    <3>2. CASE ~isClosed
      BY <1>2, <2>4, <3>2, CloseListeningInv DEF Catch
    <3> QED BY <3>1, <3>2
  <2>5. CASE CloseInOpen
    BY <1>2, <2>5, CloseListeningInv DEF CloseInOpen
  <2>6. CASE Connects \/ NoId \/ Errors \/ Connected \/ Opened
    BY <1>2, <2>6, PromiseInv
  <2> QED
    BY <2>1, <2>2, <2>3, <2>4, <2>5, <2>6 DEF ClientNext
<1> QED BY <1>2, <1>3 DEF ClientInv, OwnInv
-----------------------------------------------------------------------------
\* The invariant of a client and its router, whatever the bound on immediates.
THEOREM ClientInvariance == ClientSpec => []ClientInv
  BY InitClientInv, StepClientInv, PTL DEF ClientSpec

\* Type correctness, which says that 'open' and 'close' come at most once.
THEOREM ClientTypes == ClientSpec => []ClientTypeOK
<1>1. ClientInv => ClientTypeOK
  BY DEF ClientInv
<1> QED BY <1>1, ClientInvariance, PTL

\* After 'open', 'close' says that the socket is closed.
THEOREM CloseAfterStop == ClientSpec => []CloseMeansStopped
<1>1. ClientInv => CloseMeansStopped
  BY DEF ClientInv
<1> QED BY <1>1, ClientInvariance, PTL

\* Streams are made on an announced connection of a client that has not closed.
THEOREM StreamsOpen == ClientSpec => []StreamsWhileOpen
<1>1. ClientInv => StreamsWhileOpen
  BY DEF ClientInv
<1> QED BY <1>1, ClientInvariance, PTL

\* 'open' once and before 'close', 'close' once.
THEOREM OpenOnceThenClosed == ClientSpec => OpenThenClose
<1> DEFINE InOrder == /\ opens' > opens => opens = 0 /\ closes = 0
                      /\ closes' > closes => closes = 0
<1>1. ClientInv /\ ClientInv' /\ [ClientNext]_clientVars
        => [InOrder]_clientVars
  <2> SUFFICES ASSUME ClientInv, ClientInv', ClientNext PROVE InOrder
    OBVIOUS
  <2>1. /\ opens \in {0, 1} /\ opens' \in {0, 1}
        /\ closes \in {0, 1} /\ closes' \in {0, 1}
    BY DEF ClientInv, ClientTypeOK
  <2>2. ASSUME opens' # opens PROVE closes = 0
    <3>1. promise = "connecting" /\ rstate \in {"LISTEN", "STOP_NOTIFY"}
      BY <2>2
      DEF ClientNext, Open, Heard, Hears, HandleListen, HandleStop, Close,
          Connects, NoId, Errors, Catch, Connected, Opened, CloseInOpen
    <3>2. stops # 1
      BY <3>1 DEF ClientInv, RouterInv, StopMeansClosed
    <3> QED BY <2>1, <3>1, <3>2 DEF ClientInv
  <2> QED BY <2>1, <2>2
<1> QED BY <1>1, ClientInvariance, PTL DEF ClientSpec, OpenThenClose

(***************************************************************************)
(* By construction: every action of Client is one of Router beside what    *)
(* the client does, or leaves the router alone.  It carries what is proved *)
(* of a router over to the one a client owns.                              *)
(***************************************************************************)
LEMMA ClientRunsRouter == ClientSpec => RouterSpec
<1>1. ClientInit => RouterInit
  BY DEF ClientInit
<1> QED
  BY <1>1, ClientStepIsRouterStep, PTL DEF ClientSpec, RouterSpec

\* The router of a client holds its port from the client's open() until it says
\* 'stop', which it says once, whatever the client does in between.
THEOREM ClientIsService == ClientSpec => ImplementsService
  BY ClientRunsRouter, RouterIsService

\* A stop that a client's close() or a failure began goes only forward.
THEOREM ClientAdvances == ClientSpec => StopAdvances
  BY ClientRunsRouter, StopsAdvance
=============================================================================
