-------------------------- MODULE HandshakeProofs ---------------------------
(***************************************************************************)
(* Proofs about Handshake, for any set of connections, ids and addresses   *)
(* and any bounds, with and without duplicated datagrams.                  *)
(***************************************************************************)
EXTENDS HandshakeInvariant, FiniteSetTheorems, TLAPS

(***************************************************************************)
(* Type correctness.  Initially, and after every step of either side.      *)
(***************************************************************************)
LEMMA InitType == Init => TypeOK
  BY SegmentsAssumption
  DEF Init, NetInit, InitiatorInit, ResponderInit, TypeOK, InitiatorTypeOK,
      ResponderTypeOK, InitiatorStates, ResponderStates

\* The segments each constructor builds are segments.
LEMMA SegmentTypes ==
  /\ \A c \in Conn : OpenSeg(c) \in Segment
  /\ \A s \in ServerId, c, d \in Conn : ChallengeSeg(s, c, d) \in Segment
  /\ \A s \in ServerId, c \in Conn, r \in Rand :
        PingSeg(c, s, r) \in Segment /\ PongSeg(s, c, r) \in Segment
  BY DEF OpenSeg, ChallengeSeg, PingSeg, PongSeg, Segment

\* What a segment of each type carries.
LEMMA SegmentFields ==
  ASSUME NEW m \in Segment
  PROVE  /\ m.type \in {"OPEN", "CHALLENGE", "PING", "PONG"}
         /\ m.type = "OPEN" => m.from \in Conn
         /\ m.type = "CHALLENGE" =>
               m.from \in ServerId /\ m.to \in Conn /\ m.open \in Conn
         /\ m.type = "PING" =>
               m.from \in Conn /\ m.to \in ServerId /\ m.rand \in Rand
         /\ m.type = "PONG" =>
               m.from \in ServerId /\ m.to \in Conn /\ m.rand \in Rand
  BY DEF Segment

LEMMA InitiatorTypeStep ==
  ASSUME TypeOK, InitiatorStages, TimersMatchState,
         InitiatorNext, UNCHANGED responderVars
  PROVE  TypeOK'
<1> USE SegmentsAssumption, InitiatorAssumption
<1> USE DEF TypeOK, InitiatorTypeOK, InitiatorStates, Timed, MoveTo, Settle
<1>r. ResponderTypeOK'
  BY DEF ResponderTypeOK, responderVars
<1>1. ASSUME NEW c \in Conn, Connect(c) PROVE TypeOK'
  BY <1>1, <1>r, SegmentTypes DEF Connect, Send
<1>2. ASSUME NEW c \in Conn, ConnectRefused(c) PROVE TypeOK'
  BY <1>2, <1>r DEF ConnectRefused
<1>3. ASSUME NEW c \in Conn, ResendOpen(c) PROVE TypeOK'
  BY <1>3, <1>r, SegmentTypes DEF ResendOpen, Send
<1>4. ASSUME NEW c \in Conn, OpenTimeout(c) PROVE TypeOK'
  BY <1>4, <1>r DEF OpenTimeout
<1>5. ASSUME NEW c \in Conn, ResendPing(c) PROVE TypeOK'
  <2>1. peer[c] \in ServerId /\ MyRand(c) \in Rand
    BY <1>5 DEF ResendPing, TimersMatchState, InitiatorStages, MyRand, Rand
  <2>2. PingSeg(c, peer[c], MyRand(c)) \in Segment
    BY <2>1, SegmentTypes
  <2> QED BY <1>5, <1>r, <2>2 DEF ResendPing, Send
<1>6. ASSUME NEW c \in Conn, PingTimeout(c) PROVE TypeOK'
  BY <1>6, <1>r DEF PingTimeout, Fail
<1>7. ASSUME NEW c \in Conn, PingAgain(c) PROVE TypeOK'
  <2>1. peer[c] \in ServerId
    BY <1>7 DEF PingAgain, TimersMatchState, InitiatorStages
  <2>2. pingRound'[c] = pingRound[c] + 1 /\ pingRound'[c] \in 1 .. MaxRound
    BY <1>7 DEF PingAgain, StartPing
  <2>3. PingSeg(c, peer[c], <<c, pingRound'[c]>>) \in Segment
    BY <2>1, <2>2, SegmentTypes DEF Rand
  <2> QED BY <1>7, <1>r, <2>2, <2>3 DEF PingAgain, StartPing, Send
<1>8. ASSUME NEW c \in Conn, KillInitiator(c) PROVE TypeOK'
  BY <1>8, <1>r DEF KillInitiator, Fail
<1>9. ASSUME NEW c \in Conn, NEW m \in net, ReceiveChallenge(c, m)
      PROVE  TypeOK'
  <2>1. m.from \in ServerId
    BY <1>9, SegmentFields DEF ReceiveChallenge, ValidChallenge
  <2>2. pingRound'[c] = pingRound[c] + 1 /\ pingRound'[c] \in 1 .. MaxRound
    BY <1>9 DEF ReceiveChallenge, StartPing
  <2>3. PingSeg(c, m.from, <<c, pingRound'[c]>>) \in Segment
    BY <2>1, <2>2, SegmentTypes DEF Rand
  <2> QED BY <1>9, <1>r, <2>1, <2>2, <2>3
          DEF ReceiveChallenge, StartPing, Deliver
<1>10. ASSUME NEW c \in Conn, NEW m \in net, UnexpectedChallenge(c, m)
       PROVE  TypeOK'
  BY <1>10, <1>r DEF UnexpectedChallenge, Fail, Deliver
<1>11. ASSUME NEW c \in Conn, NEW m \in net, ReceivePong(c, m)
       PROVE  TypeOK'
  BY <1>11, <1>r DEF ReceivePong, Deliver
<1>12. ASSUME NEW c \in Conn, NEW m \in net, UnexpectedPong(c, m)
       PROVE  TypeOK'
  BY <1>12, <1>r DEF UnexpectedPong, Fail, Deliver
<1> QED
  BY <1>1, <1>2, <1>3, <1>4, <1>5, <1>6, <1>7, <1>8, <1>9, <1>10, <1>11,
     <1>12 DEF InitiatorNext, InitiatorTimer

LEMMA ResponderTypeStep ==
  ASSUME TypeOK, ResponderNext, UNCHANGED initiatorVars
  PROVE  TypeOK'
<1> USE SegmentsAssumption, LimitsAssumption
<1> USE DEF TypeOK, ResponderTypeOK, ResponderStates, SrvMoveTo
<1>i. InitiatorTypeOK'
  BY DEF InitiatorTypeOK, initiatorVars
<1>1. ASSUME NEW s \in ServerId, ReadyTimeout(s) PROVE TypeOK'
  BY <1>1, <1>i DEF ReadyTimeout, SrvFail
<1>2. ASSUME NEW s \in ServerId, KillResponder(s) PROVE TypeOK'
  BY <1>2, <1>i DEF KillResponder, SrvFail
<1>3. ASSUME NEW s \in ServerId, NEW m \in net, OpenNew(m, s) PROVE TypeOK'
  <2>1. m.from \in Conn /\ AddressOf[m.from] \in Address
    BY <1>3, SegmentFields DEF OpenNew
  <2> QED BY <1>3, <1>i, <2>1, SegmentTypes DEF OpenNew, NewId, TakeOpen, Deliver
<1>4. ASSUME NEW s \in ServerId, NEW m \in net, OpenAgain(m, s)
      PROVE  TypeOK'
  <2>1. m.from \in Conn
    BY <1>4, SegmentFields DEF OpenAgain
  <2> QED BY <1>4, <1>i, <2>1, SegmentTypes DEF OpenAgain, TakeOpen, Deliver
<1>5. ASSUME NEW s \in ServerId, NEW m \in net, ValidPing(m, s), AnswerPing(m, s)
      PROVE  net' \subseteq Segment /\ answered' \in [ServerId -> SUBSET Rand]
  <2>1. m.rand \in Rand /\ srvPeer[s] \in Conn
    BY <1>5, SegmentFields DEF ValidPing
  <2> QED BY <1>5, <2>1, SegmentTypes DEF AnswerPing, Deliver
<1>6. ASSUME NEW s \in ServerId, NEW m \in net, AcceptPing(m, s)
      PROVE  TypeOK'
  <2>1. net' \subseteq Segment /\ answered' \in [ServerId -> SUBSET Rand]
    BY <1>5, <1>6 DEF AcceptPing
  <2>2. srvPeer' = srvPeer /\ map' = map /\ addresses' = addresses
    BY <1>6 DEF AcceptPing, AnswerPing
  <2>3. /\ srvEstablished' \in [ServerId -> BOOLEAN]
        /\ accepts' \in [ServerId -> Nat]
    BY <1>6 DEF AcceptPing
  <2>4. /\ srvState' \in [ServerId -> ResponderStates]
        /\ srvTimers' \in [ServerId -> SUBSET {"READY"}]
    BY <1>6 DEF AcceptPing
  <2> QED BY <1>i, <2>1, <2>2, <2>3, <2>4
<1>7. ASSUME NEW s \in ServerId, NEW m \in net, RepeatPing(m, s)
      PROVE  TypeOK'
  BY <1>7, <1>i, <1>5 DEF RepeatPing, AnswerPing
<1> QED BY <1>1, <1>2, <1>3, <1>4, <1>6, <1>7 DEF ResponderNext

-----------------------------------------------------------------------------
(***************************************************************************)
(* Timers.  Every step that changes a state goes through MoveTo, which     *)
(* keeps timers and states together.                                       *)
(***************************************************************************)
LEMMA TimersStep ==
  ASSUME TypeOK, TimersMatchState, [Next]_handshakeVars
  PROVE  TimersMatchState'
<1> USE DEF TypeOK, TimersMatchState
<1>1. ASSUME NEW c \in Conn, NEW new \in InitiatorStates, MoveTo(c, new),
             UNCHANGED responderVars
      PROVE  TimersMatchState'
  BY <1>1 DEF MoveTo, InitiatorTypeOK, responderVars, Timed
<1>2. ASSUME NEW s \in ServerId, NEW new \in ResponderStates,
             SrvMoveTo(s, new), UNCHANGED initiatorVars
      PROVE  TimersMatchState'
  BY <1>2 DEF SrvMoveTo, ResponderTypeOK, initiatorVars
<1>3. ASSUME UNCHANGED <<state, timers, srvState, srvTimers>>
      PROVE  TimersMatchState'
  BY <1>3
<1>4. CASE InitiatorNext /\ UNCHANGED responderVars
  BY <1>1, <1>3, <1>4
  DEF InitiatorNext, InitiatorTimer, responderVars, InitiatorStates, Connect,
      ConnectRefused, ResendOpen, OpenTimeout, ResendPing, PingTimeout, Fail,
      PingAgain, StartPing, KillInitiator, ReceiveChallenge,
      UnexpectedChallenge, ReceivePong, UnexpectedPong
<1>5. CASE ResponderNext /\ UNCHANGED initiatorVars
  BY <1>2, <1>3, <1>5
  DEF ResponderNext, initiatorVars, ResponderStates, ReadyTimeout, SrvFail,
      KillResponder, OpenNew, OpenAgain, AcceptPing, RepeatPing
<1>6. CASE UNCHANGED handshakeVars
  BY <1>3, <1>6 DEF handshakeVars, initiatorVars, responderVars
<1> QED BY <1>4, <1>5, <1>6 DEF Next

-----------------------------------------------------------------------------
(***************************************************************************)
(* Retries.  A timer that finds the count at its limit gives up, and what  *)
(* enters OPEN or PING begins to count again.                              *)
(***************************************************************************)
LEMMA TriesStep ==
  ASSUME TypeOK, TimersMatchState, TriesBounded,
         InitiatorNext, UNCHANGED responderVars
  PROVE  TriesBounded'
<1> USE InitiatorAssumption
<1> USE DEF TypeOK, InitiatorTypeOK, TriesBounded, MoveTo
<1>1. ASSUME NEW c \in Conn, NEW new \in {"OPEN", "PING"}, MoveTo(c, new),
             tries' = [tries EXCEPT ![c] = 1]
      PROVE  TriesBounded'
  BY <1>1
<1>2. ASSUME NEW c \in Conn, ResendOpen(c) PROVE TriesBounded'
  <2>1. state[c] = "OPEN"
    BY <1>2 DEF ResendOpen, TimersMatchState
  <2> QED BY <1>2, <2>1 DEF ResendOpen
<1>3. ASSUME NEW c \in Conn, ResendPing(c) PROVE TriesBounded'
  <2>1. state[c] = "PING"
    BY <1>3 DEF ResendPing, TimersMatchState
  <2> QED BY <1>3, <2>1 DEF ResendPing
<1>4. ASSUME NEW c \in Conn, NEW new \in {"READY_PING", "ERROR"},
             MoveTo(c, new), UNCHANGED tries
      PROVE  TriesBounded'
  BY <1>4
<1>5. ASSUME UNCHANGED <<state, tries>> PROVE TriesBounded'
  BY <1>5
<1> QED
  BY <1>1, <1>2, <1>3, <1>4, <1>5
  DEF InitiatorNext, InitiatorTimer, Connect, ConnectRefused, OpenTimeout,
      PingTimeout, Fail, PingAgain, StartPing, KillInitiator,
      ReceiveChallenge, UnexpectedChallenge, ReceivePong, UnexpectedPong

-----------------------------------------------------------------------------
(***************************************************************************)
(* The stages of a responder: only its own side's steps change them.       *)
(***************************************************************************)
LEMMA ResponderStagesStep ==
  ASSUME TypeOK, ResponderStages, TimersMatchState,
         ResponderNext, UNCHANGED initiatorVars
  PROVE  ResponderStages'
<1> USE SegmentsAssumption
<1> USE DEF TypeOK, ResponderTypeOK, ResponderStates, ResponderStages, SrvMoveTo
<1>1. ASSUME NEW s \in ServerId, srvState[s] = "READY", SrvFail(s)
      PROVE  ResponderStages'
  BY <1>1 DEF SrvFail
<1>2. ASSUME NEW s \in ServerId, NEW m \in net, OpenNew(m, s)
      PROVE  ResponderStages'
  <2>1. m.from \in Conn
    BY <1>2, SegmentFields DEF OpenNew
  <2> QED BY <1>2, <2>1 DEF OpenNew, NewId, TakeOpen
<1>3. ASSUME NEW s \in ServerId, NEW m \in net, OpenAgain(m, s)
      PROVE  ResponderStages'
  <2>1. m.from \in Conn
    BY <1>3, SegmentFields DEF OpenAgain
  <2> QED BY <1>3, <2>1 DEF OpenAgain, TakeOpen
<1>4. ASSUME NEW s \in ServerId, NEW m \in net, AcceptPing(m, s)
      PROVE  ResponderStages'
  BY <1>4 DEF AcceptPing, AnswerPing
<1>5. ASSUME NEW s \in ServerId, NEW m \in net, RepeatPing(m, s)
      PROVE  ResponderStages'
  BY <1>5 DEF RepeatPing, AnswerPing
<1>6. ASSUME NEW s \in ServerId, ReadyTimeout(s) \/ KillResponder(s)
      PROVE  ResponderStages'
  BY <1>1, <1>6 DEF ReadyTimeout, KillResponder, TimersMatchState
<1> QED BY <1>2, <1>3, <1>4, <1>5, <1>6 DEF ResponderNext

\* The responder's side only adds to its tables and never takes a peer back.
LEMMA ResponderGrows ==
  ASSUME TypeOK, ResponderStages, AnsweredByPeer,
         ResponderNext, UNCHANGED initiatorVars
  PROVE  /\ map \subseteq map'
         /\ \A s \in ServerId :
               /\ answered[s] \subseteq answered'[s]
               /\ srvEstablished[s] =>
                     /\ srvEstablished'[s]
                     /\ srvPeer'[s] = srvPeer[s]
                     /\ accepts'[s] = accepts[s]
<1> USE DEF TypeOK, ResponderTypeOK, ResponderStages
<1>1. ASSUME NEW t \in ServerId, NEW m \in net, OpenNew(m, t)
      PROVE  /\ ~srvEstablished[t] /\ map \subseteq map'
             /\ UNCHANGED <<srvEstablished, answered, accepts>>
             /\ \A s \in ServerId \ {t} : srvPeer'[s] = srvPeer[s]
  BY <1>1 DEF OpenNew, NewId, TakeOpen
<1>2. ASSUME NEW t \in ServerId, NEW m \in net, OpenAgain(m, t)
      PROVE  /\ ~srvEstablished[t] /\ map \subseteq map'
             /\ UNCHANGED <<srvEstablished, answered, accepts>>
             /\ \A s \in ServerId \ {t} : srvPeer'[s] = srvPeer[s]
  BY <1>2 DEF OpenAgain, TakeOpen
<1>3. ASSUME NEW t \in ServerId, NEW m \in net, AcceptPing(m, t)
      PROVE  /\ ~srvEstablished[t] /\ UNCHANGED <<map, srvPeer>>
             /\ answered' = [answered EXCEPT ![t] = @ \cup {m.rand}]
             /\ \A s \in ServerId \ {t} :
                   /\ srvEstablished'[s] = srvEstablished[s]
                   /\ accepts'[s] = accepts[s]
  BY <1>3 DEF AcceptPing, AnswerPing
<1>4. ASSUME NEW t \in ServerId, NEW m \in net, RepeatPing(m, t)
      PROVE  /\ UNCHANGED <<map, srvPeer, srvEstablished, accepts>>
             /\ answered' = [answered EXCEPT ![t] = @ \cup {m.rand}]
  BY <1>4 DEF RepeatPing, AnswerPing
<1>5. ASSUME NEW t \in ServerId, ReadyTimeout(t) \/ KillResponder(t)
      PROVE  UNCHANGED <<map, answered, srvPeer, srvEstablished, accepts>>
  BY <1>5 DEF ReadyTimeout, KillResponder, SrvFail
<1> QED BY <1>1, <1>2, <1>3, <1>4, <1>5 DEF ResponderNext

-----------------------------------------------------------------------------
(***************************************************************************)
(* The stages of an initiator.  Its own steps move it along; the           *)
(* responder's side can only add to the ids it may have for a peer.        *)
(***************************************************************************)
LEMMA InitiatorStagesStep ==
  ASSUME TypeOK, InitiatorStages, SegmentsTrue, TimersMatchState,
         InitiatorNext, UNCHANGED responderVars
  PROVE  InitiatorStages'
<1> USE SegmentsAssumption
<1> USE DEF TypeOK, InitiatorTypeOK, InitiatorStages, MoveTo, Settle
<1>m. UNCHANGED map
  BY DEF responderVars
<1>f. ASSUME NEW c \in Conn, Fail(c), promise[c] # "none"
      PROVE  InitiatorStages'
  BY <1>f, <1>m DEF Fail
<1>1. ASSUME NEW c \in Conn, Connect(c) PROVE InitiatorStages'
  BY <1>1, <1>m DEF Connect
<1>2. ASSUME NEW c \in Conn, ConnectRefused(c) PROVE InitiatorStages'
  BY <1>2, <1>m DEF ConnectRefused
<1>3. ASSUME NEW c \in Conn, ResendOpen(c) PROVE InitiatorStages'
  BY <1>3, <1>m DEF ResendOpen
<1>4. ASSUME NEW c \in Conn, OpenTimeout(c) PROVE InitiatorStages'
  BY <1>4, <1>m DEF OpenTimeout, TimersMatchState
<1>5. ASSUME NEW c \in Conn, ResendPing(c) PROVE InitiatorStages'
  BY <1>5, <1>m DEF ResendPing
<1>6. ASSUME NEW c \in Conn, PingTimeout(c) PROVE InitiatorStages'
  <2>1. promise[c] # "none"
    BY <1>6 DEF PingTimeout, TimersMatchState
  <2> QED BY <1>6, <1>f, <2>1 DEF PingTimeout
<1>7. ASSUME NEW c \in Conn, PingAgain(c) PROVE InitiatorStages'
  <2>1. state[c] = "READY_PING"
    BY <1>7 DEF PingAgain, TimersMatchState
  <2> QED BY <1>7, <1>m, <2>1 DEF PingAgain, StartPing
<1>8. ASSUME NEW c \in Conn, KillInitiator(c) PROVE InitiatorStages'
  BY <1>8, <1>f DEF KillInitiator
<1>9. ASSUME NEW c \in Conn, NEW m \in net, ReceiveChallenge(c, m)
      PROVE  InitiatorStages'
  <2>1. m.from \in map /\ m.from \in ServerId
    BY <1>9, SegmentFields DEF ReceiveChallenge, ValidChallenge, SegmentsTrue
  <2> QED BY <1>9, <1>m, <2>1 DEF ReceiveChallenge, StartPing
<1>10. ASSUME NEW c \in Conn, NEW m \in net, UnexpectedChallenge(c, m)
       PROVE  InitiatorStages'
  BY <1>10, <1>f DEF UnexpectedChallenge, ValidChallenge
<1>11. ASSUME NEW c \in Conn, NEW m \in net, ReceivePong(c, m)
       PROVE  InitiatorStages'
  BY <1>11, <1>m DEF ReceivePong
<1>12. ASSUME NEW c \in Conn, NEW m \in net, UnexpectedPong(c, m)
       PROVE  InitiatorStages'
  BY <1>12, <1>f DEF UnexpectedPong, ValidPong
<1> QED
  BY <1>1, <1>2, <1>3, <1>4, <1>5, <1>6, <1>7, <1>8, <1>9, <1>10, <1>11,
     <1>12 DEF InitiatorNext, InitiatorTimer

-----------------------------------------------------------------------------
(***************************************************************************)
(* Segments.  A step adds at most one, and it tells the truth; what the    *)
(* older ones say stays true, because an initiator gets its peer once and  *)
(* the responder's side only grows.                                        *)
(***************************************************************************)
LEMMA SegmentsInitiatorStep ==
  ASSUME TypeOK, InitiatorStages, SegmentsTrue, TimersMatchState,
         InitiatorNext, UNCHANGED responderVars
  PROVE  SegmentsTrue'
<1> USE SegmentsAssumption
<1> USE DEF TypeOK, InitiatorTypeOK
<1>m. UNCHANGED <<map, answered>>
  BY DEF responderVars
<1>s. ASSUME NEW c \in Conn, NEW outcome \in {"resolved", "rejected"},
             Settle(c, outcome)
      PROVE  \A d \in Conn : promise[d] # "none" => promise'[d] # "none"
  BY <1>s DEF Settle
<1>p. \A c \in Conn : promise[c] # "none" => promise'[c] # "none"
  BY <1>s
  DEF InitiatorNext, InitiatorTimer, Connect, ConnectRefused, ResendOpen,
      OpenTimeout, ResendPing, PingTimeout, Fail, PingAgain, KillInitiator,
      ReceiveChallenge, UnexpectedChallenge, ReceivePong, UnexpectedPong
<1>q. \A c \in Conn : peer[c] # None => peer'[c] = peer[c]
  BY DEF InitiatorNext, InitiatorTimer, Connect, ConnectRefused, ResendOpen,
         OpenTimeout, ResendPing, PingTimeout, Fail, PingAgain, StartPing,
         KillInitiator, ReceiveChallenge, UnexpectedChallenge, ReceivePong,
         UnexpectedPong, InitiatorStages
<1>o. ASSUME NEW m \in net
      PROVE  /\ m.type \in {"OPEN", "PING"} => promise'[m.from] # "none"
             /\ m.type = "CHALLENGE" => m.from \in map'
             /\ m.type = "PING" => peer'[m.from] = m.to /\ m.rand[1] = m.from
             /\ m.type = "PONG" =>
                    peer'[m.to] = m.from /\ m.rand \in answered'[m.from]
  BY <1>m, <1>p, <1>q, SegmentFields DEF SegmentsTrue
<1>1. ASSUME NEW c \in Conn, Connect(c) PROVE SegmentsTrue'
  BY <1>1, <1>o DEF Connect, Send, OpenSeg, SegmentsTrue
<1>2. ASSUME NEW c \in Conn, ResendOpen(c) PROVE SegmentsTrue'
  <2>1. promise'[c] # "none"
    BY <1>2 DEF ResendOpen, TimersMatchState, InitiatorStages
  <2> QED BY <1>2, <1>o, <2>1 DEF ResendOpen, Send, OpenSeg, SegmentsTrue
<1>3. ASSUME NEW c \in Conn, ResendPing(c) PROVE SegmentsTrue'
  <2>1. promise'[c] # "none" /\ peer'[c] = peer[c]
    BY <1>3 DEF ResendPing, TimersMatchState, InitiatorStages
  <2> QED BY <1>3, <1>o, <2>1
          DEF ResendPing, Send, PingSeg, MyRand, SegmentsTrue
<1>4. ASSUME NEW c \in Conn, PingAgain(c) PROVE SegmentsTrue'
  <2>1. promise'[c] # "none" /\ peer'[c] = peer[c]
    BY <1>4 DEF PingAgain, TimersMatchState, InitiatorStages
  <2> QED BY <1>4, <1>o, <2>1 DEF PingAgain, Send, PingSeg, SegmentsTrue
<1>5. ASSUME NEW c \in Conn, NEW m \in net, ReceiveChallenge(c, m)
      PROVE  SegmentsTrue'
  <2>1. promise'[c] # "none" /\ peer'[c] = m.from
    BY <1>5 DEF ReceiveChallenge, InitiatorStages
  <2> QED BY <1>5, <1>o, <2>1 DEF ReceiveChallenge, Deliver, PingSeg, SegmentsTrue
<1>6. ASSUME net' \subseteq net PROVE SegmentsTrue'
  BY <1>6, <1>o DEF SegmentsTrue
<1> QED
  BY <1>1, <1>2, <1>3, <1>4, <1>5, <1>6
  DEF InitiatorNext, InitiatorTimer, ConnectRefused, OpenTimeout, PingTimeout,
      KillInitiator, UnexpectedChallenge, ReceivePong, UnexpectedPong, Deliver

LEMMA SegmentsResponderStep ==
  ASSUME TypeOK, ResponderStages, AnsweredByPeer, SegmentsTrue, TimersMatchState,
         ResponderNext, UNCHANGED initiatorVars
  PROVE  SegmentsTrue'
<1> USE DEF TypeOK, ResponderTypeOK
<1>u. UNCHANGED <<peer, promise>>
  BY DEF initiatorVars
<1>o. ASSUME NEW m \in net
      PROVE  /\ m.type \in {"OPEN", "PING"} => promise'[m.from] # "none"
             /\ m.type = "CHALLENGE" => m.from \in map'
             /\ m.type = "PING" => peer'[m.from] = m.to /\ m.rand[1] = m.from
             /\ m.type = "PONG" =>
                    peer'[m.to] = m.from /\ m.rand \in answered'[m.from]
  BY <1>u, ResponderGrows, SegmentFields DEF SegmentsTrue
<1>1. ASSUME NEW s \in ServerId, NEW m \in net, OpenNew(m, s) \/ OpenAgain(m, s)
      PROVE  SegmentsTrue'
  <2>1. s \in map'
    BY <1>1 DEF OpenNew, NewId, OpenAgain, ResponderStages
  <2>2. net' \subseteq net \cup {ChallengeSeg(s, m.from, m.from)}
    BY <1>1 DEF OpenNew, OpenAgain, TakeOpen, Deliver
  <2> QED BY <1>o, <2>1, <2>2 DEF ChallengeSeg, SegmentsTrue
<1>2. ASSUME NEW s \in ServerId, NEW m \in net, ValidPing(m, s), AnswerPing(m, s)
      PROVE  SegmentsTrue'
  <2>1. net' \subseteq net \cup {PongSeg(s, m.from, m.rand)}
    BY <1>2 DEF ValidPing, AnswerPing, Deliver
  <2>2. m.rand \in answered'[s]
    BY <1>2 DEF AnswerPing
  <2>3. peer'[m.from] = s
    BY <1>2, <1>u DEF ValidPing, SegmentsTrue
  <2> QED BY <1>o, <2>1, <2>2, <2>3 DEF PongSeg, SegmentsTrue
<1>3. ASSUME UNCHANGED net PROVE SegmentsTrue'
  BY <1>3, <1>o DEF SegmentsTrue
<1> QED
  BY <1>1, <1>2, <1>3
  DEF ResponderNext, AcceptPing, RepeatPing, ReadyTimeout, KillResponder

-----------------------------------------------------------------------------
(***************************************************************************)
(* Answers.  A half-open responder has answered nobody, so taking over its *)
(* peer falsifies nothing; an established one answers its peer only.       *)
(***************************************************************************)
LEMMA AnsweredStep ==
  ASSUME TypeOK, ResponderStages, AnsweredByPeer, SegmentsTrue,
         ResponderNext, UNCHANGED initiatorVars
  PROVE  AnsweredByPeer'
<1> USE DEF TypeOK, ResponderTypeOK, AnsweredByPeer
<1>u. UNCHANGED promise
  BY DEF initiatorVars
<1>1. ASSUME NEW s \in ServerId, NEW m \in net, OpenNew(m, s) \/ OpenAgain(m, s)
      PROVE  AnsweredByPeer'
  <2>1. ~srvEstablished[s] /\ m.from \in Conn /\ promise[m.from] # "none"
    BY <1>1, SegmentFields
    DEF OpenNew, NewId, OpenAgain, ResponderStages, SegmentsTrue
  <2>2. /\ UNCHANGED <<answered, srvEstablished>>
        /\ srvPeer' = [srvPeer EXCEPT ![s] = m.from]
    BY <1>1 DEF OpenNew, OpenAgain, TakeOpen
  <2> QED BY <1>u, <2>1, <2>2
<1>2. ASSUME NEW s \in ServerId, NEW m \in net, AcceptPing(m, s) \/ RepeatPing(m, s)
      PROVE  AnsweredByPeer'
  <2>1. m.rand[1] = srvPeer[s]
    BY <1>2, SegmentFields DEF AcceptPing, RepeatPing, ValidPing, SegmentsTrue
  <2>2. /\ answered' = [answered EXCEPT ![s] = @ \cup {m.rand}]
        /\ UNCHANGED srvPeer
        /\ srvEstablished'[s]
        /\ \A t \in ServerId : srvEstablished[t] => srvEstablished'[t]
    BY <1>2 DEF AcceptPing, RepeatPing, AnswerPing, ResponderStages
  <2> QED BY <1>u, <2>1, <2>2
<1>3. ASSUME NEW s \in ServerId, ReadyTimeout(s) \/ KillResponder(s)
      PROVE  AnsweredByPeer'
  BY <1>3, <1>u DEF ReadyTimeout, KillResponder, SrvFail
<1> QED BY <1>1, <1>2, <1>3 DEF ResponderNext

LEMMA AnsweredKept ==
  ASSUME TypeOK, AnsweredByPeer, InitiatorNext, UNCHANGED responderVars
  PROVE  AnsweredByPeer'
<1>s. ASSUME NEW c \in Conn, NEW outcome \in {"resolved", "rejected"},
             Settle(c, outcome)
      PROVE  \A d \in Conn : promise[d] # "none" => promise'[d] # "none"
  BY <1>s DEF Settle, TypeOK, InitiatorTypeOK
<1>p. \A c \in Conn : promise[c] # "none" => promise'[c] # "none"
  BY <1>s
  DEF InitiatorNext, InitiatorTimer, Connect, ConnectRefused, ResendOpen,
      OpenTimeout, ResendPing, PingTimeout, Fail, PingAgain, KillInitiator,
      ReceiveChallenge, UnexpectedChallenge, ReceivePong, UnexpectedPong,
      TypeOK, InitiatorTypeOK
<1> QED
  BY <1>p DEF AnsweredByPeer, responderVars, TypeOK, ResponderTypeOK

-----------------------------------------------------------------------------
(***************************************************************************)
(* Agreement and freshness.  Only ReceivePong establishes an initiator or  *)
(* takes it to READY_PING, on an answer whose truth is SegmentsTrue; only  *)
(* PingAgain begins another round, and it leaves READY_PING.               *)
(***************************************************************************)
LEMMA AgreementStep ==
  ASSUME IndInv, InitiatorNext, UNCHANGED responderVars
  PROVE  ConnectedImpliesAccepted' /\ AliveIsFresh'
<1> USE SegmentsAssumption
<1> USE DEF IndInv, TypeOK, InitiatorTypeOK, ConnectedImpliesAccepted,
            AliveIsFresh, MyRand
<1>r. UNCHANGED <<srvEstablished, srvPeer, accepts, answered>>
  BY DEF responderVars
<1>1. ASSUME NEW c \in Conn, NEW m \in net, ReceivePong(c, m)
      PROVE  ConnectedImpliesAccepted' /\ AliveIsFresh'
  <2>1. /\ peer[c] = m.from /\ m.from \in ServerId
        /\ MyRand(c) \in answered[peer[c]]
    BY <1>1, SegmentFields DEF ReceivePong, ValidPong, MatchesPing, SegmentsTrue
  <2>2. srvEstablished[peer[c]] /\ srvPeer[peer[c]] = c
    BY <2>1 DEF AnsweredByPeer
  <2>3. accepts[peer[c]] = 1 /\ peer[c] # None
    BY <2>1, <2>2 DEF ResponderStages
  <2> QED BY <1>1, <1>r, <2>1, <2>2, <2>3 DEF ReceivePong, MoveTo
<1>2. ASSUME NEW c \in Conn, NEW m \in net, ReceiveChallenge(c, m)
      PROVE  ConnectedImpliesAccepted' /\ AliveIsFresh'
  BY <1>2, <1>r DEF ReceiveChallenge, StartPing, MoveTo, InitiatorStages
<1>3. ASSUME NEW c \in Conn, NEW new \in InitiatorStates \ {"READY_PING"},
             MoveTo(c, new), UNCHANGED <<isEstablished, peer>>,
             \A d \in Conn \ {c} : pingRound'[d] = pingRound[d]
      PROVE  ConnectedImpliesAccepted' /\ AliveIsFresh'
  BY <1>3, <1>r DEF MoveTo
<1>4. ASSUME UNCHANGED <<state, isEstablished, peer, pingRound>>
      PROVE  ConnectedImpliesAccepted' /\ AliveIsFresh'
  BY <1>4, <1>r
<1> QED
  BY <1>1, <1>2, <1>3, <1>4
  DEF InitiatorNext, InitiatorTimer, Connect, ConnectRefused, ResendOpen,
      OpenTimeout, ResendPing, PingTimeout, Fail, PingAgain, StartPing,
      KillInitiator, UnexpectedChallenge, UnexpectedPong, InitiatorStates

LEMMA AgreementKept ==
  ASSUME IndInv, ResponderNext, UNCHANGED initiatorVars
  PROVE  ConnectedImpliesAccepted' /\ AliveIsFresh' /\ InitiatorStages'
<1> USE SegmentsAssumption
<1>1. UNCHANGED <<state, isEstablished, peer, pingRound, promise, registered>>
  BY DEF initiatorVars
<1> QED
  BY <1>1, ResponderGrows
  DEF IndInv, TypeOK, InitiatorTypeOK, ResponderTypeOK, InitiatorStages,
      ConnectedImpliesAccepted, AliveIsFresh, MyRand

-----------------------------------------------------------------------------
(***************************************************************************)
(* Tables.  An id enters both at once, for an address that had none.       *)
(***************************************************************************)
LEMMA TablesStep ==
  ASSUME TypeOK, ResponderStages, SegmentsTrue, TablesAgree, IsFiniteSet(map),
         ResponderNext, UNCHANGED initiatorVars
  PROVE  TablesAgree' /\ IsFiniteSet(map)'
<1> USE SegmentsAssumption, LimitsAssumption
<1> USE DEF TypeOK, ResponderTypeOK, TablesAgree
<1>1. ASSUME NEW s \in ServerId, NEW m \in net, OpenNew(m, s)
      PROVE  TablesAgree' /\ IsFiniteSet(map)'
  <2> DEFINE a == AddressOf[m.from]
  <2>1. m.from \in Conn /\ a \in Address /\ addresses[a] = None
    BY <1>1, SegmentFields DEF OpenNew
  <2>2. /\ addresses' = [addresses EXCEPT ![a] = s]
        /\ srvPeer' = [srvPeer EXCEPT ![s] = m.from]
        /\ map' = map \cup {s} /\ s \notin map
        /\ Cardinality(map) < MaxConnections
    BY <1>1 DEF OpenNew, NewId, TakeOpen
  <2>3. /\ IsFiniteSet(map') /\ Cardinality(map') = Cardinality(map) + 1
        /\ Cardinality(map) \in Nat
    BY <2>2, FS_AddElement, FS_CardinalityType
  <2>4. Cardinality(map') <= MaxConnections
    BY <2>2, <2>3
  <2>5. {addresses'[b] : b \in Address} \ {None} = map'
    <3>1. s # None
      OBVIOUS
    <3>2. \A b \in Address : addresses'[b] = IF b = a THEN s ELSE addresses[b]
      BY <2>1, <2>2
    <3>3. ASSUME NEW b \in Address, addresses'[b] # None
          PROVE  addresses'[b] \in map'
      BY <2>2, <3>2, <3>3
    <3>4. ASSUME NEW t \in map' PROVE \E b \in Address : addresses'[b] = t
      <4>1. CASE t = s
        BY <2>1, <3>2, <4>1
      <4>2. CASE t \in map
        <5>1. PICK b \in Address : addresses[b] = t /\ t # None
          BY <4>2
        <5> QED BY <2>1, <3>2, <5>1
      <4> QED BY <2>2, <4>1, <4>2
    <3> QED BY <2>2, <3>1, <3>3, <3>4
  <2>6. \A b, d \in Address :
           addresses'[b] = addresses'[d] /\ addresses'[b] # None => b = d
    BY <2>1, <2>2
  <2>7. \A t \in map' : srvPeer'[t] # None /\ addresses'[AddressOf[srvPeer'[t]]] = t
    BY <2>1, <2>2
  <2> QED BY <2>3, <2>4, <2>5, <2>6, <2>7
<1>2. ASSUME NEW s \in ServerId, NEW m \in net, OpenAgain(m, s)
      PROVE  TablesAgree' /\ IsFiniteSet(map)'
  <2>1. m.from \in Conn /\ addresses[AddressOf[m.from]] = s
    BY <1>2, SegmentFields DEF OpenAgain
  <2>2. UNCHANGED <<map, addresses>> /\ srvPeer' = [srvPeer EXCEPT ![s] = m.from]
    BY <1>2 DEF OpenAgain, TakeOpen
  <2> QED BY <2>1, <2>2
<1>3. ASSUME UNCHANGED <<map, addresses, srvPeer>>
      PROVE  TablesAgree' /\ IsFiniteSet(map)'
  BY <1>3
<1> QED
  BY <1>1, <1>2, <1>3
  DEF ResponderNext, AcceptPing, RepeatPing, AnswerPing, ReadyTimeout,
      KillResponder, SrvFail

-----------------------------------------------------------------------------
(***************************************************************************)
(* The invariant holds in every reachable state.                           *)
(***************************************************************************)
LEMMA InitInv == Init => IndInv
<1> SUFFICES ASSUME Init PROVE IndInv
  OBVIOUS
<1> USE SegmentsAssumption, LimitsAssumption
<1> USE DEF Init, NetInit, InitiatorInit, ResponderInit
<1>1. TypeOK
  BY InitType
<1>2. ResponderStages /\ InitiatorStages
  BY DEF ResponderStages, InitiatorStages
<1>3. SegmentsTrue /\ AnsweredByPeer
  BY DEF SegmentsTrue, AnsweredByPeer
<1>4. /\ ConnectedImpliesAccepted /\ AliveIsFresh
      /\ TimersMatchState /\ TriesBounded
  BY DEF ConnectedImpliesAccepted, AliveIsFresh, TimersMatchState, Timed,
         TriesBounded
<1>5. IsFiniteSet(map) /\ Cardinality(map) = 0
  BY FS_EmptySet
<1>6. TablesAgree
  BY <1>5 DEF TablesAgree
<1> QED BY <1>1, <1>2, <1>3, <1>4, <1>5, <1>6 DEF IndInv

LEMMA StepInv == IndInv /\ [Next]_handshakeVars => IndInv'
<1> SUFFICES ASSUME IndInv, [Next]_handshakeVars PROVE IndInv'
  OBVIOUS
<1>t. TimersMatchState'
  BY TimersStep DEF IndInv
<1>1. CASE InitiatorNext /\ UNCHANGED responderVars
  <2>1. TypeOK' /\ InitiatorStages' /\ SegmentsTrue'
    BY <1>1, InitiatorTypeStep, InitiatorStagesStep, SegmentsInitiatorStep
    DEF IndInv
  <2>2. AnsweredByPeer' /\ ConnectedImpliesAccepted' /\ AliveIsFresh'
    BY <1>1, AnsweredKept, AgreementStep DEF IndInv
  <2>3. ResponderStages' /\ TablesAgree' /\ IsFiniteSet(map)'
    BY <1>1 DEF IndInv, responderVars, ResponderStages, TablesAgree
  <2>4. TriesBounded'
    BY <1>1, TriesStep DEF IndInv
  <2> QED BY <1>t, <2>1, <2>2, <2>3, <2>4 DEF IndInv
<1>2. CASE ResponderNext /\ UNCHANGED initiatorVars
  <2>1. TypeOK' /\ ResponderStages' /\ SegmentsTrue'
    BY <1>2, ResponderTypeStep, ResponderStagesStep, SegmentsResponderStep
    DEF IndInv
  <2>2. AnsweredByPeer' /\ TablesAgree' /\ IsFiniteSet(map)'
    BY <1>2, AnsweredStep, TablesStep DEF IndInv
  <2>3. ConnectedImpliesAccepted' /\ AliveIsFresh' /\ InitiatorStages'
    BY <1>2, AgreementKept
  <2>4. TriesBounded'
    BY <1>2 DEF IndInv, TriesBounded, initiatorVars
  <2> QED BY <1>t, <2>1, <2>2, <2>3, <2>4 DEF IndInv
<1>3. CASE UNCHANGED handshakeVars
  BY <1>3
  DEF handshakeVars, initiatorVars, responderVars, IndInv, TypeOK,
      InitiatorTypeOK, ResponderTypeOK, ResponderStages, InitiatorStages,
      SegmentsTrue, AnsweredByPeer, ConnectedImpliesAccepted, TablesAgree,
      AliveIsFresh, MyRand, TimersMatchState, TriesBounded
<1> QED BY <1>1, <1>2, <1>3 DEF Next

\* The inductive invariant is an invariant.
THEOREM Invariance == Spec => []IndInv
  BY InitInv, StepInv, PTL DEF Spec

\* Type correctness of both sides and of the segments in flight.
THEOREM TypeCorrect == Spec => []TypeOK
<1>1. IndInv => TypeOK
  BY DEF IndInv
<1> QED BY <1>1, Invariance, PTL

(***************************************************************************)
(* Agreement: an initiator's promise is resolved only when the responder   *)
(* it talks to has accepted that initiator, once.                          *)
(***************************************************************************)
THEOREM Agreement == Spec => []ConnectedImpliesAccepted
<1>1. IndInv => ConnectedImpliesAccepted
  BY DEF IndInv
<1> QED BY <1>1, Invariance, PTL

\* An initiator in READY_PING has had this round's PING answered.
THEOREM Freshness == Spec => []AliveIsFresh
<1>1. IndInv => AliveIsFresh
  BY DEF IndInv
<1> QED BY <1>1, Invariance, PTL

\* The router's two tables agree and respect maxConnections.
THEOREM Tables == Spec => []TablesAgree
<1>1. IndInv => TablesAgree
  BY DEF IndInv
<1> QED BY <1>1, Invariance, PTL

(***************************************************************************)
(* Of the attempts from one address at most one is in a live session, and  *)
(* no more are in all than the router has room for: a connected initiator  *)
(* is the one its responder committed to, and the tables give that         *)
(* responder's address to no other.                                        *)
(***************************************************************************)
THEOREM OneSession == Spec => []OnePerAddress
<1>1. IndInv => OnePerAddress
  <2> SUFFICES ASSUME IndInv PROVE OnePerAddress
    OBVIOUS
  <2> USE SegmentsAssumption
  <2> DEFINE Sessions == {c \in Conn : Live(c)}
  <2>1. ASSUME NEW c \in Sessions
        PROVE  /\ peer[c] \in map /\ srvPeer[peer[c]] = c
               /\ addresses[AddressOf[c]] = peer[c]
    <3>1. peer[c] \in map /\ srvPeer[peer[c]] = c
      BY DEF Live, IndInv, ConnectedImpliesAccepted, InitiatorStages
    <3> QED BY <3>1 DEF IndInv, TablesAgree
  <2>2. \A c, d \in Sessions : AddressOf[c] = AddressOf[d] => c = d
    <3> SUFFICES ASSUME NEW c \in Sessions, NEW d \in Sessions,
                        AddressOf[c] = AddressOf[d]
                 PROVE  c = d
      OBVIOUS
    <3>1. peer[c] = peer[d]
      BY <2>1
    <3> QED BY <2>1, <3>1
  <2>3. Cardinality(Sessions) <= MaxConnections
    <3> DEFINE Slot == [c \in Sessions |-> peer[c]]
    <3>1. IsFiniteSet(map) /\ Cardinality(map) <= MaxConnections
      BY DEF IndInv, TablesAgree
    <3>2. \A c, d \in Sessions : Slot[c] = Slot[d] => c = d
      BY <2>1
    <3>3. Slot \in Injection(Sessions, map)
      BY <2>1, <3>2 DEF Injection, IsInjective
    <3> HIDE DEF Slot, Sessions
    <3>4. /\ IsFiniteSet(Sessions)
          /\ Cardinality(Sessions) <= Cardinality(map)
      BY <3>1, <3>3, FS_Injection
    <3> QED
      BY <3>1, <3>4, FS_CardinalityType, LimitsAssumption DEF Sessions
  <2> QED BY <2>2, <2>3 DEF OnePerAddress
<1> QED BY <1>1, Invariance, PTL

\* Timers armed are those of the present states.
THEOREM Timers == Spec => []TimersMatchState
<1>1. IndInv => TimersMatchState
  BY DEF IndInv
<1> QED BY <1>1, Invariance, PTL

\* No PING reaches a connection that has no key to open it with.
THEOREM Keys == Spec => []KeysBeforePing
<1>1. IndInv => KeysBeforePing
  <2> SUFFICES ASSUME IndInv, NEW m \in net
               PROVE  /\ m.type = "PONG" => peer[m.to] # None
                      /\ m.type = "PING" => srvPeer[m.to] # None
    BY DEF KeysBeforePing
  <2> QED
    BY SegmentsAssumption, SegmentFields
    DEF IndInv, TypeOK, SegmentsTrue, InitiatorStages, ResponderStages
<1> QED BY <1>1, Invariance, PTL

(***************************************************************************)
(* An established responder keeps its peer and is accepted only once.      *)
(***************************************************************************)
THEOREM Stability == Spec => SessionIsStable
<1> DEFINE Kept == \A s \in ServerId :
                      srvEstablished[s] =>
                          /\ srvEstablished'[s]
                          /\ srvPeer'[s] = srvPeer[s]
                          /\ accepts'[s] = accepts[s]
<1>1. IndInv /\ [Next]_handshakeVars => [Kept]_handshakeVars
  <2> SUFFICES ASSUME IndInv, Next PROVE Kept
    OBVIOUS
  <2>1. CASE InitiatorNext /\ UNCHANGED responderVars
    BY <2>1 DEF responderVars
  <2>2. CASE ResponderNext /\ UNCHANGED initiatorVars
    BY <2>2, ResponderGrows DEF IndInv
  <2> QED BY <2>1, <2>2 DEF Next
<1> QED BY <1>1, Invariance, PTL DEF Spec, SessionIsStable

(***************************************************************************)
(* Where an attempt stands in its timers: a retry counts, a change of      *)
(* state goes on to timers that come later, and nothing else touches them. *)
(***************************************************************************)
LEMMA TimersLeftOf ==
  ASSUME NEW c \in Conn
  PROVE  /\ state[c] = "OPEN" =>
                TimersLeft(c) = (OpenTries - tries[c]) + 1 + PingTries
         /\ state[c] = "PING" => TimersLeft(c) = (PingTries - tries[c]) + 1
         /\ state[c] \notin {"OPEN", "PING"} => TimersLeft(c) = 0
  BY DEF TimersLeft

LEMMA TimersLeftAfter ==
  ASSUME NEW c \in Conn
  PROVE  /\ state'[c] = "OPEN" =>
                TimersLeft(c)' = (OpenTries - tries'[c]) + 1 + PingTries
         /\ state'[c] = "PING" => TimersLeft(c)' = (PingTries - tries'[c]) + 1
         /\ state'[c] \notin {"OPEN", "PING"} => TimersLeft(c)' = 0
  BY DEF TimersLeft

LEMMA RunsDownStep ==
  ASSUME IndInv, IndInv', Next, NEW c \in Conn, state[c] \in {"OPEN", "PING"}
  PROVE  /\ TimersLeft(c)' <= TimersLeft(c)
         /\ InitiatorTimer(c) => TimersLeft(c)' < TimersLeft(c)
<1> USE InitiatorAssumption
<1>t. InitiatorTypeOK /\ InitiatorTypeOK'
  BY DEF IndInv, TypeOK
<1>a. tries[c] \in Nat /\ timers[c] = {state[c]}
  <2>1. TimersMatchState
    BY DEF IndInv
  <2> QED BY <1>t, <2>1 DEF InitiatorTypeOK, TimersMatchState, Timed
<1>0. /\ TimersLeft(c) \in Nat \ {0}
      /\ state[c] = "OPEN" => TimersLeft(c) > PingTries
  <2>1. TriesBounded
    BY DEF IndInv
  <2>2. CASE state[c] = "OPEN"
    <3>1. tries[c] <= OpenTries
      BY <2>1, <2>2 DEF TriesBounded
    <3> QED BY <1>a, <2>2, <3>1, TimersLeftOf
  <2>3. CASE state[c] = "PING"
    <3>1. tries[c] <= PingTries
      BY <2>1, <2>3 DEF TriesBounded
    <3> QED BY <1>a, <2>3, <3>1, TimersLeftOf
  <2> QED BY <2>2, <2>3
<1>1. ASSUME state'[c] = state[c], tries'[c] = tries[c]
      PROVE  TimersLeft(c)' = TimersLeft(c)
  BY <1>1, TimersLeftOf, TimersLeftAfter
<1>2. ASSUME state'[c] = state[c], tries'[c] = tries[c] + 1
      PROVE  TimersLeft(c)' < TimersLeft(c)
  <2>1. CASE state[c] = "OPEN"
    BY <1>a, <1>2, <2>1, TimersLeftOf, TimersLeftAfter
  <2>2. CASE state[c] = "PING"
    BY <1>a, <1>2, <2>2, TimersLeftOf, TimersLeftAfter
  <2> QED BY <2>1, <2>2
<1>3. ASSUME state'[c] \in {"READY_PING", "ERROR"}
      PROVE  TimersLeft(c)' < TimersLeft(c)
  BY <1>0, <1>3, TimersLeftAfter
<1>4. ASSUME state[c] = "OPEN", state'[c] = "PING", tries'[c] = 1
      PROVE  TimersLeft(c)' < TimersLeft(c)
  BY <1>0, <1>4, TimersLeftAfter
<1>5. ASSUME InitiatorTimer(c) PROVE TimersLeft(c)' < TimersLeft(c)
  <2>1. CASE ResendOpen(c) \/ ResendPing(c)
    BY <1>2, <1>t, <2>1 DEF InitiatorTypeOK, ResendOpen, ResendPing
  <2>2. CASE OpenTimeout(c) \/ PingTimeout(c)
    BY <1>3, <1>t, <2>2
    DEF InitiatorTypeOK, OpenTimeout, PingTimeout, Fail, MoveTo
  <2>3. CASE PingAgain(c)
    BY <1>a, <2>3 DEF PingAgain
  <2> QED BY <1>5, <2>1, <2>2, <2>3 DEF InitiatorTimer
<1>6. ASSUME NEW d \in Conn, d # c,
             \/ Connect(d) \/ ConnectRefused(d) \/ InitiatorTimer(d)
             \/ KillInitiator(d)
             \/ \E m \in net : \/ ReceiveChallenge(d, m)
                              \/ UnexpectedChallenge(d, m)
                              \/ ReceivePong(d, m)
                              \/ UnexpectedPong(d, m)
      PROVE  state'[c] = state[c] /\ tries'[c] = tries[c]
  BY <1>6, <1>t
  DEF InitiatorTypeOK, InitiatorTimer, Connect, ConnectRefused, ResendOpen, OpenTimeout,
      ResendPing, PingTimeout, Fail, MoveTo, PingAgain, StartPing,
      KillInitiator, ReceiveChallenge, UnexpectedChallenge, ReceivePong,
      UnexpectedPong
<1>7. ASSUME \/ Connect(c) \/ ConnectRefused(c) \/ KillInitiator(c)
             \/ \E m \in net : \/ UnexpectedChallenge(c, m)
                              \/ ReceivePong(c, m)
                              \/ UnexpectedPong(c, m)
      PROVE  TimersLeft(c)' <= TimersLeft(c)
  <2>1. ~Connect(c) /\ ~ConnectRefused(c)
    BY DEF Connect, ConnectRefused, IndInv, InitiatorStages
  <2>2. state'[c] \in {"READY_PING", "ERROR"}
    BY <1>7, <1>t, <2>1
    DEF InitiatorTypeOK, KillInitiator, UnexpectedChallenge, ReceivePong,
        UnexpectedPong, Fail, MoveTo
  <2>3. TimersLeft(c)' = 0
    BY <2>2, TimersLeftAfter
  <2> QED BY <1>0, <2>3
<1>8. ASSUME NEW m \in net, ReceiveChallenge(c, m)
      PROVE  TimersLeft(c)' < TimersLeft(c)
  BY <1>4, <1>8, <1>t
  DEF InitiatorTypeOK, ReceiveChallenge, StartPing, MoveTo
<1>9. TimersLeft(c)' \in Int
  <2>1. tries'[c] \in Nat
    BY <1>t DEF InitiatorTypeOK
  <2> QED BY <2>1, TimersLeftAfter
<1>10. TimersLeft(c)' <= TimersLeft(c)
  <2>1. CASE UNCHANGED <<state, tries>>
    BY <1>0, <1>1, <2>1
  <2>2. CASE \E d \in Conn \ {c} :
            \/ Connect(d) \/ ConnectRefused(d) \/ InitiatorTimer(d)
            \/ KillInitiator(d)
            \/ \E m \in net : \/ ReceiveChallenge(d, m)
                             \/ UnexpectedChallenge(d, m)
                             \/ ReceivePong(d, m)
                             \/ UnexpectedPong(d, m)
    <3>1. state'[c] = state[c] /\ tries'[c] = tries[c]
      BY <1>6, <2>2
    <3> QED BY <1>0, <1>1, <3>1
  <2>3. CASE InitiatorTimer(c) \/ \E m \in net : ReceiveChallenge(c, m)
    <3>1. TimersLeft(c)' < TimersLeft(c)
      BY <1>5, <1>8, <2>3
    <3> QED BY <1>0, <1>9, <3>1
  <2> QED
    BY <1>7, <2>1, <2>2, <2>3 DEF Next, InitiatorNext, initiatorVars
<1> QED BY <1>5, <1>10

(***************************************************************************)
(* Each timer of an attempt brings it nearer to its end, and no segment    *)
(* takes it back.  That the timers fire, and so the end, is AttemptEnds.   *)
(***************************************************************************)
THEOREM RunsDown == Spec => AttemptRunsDown
<1> DEFINE Down == \A c \in Conn :
                      state[c] \in {"OPEN", "PING"} =>
                          /\ TimersLeft(c)' <= TimersLeft(c)
                          /\ InitiatorTimer(c) =>
                                 TimersLeft(c)' < TimersLeft(c)
<1>1. IndInv /\ IndInv' /\ [Next]_handshakeVars => [Down]_handshakeVars
  BY RunsDownStep
<1> QED BY <1>1, Invariance, PTL DEF Spec, AttemptRunsDown
=============================================================================
