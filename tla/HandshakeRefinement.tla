------------------------ MODULE HandshakeRefinement -------------------------
(***************************************************************************)
(* Proof that Handshake implements Session under the mapping of Handshake: *)
(* LinkOf for the attempts, OwnerOf and ERROR for the slots.               *)
(***************************************************************************)
EXTENDS HandshakeProofs

(***************************************************************************)
(* Where one attempt stands before and after a step decides which abstract *)
(* step, if any, the step of its initiator is.                             *)
(***************************************************************************)
LEMMA OnlyLinkOf ==
  ASSUME NEW c \in Conn,
         \A d \in Conn \ {c} : LinkOf(d)' = LinkOf(d),
         \A s \in ServerId : OwnerOf(s)' = OwnerOf(s),
         UNCHANGED srvState,
         \/ LinkOf(c)' = LinkOf(c)
         \/ LinkOf(c) = "idle" /\ LinkOf(c)' = "connecting"
         \/ LinkOf(c) # "failed" /\ LinkOf(c)' = "failed"
         \/ /\ LinkOf(c) = "connecting" /\ LinkOf(c)' = "connected"
            /\ \E s \in ServerId : OwnerOf(s) = c
  PROVE  [Sess!SessionNext]_Sess!sessionVars
<1> DEFINE L == [d \in Conn |-> LinkOf(d)]
           O == [s \in ServerId |-> OwnerOf(s)]
           E == {s \in ServerId : srvState[s] = "ERROR"}
<1>1. O' = O /\ E' = E
  OBVIOUS
<1>2. L' = [L EXCEPT ![c] = LinkOf(c)']
  OBVIOUS
<1>3. CASE LinkOf(c)' = LinkOf(c)
  <2>1. L' = L
    BY <1>3
  <2> QED BY <1>1, <2>1 DEF Sess!sessionVars
<1>4. CASE LinkOf(c) = "idle" /\ LinkOf(c)' = "connecting"
  BY <1>1, <1>2, <1>4 DEF Sess!SessionNext, Sess!Dial
<1>5. CASE LinkOf(c) # "failed" /\ LinkOf(c)' = "failed"
  BY <1>1, <1>2, <1>5 DEF Sess!SessionNext, Sess!GiveUp
<1>6. CASE /\ LinkOf(c) = "connecting" /\ LinkOf(c)' = "connected"
           /\ \E s \in ServerId : OwnerOf(s) = c
  BY <1>1, <1>2, <1>6 DEF Sess!SessionNext, Sess!Establish
<1> QED BY <1>3, <1>4, <1>5, <1>6

\* Every step of an initiator is a Dial, an Establish, a GiveUp or a stutter.
LEMMA InitiatorImplements ==
  ASSUME IndInv, IndInv', InitiatorNext, UNCHANGED responderVars
  PROVE  [Sess!SessionNext]_Sess!sessionVars
<1> USE SegmentsAssumption
<1> USE DEF IndInv, TypeOK, InitiatorTypeOK, InitiatorStages, InitiatorStates,
            Timed
<1>o. (\A s \in ServerId : OwnerOf(s)' = OwnerOf(s)) /\ UNCHANGED srvState
  BY DEF OwnerOf, responderVars
<1>f. ASSUME NEW c \in Conn, Fail(c), promise[c] # "none"
      PROVE  [Sess!SessionNext]_Sess!sessionVars
  <2>1. \A d \in Conn \ {c} : LinkOf(d)' = LinkOf(d)
    BY <1>f DEF Fail, MoveTo, Settle, LinkOf
  <2>2. LinkOf(c)' = "failed"
    BY <1>f DEF Fail, MoveTo, Settle, LinkOf
  <2> QED BY <1>o, <2>1, <2>2, OnlyLinkOf
<1>1. ASSUME NEW c \in Conn, Connect(c)
      PROVE  [Sess!SessionNext]_Sess!sessionVars
  <2>1. \A d \in Conn \ {c} : LinkOf(d)' = LinkOf(d)
    BY <1>1 DEF Connect, MoveTo, LinkOf
  <2>2. LinkOf(c) = "idle" /\ LinkOf(c)' = "connecting"
    BY <1>1 DEF Connect, MoveTo, LinkOf
  <2> QED BY <1>o, <2>1, <2>2, OnlyLinkOf
<1>2. ASSUME NEW c \in Conn, ConnectRefused(c)
      PROVE  [Sess!SessionNext]_Sess!sessionVars
  <2>1. \A d \in Conn \ {c} : LinkOf(d)' = LinkOf(d)
    BY <1>2 DEF ConnectRefused, LinkOf
  <2>2. LinkOf(c) = "idle" /\ LinkOf(c)' = "failed"
    BY <1>2 DEF ConnectRefused, LinkOf
  <2> QED BY <1>o, <2>1, <2>2, OnlyLinkOf
<1>3. ASSUME NEW c \in Conn, OpenTimeout(c)
      PROVE  [Sess!SessionNext]_Sess!sessionVars
  <2>1. \A d \in Conn \ {c} : LinkOf(d)' = LinkOf(d)
    BY <1>3 DEF OpenTimeout, MoveTo, LinkOf
  <2>2. LinkOf(c) = "connecting" /\ LinkOf(c)' = "failed"
    BY <1>3 DEF OpenTimeout, MoveTo, LinkOf, TimersMatchState
  <2> QED BY <1>o, <2>1, <2>2, OnlyLinkOf
<1>4. ASSUME NEW c \in Conn, ResendOpen(c) \/ ResendPing(c)
      PROVE  [Sess!SessionNext]_Sess!sessionVars
  <2>1. \A d \in Conn : LinkOf(d)' = LinkOf(d)
    BY <1>4 DEF ResendOpen, ResendPing, LinkOf
  <2> QED BY <1>o, <2>1, OnlyLinkOf
<1>5. ASSUME NEW c \in Conn, PingAgain(c)
      PROVE  [Sess!SessionNext]_Sess!sessionVars
  <2>1. state[c] = "READY_PING"
    BY <1>5 DEF PingAgain, TimersMatchState
  <2>2. \A d \in Conn : LinkOf(d)' = LinkOf(d)
    BY <1>5, <2>1 DEF PingAgain, StartPing, MoveTo, LinkOf
  <2> QED BY <1>o, <2>2, OnlyLinkOf
<1>6. ASSUME NEW c \in Conn, NEW m \in net, ReceiveChallenge(c, m)
      PROVE  [Sess!SessionNext]_Sess!sessionVars
  <2>1. \A d \in Conn : LinkOf(d)' = LinkOf(d)
    BY <1>6 DEF ReceiveChallenge, StartPing, MoveTo, LinkOf
  <2> QED BY <1>o, <2>1, OnlyLinkOf
<1>7. ASSUME NEW c \in Conn, NEW m \in net, ReceivePong(c, m)
      PROVE  [Sess!SessionNext]_Sess!sessionVars
  <2>1. \A d \in Conn \ {c} : LinkOf(d)' = LinkOf(d)
    BY <1>7 DEF ReceivePong, MoveTo, Settle, LinkOf
  <2>2. LinkOf(c)' = "connected"
    BY <1>7 DEF ReceivePong, MoveTo, Settle, LinkOf
  <2>3. LinkOf(c) \in {"connecting", "connected"}
    BY <1>7 DEF ReceivePong, LinkOf
  <2>4. peer'[c] \in ServerId /\ OwnerOf(peer'[c]) = c
    <3>1. isEstablished'[c]
      BY <1>7 DEF ReceivePong
    <3>2. UNCHANGED <<srvEstablished, srvPeer>>
      BY DEF responderVars
    <3> QED BY <3>1, <3>2 DEF ConnectedImpliesAccepted, OwnerOf
  <2> QED BY <1>o, <2>1, <2>2, <2>3, <2>4, OnlyLinkOf
<1>8. ASSUME NEW c \in Conn, PingTimeout(c) \/ KillInitiator(c)
      PROVE  [Sess!SessionNext]_Sess!sessionVars
  <2>1. promise[c] # "none" /\ Fail(c)
    BY <1>8 DEF PingTimeout, KillInitiator, TimersMatchState
  <2> QED BY <1>f, <2>1
<1>9. ASSUME NEW c \in Conn, NEW m \in net,
             UnexpectedChallenge(c, m) \/ UnexpectedPong(c, m)
      PROVE  [Sess!SessionNext]_Sess!sessionVars
  <2>1. promise[c] # "none" /\ Fail(c)
    BY <1>9 DEF UnexpectedChallenge, ValidChallenge, UnexpectedPong, ValidPong
  <2> QED BY <1>f, <2>1
<1> QED
  BY <1>1, <1>2, <1>3, <1>4, <1>5, <1>6, <1>7, <1>8, <1>9
  DEF InitiatorNext, InitiatorTimer

(***************************************************************************)
(* AcceptPing is the Commit, the failure of a connection its End; every    *)
(* other step of the responder's side is a stutter, since it changes the   *)
(* peer of half-open connections only.                                     *)
(***************************************************************************)
LEMMA ResponderImplements ==
  ASSUME IndInv, ResponderNext, UNCHANGED initiatorVars
  PROVE  [Sess!SessionNext]_Sess!sessionVars
<1> USE SegmentsAssumption
<1> USE DEF IndInv, TypeOK, ResponderTypeOK
<1> DEFINE L == [c \in Conn |-> LinkOf(c)]
           O == [s \in ServerId |-> OwnerOf(s)]
           E == {s \in ServerId : srvState[s] = "ERROR"}
<1>l. L' = L
  BY DEF LinkOf, initiatorVars
<1>1. ASSUME NEW s \in ServerId, NEW m \in net, AcceptPing(m, s)
      PROVE  Sess!SessionNext
  <2> DEFINE c == srvPeer[s]
  <2>1. c \in Conn /\ m.from = c /\ s \in map /\ ~srvEstablished[s]
    BY <1>1, SegmentFields
    DEF AcceptPing, ValidPing, ResponderStages
  <2>2. L[c] # "idle"
    <3>1. promise[c] # "none"
      BY <1>1, <2>1 DEF AcceptPing, ValidPing, SegmentsTrue
    <3> QED
      BY <2>1, <3>1 DEF LinkOf, InitiatorTypeOK, InitiatorStates, Timed
  <2>3. O[s] = None
    BY <2>1 DEF OwnerOf
  <2>4. ASSUME NEW t \in ServerId \ E, O[t] # None
        PROVE  AddressOf[O[t]] # AddressOf[c]
    <3>1. srvEstablished[t] /\ O[t] = srvPeer[t] /\ t \in map /\ t # s
      BY <2>1, <2>4 DEF OwnerOf, ResponderStages
    <3>2. /\ addresses[AddressOf[srvPeer[t]]] = t
          /\ addresses[AddressOf[c]] = s
      BY <2>1, <3>1 DEF TablesAgree
    <3> QED BY <3>1, <3>2
  <2>5. O' = [O EXCEPT ![s] = c]
    BY <1>1, <2>1 DEF AcceptPing, AnswerPing, OwnerOf
  <2>6. s \notin E /\ E' = E
    BY <1>1 DEF AcceptPing, SrvMoveTo
  <2>7. Sess!Commit(s, c)
    BY <1>l, <2>2, <2>3, <2>4, <2>5, <2>6 DEF Sess!Commit
  <2> QED BY <2>1, <2>7 DEF Sess!SessionNext
<1>2. ASSUME NEW s \in ServerId, NEW m \in net,
             OpenNew(m, s) \/ OpenAgain(m, s)
      PROVE  O' = O /\ E' = E
  <2>1. ~srvEstablished[s] /\ UNCHANGED srvEstablished
    BY <1>2 DEF OpenNew, NewId, OpenAgain, TakeOpen, ResponderStages
  <2>2. \A t \in ServerId \ {s} : srvPeer'[t] = srvPeer[t]
    BY <1>2 DEF OpenNew, OpenAgain, TakeOpen
  <2>3. E' = E
    BY <1>2 DEF OpenNew, NewId, OpenAgain, SrvMoveTo, ResponderStages
  <2> QED BY <2>1, <2>2, <2>3 DEF OwnerOf
<1>3. ASSUME NEW s \in ServerId, NEW m \in net, RepeatPing(m, s)
      PROVE  O' = O /\ E' = E
  BY <1>3 DEF RepeatPing, AnswerPing, OwnerOf
<1>4. ASSUME NEW s \in ServerId, ReadyTimeout(s) \/ KillResponder(s)
      PROVE  Sess!SessionNext
  <2>1. srvState[s] = "READY" /\ SrvFail(s)
    BY <1>4 DEF ReadyTimeout, KillResponder, TimersMatchState
  <2>2. O' = O
    BY <2>1 DEF SrvFail, OwnerOf
  <2>3. s \notin E /\ E' = E \cup {s}
    BY <2>1 DEF SrvFail, SrvMoveTo
  <2>4. Sess!End(s)
    BY <1>l, <2>2, <2>3 DEF Sess!End
  <2> QED BY <2>4 DEF Sess!SessionNext
<1> QED
  BY <1>l, <1>1, <1>2, <1>3, <1>4 DEF ResponderNext, Sess!sessionVars

(***************************************************************************)
(* The handshake implements the abstract session: a responder commits      *)
(* once, before its attempt is connected, and no two that are alive have   *)
(* committed to attempts from one address.                                 *)
(***************************************************************************)
THEOREM Refinement == Spec => ImplementsSession
<1>1. Init => Sess!SessionInit
  <2> SUFFICES ASSUME Init PROVE Sess!SessionInit
    OBVIOUS
  <2>1. \A c \in Conn : LinkOf(c) = "idle"
    BY DEF Init, InitiatorInit, LinkOf
  <2>2. \A s \in ServerId : OwnerOf(s) = None
    BY DEF Init, ResponderInit, OwnerOf
  <2>3. {s \in ServerId : srvState[s] = "ERROR"} = {}
    BY DEF Init, ResponderInit
  <2> QED BY <2>1, <2>2, <2>3 DEF Sess!SessionInit
<1>2. IndInv /\ IndInv' /\ [Next]_handshakeVars
        => [Sess!SessionNext]_Sess!sessionVars
  <2> SUFFICES ASSUME IndInv, IndInv', [Next]_handshakeVars
               PROVE  [Sess!SessionNext]_Sess!sessionVars
    OBVIOUS
  <2>1. CASE UNCHANGED handshakeVars
    BY <2>1
    DEF handshakeVars, initiatorVars, responderVars, Sess!sessionVars, LinkOf,
        OwnerOf
  <2> QED
    BY <2>1, InitiatorImplements, ResponderImplements DEF Next
<1> QED
  BY <1>1, <1>2, Invariance, PTL DEF Spec, ImplementsSession, Sess!SessionSpec
=============================================================================
