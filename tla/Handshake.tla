----------------------------- MODULE Handshake ------------------------------
(***************************************************************************)
(* Initiators and the listening router over one network: OPEN, CHALLENGE,  *)
(* and the PINGs that first establish a connection and then keep it.       *)
(***************************************************************************)
EXTENDS Initiator, Responder

handshakeVars == <<net, initiatorVars, responderVars>>

TypeOK ==
    /\ net \subseteq Segment
    /\ InitiatorTypeOK
    /\ ResponderTypeOK

Init ==
    /\ NetInit
    /\ InitiatorInit
    /\ ResponderInit

Next ==
    \/ InitiatorNext /\ UNCHANGED responderVars
    \/ ResponderNext /\ UNCHANGED initiatorVars

Spec == Init /\ [][Next]_handshakeVars

(***************************************************************************)
(* Fairness.  A timer of node.js that stays armed fires; nothing else is   *)
(* promised: datagrams may all be lost and users need not do anything.     *)
(* The READY timer is started again by every PING, so all it promises is   *)
(* that it fires or that it is restarted.                                  *)
(***************************************************************************)
ReadyTimerStep(s) ==
    /\ \/ ReadyTimeout(s)
       \/ \E m \in net : RepeatPing(m, s)
    /\ UNCHANGED initiatorVars

InitiatorTimerStep(c) == InitiatorTimer(c) /\ UNCHANGED responderVars

TimerFairness ==
    /\ \A c \in Conn : WF_handshakeVars(InitiatorTimerStep(c))
    /\ \A s \in ServerId : WF_handshakeVars(ReadyTimerStep(s))

FairSpec == Spec /\ TimerFairness
-----------------------------------------------------------------------------
(***************************************************************************)
(* Agreement.  An initiator counts itself established (its promise is      *)
(* resolved, its user has the connection) only if the responder it talks   *)
(* to has accepted that very initiator, once: whatever was resent,         *)
(* replayed or sent by another connection from the same address before.    *)
(***************************************************************************)
ConnectedImpliesAccepted ==
    \A c \in Conn :
        isEstablished[c] =>
            /\ peer[c] # None
            /\ srvEstablished[peer[c]]
            /\ srvPeer[peer[c]] = c
            /\ accepts[peer[c]] = 1

(***************************************************************************)
(* _setPeer "can be recalled": OPEN segments from the address of a         *)
(* half-open connection overwrite its peer.  Once the connection is        *)
(* established it keeps its peer, stays established, and the user is not   *)
(* given it again.                                                         *)
(***************************************************************************)
SessionIsStable ==
    [][\A s \in ServerId :
          srvEstablished[s] =>
              /\ srvEstablished'[s]
              /\ srvPeer'[s] = srvPeer[s]
              /\ accepts'[s] = accepts[s]]_handshakeVars

(***************************************************************************)
(* The two tables of the router agree: every id in _map was given to one   *)
(* address, no id to two, and _map never exceeds maxConnections.  Replayed *)
(* and competing OPENs would otherwise leave connections that no address   *)
(* or no id leads to.                                                      *)
(***************************************************************************)
TablesAgree ==
    /\ {addresses[a] : a \in Address} \ {None} = map
    /\ \A a, b \in Address :
          addresses[a] = addresses[b] /\ addresses[a] # None => a = b
    /\ \A s \in map : srvPeer[s] # None /\ addresses[AddressOf[srvPeer[s]]] = s
    /\ Cardinality(map) <= MaxConnections

\* A session both sides take for alive: neither has given it up.
Live(c) ==
    /\ isEstablished[c]
    /\ state[c] # "ERROR"
    /\ srvState[peer[c]] = "READY"

(***************************************************************************)
(* One address, one session.  A connection in READY refuses the OPENs of   *)
(* its address, so two attempts from one address, a client's and its       *)
(* restart's, are never both in a session that is alive on both sides, and *)
(* there are never more such sessions than the router has room for.  What  *)
(* becomes of an address when its session is over is AddressIsFreed.       *)
(***************************************************************************)
OnePerAddress ==
    /\ \A c, d \in Conn :
          Live(c) /\ Live(d) /\ AddressOf[c] = AddressOf[d] => c = d
    /\ Cardinality({c \in Conn : Live(c)}) <= MaxConnections

(***************************************************************************)
(* The initiator believes its peer alive (READY_PING) only if the peer has *)
(* taken the PING of the present round: an old or replayed answer is not   *)
(* enough.  This is what random and time of a PING are for.                *)
(***************************************************************************)
AliveIsFresh ==
    \A c \in Conn :
        state[c] = "READY_PING" => MyRand(c) \in answered[peer[c]]

(***************************************************************************)
(* handleSegment passes the peer's key and nonce to unPing unchecked, and  *)
(* both are null until _setPeer ran.  No PING reaches a connection that    *)
(* has none.                                                               *)
(***************************************************************************)
KeysBeforePing ==
    \A m \in net :
        /\ m.type = "PONG" /\ registered[m.to] => peer[m.to] # None
        /\ m.type = "PING" /\ m.to \in map => srvPeer[m.to] # None

(***************************************************************************)
(* exit() of a state leaves none of its timers behind, and enter() of the  *)
(* next one arms its own: an armed timer is that of the present state, or  *)
(* an event of a dead state would hit a live one.                          *)
(***************************************************************************)
TimersMatchState ==
    /\ \A c \in Conn : timers[c] = {state[c]} \cap Timed
    /\ \A s \in ServerId : srvTimers[s] = {srvState[s]} \cap {"READY"}

(***************************************************************************)
(* An attempt does not hang: timers alone take a connection out of OPEN    *)
(* and of PING, however many segments are lost.                            *)
(***************************************************************************)
AttemptEnds ==
    \A c \in Conn :
        state[c] \in {"OPEN", "PING"} ~> state[c] \in {"READY_PING", "ERROR"}

(***************************************************************************)
(* The timers an attempt still has ahead of it: those of a PING come after *)
(* those of the OPEN.                                                      *)
(***************************************************************************)
TimersLeft(c) ==
    CASE state[c] = "OPEN" -> (OpenTries - tries[c]) + 1 + PingTries
      [] state[c] = "PING" -> (PingTries - tries[c]) + 1
      [] OTHER -> 0

(***************************************************************************)
(* Why an attempt ends: each of its timers brings it nearer to the end,    *)
(* and no segment, resent, replayed or of another connection, takes it     *)
(* back.  A peer that answers, but never to the PING, gains it no time.    *)
(***************************************************************************)
AttemptRunsDown ==
    [][\A c \in Conn :
          state[c] \in {"OPEN", "PING"} =>
              /\ TimersLeft(c)' <= TimersLeft(c)
              /\ InitiatorTimer(c) => TimersLeft(c)' < TimersLeft(c)
      ]_handshakeVars

(***************************************************************************)
(* A side whose peer is gone finds out: the responder because no PING      *)
(* restarts its READY timer, the initiator because its next round is not   *)
(* answered (rounds are bounded, so it must have one left).                *)
(***************************************************************************)
DeadPeerNoticed ==
    /\ \A s \in ServerId, c \in Conn :
          (srvState[s] = "READY" /\ srvPeer[s] = c /\ state[c] = "ERROR")
              ~> srvState[s] = "ERROR"
    /\ \A c \in Conn, s \in ServerId :
          (/\ state[c] = "READY_PING"
           /\ pingRound[c] < MaxRound
           /\ peer[c] = s
           /\ srvState[s] = "ERROR") ~> state[c] = "ERROR"
-----------------------------------------------------------------------------
(***************************************************************************)
(* The abstract session: how far an attempt has come, to whom a responder  *)
(* has committed, and which responders are over.                           *)
(***************************************************************************)
LinkOf(c) ==
    IF promise[c] = "none" THEN "idle"
    ELSE IF state[c] \in {"START", "ERROR"} THEN "failed"
    ELSE IF isEstablished[c] THEN "connected"
    ELSE "connecting"

OwnerOf(s) == IF srvEstablished[s] THEN srvPeer[s] ELSE None

Sess == INSTANCE Session WITH
    Attempt <- Conn, Slot <- ServerId, Nobody <- None,
    PlaceOf <- AddressOf,
    link <- [c \in Conn |-> LinkOf(c)],
    owner <- [s \in ServerId |-> OwnerOf(s)],
    ended <- {s \in ServerId : srvState[s] = "ERROR"}

(***************************************************************************)
(* The handshake implements the session: the responder commits, once,      *)
(* before the initiator is connected, neither goes back, and no two        *)
(* responders that are alive have committed to one address.                *)
(***************************************************************************)
ImplementsSession == Sess!SessionSpec
-----------------------------------------------------------------------------
(***************************************************************************)
(* PROTOCOL.md on replay: "OPEN messages can be replayed with no damage".  *)
(* An attempt that waits for the answer to its PING ends by its timer or   *)
(* its user, not because a CHALLENGE came twice.                           *)
(***************************************************************************)
OpenReplayHarmless ==
    [][\A c \in Conn :
          (state[c] = "PING" /\ state'[c] = "ERROR") =>
              PingTimeout(c) \/ KillInitiator(c)]_handshakeVars

(***************************************************************************)
(* README.md: packets that "exhibit anything abnormal" are dropped.  A     *)
(* connection whose ping was answered ends only by its user, not because   *)
(* the answer to a resent PING came as well.                               *)
(***************************************************************************)
AbnormalIsDropped ==
    [][\A c \in Conn :
          (state[c] = "READY_PING" /\ state'[c] = "ERROR") =>
              KillInitiator(c)]_handshakeVars

(***************************************************************************)
(* router.js on mkConnection: "A promise that will either return a         *)
(* connection or an error".  No attempt stays pending once its timers have *)
(* run out.                                                                *)
(***************************************************************************)
PromiseSettles ==
    \A c \in Conn :
        promise[c] = "pending" ~> promise[c] \in {"resolved", "rejected"}

(***************************************************************************)
(* PROTOCOL.md on the response to a CHALLENGE: "If the client does not     *)
(* respond with this then the connection is closed".                       *)
(***************************************************************************)
HalfOpenIsClosed ==
    \A s \in ServerId :
        srvState[s] = "CHALLENGE" ~> srvState[s] # "CHALLENGE"

(***************************************************************************)
(* PROTOCOL.md on an OPEN from an address that is in use: "reject as       *)
(* potentially malicious, let a timeout cleanup the entry".  Once the      *)
(* connection of an address is over, its entry does not stay for ever.     *)
(***************************************************************************)
AddressIsFreed ==
    \A a \in Address, s \in ServerId :
        (addresses[a] = s /\ srvState[s] = "ERROR") ~> addresses[a] # s
=============================================================================
