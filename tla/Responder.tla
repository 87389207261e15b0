----------------------------- MODULE Responder ------------------------------
(***************************************************************************)
(* The connections a listening router makes out of OPEN segments: the side *)
(* that challenges and that answers pings.  States CHALLENGE, READY and    *)
(* ERROR of connection.js, and the router's two tables: _map, by id, and   *)
(* _addresses, by the address of the sender.                               *)
(*                                                                         *)
(* A segment the code drops changes nothing but its own delivery, so a     *)
(* drop (BUSY, screened out, established, wrong key) has no action: it is  *)
(* a segment that stays undelivered.                                       *)
(*                                                                         *)
(* The user's 'accept' listener is taken to add an 'error' listener to the *)
(* connection, as example.js does: without one emit('error') throws.       *)
(***************************************************************************)
EXTENDS Segments, FiniteSets, Limits

VARIABLES
    srvState,         \* _internalState of the connection with this id
    srvEstablished,   \* its _isEstablished
    srvPeer,          \* the initiator _setPeer stored, or None
    srvTimers,        \* states whose retry timer is armed
    map,              \* the ids in the router's _map
    addresses,        \* the router's _addresses: the id, or None
    accepts,          \* history: 'accept' events emitted for this id
    answered          \* history: the ping rounds this id has taken

responderVars == <<srvState, srvEstablished, srvPeer, srvTimers, map,
                   addresses, accepts, answered>>

ResponderStates == {"START", "CHALLENGE", "READY", "ERROR"}

ResponderTypeOK ==
    /\ srvState \in [ServerId -> ResponderStates]
    /\ srvEstablished \in [ServerId -> BOOLEAN]
    /\ srvPeer \in [ServerId -> Conn \cup {None}]
    /\ srvTimers \in [ServerId -> SUBSET {"READY"}]
    /\ map \in SUBSET ServerId
    /\ addresses \in [Address -> ServerId \cup {None}]
    /\ accepts \in [ServerId -> Nat]
    /\ answered \in [ServerId -> SUBSET Rand]

ResponderInit ==
    /\ srvState = [s \in ServerId |-> "START"]
    /\ srvEstablished = [s \in ServerId |-> FALSE]
    /\ srvPeer = [s \in ServerId |-> None]
    /\ srvTimers = [s \in ServerId |-> {}]
    /\ map = {}
    /\ addresses = [a \in Address |-> None]
    /\ accepts = [s \in ServerId |-> 0]
    /\ answered = [s \in ServerId |-> {}]
-----------------------------------------------------------------------------
\* Mutant of SrvMoveTo: READY does not start its timer.
SrvMoveToUnarmed(s, new) ==
    /\ srvState' = [srvState EXCEPT ![s] = new]
    /\ srvTimers' = [srvTimers EXCEPT ![s] = @ \ {srvState[s]}]

\* The _state setter, as in Initiator; of these states only READY has a timer.
SrvMoveTo(s, new) ==
    /\ srvState' = [srvState EXCEPT ![s] = new]
    /\ srvTimers' = [srvTimers EXCEPT
                       ![s] = (@ \ {srvState[s]}) \cup ({new} \cap {"READY"})]

\* Mutant of SrvFail: the connection forgets that it was established.
SrvFailForgets(s) ==
    /\ SrvMoveTo(s, "ERROR")
    /\ srvEstablished' = [srvEstablished EXCEPT ![s] = FALSE]
    /\ UNCHANGED <<srvPeer, map, addresses, accepts, answered>>

\* The default branch of READY: 'error' is emitted, and the entries in _map
\* and _addresses stay.
SrvFail(s) ==
    /\ SrvMoveTo(s, "ERROR")
    /\ UNCHANGED <<srvEstablished, srvPeer, map, addresses, accepts, answered>>

\* Mutants of NewId: the id may be taken; the table may be full.
NewIdUnchecked(s) == Cardinality(map) < MaxConnections

NewIdUnlimited(s) == s \notin map

\* _newId: an id that is in no use, while there is room.
NewId(s) ==
    /\ Cardinality(map) < MaxConnections
    /\ s \notin map

\* Mutant of TakeOpen: the peer is not stored.
TakeOpenKeepingPeer(s, m) ==
    /\ Deliver(m, {ChallengeSeg(s, m.from, m.from)})
    /\ UNCHANGED <<srvPeer, srvEstablished, accepts, answered>>

\* OPEN_RECV in CHALLENGE: the peer is overwritten, a CHALLENGE is sent.
TakeOpen(s, m) ==
    /\ srvPeer' = [srvPeer EXCEPT ![s] = m.from]
    /\ Deliver(m, {ChallengeSeg(s, m.from, m.from)})
    /\ UNCHANGED <<srvEstablished, accepts, answered>>

(***************************************************************************)
(* _processSegment on an OPEN from an address without a connection: a new  *)
(* id, a new connection in both tables, challenge(), then handleOpen.      *)
(***************************************************************************)
OpenNew(m, s) ==
    /\ m.type = "OPEN"
    /\ addresses[AddressOf[m.from]] = None
    /\ NewId(s)
    /\ map' = map \cup {s}
    /\ addresses' = [addresses EXCEPT ![AddressOf[m.from]] = s]
    /\ SrvMoveTo(s, "CHALLENGE")
    /\ TakeOpen(s, m)

\* Mutant of OpenAgain: an established connection takes the OPEN as well.
OpenAgainAnyTime(m, s) ==
    /\ m.type = "OPEN"
    /\ addresses[AddressOf[m.from]] = s
    /\ srvState[s] \in {"CHALLENGE", "READY"}
    /\ TakeOpen(s, m)
    /\ UNCHANGED <<srvState, srvTimers, map, addresses>>

\* _processSegment on an OPEN from an address whose connection, whoever
\* opened it, is not yet established.
OpenAgain(m, s) ==
    /\ m.type = "OPEN"
    /\ addresses[AddressOf[m.from]] = s
    /\ ~srvEstablished[s]
    /\ srvState[s] = "CHALLENGE"
    /\ TakeOpen(s, m)
    /\ UNCHANGED <<srvState, srvTimers, map, addresses>>

\* handleSegment on a PING: routed by id, opened with the peer's key.
ValidPing(m, s) ==
    /\ m.type = "PING"
    /\ m.to = s
    /\ s \in map
    /\ m.from = srvPeer[s]

\* _processPeerPing of the other side copies random and time, and _sendPing
\* returns them.
AnswerPing(m, s) ==
    /\ answered' = [answered EXCEPT ![s] = @ \cup {m.rand}]
    /\ Deliver(m, {PongSeg(s, srvPeer[s], m.rand)})
    /\ UNCHANGED <<srvPeer, map, addresses>>

\* Mutant of AcceptPing: READY, too, tells the user of every PING.
AcceptEveryPing(m, s) ==
    /\ ValidPing(m, s)
    /\ srvState[s] \in {"CHALLENGE", "READY"}
    /\ AnswerPing(m, s)
    /\ SrvMoveTo(s, "READY")
    /\ srvEstablished' = [srvEstablished EXCEPT ![s] = TRUE]
    /\ accepts' = [accepts EXCEPT ![s] = @ + 1]

\* PING_RECV in CHALLENGE: enter() of READY tells the user.
AcceptPing(m, s) ==
    /\ ValidPing(m, s)
    /\ srvState[s] = "CHALLENGE"
    /\ AnswerPing(m, s)
    /\ SrvMoveTo(s, "READY")
    /\ srvEstablished' = [srvEstablished EXCEPT ![s] = TRUE]
    /\ accepts' = [accepts EXCEPT ![s] = @ + 1]

\* PING_RECV in READY: the timer is stopped and started again.
RepeatPing(m, s) ==
    /\ ValidPing(m, s)
    /\ srvState[s] = "READY"
    /\ AnswerPing(m, s)
    /\ UNCHANGED <<srvState, srvEstablished, srvTimers, accepts>>

\* No PING in time: READY takes the default branch on PING_LATE.
ReadyTimeout(s) ==
    /\ "READY" \in srvTimers[s]
    /\ SrvFail(s)
    /\ UNCHANGED net

\* The user, who got the connection with 'accept', calls kill().
KillResponder(s) ==
    /\ accepts[s] > 0
    /\ srvState[s] = "READY"
    /\ SrvFail(s)
    /\ UNCHANGED net
-----------------------------------------------------------------------------
ResponderNext ==
    \/ \E s \in ServerId :
        \/ ReadyTimeout(s)
        \/ KillResponder(s)
    \/ \E m \in net, s \in ServerId :
        \/ OpenNew(m, s)
        \/ OpenAgain(m, s)
        \/ AcceptPing(m, s)
        \/ RepeatPing(m, s)
=============================================================================
