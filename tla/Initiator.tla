----------------------------- MODULE Initiator ------------------------------
(***************************************************************************)
(* A connection made by Router.mkConnection: the side that sends OPEN and  *)
(* that pings.  States START, OPEN, PING, READY_PING and ERROR of          *)
(* connection.js, the retry timers of each, and what the router that made  *)
(* the connection keeps about it.                                          *)
(***************************************************************************)
EXTENDS Segments, FiniteSets

CONSTANTS
    MaxOutgoing,  \* maxConnections of the initiators' routers
    OpenTries,    \* sends of one OPEN before _openMaxTimeout is exceeded
    PingTries     \* sends of one PING before _pingMaxTimeout is exceeded

ASSUME InitiatorAssumption ==
    /\ MaxOutgoing \in Nat
    /\ OpenTries \in Nat \ {0}
    /\ PingTries \in Nat \ {0}

VARIABLES
    state,          \* _internalState
    isEstablished,  \* _isEstablished
    peer,           \* what _setPeer stored: the responder, or None
    pingRound,      \* the round whose _pingRandom and _pingTime are current
    tries,          \* sends done by the running retry algorithm
    timers,         \* states whose retry timer is armed
    registered,     \* is the connection in its router's _map?
    promise         \* the promise mkConnection returned

initiatorVars == <<state, isEstablished, peer, pingRound, tries, timers,
                   registered, promise>>

InitiatorStates == {"START", "OPEN", "PING", "READY_PING", "ERROR"}

\* States whose enter() starts a retry algorithm and whose exit() stops it.
Timed == {"OPEN", "PING", "READY_PING"}

InitiatorTypeOK ==
    /\ state \in [Conn -> InitiatorStates]
    /\ isEstablished \in [Conn -> BOOLEAN]
    /\ peer \in [Conn -> ServerId \cup {None}]
    /\ pingRound \in [Conn -> 0 .. MaxRound]
    /\ tries \in [Conn -> Nat]
    /\ timers \in [Conn -> SUBSET Timed]
    /\ registered \in [Conn -> BOOLEAN]
    /\ promise \in [Conn -> {"none", "pending", "resolved", "rejected"}]

InitiatorInit ==
    /\ state = [c \in Conn |-> "START"]
    /\ isEstablished = [c \in Conn |-> FALSE]
    /\ peer = [c \in Conn |-> None]
    /\ pingRound = [c \in Conn |-> 0]
    /\ tries = [c \in Conn |-> 0]
    /\ timers = [c \in Conn |-> {}]
    /\ registered = [c \in Conn |-> FALSE]
    /\ promise = [c \in Conn |-> "none"]
-----------------------------------------------------------------------------
\* Mutant of MoveTo: exit() of the old state leaves its timer armed.
MoveToKeepingTimers(c, new) ==
    /\ state' = [state EXCEPT ![c] = new]
    /\ timers' = [timers EXCEPT ![c] = @ \cup ({new} \cap Timed)]

(***************************************************************************)
(* The _state setter: exit() of the old state clears its timer, enter() of *)
(* the new one arms its own.                                               *)
(***************************************************************************)
MoveTo(c, new) ==
    /\ state' = [state EXCEPT ![c] = new]
    /\ timers' = [timers EXCEPT
                    ![c] = (@ \ {state[c]}) \cup ({new} \cap Timed)]

Settle(c, outcome) ==
    promise' = [promise EXCEPT ![c] = IF @ = "pending" THEN outcome ELSE @]

(***************************************************************************)
(* The default branch of a state's transition(): emit 'error', whose       *)
(* listener takes the connection out of the router's map and rejects the   *)
(* promise, and go to ERROR.                                               *)
(***************************************************************************)
Fail(c) ==
    /\ MoveTo(c, "ERROR")
    /\ registered' = [registered EXCEPT ![c] = FALSE]
    /\ Settle(c, "rejected")
    /\ UNCHANGED <<isEstablished, peer, pingRound, tries>>

\* Mutant of MyRand: the random of the round before.
OldRand(c) == <<c, pingRound[c] - 1>>

\* _pingRandom and _pingTime of a connection that pings.
MyRand(c) == <<c, pingRound[c]>>

\* Connections that share the router of connection c.
SameRouter(c) == {d \in Conn : registered[d] /\ AddressOf[d] = AddressOf[c]}
-----------------------------------------------------------------------------
(***************************************************************************)
(* Router.mkConnection: _newId succeeds, the connection is registered, and *)
(* open() enters OPEN, which sends the first OPEN segment.                 *)
(***************************************************************************)
Connect(c) ==
    /\ promise[c] = "none"
    /\ Cardinality(SameRouter(c)) < MaxOutgoing
    /\ MoveTo(c, "OPEN")
    /\ registered' = [registered EXCEPT ![c] = TRUE]
    /\ promise' = [promise EXCEPT ![c] = "pending"]
    /\ tries' = [tries EXCEPT ![c] = 1]
    /\ Send({OpenSeg(c)})
    /\ UNCHANGED <<isEstablished, peer, pingRound>>

\* Router.mkConnection when _newId returns zero: the promise is rejected.
ConnectRefused(c) ==
    /\ promise[c] = "none"
    /\ Cardinality(SameRouter(c)) >= MaxOutgoing
    /\ promise' = [promise EXCEPT ![c] = "rejected"]
    /\ UNCHANGED <<state, isEstablished, peer, pingRound, tries, timers,
                   registered, net>>

\* Mutant of ResendOpen: the time spent is not added up.
ResendOpenUncounted(c) ==
    /\ "OPEN" \in timers[c]
    /\ tries[c] < OpenTries
    /\ Send({OpenSeg(c)})
    /\ UNCHANGED <<state, isEstablished, peer, pingRound, tries, timers,
                   registered, promise>>

\* The OPEN timer fires within the time limit: the saved OPEN is resent.
ResendOpen(c) ==
    /\ "OPEN" \in timers[c]
    /\ tries[c] < OpenTries
    /\ tries' = [tries EXCEPT ![c] = @ + 1]
    /\ Send({OpenSeg(c)})
    /\ UNCHANGED <<state, isEstablished, peer, pingRound, timers,
                   registered, promise>>

(***************************************************************************)
(* The OPEN timer fires past the limit.  OPEN handles OPEN_TIMEOUT by      *)
(* returning ERROR: no 'error' event, so the promise and the map are left  *)
(* as they are.                                                            *)
(***************************************************************************)
OpenTimeout(c) ==
    /\ "OPEN" \in timers[c]
    /\ tries[c] >= OpenTries
    /\ MoveTo(c, "ERROR")
    /\ UNCHANGED <<isEstablished, peer, pingRound, tries, registered,
                   promise, net>>

\* The checks of handleSegment on a CHALLENGE: routed by id, unsealed with
\* the connection's key, signed over the OPEN it saved, not yet established.
ValidChallenge(c, m) ==
    /\ m.type = "CHALLENGE"
    /\ m.to = c
    /\ m.open = c
    /\ registered[c]
    /\ ~isEstablished[c]

(***************************************************************************)
(* enter() of PING: a new random, a new time, and the first PING.          *)
(***************************************************************************)
StartPing(c) ==
    /\ MoveTo(c, "PING")
    /\ pingRound' = [pingRound EXCEPT ![c] = @ + 1]
    /\ tries' = [tries EXCEPT ![c] = 1]

\* CHALLENGE_RECV in OPEN.
ReceiveChallenge(c, m) ==
    /\ ValidChallenge(c, m)
    /\ state[c] = "OPEN"
    /\ pingRound[c] < MaxRound
    /\ peer' = [peer EXCEPT ![c] = m.from]
    /\ StartPing(c)
    /\ Deliver(m, {PingSeg(c, m.from, <<c, pingRound'[c]>>)})
    /\ UNCHANGED <<isEstablished, registered, promise>>

\* CHALLENGE_RECV in any other state takes the default branch.
UnexpectedChallenge(c, m) ==
    /\ ValidChallenge(c, m)
    /\ state[c] # "OPEN"
    /\ Fail(c)
    /\ Deliver(m, {})

\* handleSegment on a PING: routed by id, opened with the peer's key.
ValidPong(c, m) ==
    /\ m.type = "PONG"
    /\ m.to = c
    /\ registered[c]
    /\ m.from = peer[c]

\* Mutant of MatchesPing: any of its own rounds will do.
MatchesConn(c, m) == m.rand[1] = c

\* _processPeerPing of the pinger: time and random must be its own.
MatchesPing(c, m) == m.rand = MyRand(c)

\* PING_RECV in PING, the ping answered: enter() of READY_PING.
ReceivePong(c, m) ==
    /\ ValidPong(c, m)
    /\ state[c] = "PING"
    /\ MatchesPing(c, m)
    /\ MoveTo(c, "READY_PING")
    /\ isEstablished' = [isEstablished EXCEPT ![c] = TRUE]
    /\ Settle(c, "resolved")
    /\ Deliver(m, {})
    /\ UNCHANGED <<peer, pingRound, tries, registered>>

\* PING_RECV in any state but PING takes the default branch.
UnexpectedPong(c, m) ==
    /\ ValidPong(c, m)
    /\ state[c] # "PING"
    /\ Fail(c)
    /\ Deliver(m, {})

\* The PING timer fires within the time limit: a PING with the same random.
ResendPing(c) ==
    /\ "PING" \in timers[c]
    /\ tries[c] < PingTries
    /\ tries' = [tries EXCEPT ![c] = @ + 1]
    /\ Send({PingSeg(c, peer[c], MyRand(c))})
    /\ UNCHANGED <<state, isEstablished, peer, pingRound, timers,
                   registered, promise>>

\* Past the limit: PING does not handle PING_TIMEOUT, the default branch.
PingTimeout(c) ==
    /\ "PING" \in timers[c]
    /\ tries[c] >= PingTries
    /\ Fail(c)
    /\ UNCHANGED net

\* The READY_PING timer fires: PING_READY, a new round begins.
PingAgain(c) ==
    /\ "READY_PING" \in timers[c]
    /\ pingRound[c] < MaxRound
    /\ StartPing(c)
    /\ Send({PingSeg(c, peer[c], <<c, pingRound'[c]>>)})
    /\ UNCHANGED <<isEstablished, peer, registered, promise>>

\* The user, who got the connection from the promise, calls kill().
KillInitiator(c) ==
    /\ promise[c] = "resolved"
    /\ state[c] # "ERROR"
    /\ Fail(c)
    /\ UNCHANGED net
-----------------------------------------------------------------------------
InitiatorTimer(c) ==
    \/ ResendOpen(c)
    \/ OpenTimeout(c)
    \/ ResendPing(c)
    \/ PingTimeout(c)
    \/ PingAgain(c)

InitiatorNext ==
    \/ \E c \in Conn :
        \/ Connect(c)
        \/ ConnectRefused(c)
        \/ InitiatorTimer(c)
        \/ KillInitiator(c)
    \/ \E c \in Conn, m \in net :
        \/ ReceiveChallenge(c, m)
        \/ UnexpectedChallenge(c, m)
        \/ ReceivePong(c, m)
        \/ UnexpectedPong(c, m)
=============================================================================
