------------------------- MODULE HandshakeInvariant -------------------------
(***************************************************************************)
(* The inductive invariant of Handshake: what every segment in flight says *)
(* about the tables of the two sides, and what these say about each other. *)
(***************************************************************************)
EXTENDS Handshake

\* An id in START has not been drawn yet; one in CHALLENGE is half-open.
ResponderStages ==
    \A s \in ServerId :
        /\ s \in map <=> srvState[s] # "START"
        /\ srvEstablished[s] <=> srvState[s] \in {"READY", "ERROR"}
        /\ accepts[s] = (IF srvEstablished[s] THEN 1 ELSE 0)
        /\ s \in map => srvPeer[s] # None

\* A connection pings only a peer it has, and is known to its router's user
\* only through mkConnection.
InitiatorStages ==
    \A c \in Conn :
        /\ promise[c] = "none" => state[c] = "START" /\ ~registered[c]
        /\ registered[c] => state[c] # "START"
        /\ state[c] \in {"PING", "READY_PING"} =>
               peer[c] # None /\ pingRound[c] > 0
        /\ state[c] \in {"START", "OPEN"} =>
               ~isEstablished[c] /\ pingRound[c] = 0 /\ peer[c] = None
        /\ peer[c] # None => peer[c] \in map

\* Every segment was sent by the connection it names, at a stage that sends
\* it, and a connection that has sent a PING does not change its peer.
SegmentsTrue ==
    \A m \in net :
        /\ m.type \in {"OPEN", "PING"} => promise[m.from] # "none"
        /\ m.type = "CHALLENGE" => m.from \in map
        /\ m.type = "PING" => peer[m.from] = m.to /\ m.rand[1] = m.from
        /\ m.type = "PONG" =>
               /\ peer[m.to] = m.from
               /\ m.rand \in answered[m.from]

\* A responder takes PINGs of one initiator only, and is established by the
\* first.
AnsweredByPeer ==
    \A s \in ServerId :
        /\ \A r \in answered[s] : srvEstablished[s] /\ r[1] = srvPeer[s]
        /\ srvPeer[s] # None => promise[srvPeer[s]] # "none"

\* The running retry algorithm has sent once, and not more than its limit.
TriesBounded ==
    \A c \in Conn :
        /\ state[c] = "OPEN" => tries[c] \in 1 .. OpenTries
        /\ state[c] = "PING" => tries[c] \in 1 .. PingTries

(***************************************************************************)
(* Inductive: it holds initially and every step keeps it.  It is what      *)
(* ConnectedImpliesAccepted, TablesAgree, AliveIsFresh and KeysBeforePing  *)
(* rest on.                                                                *)
(***************************************************************************)
IndInv ==
    /\ TypeOK
    /\ ResponderStages
    /\ InitiatorStages
    /\ SegmentsTrue
    /\ AnsweredByPeer
    /\ ConnectedImpliesAccepted
    /\ TablesAgree /\ IsFiniteSet(map)
    /\ AliveIsFresh
    /\ TimersMatchState
    /\ TriesBounded
=============================================================================
