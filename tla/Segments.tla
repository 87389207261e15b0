------------------------------ MODULE Segments ------------------------------
(***************************************************************************)
(* The segments two peers exchange while they open and keep a connection,  *)
(* and the datagram network that carries them.                             *)
(*                                                                         *)
(* A segment is modelled by who made it and whom it is for.  Keys, nonce,  *)
(* id and timestamp of a connection are drawn once, when the connection    *)
(* object is made, so the connection itself stands for all of them: a seal *)
(* or a box opens exactly when the party named in it is the one expected.  *)
(* Sequence numbers are left out because no receiver looks at them         *)
(* (_checkSequence accepts every number).                                  *)
(***************************************************************************)
EXTENDS Naturals

CONSTANTS
    Conn,        \* connections made by Router.mkConnection (one per attempt)
    ServerId,    \* ids the listening router can draw for its own connections
    Address,     \* address:port pairs the initiators send from
    AddressOf,   \* the address a connection sends from
    None,        \* no connection, no id
    MaxRound,    \* bound: ping rounds one connection starts
    Duplicates   \* may the network deliver one datagram twice?

ASSUME SegmentsAssumption ==
    /\ None \notin Conn \cup ServerId
    /\ AddressOf \in [Conn -> Address]
    /\ MaxRound \in Nat \ {0}
    /\ Duplicates \in BOOLEAN

VARIABLE net     \* the datagrams in flight

(***************************************************************************)
(* The 24 random octets and the timestamp of one PING round: fresh in each *)
(* round of each connection, so the pair names them.                       *)
(***************************************************************************)
Rand == Conn \X (1 .. MaxRound)

\* mkOpen: sealed to the server's open key, saved and resent byte for byte.
OpenSeg(c) == [type |-> "OPEN", from |-> c]

(***************************************************************************)
(* mkChallenge: sealed to the key of connection c, and signed together     *)
(* with the bytes of the OPEN segment of connection d.                     *)
(***************************************************************************)
ChallengeSeg(s, c, d) ==
    [type |-> "CHALLENGE", from |-> s, to |-> c, open |-> d]

(***************************************************************************)
(* mkPing.  Both directions carry control PING; the initiator's is a PING  *)
(* here and the copy the responder sends back a PONG.                      *)
(***************************************************************************)
PingSeg(c, s, r) == [type |-> "PING", from |-> c, to |-> s, rand |-> r]

PongSeg(s, c, r) == [type |-> "PONG", from |-> s, to |-> c, rand |-> r]

Segment ==
    [type : {"OPEN"}, from : Conn]
    \cup [type : {"CHALLENGE"}, from : ServerId, to : Conn, open : Conn]
    \cup [type : {"PING"}, from : Conn, to : ServerId, rand : Rand]
    \cup [type : {"PONG"}, from : ServerId, to : Conn, rand : Rand]

NetInit == net = {}

(***************************************************************************)
(* UDP.  Nothing forces a delivery, so a datagram that is never delivered  *)
(* is a lost one, and datagrams overtake each other freely.                *)
(***************************************************************************)
Send(out) == net' = net \cup out

Deliver(m, out) ==
    net' = (IF Duplicates THEN net ELSE net \ {m}) \cup out
=============================================================================
