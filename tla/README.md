# TRiP, The River Protocol: verification

TRiP opens connections over datagrams: an OPEN segment, a CHALLENGE, and PINGs
that first establish the connection and then keep it.  The repository is a
JavaScript implementation for node.js (`src/src/*.js`).  These modules model
its connection state machines with their timing, its router, its client, and the
network between two of them; TLC checks them on small instances and TLAPS proves
the invariants, action properties and refinements for any number of connections.  Paths below are relative to the repository.

## 1. The system

| Part | Source | State | Operations | What makes it right |
|---|---|---|---|---|
| Connection, initiator | `src/connection.js` | `_internalState` (START, OPEN, PING, READY_PING, ERROR), `_isEstablished`, peer id/key/nonce, ping random and time, retry handle | `open`, `handleSegment` (CHALLENGE, PING), retry timers, `kill` | connected only to a responder that accepted it; alive only on a fresh answer; every attempt ends |
| Connection, responder | `src/connection.js` | `_internalState` (START, CHALLENGE, READY, ERROR), the same fields | `challenge`, `handleOpen`, `handleSegment` (PING), READY timer, `kill` | commits once, to one peer; no key is used before it is set; notices a peer that is gone |
| Router tables | `src/router.js` 351-609 | `_map` (id to connection), `_addresses` (source to connection) | `_processSegment`, `_newId`, `mkConnection`, `_delId` | the tables agree; at most `maxConnections` |
| Router life cycle | `src/router.js` 41-349, 611-788 | `_internalState` (START .. END, ERROR), three timeout handles, listeners on the socket | `start`, `stop`, socket events, timeouts, `setImmediate` | each state owns its timeout; 'stop' comes once and last; a stop ends |
| Segments | `src/protocol.js` | none | `mk*`, `un*`, variable-length integers | what is unpacked is what was packed |
| Socket | `src/socket.js` | `_isClosed` | `bind`, `close`, `send`, `mkKey` | one 'close' per socket |
| Retry timing | `src/connection.js` 545-797 | a timeout handle with its counter, gap and total | start, call, stop, for OPEN, PING, READY and READY_PING | the two sides' timeouts fire in the right order |
| Client, Server | `src/trip.js` | `_router`, `_isListening`, `_isClosed`, `_conn`, listeners on the router | `open`, `close`, `mkStream`, 'listen', 'stop', 'error' | 'open' once, then 'close' once, with the socket closed |
| Streams | `src/stream.js`, `connection.js` 1031-1083 | table of streams | `mkStream` | (a stub) |
| Crypto, log | `src/crypto.js`, `src/log.js` | none | wrappers | |

**Interaction.**  The user calls a Client or Server, which calls the Router.
The Router listens to the events of one socket, unseals OPEN segments itself
and hands the rest to the connection whose id they carry.  Connections send on
the socket directly, and report to the user, and to the router's `_map`, by
'connect', 'accept' and 'error' events.  Everything runs on one thread: a
handler runs to completion, so an action is a handler.  What interleaves is
datagrams, timers, immediates and calls of the user, and one user callback
(the screen callback) that runs in the middle of a handler.

**What is hard.**  The network loses, reorders and duplicates; segments are
resent while their answers are on the way; several attempts come from one
address; timers are armed and cleared by hand in `enter()` and `exit()`;
timeouts and immediates may find another state than the one that made them;
sockets say things after they were told to close.  `PROJECT.json` lists these
hazards, each at its line and with the property that covers it.

## 2. Modules

| Module | What it is |
|---|---|
| `Segments` | the segments and the datagram network |
| `Initiator` | a connection made by `Router.mkConnection`, one action per handler, timer or call |
| `Responder` | the connections a listening router makes, with `_map` and `_addresses` |
| `Handshake` | the two composed: `Spec`, `FairSpec`, the properties |
| `HandshakeInvariant` | the inductive invariant `IndInv` |
| `Session` | the abstract specification: attempts, slots, commit before connect |
| `MCHandshake` | instances for TLC |
| `HandshakeProofs`, `HandshakeRefinement` | the proofs |
| `Limits` | `MaxConnections`, the option `Responder` and `Router` share |
| `Router` | the router's life cycle, its socket and its timeouts |
| `Service` | the abstract specification of a router: it holds its port until 'stop' |
| `RouterProofs`, `RouterRefinement` | the proofs about both |
| `System` | `Handshake` and `Router` composed: a router, its socket and the connections in its map |
| `MCSystem` | its instance for TLC |
| `SystemProofs` | its proofs |
| `Wire` | the variable-length integers and the lengths of an OPEN |
| `WireProofs` | its proofs |
| `KeepAlive` | one connection's two sides with their timeouts in milliseconds |
| `KeepAliveProofs` | its proofs |
| `Client` | a client composed with the `Router` it owns |
| `ClientProofs` | its proofs |

**State.**  Connections that `mkConnection` makes are indexed by `Conn`, one
per attempt, and those of the listening router by the id it draws
(`ServerId`).  `state`/`srvState` are `_internalState`; `isEstablished`,
`peer`, `timers`, `tries` are the fields and the retry algorithm's count;
`registered` is membership in the initiating router's `_map`, `promise` what
`mkConnection` returned; `map` and `addresses` are the listening router's
tables.  `accepts`, `answered` and `stops` are history variables: they are only
written, and the properties read them.  In `Router`, `Expected` is the set of
`<<state, event, next>>` the `transition` functions name, `Otherwise` their
default branches, `Enter` the `_state` setter with `exit()` and `enter()`, and
`Fire` is `_transition`.  In `KeepAlive`, a record `Retry` is a running
`_startRetryAlgorithm`: the arguments of its next call and the time left until
then; `deadFor` is a history clock.  In `Client`, `attached` says that `_router`
is set and has the client's listeners, `promise` what became of the promise of
`mkConnection` and of its callbacks; `opens` and `closes` are history.

**Composition of client and router.**  The router emits its events inside its
own handlers, so what a client's listener does is part of the router's step:
`Heard(event)` is a step of `Router` conjoined with what the client does on the
'listen' or 'stop' it emits (`Hears` reads them off the change of `rstate`).
The callbacks of the promise run after the handler and before any other event:
`promise` is then "opening" or "rejecting", and `Quiet` keeps the rest waiting.
The user may call `close()` in the 'open' handler (`CloseInOpen`): it throws,
because the router has a connection, and the catch callback runs.

**Composition of router and connections.**  A segment that reaches the
responder in `Handshake` is a message of the socket in `Router`.  `System`
conjoins the two: `Opens` (`OpenNew` with `AcceptOpen`), for a new address, asks
for LISTEN and for room among the connections of both kinds, as `_newId` does;
`Handles` (`OpenAgain`, `AcceptPing` or `RepeatPing` with `SocketMessage`) asks
only for a state that calls `_processSegment` (`Routes`).  `MapCounted` says that
the counter `incoming` of `Router` is the size of the `map` of `Responder`.  The
timers of connections run whatever has become of their router (`ConnectionEnds`).
A `Server` adds nothing to this: its `start()` and `stop()` are the router's
(`UserActs`).  An exception in an event of the socket ends the process, so the
screen callback stops a router with an empty map only.

**Data.**  Keys, nonce, id and time of a connection are drawn when the object
is made, so the connection stands for them: a seal opens exactly when its
maker and its addressee are the ones expected.  The random of a PING is fresh
in each round, so `<<connection, round>>` stands for it.  Cryptography is
taken to be perfect.  Sequence numbers are left out because `_checkSequence`
accepts every number.  Durations are left out: a retry is counted (`tries`),
and a timeout fires once the count reaches its bound, in any order with
everything else.  `KeepAlive` is the other way round: it has the durations, and
one connection with perfect routing.

**Drops.**  A segment the code drops changes nothing but its delivery, and
delivery is never promised, so a dropped segment is one that stays in `net`.
`net` is a set: without duplication, two copies of one datagram in flight at
once count as one.  The safety run has duplication on, where this makes no
difference.

**Codec.**  `Wire` has no state and no run of its own: its theorems are proved,
and `CodecAssumption` in `MCHandshake` has TLC evaluate the same statements at
the boundaries of one to four octets when it starts on a handshake run.  The
division by a power of 128 is `>>`, and the limit of five octets has the value
that `1 << 35` has in 32 bits.

**External.**  UDP (`NetInit`, `Deliver`) is modelled from its use: no
delivery is promised, order is free, a datagram may come twice.

## 3. Runs

| Run | Specification and bounds | Checks |
|---|---|---|
| `handshake_safety` | three initiators, two at one address; two ids; two sends per segment, three ping rounds, duplicates | types, agreement, tables, no address with two live sessions, freshness, keys, timers, `IndInv`; `SessionIsStable`; `AttemptRunsDown`; `Handshake` implements `Session` |
| `handshake_live` | `FairSpec`; one slot at the responder, one attempt at a time per router, no duplicates | attempts end; each side notices the other's end; tables at their limit |
| `system` | `SystemFairSpec`; two initiators at two addresses, a router with room for two connections, its own included; one send per segment, two ping rounds, duplicates; two pending immediates | timeouts, socket, 'stop', `RouterInv`; `CloseIsAnswered`; it implements `Service`; a stop advances, and ends; `SystemInv`; no answer on a socket that is not open; the sessions of a router that has ended end |
| `keepalive` | `Rtt` 500, `PingMax` 5000 as in the code; networks with transits up to 100, 240 or 3000 ms, any loss | types, `KeepAliveInv`; a death is noticed in time; no stray answer on a fast network; READY outlives the PING round |
| `client` | one client and its router, `ClientFairSpec` | 'open' and 'close' once and in order; what 'close' means; `_conn` set only in between; a `close()` is answered |
| `open_replay`, `stray_pong`, `promise_pending`, `half_open`, `address_kept`, `end_is_quiet`, `client_close` | the smallest instance that shows it | one sentence of the documentation each, which the code does not keep: see section 6 |

**Why the bounds are enough.**  Two initiators at one address compete for one
connection of the responder, the third has another; two ids are as many as the
addresses can take (an address is never freed), and one fewer than the attempts.
Two sends per segment give a resent OPEN and a resent PING, each with both
answers in flight; the model does not tell a third from a second.  Three ping
rounds let an answer of the first arrive in the second and in the third.  In the
liveness run the responder has room for one connection while three attempts
want it.  `MaxRound` bounds the ping rounds of a connection (`ReceiveChallenge`
and `PingAgain` have the guard) and `MaxImmediates` the pending immediates
(`Stop` and `StopInScreen`): two let one stop overtake another's.
In `system` the interplay is the question, and resends are
not: two addresses and the router's own connections compete for the two places
of its map.  `keepalive` has the code's numbers.  240 ms is just short of a round trip of
`Rtt`, 3000 ms is well beyond it and still below `PingMax`, where several
resent PINGs and answers are on their way at once; which of the three a network
has is chosen at the start.  A client's router has room for one connection, as
`mkClient` sets it.
Symmetry (of the two initiators at one address, and of ids) is used in the
safety run only: that run has no liveness property.  Deadlock is not checked
in the handshake runs, because attempts are finitely many and a system in which
all have ended may stop; nor for a keep-alive whose two sides have ended, nor for a
client that has closed.  It is checked in `system`, where the user may always
call `stop()`.

**Fairness.**  `TimerFairness`: a timer of node.js that stays armed fires.
READY's timer is cleared and set by each PING, so its fairness only promises
that it fires or is restarted.  `RouterFairSpec`: timeouts and immediates
fire, and a closed socket says so in the end (node's dgram emits 'close' on the
next tick).  `SystemFairSpec` is the two together: the timers and immediates of
both, and the socket's 'close'.  `ClientFairSpec` has the same of the client's router, and that the
callbacks of a promise run and the user's 'open' handler returns.  `KeepAlive`
needs no fairness: its properties bound times, and time cannot pass an armed
timeout.  Nothing is asked of the network, of `bind()`
or of the user.  `DeadPeerNoticed` is checked without duplicates: a network that
replays an old PING for ever keeps a READY connection for ever, because READY
does not look at a PING's age.

## 4. Proofs

All for any sets of connections, ids and addresses and any bounds, from the
named assumptions of `Segments`, `Initiator`, `Limits`, `Router`,
`KeepAlive` (`Rtt` is at most `PingMax`, which every transit is shorter than)
and `Client` (room for one connection).

**Handshake.**  `IndInv` is `TypeOK` and what the properties need to be
inductive.  `ConnectedImpliesAccepted` alone is not: it needs to know that an
answer in flight was given by the responder it names (`SegmentsTrue`), that a
responder gives answers to one initiator only and is established by the first
(`AnsweredByPeer`), and that an initiator that has sent a PING does not change
its peer (`InitiatorStages`, with `ResponderStages` for the other side: only
`CHALLENGE` overwrites the peer, and `CHALLENGE` has accepted nobody).
`Invariance` has one lemma per group of actions.  `TypeCorrect`, `Agreement`,
`Freshness`, `Tables`, `Timers` and `Keys` follow; `Stability` is the action
property, from the same invariant.  `OneSession` is about sessions that are
alive on both sides (`Live`) and also needs the tables: each of their initiators
was accepted by its peer, a connection accepts once, and `addresses` is a
function, so different initiators are at different addresses; their peers are in
`map`, which makes them no more than `MaxConnections` (`FS_Injection`).  `RunsDown` is the safety half of `AttemptEnds`: `TimersLeft`
never grows and every timer lowers it, for which `TriesBounded` keeps the
counts in their ranges.  `Refinement` shows that each step is a step
of `Session` or a stutter: `AcceptPing` is `Commit`, `ReceivePong` is
`Establish`, any way to ERROR is `GiveUp` for an initiator and `End` for a
responder.  `Commit` asks that no slot that is alive has the same place; of a
slot that has ended `Session` promises nothing, since the protocol wants its
address freed (`AddressIsFreed`, which the code does not do).

**Router.**  `RouterInv` says where the socket is in each state, and that the
listeners are on exactly as long as 'stop' has not been emitted.  The second is
what makes 'stop' unique: END takes the listeners off, so only calls and
leftover timers reach the router afterwards.  `RouterTimers`, `Serving`,
`StoppedOnce` and `ClosesAreAnswered` follow from it.  `RouterIsService` maps
`rstate` to a phase and `sock` to a port held or free: `WhereFrom` reads the
table of the states by the state entered, and shows that only START takes the
port and only a 'close' event in STOP_NOTIFY or CLOSE leads to END, so that the
port is free when 'stop' is said.  `StopsAdvance` is the safety half of
`StopEnds`: `StagesLeft` never grows (`EventAdvances`: every entry of the table
of states leads on or stays), each timeout lowers it because a state's timeout
is armed only in the states that leave by it, and so does a 'close' of the socket
in the last three.

**System.**  `SystemStepIsHandshakeStep` and `SystemStepIsRouterStep`: a step of
the composition is a step of either part or leaves it alone.  So it implements
both (`RunsHandshake`, `RunsRouter`), and inherits what is proved of them:
`SystemIsSession`, `SystemIsService`, `SystemAdvances`, and the first two parts
of `SystemInv`.  New are `MapCounted` (`MapStep`: only `Opens` adds to either
side of the equation, and nothing takes away) and `AnswersOnOpenSocket`: which
events leave the socket open (`SocketOfEvent`, `SocketStep`), and that a
`stop()` from the screen callback, the one way to be in a serving state with a
closing socket, finds the map empty.  `Silence` follows: while the socket is not
open, LISTEN is excluded by `RouterInv` and a connection to serve by
`AnswersOnOpenSocket`.

**Keep-alive.**  No timeout counts what the other side does, so the argument is
about times.  A PING that arrives gives READY 4 * `PingMax`: its limit and its
first wait are both twice `PingMax`, and the limit must be exceeded.  The answer
takes at most one transit, READY_PING waits `PingMax`, and a round of PINGs ends
after at most twice `PingMax`, because no gap is longer than the time before it
(`TimersBounded`).  `ReadyWasRestarted` says what is left of READY's time in
each of these stages; that the next PING comes in time gives `NoFalseAlarm`, and
the same budget with the clock of a death (`DeathClock`) gives `DeadPeers`.
`OneAtATime`: with a round trip under `Rtt` at most one datagram is on its way,
younger than the last send, so the answer comes before the resend
(`FastNetwork`).

**Wire.**  `RoundTrip`: the octet that `parseVarInt` stops at is the last that
`serializeVarInt` wrote (`StopsAtLast`), because all before it have the flag and
it has not; the sum of what they add is the number (`Digits`).  From it,
`OpenIsRead` shows that `unOpen` accepts what `mkOpen` wrote, for every length
of a route that fits, and `RouteIsCut` that the route itself is read wrong: the
second argument of `slice` is an end, and the code gives it a length.

**Client.**  A client's step is a step of its router or leaves it alone, by the
way `Client` is composed (`ClientStepIsRouterStep`, `ClientRunsRouter`), so
`StepRouterInv` carries `RouterInv` over.  The rest of `ClientInv`
is what the client has heard: it needs that a router enters LISTEN only from
BIND and says 'stop' exactly on entering END (`StepMoves`), that 'open' is
emitted only while the router serves or winds up, and that the client has let go
of its router exactly when it has said 'close'.  `ClientIsService` and
`ClientAdvances` carry what is proved of any router over to a client's.

**Only model-checked.**  Everything under fairness (`AttemptEnds`,
`DeadPeerNoticed`, `StopEnds`, `SessionsEnd`, `CloseIsSaid`), which the prover
does not reach.  Of `AttemptEnds` and `StopEnds` the part that needs no fairness
is proved, as `AttemptRunsDown` and `StopAdvances`.

## 5. Not modelled, and why

- `Server.reset()`, which calls a method the router does not have, and `on()`
  and `off()` of a server or client, which do nothing after `start()` or `open()`.
- Timers that fire late, in `KeepAlive`: node.js promises no bound.  With a
  lateness the bounds grow by the delays in between; `ReadyOutlivesPing` has
  `PingMax` less one transit to spare.
- A client's router that fails after the client has let go of it: its 'error'
  has no listener, is thrown and ends the process, so there is no such step.
- Offsets and lengths (`protocol.js`) other than those in `Wire`: the modules
  abstract them to a segment that is well formed or not.
- Streams: a stream that writes calls `_streamSend`, which does not exist.
- The states NOTIFY, DISCONNECT and END of a connection: no code reaches them,
  and `Connection.close()` throws (it names an event that does not exist).
- DATA segments: nothing sends them.  A segment with an unknown control ends
  the process (`crit`).
- A CHALLENGE that cannot be opened makes `handleSegment` throw; the model
  drops it.
- `_signalStop` throws when there are connections, and so does `stop()`, after
  the state has changed.  The caller is taken to survive it.
- In `Router`, of the user's callbacks only the screen callback calls back, and
  only `stop()`, once; in `Client` only the 'open' handler does, with `close()`.
  Error listeners are taken to be there and not to call back.

## 6. What the violated properties show

- `OpenReplayHarmless`: an OPEN resent before its answer came is answered
  twice, and the second CHALLENGE ends the attempt in PING
  (`connection.js` 148; `PROTOCOL.md` 648).
- `AbnormalIsDropped`: a second answer to a resent PING ends a live connection
  (`connection.js` 203; `README.md` 129).
- `PromiseSettles`: an attempt whose OPENs time out emits no 'error', so its
  promise stays pending (`connection.js` 84; `router.js` 802).
- `HalfOpenIsClosed`: nothing closes a responder's connection that stays in
  CHALLENGE (`connection.js` 102; `PROTOCOL.md` 382).
- `AddressIsFreed`: the entry of an address outlives its connection, so once a
  session is over no other attempt from that address is served (`router.js` 423;
  `PROTOCOL.md` 301: "let a timeout cleanup the entry").
- `EndIsQuiet`: an immediate of STOP_NOTIFY survives it and takes a router from
  END to ERROR (`router.js` 729; 214 and 664).
- `SocketIsClosed`: a client closed while its router is in BIND says 'close';
  the router then binds, listens, and keeps its socket (`trip.js` 249; 238).

Two more that the models show and no run is needed for: a router ends with
connections in its map that nobody has closed (`router.js` 138, "hard drop"), and
in the handler of 'open' `mkStream` returns null (`trip.js` 151, against 108).

## 7. Plan

Done: the handshake with its abstract session, the router with its abstract
service, the two composed, the keep-alive with its durations, the client composed
with its router, the integers of the wire, and the proofs of each.  Left:
`Streams`, the table of `mkStream`, ids and their limit, once streams send.
