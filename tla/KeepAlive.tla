----------------------------- MODULE KeepAlive -----------------------------
(***************************************************************************)
(* How the two sides of a connection keep it alive: the PING rounds of the *)
(* initiator (the pinger) and the READY timeout of the responder (the      *)
(* ponger), with the durations of connection.js.  It starts when the       *)
(* initiator has its CHALLENGE and sends the first PING.                   *)
(*                                                                         *)
(* Times are in milliseconds; fractions are dropped.  Timers fire on time, *)
(* a datagram is lost or takes one of Transits, and time passes from one   *)
(* event to the next: nothing happens in between.                          *)
(***************************************************************************)
EXTENDS Integers

CONSTANTS
    Rtt,      \* _rttMs
    PingMax,  \* _pingMaxTimeout
    Transits  \* how long a datagram may be on its way

ASSUME KeepAliveAssumption ==
    /\ Rtt \in Nat \ {0}
    /\ PingMax \in Nat
    /\ Rtt <= PingMax
    /\ Transits \subseteq Nat
    /\ \A t \in Transits : t < PingMax

VARIABLES
    pinger,      \* _internalState of the initiator
    pingTimer,   \* its retry algorithm: PING's or READY_PING's
    ponger,      \* _internalState of the responder
    readyTimer,  \* its retry algorithm: READY's
    net,         \* datagrams on their way
    transit,     \* the longest transit of this network
    deadFor      \* history: the time since one of the two ended

keepAliveVars ==
    <<pinger, pingTimer, ponger, readyTimer, net, transit, deadFor>>
-----------------------------------------------------------------------------
(***************************************************************************)
(* The retry algorithm, as it stands while its timeout is armed: count and *)
(* gap are the arguments counter and timeoutMs of the coming call, total   *)
(* is totalTimeMs, left is the time until that call.                       *)
(***************************************************************************)
Retry == [count : 0 .. 2, gap : Nat, total : Nat, left : Nat]

Cleared == [count |-> 0, gap |-> 0, total |-> 0, left |-> 0]

\* The first call acts at once and waits for rtt.
RetryStart(rtt) == [count |-> 1, gap |-> rtt, total |-> 0, left |-> rtt]

\* Mutant of Expired: the limit is inclusive.
ExpiredInclusive(r, limit) == r.total + r.gap >= limit

\* The next call finds that more time has passed than the limit.
Expired(r, limit) == r.total + r.gap > limit

\* Mutant of Stretch: the gap is divided by the ratio.
StretchInverse(t) == (t * 1000) \div 1618

\* The golden ratio of the backoff.
Stretch(t) == (t * 1618) \div 1000

\* Mutant of RetryAgain: the counter is not set back.
RetryAgainNoReset(r) ==
    LET gap == IF r.count = 2 THEN Stretch(r.gap) ELSE r.gap
    IN  [count |-> r.count + 1,
         gap |-> gap, total |-> r.total + r.gap, left |-> gap]

\* Every third call stretches the gap.
RetryAgain(r) ==
    LET third == r.count = 2
        gap == IF third THEN Stretch(r.gap) ELSE r.gap
    IN  [count |-> IF third THEN 0 ELSE r.count + 1,
         gap |-> gap, total |-> r.total + r.gap, left |-> gap]
-----------------------------------------------------------------------------
(***************************************************************************)
(* A PING of the initiator, "ping", and its answer, "pong".  It is fresh   *)
(* while it carries the random of the present round.                       *)
(***************************************************************************)
Datagram == [kind : {"ping", "pong"}, fresh : BOOLEAN, left : Nat]

\* Sending loses the datagram, or puts it on its way.
Sent(kind, fresh) ==
    {{}} \cup {{[kind |-> kind, fresh |-> fresh, left |-> t]} :
                  t \in {t \in Transits : t <= transit}}

\* A new random makes the datagrams on their way old ones.
Outdated == {[m EXCEPT !.fresh = FALSE] : m \in net}

KeepAliveTypeOK ==
    /\ pinger \in {"PING", "READY_PING", "ERROR"}
    /\ pingTimer \in Retry
    /\ ponger \in {"CHALLENGE", "READY", "ERROR"}
    /\ readyTimer \in Retry
    /\ net \subseteq Datagram
    /\ transit \in Transits
    /\ deadFor \in Nat

KeepAliveInit ==
    /\ pinger = "PING"
    /\ pingTimer = RetryStart(Rtt)
    /\ ponger = "CHALLENGE"
    /\ readyTimer = Cleared
    /\ transit \in Transits
    /\ net \in Sent("ping", TRUE)
    /\ deadFor = 0
-----------------------------------------------------------------------------
\* PING's actionCb sends the same PING again.
ResendPing ==
    /\ pinger = "PING"
    /\ pingTimer.left = 0
    /\ ~Expired(pingTimer, PingMax)
    /\ pingTimer' = RetryAgain(pingTimer)
    /\ \E s \in Sent("ping", TRUE) : net' = net \cup s
    /\ UNCHANGED <<pinger, ponger, readyTimer, transit, deadFor>>

\* PING_TIMEOUT, which PING does not expect.
PingTimeout ==
    /\ pinger = "PING"
    /\ pingTimer.left = 0
    /\ Expired(pingTimer, PingMax)
    /\ pinger' = "ERROR"
    /\ pingTimer' = Cleared
    /\ UNCHANGED <<ponger, readyTimer, net, transit, deadFor>>

\* Mutant of ReadyPingFires: the limit is rtt itself.
ReadyPingFiresLate ==
    /\ pinger = "READY_PING"
    /\ pingTimer.left = 0
    /\ IF Expired(pingTimer, PingMax)
       THEN /\ pinger' = "PING"
            /\ pingTimer' = RetryStart(Rtt)
            /\ \E s \in Sent("ping", TRUE) : net' = Outdated \cup s
       ELSE /\ pingTimer' = RetryAgain(pingTimer)
            /\ UNCHANGED <<pinger, net>>
    /\ UNCHANGED <<ponger, readyTimer, transit, deadFor>>

(***************************************************************************)
(* READY_PING waits for rtt, one more than its limit, and sends the first  *)
(* PING of a new round.                                                    *)
(***************************************************************************)
ReadyPingFires ==
    /\ pinger = "READY_PING"
    /\ pingTimer.left = 0
    /\ IF Expired(pingTimer, PingMax - 1)
       THEN /\ pinger' = "PING"
            /\ pingTimer' = RetryStart(Rtt)
            /\ \E s \in Sent("ping", TRUE) : net' = Outdated \cup s
       ELSE /\ pingTimer' = RetryAgain(pingTimer)
            /\ UNCHANGED <<pinger, net>>
    /\ UNCHANGED <<ponger, readyTimer, transit, deadFor>>

(***************************************************************************)
(* READY does not expect PING_LATE.  Its limit is its rtt, which the first *)
(* timeout reaches and does not exceed: it waits twice.                    *)
(***************************************************************************)
ReadyFires ==
    /\ ponger = "READY"
    /\ readyTimer.left = 0
    /\ IF Expired(readyTimer, 2 * PingMax)
       THEN ponger' = "ERROR" /\ readyTimer' = Cleared
       ELSE readyTimer' = RetryAgain(readyTimer) /\ UNCHANGED ponger
    /\ UNCHANGED <<pinger, pingTimer, net, transit, deadFor>>

Arrived(kind) == {m \in net : m.kind = kind /\ m.left = 0}

\* Mutant of ReceivePing: READY's timer runs on.
ReceivePingTimerOn ==
    \E m \in Arrived("ping") :
        /\ ponger \in {"CHALLENGE", "READY"}
        /\ ponger' = "READY"
        /\ readyTimer' = IF ponger = "READY" THEN readyTimer
                         ELSE RetryStart(2 * PingMax)
        /\ \E s \in Sent("pong", m.fresh) : net' = (net \ {m}) \cup s
        /\ UNCHANGED <<pinger, pingTimer, transit, deadFor>>

\* A PING is answered, whatever its age, and starts READY's timer afresh.
ReceivePing ==
    \E m \in Arrived("ping") :
        /\ ponger \in {"CHALLENGE", "READY"}
        /\ ponger' = "READY"
        /\ readyTimer' = RetryStart(2 * PingMax)
        /\ \E s \in Sent("pong", m.fresh) : net' = (net \ {m}) \cup s
        /\ UNCHANGED <<pinger, pingTimer, transit, deadFor>>

\* The answer the present round waits for.
ReceivePong ==
    \E m \in Arrived("pong") :
        /\ pinger = "PING"
        /\ m.fresh
        /\ pinger' = "READY_PING"
        /\ pingTimer' = RetryStart(PingMax)
        /\ net' = net \ {m}
        /\ UNCHANGED <<ponger, readyTimer, transit, deadFor>>

\* READY_PING expects no answer, fresh or not.
StrayPong ==
    \E m \in Arrived("pong") :
        /\ pinger = "READY_PING"
        /\ pinger' = "ERROR"
        /\ pingTimer' = Cleared
        /\ net' = net \ {m}
        /\ UNCHANGED <<ponger, readyTimer, transit, deadFor>>

\* An answer of an earlier round, or nobody to hear.
Dropped(m) ==
    \/ m.kind = "ping" /\ ponger = "ERROR"
    \/ m.kind = "pong" /\ pinger = "PING" /\ ~m.fresh
    \/ m.kind = "pong" /\ pinger = "ERROR"

Drop ==
    \E m \in net :
        /\ m.left = 0
        /\ Dropped(m)
        /\ net' = net \ {m}
        /\ UNCHANGED <<pinger, pingTimer, ponger, readyTimer, transit, deadFor>>

\* kill(), or any event that ends a connection of its own.
KillPinger ==
    /\ pinger # "ERROR"
    /\ pinger' = "ERROR"
    /\ pingTimer' = Cleared
    /\ UNCHANGED <<ponger, readyTimer, net, transit, deadFor>>

KillPonger ==
    /\ ponger # "ERROR"
    /\ ponger' = "ERROR"
    /\ readyTimer' = Cleared
    /\ UNCHANGED <<pinger, pingTimer, net, transit, deadFor>>

\* What is to come: timeouts, while armed, and arrivals.
Pending ==
    {m.left : m \in net}
      \cup (IF pinger = "ERROR" THEN {} ELSE {pingTimer.left})
      \cup (IF ponger = "READY" THEN {readyTimer.left} ELSE {})

Later(r, d) == [r EXCEPT !.left = @ - d]

\* Time passes until the next of them.
Elapse ==
    \E d \in Pending :
        /\ d > 0
        /\ \A t \in Pending : d <= t
        /\ pingTimer' = IF pinger = "ERROR" THEN pingTimer
                        ELSE Later(pingTimer, d)
        /\ readyTimer' = IF ponger = "READY" THEN Later(readyTimer, d)
                         ELSE readyTimer
        /\ net' = {Later(m, d) : m \in net}
        /\ deadFor' = IF pinger = "ERROR" \/ ponger = "ERROR"
                      THEN deadFor + d ELSE 0
        /\ UNCHANGED <<pinger, ponger, transit>>
-----------------------------------------------------------------------------
KeepAliveNext ==
    \/ ResendPing
    \/ PingTimeout
    \/ ReadyPingFires
    \/ ReadyFires
    \/ ReceivePing
    \/ ReceivePong
    \/ StrayPong
    \/ Drop
    \/ KillPinger
    \/ KillPonger
    \/ Elapse

KeepAliveSpec == KeepAliveInit /\ [][KeepAliveNext]_keepAliveVars
-----------------------------------------------------------------------------
(***************************************************************************)
(* A responder's timeout gives up a connection only when the initiator has *)
(* done so: however many PINGs of a round are lost, and however late its   *)
(* answer, READY waits longer than the initiator hopes.                    *)
(***************************************************************************)
ReadyOutlivesPing ==
    [][ReadyFires /\ ponger' = "ERROR" => pinger = "ERROR"]_keepAliveVars

(***************************************************************************)
(* When one side has ended, the other hears of it by silence, in time: the *)
(* initiator by one READY_PING and one round of PINGs, the responder by    *)
(* READY's timeout, after what was still on its way.                       *)
(***************************************************************************)
DeathIsNoticed ==
    /\ ponger = "ERROR" /\ pinger # "ERROR"
           => deadFor <= transit + 3 * PingMax
    /\ pinger = "ERROR" /\ ponger = "READY"
           => deadFor <= transit + 4 * PingMax

(***************************************************************************)
(* On a network whose round trip is shorter than Rtt no second answer      *)
(* finds the initiator in READY_PING, where it would end the connection: a *)
(* PING is resent only when its answer can no longer come.                 *)
(***************************************************************************)
NoStrayPong ==
    2 * transit < Rtt /\ pinger = "READY_PING"
        => \A m \in net : m.kind # "pong"
-----------------------------------------------------------------------------
(***************************************************************************)
(* The inductive invariant.  PingAge is the age of the present round, and  *)
(* ReadyLeft the time until READY gives up.                                *)
(***************************************************************************)
PingAge == pingTimer.total + pingTimer.gap - pingTimer.left

ReadyLeft ==
    readyTimer.left + (IF readyTimer.total = 0 THEN 2 * PingMax ELSE 0)

\* No gap is longer than what has passed before it, or than Rtt: a round
\* takes at most twice PingMax.  READY waits for its limit, and then once more.
TimersBounded ==
    /\ pinger = "PING" =>
          /\ pingTimer.left <= pingTimer.gap
          /\ Rtt <= pingTimer.gap
          /\ pingTimer.total <= PingMax
          /\ \/ pingTimer.gap <= pingTimer.total
             \/ pingTimer = [RetryStart(Rtt) EXCEPT !.left = pingTimer.left]
    /\ pinger = "READY_PING" =>
          /\ pingTimer = [RetryStart(PingMax) EXCEPT !.left = pingTimer.left]
          /\ pingTimer.left <= PingMax
    /\ ponger = "READY" =>
          /\ readyTimer.gap = 2 * PingMax
          /\ readyTimer.left <= 2 * PingMax
          /\ readyTimer.total \in {0, 2 * PingMax}
          /\ readyTimer.total = 0 => readyTimer.count = 1
    /\ \A m \in net : m.left <= transit

\* READY was started afresh by the PING whose answer the initiator has, or
\* will have.
ReadyWasRestarted ==
    /\ ponger = "READY" =>
          /\ pinger = "PING" => ReadyLeft + PingAge + transit >= 3 * PingMax
          /\ pinger = "READY_PING" =>
                ReadyLeft + transit >= 3 * PingMax + pingTimer.left
          /\ \A m \in net : m.kind = "pong" =>
                ReadyLeft + transit >= 4 * PingMax + m.left
    /\ ponger = "CHALLENGE" =>
          pinger # "READY_PING" /\ \A m \in net : m.kind = "ping"

\* What the dead one sent arrives in time, and then the clock runs out.
DeathClock ==
    /\ pinger # "ERROR" /\ ponger # "ERROR" => deadFor = 0
    /\ pinger = "ERROR" /\ ponger # "ERROR" =>
          /\ \A m \in net : m.kind = "ping" => m.left + deadFor <= transit
          /\ ponger = "READY" => deadFor + ReadyLeft <= transit + 4 * PingMax
    /\ ponger = "ERROR" /\ pinger # "ERROR" =>
          /\ \A m \in net : m.kind = "pong" => m.left + deadFor <= transit
          /\ pinger = "PING" => deadFor <= transit + PingMax + PingAge
          /\ pinger = "READY_PING" =>
                deadFor + pingTimer.left <= transit + PingMax

\* On a fast network one datagram is on its way, younger than the last send.
OneAtATime ==
    2 * transit < Rtt =>
        /\ pinger = "PING" =>
              /\ \A m, n \in net : m = n
              /\ \A m \in net :
                    pingTimer.gap - pingTimer.left + m.left
                       <= IF m.kind = "ping" THEN transit ELSE 2 * transit
        /\ pinger = "READY_PING" => net = {}

KeepAliveInv ==
    /\ KeepAliveTypeOK
    /\ TimersBounded
    /\ ReadyWasRestarted
    /\ DeathClock
    /\ OneAtATime
=============================================================================
