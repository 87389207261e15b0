-------------------------- MODULE KeepAliveProofs --------------------------
(***************************************************************************)
(* Proofs about KeepAlive, for any Rtt up to PingMax and any network whose *)
(* transits are shorter than PingMax.                                      *)
(***************************************************************************)
EXTENDS KeepAlive, TLAPS

-----------------------------------------------------------------------------
(***************************************************************************)
(* The retry algorithm.                                                    *)
(***************************************************************************)
LEMMA StretchBounds ==
  \A t \in Nat : Stretch(t) \in Nat /\ t <= Stretch(t) /\ Stretch(t) <= 2 * t
  BY DEF Stretch

LEMMA StartIsRetry == \A rtt \in Nat : RetryStart(rtt) \in Retry
  BY DEF RetryStart, Retry

LEMMA ClearedIsRetry == Cleared \in Retry
  BY DEF Cleared, Retry

LEMMA AgainIsRetry ==
  ASSUME NEW r \in Retry
  PROVE  /\ RetryAgain(r) \in Retry
         /\ RetryAgain(r).total = r.total + r.gap
         /\ RetryAgain(r).left = RetryAgain(r).gap
         /\ r.gap <= RetryAgain(r).gap
         /\ RetryAgain(r).gap <= 2 * r.gap
         /\ r.count # 2 => RetryAgain(r).gap = r.gap
<1> DEFINE gap == IF r.count = 2 THEN Stretch(r.gap) ELSE r.gap
           count == IF r.count = 2 THEN 0 ELSE r.count + 1
<1>1. r.gap \in Nat /\ r.total \in Nat /\ r.count \in 0 .. 2
  BY DEF Retry
<1>2. /\ gap \in Nat /\ r.gap <= gap /\ gap <= 2 * r.gap
      /\ r.count # 2 => gap = r.gap
  BY <1>1, StretchBounds
<1>3. count \in 0 .. 2
  BY <1>1
<1>4. RetryAgain(r) = [count |-> count, gap |-> gap,
                       total |-> r.total + r.gap, left |-> gap]
  BY DEF RetryAgain
<1> HIDE DEF gap, count
<1> QED BY <1>1, <1>2, <1>3, <1>4 DEF Retry

(***************************************************************************)
(* Sending.                                                                *)
(***************************************************************************)
LEMMA SentOne ==
  ASSUME KeepAliveTypeOK, NEW kind \in {"ping", "pong"}, NEW fresh \in BOOLEAN,
         NEW s \in Sent(kind, fresh)
  PROVE  /\ s \subseteq Datagram
         /\ \A m \in s : m.kind = kind /\ m.left \in Nat /\ m.left <= transit
         /\ \A m, n \in s : m = n
<1>1. transit \in Nat /\ Transits \subseteq Nat
  BY KeepAliveAssumption DEF KeepAliveTypeOK
<1>2. CASE s = {}
  BY <1>2
<1>3. CASE s # {}
  <2>1. PICK t \in Transits :
            /\ t <= transit
            /\ s = {[kind |-> kind, fresh |-> fresh, left |-> t]}
    BY <1>3 DEF Sent
  <2>2. [kind |-> kind, fresh |-> fresh, left |-> t] \in Datagram
    BY <1>1 DEF Datagram
  <2> QED BY <1>1, <2>1, <2>2
<1> QED BY <1>2, <1>3

\* Old datagrams differ from what they were in nothing but their age.
LEMMA OutdatedSame ==
  ASSUME KeepAliveTypeOK
  PROVE  /\ Outdated \subseteq Datagram
         /\ \A m \in Outdated : \E n \in net :
                m.kind = n.kind /\ m.left = n.left
         /\ net = {} => Outdated = {}
  BY DEF Outdated, KeepAliveTypeOK, Datagram

LEMMA InitKeepAliveInv == KeepAliveInit => KeepAliveInv
<1> SUFFICES ASSUME KeepAliveInit PROVE KeepAliveInv
  OBVIOUS
<1> USE KeepAliveAssumption
<1>1. pingTimer \in Retry /\ readyTimer \in Retry
  BY StartIsRetry, ClearedIsRetry DEF KeepAliveInit
<1>2. /\ net \subseteq Datagram /\ transit \in Nat
      /\ \A m \in net : m.kind = "ping" /\ m.left \in Nat /\ m.left <= transit
      /\ \A m, n \in net : m = n
  <2>1. transit \in Nat /\ net \in Sent("ping", TRUE)
    BY DEF KeepAliveInit
  <2>2. CASE net = {}
    BY <2>1, <2>2
  <2>3. CASE net # {}
    <3>1. PICK t \in Transits :
              t <= transit /\ net = {[kind |-> "ping", fresh |-> TRUE, left |-> t]}
      BY <2>1, <2>3 DEF Sent
    <3> QED BY <2>1, <3>1 DEF Datagram
  <2> QED BY <2>2, <2>3
<1>3. KeepAliveTypeOK
  BY <1>1, <1>2 DEF KeepAliveInit, KeepAliveTypeOK
<1>4. TimersBounded /\ ReadyWasRestarted /\ DeathClock
  BY <1>2 DEF KeepAliveInit, TimersBounded, ReadyWasRestarted, DeathClock,
              RetryStart
<1>5. OneAtATime
  BY <1>2 DEF KeepAliveInit, OneAtATime, RetryStart
<1> QED BY <1>3, <1>4, <1>5 DEF KeepAliveInv
-----------------------------------------------------------------------------
\* The numbers of a state.
LEMMA Numbers ==
  ASSUME KeepAliveTypeOK
  PROVE  /\ pingTimer.left \in Nat /\ pingTimer.gap \in Nat
         /\ pingTimer.total \in Nat /\ pingTimer.count \in 0 .. 2
         /\ readyTimer.left \in Nat /\ readyTimer.gap \in Nat
         /\ readyTimer.total \in Nat /\ readyTimer.count \in 0 .. 2
         /\ transit \in Nat /\ transit < PingMax /\ deadFor \in Nat
         /\ Rtt \in Nat /\ Rtt > 0 /\ PingMax \in Nat /\ Rtt <= PingMax
         /\ \A m \in net : m.kind \in {"ping", "pong"} /\ m.left \in Nat
  BY KeepAliveAssumption DEF KeepAliveTypeOK, Retry, Datagram

(***************************************************************************)
(* One lemma per action: it preserves the invariant.                       *)
(***************************************************************************)
LEMMA ResendPingInv ==
  ASSUME KeepAliveInv, ResendPing
  PROVE  KeepAliveInv'
<1> USE DEF KeepAliveInv
<1>1. PICK s \in Sent("ping", TRUE) : net' = net \cup s
  BY DEF ResendPing
<1>2. /\ pinger = "PING" /\ pinger' = "PING" /\ pingTimer.left = 0
      /\ pingTimer.total + pingTimer.gap <= PingMax
      /\ pingTimer' = RetryAgain(pingTimer)
      /\ UNCHANGED <<ponger, readyTimer, transit, deadFor>>
  BY Numbers DEF ResendPing, Expired
<1>3. /\ s \subseteq Datagram
      /\ \A m \in s : m.kind = "ping" /\ m.left \in Nat /\ m.left <= transit
      /\ \A m, n \in s : m = n
  BY SentOne
<1>4. /\ pingTimer' \in Retry
      /\ pingTimer'.total = pingTimer.total + pingTimer.gap
      /\ pingTimer'.left = pingTimer'.gap
      /\ pingTimer.gap <= pingTimer'.gap
      /\ pingTimer'.gap <= 2 * pingTimer.gap
      /\ pingTimer.count # 2 => pingTimer'.gap = pingTimer.gap
      /\ pingTimer'.gap \in Nat
  BY <1>2, AgainIsRetry DEF KeepAliveTypeOK, Retry
<1>5. KeepAliveTypeOK'
  BY <1>1, <1>2, <1>3, <1>4 DEF KeepAliveTypeOK
<1>6. PingAge' = PingAge /\ ReadyLeft' = ReadyLeft
  BY <1>2, <1>4, Numbers DEF PingAge, ReadyLeft
<1>7. TimersBounded'
  <2>1. pingTimer'.gap <= pingTimer'.total
    <3>1. CASE pingTimer.gap <= pingTimer.total
      BY <1>4, <3>1, Numbers
    <3>2. CASE pingTimer = [RetryStart(Rtt) EXCEPT !.left = pingTimer.left]
      <4>1. pingTimer.gap = Rtt /\ pingTimer.count = 1 /\ pingTimer.total = 0
        BY <3>2 DEF RetryStart
      <4> QED BY <1>4, <4>1, Numbers
    <3> QED BY <1>2, <3>1, <3>2 DEF TimersBounded
  <2> QED BY <1>1, <1>2, <1>3, <1>4, <2>1, Numbers DEF TimersBounded
<1>8. ReadyWasRestarted'
  BY <1>1, <1>2, <1>3, <1>6 DEF ReadyWasRestarted
<1>9. DeathClock'
  BY <1>1, <1>2, <1>3, <1>6 DEF DeathClock
<1>10. OneAtATime'
  <2> SUFFICES ASSUME 2 * transit < Rtt PROVE OneAtATime'
    BY <1>2 DEF OneAtATime
  <2>1. \A m \in net : FALSE
    BY <1>2, Numbers DEF OneAtATime, TimersBounded
  <2>2. net' = s
    BY <1>1, <2>1
  <2>3. \A m \in s : pingTimer'.gap - pingTimer'.left + m.left <= transit
    BY <1>3, <1>4, Numbers
  <2> QED BY <1>2, <1>3, <2>2, <2>3 DEF OneAtATime
<1> QED BY <1>5, <1>7, <1>8, <1>9, <1>10

LEMMA PingTimeoutInv ==
  ASSUME KeepAliveInv, PingTimeout
  PROVE  KeepAliveInv'
<1> USE DEF KeepAliveInv
<1>1. /\ pinger = "PING" /\ pinger' = "ERROR" /\ pingTimer' = Cleared
      /\ UNCHANGED <<ponger, readyTimer, net, transit, deadFor>>
  BY DEF PingTimeout
<1>2. KeepAliveTypeOK'
  BY <1>1, ClearedIsRetry DEF KeepAliveTypeOK
<1>3. TimersBounded' /\ ReadyWasRestarted' /\ OneAtATime'
  BY <1>1 DEF TimersBounded, ReadyWasRestarted, OneAtATime, ReadyLeft
<1>4. DeathClock'
  <2>1. ponger = "READY" => ReadyLeft <= 4 * PingMax
    BY Numbers DEF TimersBounded, ReadyLeft
  <2>2. ReadyLeft' = ReadyLeft /\ ReadyLeft \in Nat
    BY <1>1, Numbers DEF ReadyLeft
  <2> QED BY <1>1, <2>1, <2>2, Numbers DEF DeathClock, TimersBounded
<1> QED BY <1>2, <1>3, <1>4

LEMMA KillPingerInv ==
  ASSUME KeepAliveInv, KillPinger
  PROVE  KeepAliveInv'
<1> USE DEF KeepAliveInv
<1>1. /\ pinger # "ERROR" /\ pinger' = "ERROR" /\ pingTimer' = Cleared
      /\ UNCHANGED <<ponger, readyTimer, net, transit, deadFor>>
  BY DEF KillPinger
<1>2. KeepAliveTypeOK'
  BY <1>1, ClearedIsRetry DEF KeepAliveTypeOK
<1>3. TimersBounded' /\ ReadyWasRestarted' /\ OneAtATime'
  BY <1>1 DEF TimersBounded, ReadyWasRestarted, OneAtATime, ReadyLeft
<1>4. DeathClock'
  <2>1. ponger = "READY" => ReadyLeft <= 4 * PingMax
    BY Numbers DEF TimersBounded, ReadyLeft
  <2>2. ReadyLeft' = ReadyLeft /\ ReadyLeft \in Nat
    BY <1>1, Numbers DEF ReadyLeft
  <2> QED BY <1>1, <2>1, <2>2, Numbers DEF DeathClock, TimersBounded
<1> QED BY <1>2, <1>3, <1>4

\* READY_PING has waited for PingMax, which is past its limit.
LEMMA ReadyPingFiresInv ==
  ASSUME KeepAliveInv, ReadyPingFires
  PROVE  KeepAliveInv'
<1> USE DEF KeepAliveInv
<1>1. /\ pinger = "READY_PING" /\ pingTimer.left = 0
      /\ UNCHANGED <<ponger, readyTimer, transit, deadFor>>
  BY DEF ReadyPingFires
<1>2. pingTimer.total = 0 /\ pingTimer.gap = PingMax
  BY <1>1 DEF TimersBounded, RetryStart
<1>3. Expired(pingTimer, PingMax - 1)
  BY <1>2, Numbers DEF Expired
<1>4. pinger' = "PING" /\ pingTimer' = RetryStart(Rtt)
  BY <1>3 DEF ReadyPingFires
<1>5. PICK s \in Sent("ping", TRUE) : net' = Outdated \cup s
  BY <1>3 DEF ReadyPingFires
<1>6. /\ s \subseteq Datagram
      /\ \A m \in s : m.kind = "ping" /\ m.left \in Nat /\ m.left <= transit
      /\ \A m, n \in s : m = n
  BY SentOne
<1>7. \A m \in net' :
          \/ m.kind = "ping" /\ m.left \in Nat /\ m.left <= transit
          \/ \E n \in net : m.kind = n.kind /\ m.left = n.left
  BY <1>5, <1>6, OutdatedSame
<1>8. KeepAliveTypeOK'
  BY <1>1, <1>4, <1>5, <1>6, OutdatedSame, StartIsRetry, Numbers
  DEF KeepAliveTypeOK
<1>9. pingTimer'.total = 0 /\ pingTimer'.gap = Rtt /\ pingTimer'.left = Rtt
  BY <1>4 DEF RetryStart
<1>10. PingAge' = 0 /\ ReadyLeft' = ReadyLeft /\ ReadyLeft \in Nat
  BY <1>1, <1>9, Numbers DEF PingAge, ReadyLeft
<1>11. TimersBounded'
  <2>1. \A m \in net' : m.left <= transit'
    BY <1>1, <1>7 DEF TimersBounded
  <2>2. pingTimer' = [RetryStart(Rtt) EXCEPT !.left = pingTimer'.left]
    BY <1>4 DEF RetryStart
  <2> QED BY <1>1, <1>4, <1>9, <2>1, <2>2, Numbers DEF TimersBounded
<1>12. ReadyWasRestarted'
  BY <1>1, <1>4, <1>7, <1>10, Numbers DEF ReadyWasRestarted
<1>13. DeathClock'
  BY <1>1, <1>4, <1>7, <1>10, Numbers DEF DeathClock
<1>14. OneAtATime'
  <2> SUFFICES ASSUME 2 * transit < Rtt PROVE OneAtATime'
    BY <1>1 DEF OneAtATime
  <2>1. net' = s
    BY <1>1, <1>5, OutdatedSame DEF OneAtATime
  <2>2. \A m \in s : pingTimer'.gap - pingTimer'.left + m.left <= transit
    BY <1>6, <1>9, Numbers
  <2> QED BY <1>1, <1>4, <1>6, <2>1, <2>2 DEF OneAtATime
<1> QED BY <1>8, <1>11, <1>12, <1>13, <1>14

(***************************************************************************)
(* No retry algorithm with a limit of PingMax outlasts twice PingMax.      *)
(***************************************************************************)
LEMMA RoundIsShort ==
  ASSUME KeepAliveInv, pinger = "PING"
  PROVE  PingAge \in 0 .. 2 * PingMax
<1> USE DEF KeepAliveInv
<1>1. pingTimer.gap <= PingMax
  <2>1. CASE pingTimer.gap <= pingTimer.total
    BY <2>1, Numbers DEF TimersBounded
  <2>2. CASE pingTimer = [RetryStart(Rtt) EXCEPT !.left = pingTimer.left]
    <3>1. pingTimer.gap = Rtt
      BY <2>2 DEF RetryStart
    <3> QED BY <3>1, Numbers
  <2> QED BY <2>1, <2>2 DEF TimersBounded
<1> QED BY <1>1, Numbers DEF PingAge, TimersBounded

\* The first timeout finds the limit reached and not exceeded; the second is
\* 4 * PingMax after the PING, when the initiator has given up.
LEMMA ReadyFiresInv ==
  ASSUME KeepAliveInv, ReadyFires
  PROVE  /\ KeepAliveInv'
         /\ ponger' = "ERROR" => pinger = "ERROR"
<1> USE DEF KeepAliveInv
<1>1. /\ ponger = "READY" /\ readyTimer.left = 0
      /\ readyTimer.gap = 2 * PingMax
      /\ readyTimer.total \in {0, 2 * PingMax}
      /\ UNCHANGED <<pinger, pingTimer, net, transit, deadFor>>
  BY DEF ReadyFires, TimersBounded
<1>2. CASE readyTimer.total = 0
  <2>1. ~Expired(readyTimer, 2 * PingMax)
    BY <1>1, <1>2, Numbers DEF Expired
  <2>2. ponger' = "READY" /\ readyTimer' = RetryAgain(readyTimer)
    BY <1>1, <2>1 DEF ReadyFires
  <2>3. readyTimer.count # 2
    BY <1>1, <1>2 DEF TimersBounded
  <2>4. /\ readyTimer' \in Retry /\ readyTimer'.total = 2 * PingMax
        /\ readyTimer'.left = 2 * PingMax /\ readyTimer'.gap = 2 * PingMax
    BY <1>1, <1>2, <2>2, <2>3, AgainIsRetry, Numbers DEF KeepAliveTypeOK
  <2>5. ReadyLeft' = ReadyLeft /\ PingAge' = PingAge
    BY <1>1, <1>2, <2>4, Numbers DEF ReadyLeft, PingAge
  <2> QED
    BY <1>1, <2>2, <2>4, <2>5, Numbers
    DEF KeepAliveTypeOK, TimersBounded, ReadyWasRestarted, DeathClock,
        OneAtATime
<1>3. CASE readyTimer.total = 2 * PingMax
  <2>1. Expired(readyTimer, 2 * PingMax)
    BY <1>1, <1>3, Numbers DEF Expired
  <2>2. ponger' = "ERROR" /\ readyTimer' = Cleared
    BY <1>1, <2>1 DEF ReadyFires
  <2>3. ReadyLeft = 0
    BY <1>1, <1>3, Numbers DEF ReadyLeft
  <2>4. pinger # "PING"
    <3> SUFFICES ASSUME pinger = "PING" PROVE FALSE
      OBVIOUS
    <3>1. PingAge <= 2 * PingMax /\ PingAge \in Int
      BY RoundIsShort
    <3>2. PingAge + transit >= 3 * PingMax
      BY <1>1, <2>3, <3>1, Numbers DEF ReadyWasRestarted
    <3> QED BY <3>1, <3>2, Numbers
  <2>5. pinger # "READY_PING"
    BY <1>1, <2>3, Numbers DEF ReadyWasRestarted
  <2>6. pinger = "ERROR"
    BY <2>4, <2>5 DEF KeepAliveTypeOK
  <2> QED
    BY <1>1, <2>2, <2>6, ClearedIsRetry
    DEF KeepAliveTypeOK, TimersBounded, ReadyWasRestarted, DeathClock,
        OneAtATime
<1> QED BY <1>1, <1>2, <1>3

LEMMA KillPongerInv ==
  ASSUME KeepAliveInv, KillPonger
  PROVE  KeepAliveInv'
<1> USE DEF KeepAliveInv
<1>1. /\ ponger # "ERROR" /\ ponger' = "ERROR" /\ readyTimer' = Cleared
      /\ UNCHANGED <<pinger, pingTimer, net, transit, deadFor>>
  BY DEF KillPonger
<1>2. KeepAliveTypeOK'
  BY <1>1, ClearedIsRetry DEF KeepAliveTypeOK
<1>3. TimersBounded' /\ ReadyWasRestarted' /\ OneAtATime'
  BY <1>1 DEF TimersBounded, ReadyWasRestarted, OneAtATime
<1>4. DeathClock'
  <2>1. pinger = "PING" => PingAge >= 0
    BY Numbers DEF TimersBounded, PingAge
  <2>2. PingAge' = PingAge /\ PingAge \in Int
    BY <1>1, Numbers DEF PingAge
  <2> QED BY <1>1, <2>1, <2>2, Numbers DEF DeathClock, TimersBounded
<1> QED BY <1>2, <1>3, <1>4

\* An answered PING: READY has its whole time again.
LEMMA ReceivePingInv ==
  ASSUME KeepAliveInv, ReceivePing
  PROVE  KeepAliveInv'
<1> USE DEF KeepAliveInv
<1>1. PICK m \in Arrived("ping") :
          /\ ponger \in {"CHALLENGE", "READY"}
          /\ ponger' = "READY"
          /\ readyTimer' = RetryStart(2 * PingMax)
          /\ \E s \in Sent("pong", m.fresh) : net' = (net \ {m}) \cup s
          /\ UNCHANGED <<pinger, pingTimer, transit, deadFor>>
  BY DEF ReceivePing
<1>2. PICK s \in Sent("pong", m.fresh) : net' = (net \ {m}) \cup s
  BY <1>1
<1>3. m \in net /\ m.kind = "ping" /\ m.left = 0 /\ m.fresh \in BOOLEAN
  BY <1>1 DEF Arrived, KeepAliveTypeOK, Datagram
<1>4. /\ s \subseteq Datagram
      /\ \A n \in s : n.kind = "pong" /\ n.left \in Nat /\ n.left <= transit
      /\ \A n, o \in s : n = o
  BY <1>3, SentOne
<1>5. /\ readyTimer' \in Retry /\ readyTimer'.total = 0
      /\ readyTimer'.gap = 2 * PingMax /\ readyTimer'.left = 2 * PingMax
      /\ readyTimer'.count = 1
  BY <1>1, Numbers, StartIsRetry DEF RetryStart
<1>6. ReadyLeft' = 4 * PingMax /\ PingAge' = PingAge /\ PingAge \in Int
  BY <1>1, <1>5, Numbers DEF ReadyLeft, PingAge
<1>7. KeepAliveTypeOK'
  BY <1>1, <1>2, <1>4, <1>5 DEF KeepAliveTypeOK
<1>8. TimersBounded'
  BY <1>1, <1>2, <1>4, <1>5, Numbers DEF TimersBounded
<1>9. ReadyWasRestarted'
  <2>1. pinger = "PING" => PingAge >= 0
    BY Numbers DEF TimersBounded, PingAge
  <2>2. pinger = "READY_PING" => pingTimer.left <= PingMax
    BY DEF TimersBounded
  <2>3. \A n \in net' : n.left \in Nat /\ n.left <= transit
    BY <1>2, <1>4, Numbers DEF TimersBounded
  <2> QED BY <1>1, <1>6, <2>1, <2>2, <2>3, Numbers DEF ReadyWasRestarted
<1>10. DeathClock'
  <2>1. pinger = "ERROR" => deadFor <= transit
    BY <1>1, <1>3, Numbers DEF DeathClock
  <2>2. \A n \in net' : n.kind = "ping" => n \in net
    BY <1>2, <1>4
  <2> QED BY <1>1, <1>6, <2>1, <2>2, Numbers DEF DeathClock
<1>11. OneAtATime'
  <2> SUFFICES ASSUME 2 * transit < Rtt PROVE OneAtATime'
    BY <1>1 DEF OneAtATime
  <2>1. CASE pinger = "PING"
    <3>1. net = {m}
      BY <1>3, <2>1 DEF OneAtATime
    <3>2. net' = s
      BY <1>2, <3>1
    <3>3. pingTimer.gap - pingTimer.left <= transit
      BY <1>3, <2>1, Numbers DEF OneAtATime
    <3>4. \A n \in s : pingTimer.gap - pingTimer.left + n.left <= 2 * transit
      BY <1>4, <3>3, Numbers
    <3>5. \A n \in s : n.kind # "ping"
      BY <1>4
    <3> QED BY <1>1, <1>4, <2>1, <3>2, <3>4, <3>5 DEF OneAtATime
  <2>2. pinger # "READY_PING"
    BY <1>3 DEF OneAtATime
  <2> QED BY <1>1, <2>1, <2>2 DEF OneAtATime
<1> QED BY <1>7, <1>8, <1>9, <1>10, <1>11

\* The answer comes at most transit after the PING that READY began with.
LEMMA ReceivePongInv ==
  ASSUME KeepAliveInv, ReceivePong
  PROVE  KeepAliveInv'
<1> USE DEF KeepAliveInv
<1>1. PICK m \in Arrived("pong") :
          /\ pinger = "PING"
          /\ pinger' = "READY_PING"
          /\ pingTimer' = RetryStart(PingMax)
          /\ net' = net \ {m}
          /\ UNCHANGED <<ponger, readyTimer, transit, deadFor>>
  BY DEF ReceivePong
<1>2. m \in net /\ m.kind = "pong" /\ m.left = 0
  BY <1>1 DEF Arrived
<1>3. /\ pingTimer' \in Retry /\ pingTimer'.left = PingMax
      /\ pingTimer' = [RetryStart(PingMax) EXCEPT !.left = pingTimer'.left]
  BY <1>1, Numbers, StartIsRetry DEF RetryStart
<1>4. ReadyLeft' = ReadyLeft /\ ReadyLeft \in Nat
  BY <1>1, Numbers DEF ReadyLeft
<1>5. KeepAliveTypeOK'
  BY <1>1, <1>3 DEF KeepAliveTypeOK
<1>6. TimersBounded'
  BY <1>1, <1>3, Numbers DEF TimersBounded
<1>7. ReadyWasRestarted'
  BY <1>1, <1>2, <1>3, <1>4, Numbers DEF ReadyWasRestarted
<1>8. DeathClock'
  BY <1>1, <1>2, <1>3, <1>4, Numbers DEF DeathClock
<1>9. OneAtATime'
  BY <1>1, <1>2 DEF OneAtATime
<1> QED BY <1>5, <1>6, <1>7, <1>8, <1>9

LEMMA StrayPongInv ==
  ASSUME KeepAliveInv, StrayPong
  PROVE  KeepAliveInv'
<1> USE DEF KeepAliveInv
<1>1. /\ pinger = "READY_PING" /\ pinger' = "ERROR" /\ pingTimer' = Cleared
      /\ net' \subseteq net
      /\ UNCHANGED <<ponger, readyTimer, transit, deadFor>>
  BY DEF StrayPong
<1>2. KeepAliveTypeOK'
  BY <1>1, ClearedIsRetry DEF KeepAliveTypeOK
<1>3. TimersBounded' /\ ReadyWasRestarted' /\ OneAtATime'
  BY <1>1 DEF TimersBounded, ReadyWasRestarted, OneAtATime, ReadyLeft
<1>4. DeathClock'
  <2>1. ponger = "READY" => ReadyLeft <= 4 * PingMax
    BY Numbers DEF TimersBounded, ReadyLeft
  <2>2. ReadyLeft' = ReadyLeft /\ ReadyLeft \in Nat
    BY <1>1, Numbers DEF ReadyLeft
  <2> QED BY <1>1, <2>1, <2>2, Numbers DEF DeathClock, TimersBounded
<1> QED BY <1>2, <1>3, <1>4

LEMMA DropInv ==
  ASSUME KeepAliveInv, Drop
  PROVE  KeepAliveInv'
<1>1. /\ net' \subseteq net
      /\ UNCHANGED <<pinger, pingTimer, ponger, readyTimer, transit, deadFor>>
  BY DEF Drop
<1>2. ReadyLeft' = ReadyLeft /\ PingAge' = PingAge
  BY <1>1 DEF ReadyLeft, PingAge
<1> QED
  BY <1>1, <1>2
  DEF KeepAliveInv, KeepAliveTypeOK, TimersBounded, ReadyWasRestarted,
      DeathClock, OneAtATime

(***************************************************************************)
(* Time takes the same from every timer that is armed and every datagram   *)
(* on its way, and never more than they have left.                         *)
(***************************************************************************)
LEMMA LaterRetry ==
  ASSUME NEW r \in Retry, NEW d \in Nat, d <= r.left
  PROVE  /\ Later(r, d) \in Retry
         /\ Later(r, d) = [r EXCEPT !.left = r.left - d]
         /\ Later(r, d).left = r.left - d
         /\ Later(r, d).gap = r.gap
         /\ Later(r, d).total = r.total
         /\ Later(r, d).count = r.count
  BY DEF Later, Retry

LEMMA LaterDatagram ==
  ASSUME NEW m \in Datagram, NEW d \in Nat, d <= m.left
  PROVE  /\ Later(m, d) \in Datagram
         /\ Later(m, d).left = m.left - d
         /\ Later(m, d).kind = m.kind
  BY DEF Later, Datagram

LEMMA ElapseInv ==
  ASSUME KeepAliveInv, Elapse
  PROVE  KeepAliveInv'
<1> USE DEF KeepAliveInv
<1>1. PICK d \in Pending :
          /\ d > 0
          /\ \A t \in Pending : d <= t
          /\ pingTimer' = IF pinger = "ERROR" THEN pingTimer
                          ELSE Later(pingTimer, d)
          /\ readyTimer' = IF ponger = "READY" THEN Later(readyTimer, d)
                           ELSE readyTimer
          /\ net' = {Later(m, d) : m \in net}
          /\ deadFor' = IF pinger = "ERROR" \/ ponger = "ERROR"
                        THEN deadFor + d ELSE 0
          /\ UNCHANGED <<pinger, ponger, transit>>
  BY DEF Elapse
<1>2. d \in Nat
  BY Numbers DEF Pending
<1>3. \A m \in net : d <= m.left
  BY <1>1 DEF Pending
<1>4. pinger # "ERROR" =>
        /\ pingTimer' \in Retry
        /\ pingTimer' = [pingTimer EXCEPT !.left = pingTimer.left - d]
        /\ pingTimer'.left = pingTimer.left - d
        /\ pingTimer'.gap = pingTimer.gap
        /\ pingTimer'.total = pingTimer.total
  <2> SUFFICES ASSUME pinger # "ERROR"
               PROVE  d <= pingTimer.left /\ pingTimer' = Later(pingTimer, d)
    BY <1>2, LaterRetry DEF KeepAliveTypeOK
  <2> QED BY <1>1 DEF Pending
<1>5. ponger = "READY" =>
        /\ readyTimer' \in Retry
        /\ readyTimer'.left = readyTimer.left - d
        /\ readyTimer'.gap = readyTimer.gap
        /\ readyTimer'.total = readyTimer.total
        /\ readyTimer'.count = readyTimer.count
  <2> SUFFICES ASSUME ponger = "READY"
               PROVE  d <= readyTimer.left /\ readyTimer' = Later(readyTimer, d)
    BY <1>2, LaterRetry DEF KeepAliveTypeOK
  <2> QED BY <1>1 DEF Pending
<1>6. /\ net' \subseteq Datagram
      /\ \A n \in net' : \E m \in net :
            n.kind = m.kind /\ n.left = m.left - d
      /\ (\A m, n \in net : m = n) => \A m, n \in net' : m = n
      /\ net = {} => net' = {}
  <2>1. \A n \in net' : \E m \in net : n = Later(m, d)
    BY <1>1
  <2>2. \A m \in net : /\ Later(m, d) \in Datagram
                       /\ Later(m, d).left = m.left - d
                       /\ Later(m, d).kind = m.kind
    BY <1>2, <1>3, LaterDatagram DEF KeepAliveTypeOK
  <2> QED BY <2>1, <2>2
<1>7. deadFor' \in Nat /\ UNCHANGED <<pinger, ponger, transit>>
  BY <1>1, <1>2, Numbers
<1>8. KeepAliveTypeOK'
  BY <1>1, <1>4, <1>5, <1>6, <1>7 DEF KeepAliveTypeOK
<1>9. /\ pinger # "ERROR" => PingAge' = PingAge + d
      /\ ponger = "READY" => ReadyLeft' = ReadyLeft - d
      /\ PingAge \in Int /\ ReadyLeft \in Int
  BY <1>2, <1>4, <1>5, Numbers DEF PingAge, ReadyLeft
<1>10. TimersBounded'
  <2>1. pinger = "PING" =>
          /\ pingTimer'.left <= pingTimer'.gap
          /\ Rtt <= pingTimer'.gap
          /\ pingTimer'.total <= PingMax
          /\ \/ pingTimer'.gap <= pingTimer'.total
             \/ pingTimer' = [RetryStart(Rtt) EXCEPT !.left = pingTimer'.left]
    BY <1>2, <1>4, Numbers DEF TimersBounded, RetryStart
  <2>2. pinger = "READY_PING" =>
          /\ pingTimer' = [RetryStart(PingMax) EXCEPT !.left = pingTimer'.left]
          /\ pingTimer'.left <= PingMax
    BY <1>2, <1>4, Numbers DEF TimersBounded, RetryStart
  <2>3. ponger = "READY" =>
          /\ readyTimer'.gap = 2 * PingMax
          /\ readyTimer'.left <= 2 * PingMax
          /\ readyTimer'.total \in {0, 2 * PingMax}
          /\ readyTimer'.total = 0 => readyTimer'.count = 1
    BY <1>2, <1>5, Numbers DEF TimersBounded
  <2>4. \A m \in net' : m.left <= transit
    BY <1>2, <1>6, Numbers DEF TimersBounded
  <2> QED BY <1>7, <2>1, <2>2, <2>3, <2>4 DEF TimersBounded
<1>11. ReadyWasRestarted'
  BY <1>2, <1>4, <1>6, <1>7, <1>9, Numbers DEF ReadyWasRestarted
<1>12. DeathClock'
  BY <1>1, <1>2, <1>4, <1>6, <1>7, <1>9, Numbers DEF DeathClock
<1>13. OneAtATime'
  BY <1>2, <1>4, <1>6, <1>7, Numbers DEF OneAtATime
<1> QED BY <1>8, <1>10, <1>11, <1>12, <1>13
-----------------------------------------------------------------------------
LEMMA StutterKeepAlive ==
  ASSUME KeepAliveInv, UNCHANGED keepAliveVars
  PROVE  KeepAliveInv'
  BY DEF keepAliveVars, KeepAliveInv, KeepAliveTypeOK, TimersBounded,
         ReadyWasRestarted, DeathClock, OneAtATime, PingAge, ReadyLeft

LEMMA NextKeepAlive ==
  ASSUME KeepAliveInv, [KeepAliveNext]_keepAliveVars
  PROVE  KeepAliveInv'
  BY ResendPingInv, PingTimeoutInv, ReadyPingFiresInv, ReadyFiresInv,
     ReceivePingInv, ReceivePongInv, StrayPongInv, DropInv, KillPingerInv,
     KillPongerInv, ElapseInv, StutterKeepAlive
  DEF KeepAliveNext

\* The timers, the datagrams on their way and the ages of both fit together:
\* _startRetryAlgorithm as PING, READY and READY_PING use it.
THEOREM KeepAliveInvariance == KeepAliveSpec => []KeepAliveInv
<1>1. KeepAliveInit => KeepAliveInv
  BY InitKeepAliveInv
<1>2. KeepAliveInv /\ [KeepAliveNext]_keepAliveVars => KeepAliveInv'
  BY NextKeepAlive
<1> QED BY <1>1, <1>2, PTL DEF KeepAliveSpec

\* The variables of the two sides keep their types: every retry's count stays
\* below 3, and no timer runs below zero.
THEOREM KeepAliveTypes == KeepAliveSpec => []KeepAliveTypeOK
<1>1. KeepAliveInv => KeepAliveTypeOK
  BY DEF KeepAliveInv
<1> QED BY <1>1, KeepAliveInvariance, PTL

\* A dead peer is noticed: by the initiator within READY_PING's timeout and
\* one round of PINGs, by the responder within READY's timeout.
THEOREM DeadPeers == KeepAliveSpec => []DeathIsNoticed
<1>1. KeepAliveInv => DeathIsNoticed
  <2> SUFFICES ASSUME KeepAliveInv PROVE DeathIsNoticed
    OBVIOUS
  <2> USE DEF KeepAliveInv
  <2>1. ASSUME ponger = "ERROR", pinger = "PING"
        PROVE  deadFor <= transit + 3 * PingMax
    BY <2>1, RoundIsShort, Numbers DEF DeathClock
  <2>2. ASSUME ponger = "ERROR", pinger = "READY_PING"
        PROVE  deadFor <= transit + 3 * PingMax
    BY <2>2, Numbers DEF DeathClock
  <2>3. ASSUME pinger = "ERROR", ponger = "READY"
        PROVE  deadFor <= transit + 4 * PingMax
    <3>1. ReadyLeft \in Nat
      BY Numbers DEF ReadyLeft
    <3> QED BY <2>3, <3>1, Numbers DEF DeathClock
  <2> QED BY <2>1, <2>2, <2>3 DEF DeathIsNoticed, KeepAliveTypeOK
<1> QED BY <1>1, KeepAliveInvariance, PTL

\* The PINGs of a fast network never overtake one another, so READY_PING gets
\* no answer it does not expect.
THEOREM FastNetwork == KeepAliveSpec => []NoStrayPong
<1>1. KeepAliveInv => NoStrayPong
  BY DEF KeepAliveInv, OneAtATime, NoStrayPong
<1> QED BY <1>1, KeepAliveInvariance, PTL

\* READY's timeout does not end a connection whose initiator still hopes for
\* an answer, whatever is lost, as long as transits are shorter than PingMax.
THEOREM NoFalseAlarm == KeepAliveSpec => ReadyOutlivesPing
<1>1. KeepAliveInv
        => [ReadyFires /\ ponger' = "ERROR" => pinger = "ERROR"]_keepAliveVars
  BY ReadyFiresInv
<1> QED
  BY <1>1, KeepAliveInvariance, PTL DEF ReadyOutlivesPing
=============================================================================
