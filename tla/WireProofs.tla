----------------------------- MODULE WireProofs -----------------------------
(***************************************************************************)
(* What is parsed is what was serialized, for every number that is; and    *)
(* what unOpen reads of an OPEN is where mkOpen wrote it.                  *)
(***************************************************************************)
EXTENDS Wire, TLAPS

LEMMA Weights ==
  /\ Weight[1] = 1 /\ Weight[2] = 128 /\ Weight[3] = 16384
  /\ Weight[4] = 2097152 /\ Weight[5] = 268435456
  /\ Limit[1] = 128 /\ Limit[2] = 16384 /\ Limit[3] = 2097152
  /\ Limit[4] = 268435456
  BY SMT DEF Weight, Limit

\* What is left goes down with each octet, and five octets leave nothing.
LEMMA RestFalls ==
  ASSUME NEW n \in Int32
  PROVE  /\ \A i \in 1 .. 5 : Rest(n, i) \in Nat
         /\ Rest(n, 1) = n /\ Rest(n, 5) < 128
         /\ Rest(n, 1) >= Rest(n, 2) /\ Rest(n, 2) >= Rest(n, 3)
         /\ Rest(n, 3) >= Rest(n, 4) /\ Rest(n, 4) >= Rest(n, 5)
<1>1. Rest(n, 1) = n
  BY Weights, SMT DEF Rest, Int32
<1>2. /\ Rest(n, 2) = n \div 128 /\ Rest(n, 3) = n \div 16384
      /\ Rest(n, 4) = n \div 2097152 /\ Rest(n, 5) = n \div 268435456
  BY Weights, SMT DEF Rest
<1>3. /\ Rest(n, 1) \in Nat /\ Rest(n, 2) \in Nat /\ Rest(n, 3) \in Nat
      /\ Rest(n, 4) \in Nat /\ Rest(n, 5) \in Nat
  BY <1>1, <1>2, SMT DEF Int32
<1>4. Rest(n, 5) < 128
  BY <1>2, SMT DEF Int32
<1>5. /\ Rest(n, 1) >= Rest(n, 2) /\ Rest(n, 2) >= Rest(n, 3)
      /\ Rest(n, 3) >= Rest(n, 4) /\ Rest(n, 4) >= Rest(n, 5)
  BY <1>1, <1>2, SMT DEF Int32
<1> QED BY <1>1, <1>3, <1>4, <1>5

\* The number of octets is well defined.
LEMMA Octets ==
  ASSUME NEW n \in Int32
  PROVE  /\ LenVarInt(n) \in 1 .. 5
         /\ Rest(n, LenVarInt(n)) < 128
         /\ \A i \in 1 .. LenVarInt(n) - 1 : Rest(n, i) >= 128
<1>1. \E k \in 1 .. 5 : Rest(n, k) < 128 /\ \A i \in 1 .. k - 1 : Rest(n, i) >= 128
  <2>1. CASE Rest(n, 1) < 128
    BY <2>1
  <2>2. CASE Rest(n, 1) >= 128 /\ Rest(n, 2) < 128
    <3>1. \A i \in 1 .. 2 - 1 : Rest(n, i) >= 128
      BY <2>2
    <3> QED BY <2>2, <3>1
  <2>3. CASE Rest(n, 2) >= 128 /\ Rest(n, 3) < 128
    <3>1. \A i \in 1 .. 3 - 1 : i = 1 \/ i = 2
      OBVIOUS
    <3>2. \A i \in 1 .. 3 - 1 : Rest(n, i) >= 128
      BY <2>3, <3>1, RestFalls
    <3> QED BY <2>3, <3>2
  <2>4. CASE Rest(n, 3) >= 128 /\ Rest(n, 4) < 128
    <3>1. \A i \in 1 .. 4 - 1 : i = 1 \/ i = 2 \/ i = 3
      OBVIOUS
    <3>2. \A i \in 1 .. 4 - 1 : Rest(n, i) >= 128
      BY <2>4, <3>1, RestFalls
    <3> QED BY <2>4, <3>2
  <2>5. CASE Rest(n, 4) >= 128
    <3>1. \A i \in 1 .. 5 - 1 : i = 1 \/ i = 2 \/ i = 3 \/ i = 4
      OBVIOUS
    <3>2. \A i \in 1 .. 5 - 1 : Rest(n, i) >= 128
      BY <2>5, <3>1, RestFalls
    <3> QED BY <3>2, RestFalls
  <2> QED BY <2>1, <2>2, <2>3, <2>4, <2>5, RestFalls
<1> QED BY <1>1 DEF LenVarInt

\* A number below the limit takes no more than max octets.
LEMMA Fits ==
  ASSUME NEW max \in 1 .. 4, NEW n \in Int32, n < Limit[max]
  PROVE  LenVarInt(n) \in 1 .. max
<1>1. Rest(n, max) < 128
  <2>1. CASE max = 1
    BY <2>1, Weights, SMT DEF Rest, Int32
  <2>2. CASE max = 2
    BY <2>2, Weights, SMT DEF Rest, Int32
  <2>3. CASE max = 3
    BY <2>3, Weights, SMT DEF Rest, Int32
  <2>4. CASE max = 4
    BY <2>4, Weights, SMT DEF Rest, Int32
  <2> QED BY <2>1, <2>2, <2>3, <2>4
<1>2. ~(max \in 1 .. LenVarInt(n) - 1)
  BY <1>1, Octets, RestFalls
<1> QED BY <1>2, Octets
-----------------------------------------------------------------------------
\* A buffer that begins with the octets of n.
Begins(buf, n) ==
    /\ buf \in Seq(0 .. 255)
    /\ Len(buf) >= LenVarInt(n)
    /\ \A i \in 1 .. LenVarInt(n) : buf[i] = Octet(n, i)

LEMMA ElementOf ==
  ASSUME NEW S, NEW s \in Seq(S), NEW i \in 1 .. Len(s)
  PROVE  s[i] \in S /\ i <= Len(s)
  OBVIOUS

LEMMA OctetAt ==
  ASSUME NEW n \in Int32, NEW buf, Begins(buf, n), NEW i \in 1 .. LenVarInt(n)
  PROVE  At(buf, i) = Octet(n, i)
  BY Octets DEF Begins, At

\* The octet parsing stops at is the last that was written.
LEMMA StopsAtLast ==
  ASSUME NEW max \in 1 .. 4, NEW n \in Int32, n < Limit[max],
         NEW buf, Begins(buf, n)
  PROVE  LastOctet(buf, max) = LenVarInt(n)
<1> DEFINE k == LenVarInt(n)
<1> DEFINE Stops(j) == /\ j = max \/ At(buf, j) < 128
                       /\ \A i \in 1 .. j - 1 : At(buf, i) >= 128
<1>1. k \in 1 .. max
  BY Fits
<1>0. \A i \in 1 .. k : At(buf, i) \in 0 .. 255
  <2> TAKE i \in 1 .. k
  <2>1. i \in 1 .. Len(buf) /\ buf \in Seq(0 .. 255)
    BY <1>1 DEF Begins
  <2>2. buf[i] \in 0 .. 255 /\ i <= Len(buf)
    BY <2>1, ElementOf
  <2> QED BY <2>2 DEF At
<1>2. At(buf, k) < 128
  BY <1>1, OctetAt, Octets, RestFalls DEF Octet
<1>3. \A i \in 1 .. k - 1 : At(buf, i) >= 128
  <2> TAKE i \in 1 .. k - 1
  <2>1. i \in 1 .. k /\ i \in 1 .. 5
    BY <1>1
  <2>2. Rest(n, i) >= 128 /\ Rest(n, i) \in Nat
    BY <2>1, Octets, RestFalls
  <2> QED BY <2>1, <2>2, OctetAt DEF Octet
<1>4. Stops(k)
  BY <1>2, <1>3
<1>5. \A j \in 1 .. max : Stops(j) => j = k
  <2> SUFFICES ASSUME NEW j \in 1 .. max, Stops(j), j # k PROVE FALSE
    OBVIOUS
  <2>1. CASE j < k
    <3>1. j \in 1 .. k - 1 /\ j # max
      BY <1>1, <2>1
    <3>2. At(buf, j) >= 128 /\ At(buf, j) \in 0 .. 255
      BY <1>0, <1>1, <1>3, <3>1
    <3> QED BY <3>1, <3>2
  <2>2. CASE j > k
    <3>1. k \in 1 .. j - 1
      BY <1>1, <2>2
    <3>2. At(buf, k) >= 128 /\ At(buf, k) \in 0 .. 255
      BY <1>0, <1>1, <3>1
    <3> QED BY <1>2, <3>2
  <2> QED BY <1>1, <2>1, <2>2
<1> QED BY <1>1, <1>4, <1>5 DEF LastOctet

\* Seven bits of an octet, whether or not it has the flag.
LEMMA SevenBits ==
  ASSUME NEW n \in Int32, NEW i \in 1 .. 5
  PROVE  Octet(n, i) % 128 = Rest(n, i) % 128
<1>1. Rest(n, i) \in Nat
  BY RestFalls
<1>2. \A r \in Nat : (128 + (r % 128)) % 128 = r % 128
  BY SMT
<1> QED BY <1>1, <1>2 DEF Octet

\* The digits of n in base 128, of which the last is what is left.
LEMMA Digits ==
  ASSUME NEW n \in Nat
  PROVE  LET d1 == n % 128
             d2 == (n \div 128) % 128
             d3 == (n \div 16384) % 128
             d4 == (n \div 2097152) % 128
         IN  /\ n < 128 => n = d1
             /\ n \div 128 < 128 => n = d1 + d2 * 128
             /\ n \div 16384 < 128 => n = d1 + d2 * 128 + d3 * 16384
             /\ n \div 2097152 < 128
                   => n = d1 + d2 * 128 + d3 * 16384 + d4 * 2097152
  BY SMT

\* What the octets of a number add up to.
LEMMA SumsUp ==
  ASSUME NEW max \in 1 .. 4, NEW n \in Int32, n < Limit[max],
         NEW buf, Begins(buf, n), NEW k, k = LenVarInt(n)
  PROVE  Adds(buf, k, 1) + Adds(buf, k, 2) + Adds(buf, k, 3) + Adds(buf, k, 4)
            = n
<1>1. k \in 1 .. 4 /\ n \in Nat
  BY Fits, SMT DEF Int32
<1>2. Rest(n, k) < 128
  BY Octets
<1>3. \A i \in 1 .. k : Adds(buf, k, i) = (Rest(n, i) % 128) * Weight[i]
  <2> TAKE i \in 1 .. k
  <2>1. At(buf, i) % 128 = Rest(n, i) % 128
    BY <1>1, OctetAt, SevenBits
  <2> QED BY <1>1, <2>1 DEF Adds
<1>4. \A i \in 1 .. 4 : i > k => Adds(buf, k, i) = 0
  BY <1>1 DEF Adds
<1>5. /\ Rest(n, 1) = n /\ Rest(n, 2) = n \div 128
      /\ Rest(n, 3) = n \div 16384 /\ Rest(n, 4) = n \div 2097152
  BY RestFalls, Weights, SMT DEF Rest
<1>6. CASE k = 1
  <2>1. /\ Adds(buf, k, 1) = n % 128 /\ Adds(buf, k, 2) = 0
        /\ Adds(buf, k, 3) = 0 /\ Adds(buf, k, 4) = 0
    BY <1>1, <1>3, <1>4, <1>5, <1>6, Weights, SMT
  <2> QED BY <1>1, <1>2, <1>5, <1>6, <2>1, Digits, SMT
<1>7. CASE k = 2
  <2>1. /\ Adds(buf, k, 1) = n % 128
        /\ Adds(buf, k, 2) = ((n \div 128) % 128) * 128
        /\ Adds(buf, k, 3) = 0 /\ Adds(buf, k, 4) = 0
    BY <1>1, <1>3, <1>4, <1>5, <1>7, Weights, SMT
  <2> QED BY <1>1, <1>2, <1>5, <1>7, <2>1, Digits, SMT
<1>8. CASE k = 3
  <2>1. /\ Adds(buf, k, 1) = n % 128
        /\ Adds(buf, k, 2) = ((n \div 128) % 128) * 128
        /\ Adds(buf, k, 3) = ((n \div 16384) % 128) * 16384
        /\ Adds(buf, k, 4) = 0
    BY <1>1, <1>3, <1>4, <1>5, <1>8, Weights, SMT
  <2> QED BY <1>1, <1>2, <1>5, <1>8, <2>1, Digits, SMT
<1>9. CASE k = 4
  <2>1. /\ Adds(buf, k, 1) = n % 128
        /\ Adds(buf, k, 2) = ((n \div 128) % 128) * 128
        /\ Adds(buf, k, 3) = ((n \div 16384) % 128) * 16384
        /\ Adds(buf, k, 4) = ((n \div 2097152) % 128) * 2097152
    <3>1. \A i \in 1 .. 4 : Adds(buf, k, i) = (Rest(n, i) % 128) * Weight[i]
      BY <1>3, <1>9
    <3>2. Adds(buf, k, 1) = n % 128
      BY <1>1, <3>1, <1>5, Weights, SMT
    <3>3. Adds(buf, k, 2) = ((n \div 128) % 128) * 128
      BY <1>1, <3>1, <1>5, Weights, SMT
    <3>4. Adds(buf, k, 3) = ((n \div 16384) % 128) * 16384
      BY <1>1, <3>1, <1>5, Weights, SMT
    <3>5. Adds(buf, k, 4) = ((n \div 2097152) % 128) * 2097152
      BY <1>1, <3>1, <1>5, Weights, SMT
    <3> QED BY <3>2, <3>3, <3>4, <3>5
  <2> QED BY <1>1, <1>2, <1>5, <1>9, <2>1, Digits, SMT
<1> QED BY <1>1, <1>6, <1>7, <1>8, <1>9

(***************************************************************************)
(* parseVarInt of what serializeVarInt wrote, whatever follows it: the     *)
(* number, and how many octets it took.                                    *)
(***************************************************************************)
THEOREM RoundTrip ==
  ASSUME NEW max \in 1 .. 4, NEW n \in Int32, n < Limit[max],
         NEW buf, Begins(buf, n)
  PROVE  ParseVarInt(buf, max) = [len |-> n, octets |-> LenVarInt(n)]
<1> DEFINE k == LenVarInt(n)
<1>1. LastOctet(buf, max) = k
  BY StopsAtLast
<1>2. ~(At(buf, k) >= 128)
  <2>1. Rest(n, k) < 128 /\ Rest(n, k) \in Nat /\ k \in 1 .. k
    BY Octets, RestFalls
  <2> QED BY <2>1, OctetAt DEF Octet
<1>3. Adds(buf, k, 1) + Adds(buf, k, 2) + Adds(buf, k, 3) + Adds(buf, k, 4) = n
  BY SumsUp
<1> QED BY <1>1, <1>2, <1>3 DEF ParseVarInt

(***************************************************************************)
(* lenVarInt, by which lenOpen sizes the buffer, is the number of octets   *)
(* that serializeVarInt writes, and it is within the limit it was given.   *)
(***************************************************************************)
THEOREM WritesItsLength ==
  ASSUME NEW max \in 1 .. 4, NEW n \in Int32, n < Limit[max]
  PROVE  /\ Len(SerializeVarInt(n, max)) = LenVarInt(n)
         /\ LenVarInt(n) <= max
<1>1. LenVarInt(n) \in 1 .. max /\ LenVarInt(n) \in Nat
  BY Fits
<1>2. n \in Nat /\ Limit[max] \in Nat
  BY Weights, SMT DEF Int32
<1>3. SerializeVarInt(n, max) = [i \in 1 .. LenVarInt(n) |-> Octet(n, i)]
  BY <1>2, SMT DEF SerializeVarInt
<1> QED BY <1>1, <1>3
-----------------------------------------------------------------------------
\* A segment that mkOpen wrote for a route of r octets, after its head.
Written(buf, r) ==
    /\ buf \in Seq(0 .. 255)
    /\ Len(buf) >= Len(RouteField(r))
    /\ \A i \in 1 .. Len(RouteField(r)) : buf[i] = RouteField(r)[i]

\* No route takes the one octet that 0 takes.
LEMMA FieldLength ==
  ASSUME NEW r \in Int32, r < Limit[4]
  PROVE  /\ Len(RouteField(r)) = LenVarInt(r)
         /\ \A i \in 1 .. LenVarInt(r) : RouteField(r)[i] = Octet(r, i)
         /\ LenVarInt(r) \in 1 .. 4
<1>1. LenVarInt(r) \in 1 .. 4 /\ r \in Nat /\ Limit[4] \in Nat
  BY Fits, Weights, SMT DEF Int32
<1>2. CASE r = 0
  <2>1. Rest(r, 1) = 0
    BY <1>2, RestFalls
  <2>2. LenVarInt(r) = 1
    <3>1. ~(1 \in 1 .. LenVarInt(r) - 1)
      BY <2>1, Octets
    <3> QED BY <1>1, <3>1
  <2>3. RouteField(r) = <<0>> /\ Octet(r, 1) = 0
    BY <1>2, <2>1 DEF RouteField, Octet
  <2> QED BY <1>1, <2>2, <2>3
<1>3. CASE r # 0
  <2>1. RouteField(r) = [i \in 1 .. LenVarInt(r) |-> Octet(r, i)]
    BY <1>1, <1>3, SMT DEF RouteField, SerializeVarInt
  <2> QED BY <1>1, <2>1
<1> QED BY <1>2, <1>3

LEMMA WrittenBegins ==
  ASSUME NEW r \in Int32, r < Limit[4], NEW buf, Written(buf, r)
  PROVE  Begins(buf, r)
  BY FieldLength DEF Written, Begins

(***************************************************************************)
(* unOpen finds the lengths of an OPEN that mkOpen wrote in order, and     *)
(* looks for what is sealed where mkOpen put it, for every route that      *)
(* mkOpen takes; and mkOpen fills the buffer that lenOpen sized.           *)
(***************************************************************************)
THEOREM OpenIsRead ==
  ASSUME HeadLen \in Nat, BodyLen \in Nat,
         NEW r \in Int32, r < Limit[4], NEW buf, Written(buf, r)
  PROVE  /\ UnOpen(LenOpen(r), buf).ok
         /\ UnOpen(LenOpen(r), buf).sealedAt = SealedAt(r)
         /\ SealedAt(r) + BodyLen = LenOpen(r)
<1>0. PICK k : k = LenVarInt(r)
  OBVIOUS
<1>1. k \in 1 .. 4 /\ Len(RouteField(r)) = k /\ r \in Nat
  BY <1>0, FieldLength, SMT DEF Int32
<1>2. ParseVarInt(buf, 4) = [len |-> r, octets |-> k]
  BY <1>0, RoundTrip, WrittenBegins
<1>3. SealedAt(r) = HeadLen + k + r /\ LenOpen(r) = HeadLen + k + r + BodyLen
  BY <1>0, <1>1 DEF SealedAt, LenOpen
<1>4. ParseVarInt(buf, 4).len = r /\ ParseVarInt(buf, 4).octets = k
  BY <1>2
<1>5. UnOpen(LenOpen(r), buf).ok =
        (/\ HeadLen + k + r <= LenOpen(r)
         /\ BodyLen = LenOpen(r) - (HeadLen + k + r))
  BY <1>4, Zenon DEF UnOpen
<1>6. /\ HeadLen + k + r <= LenOpen(r)
      /\ BodyLen = LenOpen(r) - (HeadLen + k + r)
  BY <1>1, <1>3
<1>7. UnOpen(LenOpen(r), buf).ok
  BY <1>5, <1>6, Zenon
<1>8. UnOpen(LenOpen(r), buf).sealedAt = SealedAt(r)
  <2>1. UnOpen(LenOpen(r), buf).sealedAt = HeadLen + k + r
    BY <1>4, SMT DEF UnOpen
  <2> QED BY <1>3, <2>1
<1>9. SealedAt(r) + BodyLen = LenOpen(r)
  BY <1>1, <1>3
<1> QED BY <1>7, <1>8, <1>9

(***************************************************************************)
(* The route is another matter: unOpen takes slice(len, routeLen), whose   *)
(* second argument is an end.  Of a route that is not empty it never takes *)
(* as many octets as were written.                                         *)
(***************************************************************************)
THEOREM RouteIsCut ==
  ASSUME HeadLen \in Nat, BodyLen \in Nat,
         NEW r \in Int32, r < Limit[4], NEW buf, Written(buf, r), r > 0
  PROVE  LET open == UnOpen(LenOpen(r), buf)
         IN  open.routeTo - open.routeFrom < r
<1>0. PICK k : k = LenVarInt(r)
  OBVIOUS
<1>1. k \in 1 .. 4 /\ r \in Nat
  BY <1>0, FieldLength, SMT DEF Int32
<1>2. ParseVarInt(buf, 4) = [len |-> r, octets |-> k]
  BY <1>0, RoundTrip, WrittenBegins
<1>3. /\ UnOpen(LenOpen(r), buf).routeTo = r
      /\ UnOpen(LenOpen(r), buf).routeFrom = HeadLen + k
  BY <1>2 DEF UnOpen
<1>4. r - (HeadLen + k) < r
  BY <1>1
<1>5. UnOpen(LenOpen(r), buf).routeTo - UnOpen(LenOpen(r), buf).routeFrom
         = r - (HeadLen + k)
  BY <1>3
<1> QED BY <1>4, <1>5, Zenon
=============================================================================
