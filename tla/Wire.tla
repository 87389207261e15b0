-------------------------------- MODULE Wire --------------------------------
(***************************************************************************)
(* The variable-length integers of protocol.js, and where mkOpen puts the  *)
(* parts of an OPEN segment and unOpen looks for them.  Octets are         *)
(* integers, a buffer is what follows the fixed head of the segment.       *)
(***************************************************************************)
EXTENDS Integers, Sequences

CONSTANTS
    HeadLen,  \* PREFIX + VERSION: what precedes the length of the route
    BodyLen   \* OPEN_DATA + SEAL_PADDING + SIGN_PADDING: what follows the route

\* A number that fits an Int32: what the operators << and >> work on.
Int32 == {n \in Nat : n <= 2147483647}

\* What a bit of the i-th octet weighs: 2 ^ (7 * (i - 1)).
Weight == <<1, 128, 16384, 2097152, 268435456>>

\* 1 << (maxOctets * 7): with five octets the shift wraps at 32 bits.
Limit == <<128, 16384, 2097152, 268435456, 8>>

\* What is left of n after the i - 1 first octets.
Rest(n, i) == n \div Weight[i]

\* The loop ends with the octet that leaves nothing.
LenVarInt(n) ==
    CHOOSE k \in 1 .. 5 : Rest(n, k) < 128 /\ \A i \in 1 .. k - 1 : Rest(n, i) >= 128

\* Seven bits, and a flag when more follow.
Octet(n, i) == IF Rest(n, i) >= 128 THEN 128 + (Rest(n, i) % 128) ELSE Rest(n, i)

\* The octets serializeVarInt writes; none, and 0, when n is negative or too
\* large.
SerializeVarInt(n, max) ==
    IF n < 0 \/ n >= Limit[max] THEN <<>>
    ELSE [i \in 1 .. LenVarInt(n) |-> Octet(n, i)]
-----------------------------------------------------------------------------
\* Beyond its end a buffer reads as undefined, which & makes 0.
At(buf, i) == IF i <= Len(buf) THEN buf[i] ELSE 0

\* The octet that parseVarInt stops at.
LastOctet(buf, max) ==
    CHOOSE k \in 1 .. max :
        /\ k = max \/ At(buf, k) < 128
        /\ \A i \in 1 .. k - 1 : At(buf, i) >= 128

\* What the i-th of k octets adds.
Adds(buf, k, i) == IF i <= k THEN (At(buf, i) % 128) * Weight[i] ELSE 0

\* parseVarInt, of at most four octets.
ParseVarInt(buf, max) ==
    LET k == LastOctet(buf, max)
    IN  IF At(buf, k) >= 128
        THEN [len |-> -1, octets |-> 0]
        ELSE [len |-> Adds(buf, k, 1) + Adds(buf, k, 2)
                        + Adds(buf, k, 3) + Adds(buf, k, 4),
              octets |-> k]
-----------------------------------------------------------------------------
\* lenOpen: the size of the buffer for an OPEN with a route of r octets.
LenOpen(r) == HeadLen + LenVarInt(r) + r + BodyLen

\* mkOpen writes the length of the route, one octet for no route.
RouteField(r) == IF r = 0 THEN <<0>> ELSE SerializeVarInt(r, 4)

\* Where mkOpen begins to write what it seals and signs.
SealedAt(r) == HeadLen + Len(RouteField(r)) + r

(***************************************************************************)
(* unOpen on a segment of size octets, which has buf after its head: the   *)
(* checks of the lengths, where it looks for what is sealed, and the       *)
(* bounds of the slice it takes for the route.                             *)
(***************************************************************************)
UnOpen(size, buf) ==
    LET p == ParseVarInt(buf, 4)
        from == HeadLen + p.octets
    IN  [ok |-> from + p.len <= size /\ BodyLen = size - (from + p.len),
         sealedAt |-> from + p.len,
         routeFrom |-> from,
         routeTo |-> p.len]
=============================================================================
