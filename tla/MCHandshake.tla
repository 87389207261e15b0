---------------------------- MODULE MCHandshake -----------------------------
(* Small instances of Handshake for TLC. *)
EXTENDS HandshakeInvariant, Integers, Sequences, TLC

CONSTANTS c1, c2, c3, s1, s2, a1, a2

\* c1 and c2 share an address: two attempts, or a client and its restart.
SharedAddress == (c1 :> a1) @@ (c2 :> a1)

\* c3 comes from an address of its own.
TwoAddresses == (c1 :> a1) @@ (c2 :> a1) @@ (c3 :> a2)

Symmetry == Permutations({c1, c2}) \cup Permutations({s1, s2})

(***************************************************************************)
(* The lengths of a segment do not change a state: TLC evaluates the codec *)
(* on numbers at its boundaries when it starts.  196 octets follow a route *)
(* (84, 48 and 64: OPEN_DATA, SEAL_PADDING, SIGN_PADDING).                 *)
(***************************************************************************)
Codec == INSTANCE Wire WITH HeadLen <- 11, BodyLen <- 196

Samples ==
    UNION {{n - 1, n, n + 1} : n \in {1, 128, 300, 16384, 2097152}}
       \cup {268435455}

ASSUME CodecAssumption ==
    /\ \A n \in Samples :
          LET octets == Codec!SerializeVarInt(n, 4)
              open == Codec!UnOpen(Codec!LenOpen(n), octets \o <<255, 0>>)
          IN  /\ Codec!ParseVarInt(octets \o <<255, 0>>, 4)
                    = [len |-> n, octets |-> Codec!LenVarInt(n)]
              /\ Len(octets) = Codec!LenVarInt(n)
              /\ open.ok
              /\ open.sealedAt = Codec!SealedAt(n)
    /\ \A n \in {-1, 268435456} : Codec!SerializeVarInt(n, 4) = <<>>
=============================================================================
