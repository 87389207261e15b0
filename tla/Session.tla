------------------------------- MODULE Session -------------------------------
(***************************************************************************)
(* What opening a connection promises, without segments, keys, retries or  *)
(* timers.  An attempt is a call of Router.mkConnection; a slot is an      *)
(* incoming connection of the listening router.  A slot commits to one     *)
(* attempt, for good, before that attempt may count itself connected.  A   *)
(* slot may end (its side of the session is over), and of the slots that   *)
(* have not ended no two are committed to attempts from one place.  Of a   *)
(* place whose slot has ended nothing is promised, in either direction.    *)
(***************************************************************************)
CONSTANTS
    Attempt,   \* calls of mkConnection
    Slot,      \* incoming connections a router can hold
    Nobody,    \* no attempt
    PlaceOf    \* the address each attempt comes from

VARIABLES
    link,     \* how far each attempt has come
    owner,    \* the attempt a slot has committed to
    ended     \* the slots that are over

sessionVars == <<link, owner, ended>>

Phase == {"idle", "connecting", "connected", "failed"}

SessionTypeOK ==
    /\ link \in [Attempt -> Phase]
    /\ owner \in [Slot -> Attempt \cup {Nobody}]
    /\ ended \in SUBSET Slot

SessionInit ==
    /\ link = [c \in Attempt |-> "idle"]
    /\ owner = [s \in Slot |-> Nobody]
    /\ ended = {}

Dial(c) ==
    /\ link[c] = "idle"
    /\ link' = [link EXCEPT ![c] = "connecting"]
    /\ UNCHANGED <<owner, ended>>

\* A slot may commit to an attempt that has failed in the meantime.
Commit(s, c) ==
    /\ link[c] # "idle"
    /\ owner[s] = Nobody
    /\ s \notin ended
    /\ \A t \in Slot \ ended :
          owner[t] # Nobody => PlaceOf[owner[t]] # PlaceOf[c]
    /\ owner' = [owner EXCEPT ![s] = c]
    /\ UNCHANGED <<link, ended>>

\* A slot ends: its peer was not heard of in time, or its user kills it.
End(s) ==
    /\ s \notin ended
    /\ ended' = ended \cup {s}
    /\ UNCHANGED <<link, owner>>

Establish(c) ==
    /\ link[c] = "connecting"
    /\ \E s \in Slot : owner[s] = c
    /\ link' = [link EXCEPT ![c] = "connected"]
    /\ UNCHANGED <<owner, ended>>

GiveUp(c) ==
    /\ link[c] # "failed"
    /\ link' = [link EXCEPT ![c] = "failed"]
    /\ UNCHANGED <<owner, ended>>

SessionNext ==
    \/ \E c \in Attempt :
        \/ Dial(c)
        \/ Establish(c)
        \/ GiveUp(c)
        \/ \E s \in Slot : Commit(s, c)
    \/ \E s \in Slot : End(s)

SessionSpec == SessionInit /\ [][SessionNext]_sessionVars
=============================================================================
