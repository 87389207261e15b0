------------------------------ MODULE Service ------------------------------
(***************************************************************************)
(* What a Router promises to the program that uses it, without its states, *)
(* its timeouts and its socket: it holds its port while it serves, serves  *)
(* once, and says 'stop' once, in the step that gives the port back.  A    *)
(* service that fails says no 'stop' and may keep its port.                *)
(***************************************************************************)
EXTENDS Naturals

VARIABLES
    phase,  \* what the service is doing
    port,   \* "free" or "held"
    said    \* 'stop' events emitted

serviceVars == <<phase, port, said>>

Phases == {"down", "starting", "serving", "stopping", "ended", "failed"}

ServiceInit ==
    /\ phase = "down"
    /\ port = "free"
    /\ said = 0

\* start() takes the port before the service can serve.
TakePort ==
    /\ phase = "down"
    /\ phase' = "starting"
    /\ port' = "held"
    /\ UNCHANGED said

Serve ==
    /\ phase = "starting"
    /\ phase' = "serving"
    /\ UNCHANGED <<port, said>>

\* stop(), of a service that serves or is about to.
WindUp ==
    /\ phase \in {"starting", "serving"}
    /\ phase' = "stopping"
    /\ UNCHANGED <<port, said>>

\* The port is given back and 'stop' emitted, in one step.
Announce ==
    /\ phase = "stopping"
    /\ port = "held"
    /\ said = 0
    /\ phase' = "ended"
    /\ port' = "free"
    /\ said' = 1

\* An error: the port is kept or given back.
GiveUp ==
    /\ phase \notin {"down", "failed"}
    /\ phase' = "failed"
    /\ port' \in {port, "free"}
    /\ UNCHANGED said

\* The socket of a service that has failed may still close.
FreePort ==
    /\ phase = "failed"
    /\ port' = "free"
    /\ UNCHANGED <<phase, said>>

ServiceNext ==
    \/ TakePort
    \/ Serve
    \/ WindUp
    \/ Announce
    \/ GiveUp
    \/ FreePort

ServiceSpec == ServiceInit /\ [][ServiceNext]_serviceVars
=============================================================================
