------------------------------ MODULE ServerSlots ------------------------------
(***************************************************************************)
(* What the registry promises to whoever asks for a server on a port: a    *)
(* port belongs to one server at a time, a server process runs only on a   *)
(* port that belongs to a server and never beside another, a server leaves *)
(* its port only when no process runs there, and a server that has left    *)
(* never comes back.  Shutdowns, exit events, headless clients and jobs    *)
(* are not mentioned: ServerLifecycle implements this.                     *)
(***************************************************************************)
CONSTANTS Ports, Servers, None

VARIABLES
  occupant,  \* the server each port belongs to
  used,      \* the servers that have ever been given a port
  running    \* the ports a server process runs on

vars == <<occupant, used, running>>

Init ==
  /\ occupant = [port \in Ports |-> None]
  /\ used = {}
  /\ running = {}

\* A new server object gets a free port; one found at start-up runs already.
Occupy(port, s) ==
  /\ occupant[port] = None /\ s \notin used
  /\ occupant' = [occupant EXCEPT ![port] = s]
  /\ used' = used \cup {s}
  /\ running' \in {running, running \cup {port}}

Launch(port) ==
  /\ occupant[port] # None /\ port \notin running
  /\ running' = running \cup {port}
  /\ UNCHANGED <<occupant, used>>

Stop(port) ==
  /\ port \in running
  /\ running' = running \ {port}
  /\ UNCHANGED <<occupant, used>>

Vacate(port) ==
  /\ occupant[port] # None /\ port \notin running
  /\ occupant' = [occupant EXCEPT ![port] = None]
  /\ UNCHANGED <<used, running>>

Next ==
  \E port \in Ports :
    \/ \E s \in Servers : Occupy(port, s)
    \/ Launch(port)
    \/ Stop(port)
    \/ Vacate(port)

Spec == Init /\ [][Next]_vars
=============================================================================
