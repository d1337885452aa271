----------------------------- MODULE ServerRecovery -----------------------------
(***************************************************************************)
(* Crash and restart of the manager: the Arma processes run on, and the    *)
(* registry of servers (ServerProvider, a singleton made when it is first  *)
(* needed) is built anew from the command lines of the processes found.    *)
(* The processes exit and come back while it is being built.               *)
(*                                                                         *)
(* Starting and shutting a server down are single steps here; their        *)
(* interleavings are those of ServerLifecycle and HeadlessClients.         *)
(***************************************************************************)
EXTENDS Naturals, FiniteSets

CONSTANTS
  Ports, StartupPort,
  Modsets,
  Spaced,        \* the modsets with a space in their name
  Procs,         \* identities of Arma processes, servers and headless clients
  MaxCrashes,    \* bound: crashes of the manager
  FetchFails,    \* may the modsets API fail?
  MayRestart,    \* may a server process come back by itself?
  None

ASSUME RecoveryAssumption ==
  /\ StartupPort \in Ports /\ Spaced \subseteq Modsets
  /\ None \notin Ports \cup Modsets \cup Procs
  /\ MaxCrashes \in Nat
  /\ {FetchFails, MayRestart} \subseteq BOOLEAN

VARIABLES
  alive,      \* the Arma processes the operating system runs
  cmd,        \* their command lines
  load,       \* CreateServerProviderAsync
  registered, \* the ports in ServerProvider._servers
  server,     \* the DedicatedServer object of each port
  shutting,   \* headless clients told to shut down, not awaited
  crashes,    \* crashes so far
  unowned     \* history: processes the manager has passed over, or could not know of

vars == <<alive, cmd, load, registered, server, shutting, crashes, unowned>>

-----------------------------------------------------------------------------

NoCommand == [port |-> None, modset |-> None, client |-> FALSE]

CommandLine == [port : Ports \cup {None}, modset : Modsets \cup {None}, client : BOOLEAN]

\* Parameters.ModsetName, of a process found it is what is read from its command
\* line; pc is where OnServerProcessShutdown is, "failed" that an exception ended it.
NoServer == [proc |-> None, modset |-> None, clients |-> {}, watched |-> FALSE,
             subscribed |-> FALSE, pc |-> "none"]

ServerRecord == [proc : Procs \cup {None}, modset : Modsets \cup {None},
                 clients : SUBSET Procs, watched : BOOLEAN, subscribed : BOOLEAN,
                 pc : {"none", "check", "clients", "notify", "failed"}]

NotLoaded == [pc |-> "none", found |-> {}, todo |-> {}, port |-> None]

LoadRecord == [pc : {"none", "visiting", "adding", "subscribing", "checking", "ready"},
               found : SUBSET Procs, todo : SUBSET Ports, port : Ports \cup {None}]

\* -modsetName is not quoted: reading stops at the first space, and the rest of the
\* name is lost.  No modset has the shortened name.
Extracted(m) == IF m \in Spaced THEN None ELSE m

ServersOf(ps, port) == {p \in ps : cmd[p].port = port /\ ~cmd[p].client}

ClientsOf(ps, port) == {p \in ps : cmd[p].port = port /\ cmd[p].client}

Fresh == {p \in Procs : cmd[p].port = None}

IsServerStopped(port) == server[port].proc \notin alive

\* OnServerProcessShutdown is under way.
Handled(port) == server[port].pc \in {"check", "clients", "notify"}

\* GetCommandLine has no answer for a process that is ending or not the manager's to
\* look at; what cannot be read is passed over.
Readable(ps) == SUBSET ps

-----------------------------------------------------------------------------
(***************************************************************************)
(* CreateServerProviderAsync.                                              *)
(***************************************************************************)

\* DiscoverArmaProcesses, grouped by port.
Discover ==
  /\ load.pc = "none"
  /\ \E found \in Readable(alive) :
       /\ load' = [load EXCEPT !.pc = "visiting", !.found = found,
                               !.todo = {cmd[p].port : p \in found}]
       /\ unowned' = unowned \cup (alive \ found)
  /\ UNCHANGED <<alive, cmd, registered, server, shutting, crashes>>

Visiting(port) == load.pc = "visiting" /\ port \in load.todo

Visited(port) == load' = [load EXCEPT !.todo = @ \ {port}]

\* What throws drops whatever was loaded, and the next use of the registry tries
\* again: SingleOrDefault of two servers always, a process that exits while it is
\* opened, a command line without a port or a broken modset configuration maybe.
LoadThrows ==
  /\ load.pc = "visiting" /\ load.found # {}
  /\ load' = NotLoaded
  /\ server' = [port \in Ports |-> NoServer]
  /\ UNCHANGED <<alive, cmd, registered, shutting, crashes, unowned>>

\* Headless clients without a server are told to shut down.
CloseOrphans(port) ==
  /\ Visiting(port) /\ ServersOf(load.found, port) = {}
  /\ shutting' = shutting \cup (alive \cap ClientsOf(load.found, port))
  /\ Visited(port)
  /\ UNCHANGED <<alive, cmd, registered, server, crashes, unowned>>

\* The modset cannot be fetched: the server runs on without the manager.
FetchModsetFails(port) ==
  /\ Visiting(port)
  /\ \E p \in load.found :
       /\ ServersOf(load.found, port) = {p}
       /\ FetchFails \/ Extracted(cmd[p].modset) = None
  /\ unowned' = unowned \cup {p \in load.found : cmd[p].port = port}
  /\ Visited(port)
  /\ UNCHANGED <<alive, cmd, registered, server, shutting, crashes>>

\* Mutant of RecreateServer: the headless clients found are not handed over.
RecreateServerAlone(port) ==
  /\ Visiting(port)
  /\ \E p \in load.found :
       /\ ServersOf(load.found, port) = {p}
       /\ Extracted(cmd[p].modset) # None
       /\ server' = [server EXCEPT ![port] =
            [NoServer EXCEPT !.proc = p, !.modset = Extracted(cmd[p].modset),
                             !.watched = p \in alive]]
       /\ unowned' = IF p \in alive THEN unowned \ {q \in load.found : cmd[q].port = port}
                                    ELSE unowned \cup ClientsOf(load.found, port)
  /\ Visited(port)
  /\ UNCHANGED <<alive, cmd, registered, shutting, crashes>>

\* RecreateRunningServer: its exit is subscribed to unless it has exited already, and
\* then nobody will shut its headless clients down.
RecreateServer(port) ==
  /\ Visiting(port)
  /\ \E p \in load.found :
       /\ ServersOf(load.found, port) = {p}
       /\ Extracted(cmd[p].modset) # None
       /\ server' = [server EXCEPT ![port] =
            [NoServer EXCEPT !.proc = p, !.modset = Extracted(cmd[p].modset),
                             !.clients = ClientsOf(load.found, port),
                             !.watched = p \in alive]]
       /\ unowned' = IF p \in alive THEN unowned \ {q \in load.found : cmd[q].port = port}
                                    ELSE unowned \cup ClientsOf(load.found, port)
  /\ Visited(port)
  /\ UNCHANGED <<alive, cmd, registered, shutting, crashes>>

Loaded == {port \in Ports : server[port].proc # None}

\* Mutant of AllVisited: a port is registered although its server was not recreated.
AllPortsVisited ==
  /\ load.pc = "visiting" /\ load.todo = {}
  /\ load' = [NotLoaded EXCEPT !.pc = "adding", !.todo = {cmd[p].port : p \in load.found}]
  /\ UNCHANGED <<alive, cmd, registered, server, shutting, crashes, unowned>>

AllVisited ==
  /\ load.pc = "visiting" /\ load.todo = {}
  /\ load' = [NotLoaded EXCEPT !.pc = "adding", !.todo = Loaded]
  /\ UNCHANGED <<alive, cmd, registered, server, shutting, crashes, unowned>>

\* InitializeServersDictionary: add, subscribe, and remove what has stopped.
AddServer(port) ==
  /\ load.pc = "adding" /\ port \in load.todo
  /\ registered' = registered \cup {port}
  /\ load' = [load EXCEPT !.pc = "subscribing", !.todo = @ \ {port}, !.port = port]
  /\ UNCHANGED <<alive, cmd, server, shutting, crashes, unowned>>

SubscribeShutdown ==
  /\ load.pc = "subscribing"
  /\ server' = [server EXCEPT ![load.port].subscribed = TRUE]
  /\ load' = [load EXCEPT !.pc = "checking"]
  /\ UNCHANGED <<alive, cmd, registered, shutting, crashes, unowned>>

\* Mutant of RemoveStopped: no second look at the server.
KeepStopped ==
  /\ load.pc = "checking"
  /\ load' = [load EXCEPT !.pc = "adding", !.port = None]
  /\ UNCHANGED <<alive, cmd, registered, server, shutting, crashes, unowned>>

\* Mutant of RemoveStopped: the test is the wrong way round.
RemoveRunning ==
  /\ load.pc = "checking"
  /\ registered' = IF IsServerStopped(load.port) THEN registered
                                                 ELSE registered \ {load.port}
  /\ load' = [load EXCEPT !.pc = "adding", !.port = None]
  /\ UNCHANGED <<alive, cmd, server, shutting, crashes, unowned>>

RemoveStopped ==
  /\ load.pc = "checking"
  /\ registered' = IF IsServerStopped(load.port) THEN registered \ {load.port}
                                                 ELSE registered
  /\ load' = [load EXCEPT !.pc = "adding", !.port = None]
  /\ UNCHANGED <<alive, cmd, server, shutting, crashes, unowned>>

Ready ==
  /\ load.pc = "adding" /\ load.todo = {}
  /\ load' = [NotLoaded EXCEPT !.pc = "ready"]
  /\ UNCHANGED <<alive, cmd, registered, server, shutting, crashes, unowned>>

LoadStep ==
  \/ \E port \in Ports : \/ CloseOrphans(port) \/ FetchModsetFails(port)
                         \/ RecreateServer(port) \/ AddServer(port)
  \/ LoadThrows \/ AllVisited \/ SubscribeShutdown \/ RemoveStopped \/ Ready

\* Shutdown of an orphan, which nobody awaits.
OrphanCloses(c) ==
  /\ c \in shutting
  /\ alive' = alive \ {c} /\ shutting' = shutting \ {c}
  /\ UNCHANGED <<cmd, load, registered, server, crashes, unowned>>

-----------------------------------------------------------------------------
(***************************************************************************)
(* OnServerProcessShutdown of the server on a port.                        *)
(***************************************************************************)
RaiseExited(port) ==
  /\ server[port].watched /\ IsServerStopped(port)
  /\ server' = [server EXCEPT ![port] = [@ EXCEPT !.watched = FALSE, !.pc = "check"]]
  /\ UNCHANGED <<alive, cmd, load, registered, shutting, crashes, unowned>>

\* The processes found whose parameters equal those of the process that has exited.
SameParameters(found, port) ==
  {q \in found : cmd[q].port = port /\ Extracted(cmd[q].modset) = server[port].modset}

\* The server found on a port where some process has the same parameters is adopted.
\* The handler has done nothing when two of them throw, or a process, of whichever
\* server, that exits while it is opened, or a command line without a port: nobody
\* will shut its headless clients down.
CheckServerIsRestarting(port) ==
  /\ server[port].pc = "check"
  /\ \E found \in Readable(alive) :
       LET restarted == IF SameParameters(found, port) = {} THEN {} ELSE ServersOf(found, port)
       IN \/ /\ server' = [server EXCEPT ![port].pc = "failed"]
             /\ unowned' = unowned \cup server[port].clients
          \/ /\ restarted = {}
             /\ server' = [server EXCEPT ![port].pc = "clients"]
             /\ UNCHANGED unowned
          \/ \E q \in restarted :
               /\ restarted = {q}
               /\ server' = [server EXCEPT ![port] =
                    [@ EXCEPT !.proc = q, !.modset = Extracted(cmd[q].modset),
                              !.watched = TRUE, !.pc = "none"]]
               /\ unowned' = IF port \in registered THEN unowned \ {q} ELSE unowned
  /\ UNCHANGED <<alive, cmd, load, registered, shutting, crashes>>

ShutdownClients(port) ==
  /\ server[port].pc = "clients"
  /\ alive' = alive \ server[port].clients
  /\ server' = [server EXCEPT ![port].pc = "notify"]
  /\ UNCHANGED <<cmd, load, registered, shutting, crashes, unowned>>

\* The registry removes the server if it has subscribed by now.
NotifyShutdown(port) ==
  /\ server[port].pc = "notify"
  /\ registered' = IF server[port].subscribed THEN registered \ {port} ELSE registered
  /\ server' = [server EXCEPT ![port].pc = "none"]
  /\ UNCHANGED <<alive, cmd, load, shutting, crashes, unowned>>

HandlerStep(port) ==
  \/ RaiseExited(port) \/ CheckServerIsRestarting(port)
  \/ ShutdownClients(port) \/ NotifyShutdown(port)

-----------------------------------------------------------------------------
(***************************************************************************)
(* Jobs, once there is a registry.                                         *)
(***************************************************************************)
\* Taken only when the exit of the port's last server has been dealt with: how the
\* two overlap is in ServerLifecycle.  A server that was adopted when the registry had
\* removed it already is not there to keep the port: its object is given up for the
\* new one, with the headless clients it had.
StartServer(p, m, cs) ==
  /\ load.pc = "ready" /\ StartupPort \notin registered
  /\ ~Handled(StartupPort)
  /\ server[StartupPort].watched => ~IsServerStopped(StartupPort)
  /\ p \in Fresh \ cs /\ cs \subseteq Fresh
  /\ alive' = alive \cup {p} \cup cs
  /\ cmd' = [q \in Procs |->
       IF q = p \/ q \in cs THEN [port |-> StartupPort, modset |-> m, client |-> q \in cs]
                            ELSE cmd[q]]
  /\ server' = [server EXCEPT ![StartupPort] =
       [NoServer EXCEPT !.proc = p, !.modset = m, !.clients = cs, !.watched = TRUE,
                        !.subscribed = TRUE]]
  /\ registered' = registered \cup {StartupPort}
  /\ unowned' = unowned \cup server[StartupPort].clients
  /\ UNCHANGED <<load, shutting, crashes>>

\* ShutdownAllServers also takes a server that has stopped and stayed.
ShutdownServer(port) ==
  /\ load.pc = "ready" /\ port \in registered
  /\ ~IsServerStopped(port) \/ server[port].pc = "failed"
  /\ alive' = alive \ ({server[port].proc} \cup server[port].clients)
  /\ registered' = registered \ {port}
  /\ UNCHANGED <<cmd, load, server, shutting, crashes, unowned>>

-----------------------------------------------------------------------------
(***************************************************************************)
(* The environment.                                                        *)
(***************************************************************************)
Exit(p) ==
  /\ p \in alive
  /\ alive' = alive \ {p} /\ shutting' = shutting \ {p}
  /\ UNCHANGED <<cmd, load, registered, server, crashes, unowned>>

RestartByItself(p, q) ==
  /\ MayRestart
  /\ cmd[p].port # None /\ p \notin alive /\ ~cmd[p].client /\ q \in Fresh
  /\ alive' = alive \cup {q}
  /\ cmd' = [cmd EXCEPT ![q] = cmd[p]]
  /\ unowned' = unowned \cup {q}
  /\ UNCHANGED <<load, registered, server, shutting, crashes>>

\* The manager stops at any point and is started again.
Crash ==
  /\ crashes < MaxCrashes
  /\ crashes' = crashes + 1
  /\ load' = NotLoaded
  /\ registered' = {} /\ shutting' = {}
  /\ server' = [port \in Ports |-> NoServer]
  /\ UNCHANGED <<alive, cmd, unowned>>

\* The first start of the manager may find servers an earlier one has left, at most
\* one on a port.
Init ==
  /\ load = NotLoaded /\ registered = {} /\ shutting = {} /\ unowned = {}
  /\ crashes = 0
  /\ server = [port \in Ports |-> NoServer]
  /\ alive \in SUBSET Procs
  /\ \E port \in [alive -> Ports], m \in [Ports -> Modsets], cs \in SUBSET alive :
       /\ \A p, q \in alive \ cs : port[p] = port[q] => p = q
       /\ cmd = [p \in Procs |->
            IF p \in alive
              THEN [port |-> port[p], modset |-> m[port[p]], client |-> p \in cs]
              ELSE NoCommand]

Next ==
  \/ Discover \/ LoadStep
  \/ \E c \in Procs : OrphanCloses(c)
  \/ \E port \in Ports : HandlerStep(port) \/ ShutdownServer(port)
  \/ \E p \in Procs, m \in Modsets, cs \in SUBSET Fresh : StartServer(p, m, cs)
  \/ \E p \in Procs : Exit(p)
  \/ \E p, q \in Procs : RestartByItself(p, q)
  \/ Crash

Spec == Init /\ [][Next]_vars

\* The load and the handlers run on; a load that throws may never be tried again.
Fairness ==
  /\ WF_vars(LoadStep)
  /\ \A port \in Ports : WF_vars(HandlerStep(port))

FairSpec == Spec /\ Fairness

-----------------------------------------------------------------------------
(***************************************************************************)
(* Properties.                                                             *)
(***************************************************************************)

\* Every variable has the shape the code gives it, and what is registered is a server.
TypeOK ==
  /\ alive \subseteq Procs /\ shutting \subseteq Procs /\ unowned \subseteq Procs
  /\ cmd \in [Procs -> CommandLine]
  /\ load \in LoadRecord
  /\ registered \subseteq Loaded
  /\ server \in [Ports -> ServerRecord]
  /\ crashes \in 0 .. MaxCrashes

\* The processes the manager will act on: those of a registered server, those an
\* exit handler is still to deal with, and the orphans being shut down.
Managed ==
  shutting \cup UNION {{server[port].proc} \cup server[port].clients :
                         port \in {q \in Ports : \/ q \in registered
                                                 \/ server[q].watched
                                                 \/ Handled(q)}}

\* Once the registry is there, every Arma process belongs to a server the manager
\* knows or is being shut down, whatever exited while the processes were looked
\* through; except what the discovery could not read, a server whose modset could not
\* be fetched, one that came back by itself, and headless clients: of a server that
\* exited just before its object was built, of one whose exit handler failed, and of
\* one that came back after the registry had removed it, once the next one is started.
RunningIsKnown == load.pc = "ready" => alive \subseteq Managed \cup unowned

\* Two servers get the same port, which keeps every later load from succeeding, only
\* if one of them was passed over or not readable in an earlier load, or came back
\* by itself.
OneServerPerPort ==
  \A p, q \in alive :
    /\ p # q /\ cmd[p].port = cmd[q].port
    /\ ~cmd[p].client /\ ~cmd[q].client
    => {p, q} \cap unowned # {}

\* What objects and lists refer to has been started as what they take it for.
ObjectsMatch ==
  /\ \A p \in alive \cup shutting \cup load.found : cmd[p].port # None
  /\ \A c \in shutting : cmd[c].client
  /\ \A port \in Ports :
       /\ server[port].proc # None =>
            cmd[server[port].proc].port = port /\ ~cmd[server[port].proc].client
       /\ \A c \in server[port].clients : cmd[c].port = port /\ cmd[c].client

\* How far the load is says what there is of the registry.
LoadPhases ==
  /\ load.pc = "none" => \A port \in Ports : server[port] = NoServer
  /\ load.pc \in {"none", "visiting"} => registered = {}
  /\ load.pc = "visiting" => \A port \in load.todo : server[port] = NoServer
  /\ load.pc \in {"adding", "subscribing", "checking"} => load.todo \subseteq Loaded
  /\ load.pc \in {"subscribing", "checking"} => load.port \in Loaded
  /\ load.pc = "ready" => load.todo = {}

\* There is no handler without a server.  The exit of a running one is awaited, that of
\* one being handled is past, and behind a server nobody will look after again no client
\* is left unnoticed.
ExitsHandled ==
  \A port \in Ports :
    LET o == server[port]
    IN /\ o.proc = None => o = NoServer
       /\ o.proc \in alive => o.watched
       /\ o.pc # "none" => o.proc \notin alive /\ ~o.watched
       /\ o.pc = "notify" => o.clients \cap alive = {}
       /\ o.proc \notin alive /\ ~o.watched /\ ~Handled(port) =>
            o.clients \cap alive \subseteq unowned

\* During the load a process is still to be visited, or taken care of; only what has
\* come since the beginning has not been found.
VisitedAreKnown ==
  load.pc = "visiting" =>
    /\ alive \subseteq Managed \cup unowned \cup {p \in load.found : cmd[p].port \in load.todo}
    /\ alive \subseteq load.found \cup unowned

\* Then all are taken care of, and a server that the registry lacks is known to be.
AllAreKnown ==
  load.pc \notin {"none", "visiting"} =>
    /\ alive \subseteq Managed \cup unowned
    /\ \A port \in Ports \ (registered \cup load.todo) :
         server[port].proc \in alive => server[port].proc \in unowned

\* The inductive invariant behind RunningIsKnown and OneServerPerPort.
RecoveryInv ==
  /\ TypeOK /\ ObjectsMatch /\ LoadPhases /\ ExitsHandled /\ VisitedAreKnown /\ AllAreKnown
  /\ OneServerPerPort

\* A recovered server that stops, even while it is being registered, leaves the
\* registry and its port can be used again, or its restart is adopted; only an
\* exception in its exit handler leaves it there.
StoppedServersLeave ==
  \A port \in Ports :
    port \in registered /\ IsServerStopped(port)
      ~> port \notin registered \/ ~IsServerStopped(port) \/ server[port].pc = "failed"
=============================================================================
