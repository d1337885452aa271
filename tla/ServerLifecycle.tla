--------------------------- MODULE ServerLifecycle ---------------------------
(***************************************************************************)
(* The life of the dedicated servers the manager runs: the registry        *)
(* (ServerProvider), the server objects (DedicatedServer) with their Arma  *)
(* process and headless clients (ArmaProcess), the exit events of the      *)
(* operating system, and the single Hangfire worker that executes the jobs *)
(* StartServer, ShutdownServer and ShutdownAllServers                      *)
(* (ServerStartupService, ServerCommandLogic).                             *)
(*                                                                         *)
(* Every await of the code is a boundary between two actions, so the       *)
(* worker, the exit handlers and the processes interleave there.           *)
(***************************************************************************)
EXTENDS Integers, FiniteSets

CONSTANTS
  Ports,         \* game ports
  StartupPort,   \* the port every start job uses (2302)
  Modsets,       \* modset names
  Servers,       \* identities of DedicatedServer objects
  Procs,         \* identities of Arma server processes
  Clients,       \* headless client slots of one server object
  HcCounts,      \* numbers of headless clients a start job may ask for
  None,          \* no port, modset, server or process
  MayRestart,    \* may an Arma server come back by itself after its exit?
  EarlyExit,     \* may a server die while Start is still running?
  PlayersJoin,   \* do players ever join?
  OsFails        \* may looking at a process fail, because it has just exited or
                 \* its command line cannot be read?

ASSUME NamesAssumption ==
  /\ None \notin Ports \cup Modsets \cup Servers \cup Procs
  /\ StartupPort \in Ports
  /\ HcCounts \subseteq Nat
  /\ {MayRestart, EarlyExit, PlayersJoin, OsFails} \subseteq BOOLEAN

VARIABLES
  alive,     \* the Arma server processes the operating system runs
  crowded,   \* those with players online
  params,    \* command line of a process: the port and modset it was given
  registry,  \* ServerProvider._servers
  server,    \* the fields of every DedicatedServer object
  clients,   \* its headless clients: the state of each one's _process
  closing,   \* DedicatedServer.Shutdown in flight on behalf of the worker
  exiting,   \* DedicatedServer.OnServerProcessShutdown in flight
  worker     \* the Hangfire worker and the job it processes

osVars == <<alive, crowded, params>>
vars == <<alive, crowded, params, registry, server, clients, closing, exiting,
          worker>>

(***************************************************************************)
(* Records.                                                                *)
(*   server[s].proc    _process of its current _serverProcess              *)
(*   server[s].hooked  the process whose Exited event that ArmaProcess has *)
(*                     hooked and that has not been raised yet             *)
(*   server[s].watched OnServerProcessShutdown is subscribed to it         *)
(*   server[s].started _serverWasStarted                                   *)
(***************************************************************************)
NoServer == [port |-> None, modset |-> None, proc |-> None, hooked |-> None,
             watched |-> FALSE, started |-> FALSE]

ServerRecord == [port : Ports \cup {None}, modset : Modsets \cup {None},
                 proc : Procs \cup {None}, hooked : Procs \cup {None},
                 watched : BOOLEAN, started : BOOLEAN]

\* A headless client: not in the stack, no process (never started, start
\* failed, or _process = null after Shutdown), running, or exited by itself.
ClientState == {"absent", "null", "up", "exited"}

NotClosing == [pc |-> "none", proc |-> None, wait |-> {}, threw |-> FALSE]

ClosingRecord ==
  [pc : {"none", "status", "shutdown", "signal", "process", "clients"},
   proc : Procs \cup {None}, wait : SUBSET Clients, threw : BOOLEAN]

NotExiting == [pc |-> "none", of |-> None, found |-> None, wait |-> {},
               threw |-> FALSE]

\* The handler has ended in an exception, which nobody observes.
Faulted == [NotExiting EXCEPT !.threw = TRUE]

ExitingRecord ==
  [pc : {"none", "discover", "adopt", "clients"}, of : Procs \cup {None},
   found : Procs \cup {None}, wait : SUBSET Clients, threw : BOOLEAN]

Idle(failed) == [pc |-> "idle", kind |-> "none", ports |-> {},
                 modset |-> None, count |-> 0, force |-> FALSE,
                 failed |-> failed, server |-> None, todo |-> {}]

WorkerRecord ==
  [pc : {"booting", "idle", "closing", "updating", "preparing",
         "subscribing", "clients"},
   kind : {"none", "shutdown", "start"}, ports : SUBSET Ports, modset : Modsets \cup {None},
   count : HcCounts \cup {0}, force : BOOLEAN, failed : BOOLEAN,
   server : Servers \cup {None}, todo : SUBSET Clients]

-----------------------------------------------------------------------------

Unused(s) == server[s].port = None

Registered(s) == server[s].port # None /\ registry[server[s].port] = s

IsServerStopped(s) == server[s].proc = None \/ server[s].proc \notin alive

ClientsUp(s) == {c \in Clients : clients[s][c] = "up"}

HeadlessClientsConnected(s) == Cardinality(ClientsUp(s))

FreshProcs == {p \in Procs : params[p].port = None}

\* Mutant of TryRemoveServer: whatever is registered on the port goes.
TryRemoveByPort(s) ==
  registry' = [port \in Ports |->
                 IF port = server[s].port THEN None ELSE registry[port]]

\* ServerProvider.TryRemoveServer removes the pair <<port, server>>, never the
\* port alone.
TryRemoveServer(s) ==
  registry' = [port \in Ports |->
                 IF port = server[s].port /\ registry[port] = s
                   THEN None ELSE registry[port]]

-----------------------------------------------------------------------------
(***************************************************************************)
(* The operating system.                                                   *)
(***************************************************************************)

\* The process a Start that is still in progress has just launched.
BeingStarted(p) ==
  /\ worker.pc \in {"subscribing", "clients"}
  /\ server[worker.server].proc = p

\* A server process ends by itself: it crashed, or heeded CloseMainWindow.
Exit(p) ==
  /\ p \in alive
  /\ EarlyExit \/ ~BeingStarted(p)
  /\ alive' = alive \ {p}
  /\ crowded' = crowded \ {p}
  /\ UNCHANGED <<params, registry, server, clients, closing, exiting, worker>>

\* An Arma server that went down comes back as a new process with the same
\* command line, without the manager having a part in it.
RestartByItself(p, q) ==
  /\ MayRestart
  /\ params[p].port # None /\ p \notin alive
  /\ q \in FreshProcs
  /\ alive' = alive \cup {q}
  /\ params' = [params EXCEPT ![q] = params[p]]
  /\ UNCHANGED <<crowded, registry, server, clients, closing,
                 exiting, worker>>

PlayersChange(p) ==
  /\ PlayersJoin
  /\ p \in alive
  /\ crowded' \in {crowded \cup {p}, crowded \ {p}}
  /\ UNCHANGED <<alive, params, registry, server, clients, closing,
                 exiting, worker>>

ClientExit(s, c) ==
  /\ clients[s][c] = "up"
  /\ clients' = [clients EXCEPT ![s][c] = "exited"]
  /\ UNCHANGED <<osVars, registry, server, closing, exiting, worker>>

-----------------------------------------------------------------------------
(***************************************************************************)
(* Shutting the headless clients down.  Every client that runs when the    *)
(* call begins is waited for; the continuation reads _process again, which *)
(* a concurrent shutdown of the same client may have set to null by then:  *)
(* a NullReferenceException, unless both continuations have passed the     *)
(* HasExited test before either assigned null.  And CloseMainWindow throws *)
(* on a client that has exited since it was found running.                 *)
(***************************************************************************)
\* Mutant of AwaitClients: the clients are asked to stop and not waited for.
AwaitNoClients(task, s) == [task EXCEPT !.pc = "clients", !.wait = {}]

AwaitClients(task, s) == [task EXCEPT !.pc = "clients", !.wait = ClientsUp(s)]

ClientShutDown(task, s, c, threw) ==
  /\ c \in task.wait
  /\ threw => \/ clients[s][c] = "null"
              \/ OsFails /\ clients[s][c] = "exited"
  /\ clients' = [clients EXCEPT ![s][c] = IF threw THEN @ ELSE "null"]

ClientDone(task, c, threw) ==
  [task EXCEPT !.wait = @ \ {c}, !.threw = @ \/ threw]

-----------------------------------------------------------------------------
(***************************************************************************)
(* DedicatedServer.Shutdown, one per server being closed by the worker.    *)
(***************************************************************************)

\* Mutant of Abandon: the failed result of the task is dropped.
AbandonSilently(s) ==
  /\ closing' = [closing EXCEPT ![s] = NotClosing]
  /\ UNCHANGED worker

\* The task of s ends with a failed result or an exception.
Abandon(s) ==
  /\ closing' = [closing EXCEPT ![s] = NotClosing]
  /\ worker' = [worker EXCEPT !.failed = TRUE]

\* GetServerStatusAsync queries the server; no answer leaves Players null.
CheckPlayers(s) ==
  /\ closing[s].pc = "status"
  /\ \E answered \in BOOLEAN :
       IF answered /\ server[s].proc \in crowded /\ ~worker.force
         THEN Abandon(s)
         ELSE /\ closing' = [closing EXCEPT ![s].pc = "shutdown"]
              /\ UNCHANGED worker
  /\ UNCHANGED <<osVars, registry, server, clients, exiting>>

\* ArmaProcess.Shutdown: a stopped process is a failure the caller ignores.
ShutdownProcess(s) ==
  /\ closing[s].pc = "shutdown"
  /\ closing' = [closing EXCEPT ![s] =
       IF IsServerStopped(s)
         THEN AwaitClients(@, s)
         ELSE [@ EXCEPT !.pc = "signal", !.proc = server[s].proc]]
  /\ UNCHANGED <<osVars, registry, server, clients, exiting, worker>>

\* ProcessName and CloseMainWindow may throw on a process that has just gone.
SignalProcess(s) ==
  /\ closing[s].pc = "signal"
  /\ \/ /\ closing' = [closing EXCEPT ![s].pc = "process"]
        /\ UNCHANGED worker
     \/ /\ closing[s].proc \notin alive
        /\ Abandon(s)
  /\ UNCHANGED <<osVars, registry, server, clients, exiting>>

\* The wait is over: the process went by itself, or Kill ends it (Kill is taken
\* to have ended it before the next await of the code).
ProcessGone(s) ==
  /\ closing[s].pc = "process"
  /\ alive' = alive \ {closing[s].proc}
  /\ crowded' = crowded \ {closing[s].proc}
  /\ server' = [server EXCEPT ![s].proc = IF @ = closing[s].proc THEN None ELSE @]
  /\ closing' = [closing EXCEPT ![s] = AwaitClients(@, s)]
  /\ UNCHANGED <<params, registry, clients, exiting, worker>>

CloseClient(s, c) ==
  /\ closing[s].pc = "clients"
  /\ \E threw \in BOOLEAN :
       /\ ClientShutDown(closing[s], s, c, threw)
       /\ closing' = [closing EXCEPT ![s] = ClientDone(@, c, threw)]
  /\ UNCHANGED <<osVars, registry, server, exiting, worker>>

\* InvokeOnServerShutdown, which an exception of a client keeps from running.
CompleteShutdown(s) ==
  /\ closing[s].pc = "clients" /\ closing[s].wait = {}
  /\ IF closing[s].threw
       THEN Abandon(s) /\ UNCHANGED registry
       ELSE /\ closing' = [closing EXCEPT ![s] = NotClosing]
            /\ TryRemoveServer(s)
            /\ UNCHANGED worker
  /\ UNCHANGED <<osVars, server, clients, exiting>>

ClosingStep(s) ==
  \/ CheckPlayers(s)
  \/ ShutdownProcess(s)
  \/ SignalProcess(s)
  \/ ProcessGone(s)
  \/ \E c \in Clients : CloseClient(s, c)
  \/ CompleteShutdown(s)

-----------------------------------------------------------------------------
(***************************************************************************)
(* DedicatedServer.OnServerProcessShutdown, run when a process exits.      *)
(***************************************************************************)

\* The Exited event of the hooked process reaches its ArmaProcess; without a
\* subscriber at that moment it is lost.
RaiseExited(s) ==
  /\ server[s].hooked # None /\ server[s].hooked \notin alive
  /\ exiting' = IF server[s].watched
                  THEN [exiting EXCEPT ![s] = [NotExiting EXCEPT
                          !.pc = "discover", !.of = server[s].hooked]]
                  ELSE exiting
  /\ server' = [server EXCEPT ![s] = [@ EXCEPT !.hooked = None, !.watched = FALSE]]
  /\ UNCHANGED <<osVars, registry, clients, closing, worker>>

ServersOn(port) == {p \in alive : params[p].port = port}

\* Some process found, server or headless client, has the exited one's parameters.
SameParametersSeen(found, q) ==
  \/ \E p \in found : params[p].modset = q.modset
  \/ \E s \in Servers : /\ server[s].port = q.port
                        /\ server[s].modset = q.modset
                        /\ ClientsUp(s) # {}

\* DiscoverArmaProcesses passes over what it cannot read the command line of.
Discovered(ps) == IF OsFails THEN SUBSET ps ELSE {ps}

\* ArmaProcessManager.CheckServerIsRestarting.  The handler ends there when two
\* server processes on the port make SingleOrDefault throw, when a process, of
\* whichever server, exits while it is opened, and when a command line has no port.
CheckServerIsRestarting(s) ==
  LET q == params[exiting[s].of]
  IN /\ exiting[s].pc = "discover"
     /\ \E found \in Discovered(ServersOn(q.port)) :
          LET restarted == SameParametersSeen(found, q) /\ found # {}
          IN \/ \E p \in found :
                  /\ restarted /\ found = {p}
                  /\ exiting' = [exiting EXCEPT ![s] = [@ EXCEPT !.pc = "adopt",
                                                                 !.found = p]]
             \/ /\ OsFails \/ (restarted /\ \A p \in found : found # {p})
                /\ exiting' = [exiting EXCEPT ![s] = Faulted]
             \/ /\ ~restarted
                /\ exiting' = [exiting EXCEPT ![s] = AwaitClients(@, s)]
     /\ UNCHANGED <<osVars, registry, server, clients, closing, worker>>

\* Mutant of AdoptProcess: nobody subscribes to the adopted process.
AdoptUnwatched(s) ==
  /\ exiting[s].pc = "adopt"
  /\ server' = [server EXCEPT ![s] =
       [@ EXCEPT !.proc = exiting[s].found, !.hooked = exiting[s].found,
                 !.watched = FALSE]]
  /\ exiting' = [exiting EXCEPT ![s] = NotExiting]
  /\ UNCHANGED <<osVars, registry, clients, closing, worker>>

\* The discovered process becomes _serverProcess.  If it has gone meanwhile,
\* its Exited event may already have been raised to nobody.
AdoptProcess(s) ==
  LET p == exiting[s].found
  IN /\ exiting[s].pc = "adopt"
     /\ \E missed \in BOOLEAN :
          /\ missed => p \notin alive
          /\ server' = [server EXCEPT ![s] =
               [@ EXCEPT !.proc = p, !.hooked = IF missed THEN None ELSE p,
                         !.watched = ~missed]]
     /\ exiting' = [exiting EXCEPT ![s] = NotExiting]
     /\ UNCHANGED <<osVars, registry, clients, closing, worker>>

ExitClient(s, c) ==
  /\ exiting[s].pc = "clients"
  /\ \E threw \in BOOLEAN :
       /\ ClientShutDown(exiting[s], s, c, threw)
       /\ exiting' = [exiting EXCEPT ![s] = ClientDone(@, c, threw)]
  /\ UNCHANGED <<osVars, registry, server, closing, worker>>

\* Mutant of CompleteExit: OnServerShutdown is not invoked.
CompleteExitQuietly(s) ==
  /\ exiting[s].pc = "clients" /\ exiting[s].wait = {}
  /\ exiting' = [exiting EXCEPT ![s] = NotExiting]
  /\ UNCHANGED <<osVars, registry, server, clients, closing, worker>>

CompleteExit(s) ==
  /\ exiting[s].pc = "clients" /\ exiting[s].wait = {}
  /\ IF exiting[s].threw
       THEN exiting' = [exiting EXCEPT ![s] = Faulted] /\ UNCHANGED registry
       ELSE exiting' = [exiting EXCEPT ![s] = NotExiting] /\ TryRemoveServer(s)
  /\ UNCHANGED <<osVars, server, clients, closing, worker>>

ExitingStep(s) ==
  \/ RaiseExited(s)
  \/ CheckServerIsRestarting(s)
  \/ AdoptProcess(s)
  \/ \E c \in Clients : ExitClient(s, c)
  \/ CompleteExit(s)

-----------------------------------------------------------------------------
(***************************************************************************)
(* The start of the manager: servers found running are recreated before    *)
(* the first job is processed.                                             *)
(***************************************************************************)
RecoverServer(port, s, p, m, cs) ==
  /\ worker.pc = "booting"
  /\ registry[port] = None /\ Unused(s) /\ p \in FreshProcs
  /\ alive' = alive \cup {p}
  /\ params' = [params EXCEPT ![p] = [port |-> port, modset |-> m]]
  /\ server' = [server EXCEPT ![s] =
       [port |-> port, modset |-> m, proc |-> p, hooked |-> p,
        watched |-> TRUE, started |-> FALSE]]
  /\ clients' = [clients EXCEPT ![s] =
       [c \in Clients |-> IF c \in cs THEN "up" ELSE "absent"]]
  /\ registry' = [registry EXCEPT ![port] = s]
  /\ UNCHANGED <<crowded, closing, exiting, worker>>

FinishBoot ==
  /\ worker.pc = "booting"
  /\ worker' = Idle(FALSE)
  /\ UNCHANGED <<osVars, registry, server, clients, closing, exiting>>

-----------------------------------------------------------------------------
(***************************************************************************)
(* The jobs.  WorkerCount = 1: they never overlap.                         *)
(***************************************************************************)
\* Mutant of Finish: a job that has failed does not give the worker back.
FinishUnlessFailed(failed) == worker' = IF failed THEN worker ELSE Idle(failed)

Finish(failed) == worker' = Idle(failed)

BeginClosing(targets) ==
  closing' = [s \in Servers |-> IF s \in targets
                                  THEN [NotClosing EXCEPT !.pc = "status"]
                                  ELSE closing[s]]

\* ServerCommandLogic.ShutdownServer: nothing to do for a stopped server.
RunningOn(port) == {s \in Servers : registry[port] = s /\ ~IsServerStopped(s)}

RunShutdownServer(port, force) ==
  /\ worker.pc = "idle"
  /\ BeginClosing(RunningOn(port))
  /\ worker' = [Idle(FALSE) EXCEPT !.pc = "closing", !.kind = "shutdown",
                                   !.ports = {port}, !.force = force]
  /\ UNCHANGED <<osVars, registry, server, clients, exiting>>

\* ShutdownAllServers also shuts down the registered servers that are stopped.
RunShutdownAllServers(force) ==
  /\ worker.pc = "idle"
  /\ BeginClosing({s \in Servers : Registered(s)})
  /\ worker' = [Idle(FALSE) EXCEPT !.pc = "closing", !.kind = "shutdown",
                                   !.ports = Ports, !.force = force]
  /\ UNCHANGED <<osVars, registry, server, clients, exiting>>

\* ServerStartupService.StartServer, bounded by the server identities left.
RunStartServer(m, n) ==
  /\ worker.pc = "idle"
  /\ \E s \in Servers : Unused(s)
  /\ BeginClosing(RunningOn(StartupPort))
  /\ worker' = [Idle(FALSE) EXCEPT !.pc = "closing", !.kind = "start",
                                   !.modset = m, !.count = n]
  /\ UNCHANGED <<osVars, registry, server, clients, exiting>>

\* Mutant of ShutdownsJoined: the first shutdown to end completes the job.
AnyShutdownJoined ==
  /\ worker.pc = "closing"
  /\ \E s \in Servers : closing[s].pc = "none"
  /\ IF worker.kind = "start" /\ ~worker.failed
       THEN worker' = [worker EXCEPT !.pc = "updating"]
       ELSE Finish(worker.failed)
  /\ UNCHANGED <<osVars, registry, server, clients, closing, exiting>>

ShutdownsJoined ==
  /\ worker.pc = "closing"
  /\ \A s \in Servers : closing[s].pc = "none"
  /\ IF worker.kind = "start" /\ ~worker.failed
       THEN worker' = [worker EXCEPT !.pc = "updating"]
       ELSE Finish(worker.failed)
  /\ UNCHANGED <<osVars, registry, server, clients, closing, exiting>>

UpdateModsetFails ==
  /\ worker.pc = "updating"
  /\ Finish(TRUE)
  /\ UNCHANGED <<osVars, registry, server, clients, closing, exiting>>

\* GetOrAddServer calls CreateServer, the new object is registered unstarted.
CreateServer(s, cs) ==
  /\ worker.pc = "updating"
  /\ registry[StartupPort] = None /\ Unused(s)
  /\ Cardinality(cs) = worker.count
  /\ server' = [server EXCEPT ![s] = [NoServer EXCEPT !.port = StartupPort,
                                                     !.modset = worker.modset]]
  /\ clients' = [clients EXCEPT ![s] =
       [c \in Clients |-> IF c \in cs THEN "null" ELSE "absent"]]
  /\ registry' = [registry EXCEPT ![StartupPort] = s]
  /\ worker' = [worker EXCEPT !.pc = "preparing", !.server = s, !.todo = cs]
  /\ UNCHANGED <<osVars, closing, exiting>>

\* GetOrAddServer finds a server: only modset and client count are compared.
FindServer ==
  LET s == registry[StartupPort]
  IN /\ worker.pc = "updating" /\ s # None
     /\ Finish(~ /\ server[s].modset = worker.modset
                 /\ HeadlessClientsConnected(s) = worker.count)
     /\ UNCHANGED <<osVars, registry, server, clients, closing, exiting>>

\* DedicatedServer.Start: configuration files, keys or Process.Start fail.
StartFails ==
  /\ worker.pc = "preparing"
  /\ Finish(TRUE)
  /\ UNCHANGED <<osVars, registry, server, clients, closing, exiting>>

LaunchProcess(p) ==
  LET s == worker.server
  IN /\ worker.pc = "preparing" /\ p \in FreshProcs
     /\ alive' = alive \cup {p}
     /\ params' = [params EXCEPT ![p] = [port |-> server[s].port,
                                         modset |-> server[s].modset]]
     /\ server' = [server EXCEPT ![s] = [@ EXCEPT !.proc = p, !.hooked = p]]
     /\ worker' = [worker EXCEPT !.pc = "subscribing"]
     /\ UNCHANGED <<crowded, registry, clients, closing, exiting>>

\* _serverWasStarted = true; OnProcessShutdown += OnServerProcessShutdown.
SubscribeExit ==
  LET s == worker.server
  IN /\ worker.pc = "subscribing"
     /\ server' = [server EXCEPT ![s] =
          [@ EXCEPT !.started = TRUE, !.watched = (server[s].hooked # None)]]
     /\ worker' = [worker EXCEPT !.pc = "clients"]
     /\ UNCHANGED <<osVars, registry, clients, closing, exiting>>

StartClient(c) ==
  /\ worker.pc = "clients" /\ c \in worker.todo
  /\ \/ /\ clients' = [clients EXCEPT ![worker.server][c] = "up"]
        /\ worker' = [worker EXCEPT !.todo = @ \ {c}]
     \/ /\ worker' = [worker EXCEPT !.todo = @ \ {c}, !.failed = TRUE]
        /\ UNCHANGED clients
  /\ UNCHANGED <<osVars, registry, server, closing, exiting>>

CompleteStart ==
  /\ worker.pc = "clients" /\ worker.todo = {}
  /\ Finish(worker.failed)
  /\ UNCHANGED <<osVars, registry, server, clients, closing, exiting>>

WorkerStep ==
  \/ ShutdownsJoined
  \/ UpdateModsetFails
  \/ \E s \in Servers, cs \in SUBSET Clients : CreateServer(s, cs)
  \/ FindServer
  \/ StartFails
  \/ \E p \in Procs : LaunchProcess(p)
  \/ SubscribeExit
  \/ \E c \in Clients : StartClient(c)
  \/ CompleteStart

RunJob ==
  \/ \E port \in Ports, force \in BOOLEAN : RunShutdownServer(port, force)
  \/ \E force \in BOOLEAN : RunShutdownAllServers(force)
  \/ \E m \in Modsets, n \in HcCounts : RunStartServer(m, n)

Boot ==
  \/ \E port \in Ports, s \in Servers, p \in Procs, m \in Modsets,
        cs \in SUBSET Clients : RecoverServer(port, s, p, m, cs)
  \/ FinishBoot

Environment ==
  \/ \E p \in Procs : Exit(p) \/ PlayersChange(p)
  \/ \E p, q \in Procs : RestartByItself(p, q)
  \/ \E s \in Servers, c \in Clients : ClientExit(s, c)

-----------------------------------------------------------------------------

Init ==
  /\ alive = {} /\ crowded = {}
  /\ params = [p \in Procs |-> [port |-> None, modset |-> None]]
  /\ registry = [port \in Ports |-> None]
  /\ server = [s \in Servers |-> NoServer]
  /\ clients = [s \in Servers |-> [c \in Clients |-> "absent"]]
  /\ closing = [s \in Servers |-> NotClosing]
  /\ exiting = [s \in Servers |-> NotExiting]
  /\ worker = [Idle(FALSE) EXCEPT !.pc = "booting"]

Next ==
  \/ Boot
  \/ RunJob
  \/ WorkerStep
  \/ \E s \in Servers : ClosingStep(s) \/ ExitingStep(s)
  \/ Environment

Spec == Init /\ [][Next]_vars

\* Tasks that were started run on.  Jobs, crashes, restarts and players owe
\* nothing to anybody.
Fairness ==
  /\ WF_vars(WorkerStep)
  /\ \A s \in Servers : WF_vars(ClosingStep(s)) /\ WF_vars(ExitingStep(s))

FairSpec == Spec /\ Fairness

-----------------------------------------------------------------------------
(***************************************************************************)
(* Properties.                                                             *)
(***************************************************************************)

\* Every variable has the shape the code gives it.
TypeOK ==
  /\ alive \subseteq Procs /\ crowded \subseteq alive
  /\ params \in [Procs -> [port : Ports \cup {None}, modset : Modsets \cup {None}]]
  /\ registry \in [Ports -> Servers \cup {None}]
  /\ server \in [Servers -> ServerRecord]
  /\ clients \in [Servers -> [Clients -> ClientState]]
  /\ closing \in [Servers -> ClosingRecord]
  /\ exiting \in [Servers -> ExitingRecord]
  /\ worker \in WorkerRecord

-----------------------------------------------------------------------------
(***************************************************************************)
(* Safety.                                                                 *)
(***************************************************************************)

\* Unless Arma restarts itself, every server process that runs belongs to the
\* server registered on its port: no interleaving of shutdowns, late exit
\* events and new starts makes the registry lose a running server, or puts two
\* server processes on one port.
RunningServersAreManaged ==
  ~MayRestart =>
    \A p \in alive :
      \E s \in Servers : registry[params[p].port] = s /\ server[s].proc = p

\* The exit of a running server process will be noticed, also after the server
\* has been adopted from a restart: the event of exactly that process is hooked
\* and subscribed to.  Start is the only place with a gap.
ExitsAreWatched ==
  \A s \in Servers :
    /\ server[s].proc \in alive
    /\ ~(worker.pc = "subscribing" /\ worker.server = s)
    => server[s].hooked = server[s].proc /\ server[s].watched

\* No headless client outlives its server's registration: both ways a server
\* leaves the registry wait for its clients first (a server that dies inside
\* Start, or comes back by itself, is outside this property).
NoStrayClients ==
  ~MayRestart /\ ~EarlyExit =>
    \A s \in Servers : ~Registered(s) => ClientsUp(s) = {}

\* A shutdown job that succeeds leaves no server process on its ports, whatever
\* exit handlers ran meanwhile and whichever process ignored the request.
ShutdownLeavesNothing ==
  /\ worker.pc = "closing" /\ worker.kind = "shutdown"
  /\ worker'.pc = "idle" /\ ~worker'.failed
  => \A p \in alive : params[p].port \notin worker.ports

ShutdownSuccessMeansStopped == [][ShutdownLeavesNothing]_vars

\* A server whose process has gone leaves the registry, so that its port can be
\* used again, or goes on with the process that came in its place; only a handler
\* that an exception ended leaves it there.
DeadServersLeave ==
  \A s \in Servers, p \in Procs :
    server[s].watched /\ server[s].hooked = p /\ p \notin alive
      ~> \/ ~Registered(s)
         \/ server[s].proc \notin {None, p}
         \/ exiting[s] = Faulted

\* "Shutdown_ServerShutdown_OnServerShutdownInvoked": and no handler leaves it.
ShutdownAlwaysInvoked ==
  \A s \in Servers :
    server[s].hooked # None /\ server[s].hooked \notin alive ~> ~Registered(s)

\* Every job the worker takes ends, so the next one gets its turn.
JobsFinish == worker.pc \in {"closing", "updating", "preparing", "subscribing",
                             "clients"} ~> worker.pc = "idle"

-----------------------------------------------------------------------------
(***************************************************************************)
(* The inductive invariant behind the safety properties.                   *)
(***************************************************************************)

RegistryMatches ==
  \A port \in Ports : registry[port] # None => server[registry[port]].port = port

\* A process that was ever launched keeps its command line; whatever a server
\* tracks was given that server's port.
ProcessesHavePorts ==
  /\ \A p \in alive : params[p].port # None
  /\ \A s \in Servers :
       /\ server[s].proc # None => params[server[s].proc].port # None
       /\ server[s].hooked # None =>
            params[server[s].hooked].port = server[s].port /\ server[s].port # None
       /\ exiting[s].pc # "none" =>
            /\ exiting[s].of # None /\ server[s].port # None
            /\ params[exiting[s].of].port = server[s].port
       /\ exiting[s].pc = "adopt" =>
            /\ exiting[s].found # None
            /\ params[exiting[s].found].port = server[s].port

UnusedAreBlank ==
  \A s \in Servers : Unused(s) => /\ server[s].proc = None /\ server[s].hooked = None
                                  /\ exiting[s].pc = "none"
                                  /\ closing[s].pc = "none"
                                  /\ ClientsUp(s) = {}

\* Only the job that shuts servers down has shutdowns in flight.
ClosingBelongsToJob ==
  \A s \in Servers : closing[s].pc # "none" => worker.pc = "closing"

\* Start works on a server nobody else touches until its process runs.
StartOwnsServer ==
  /\ worker.pc \in {"preparing", "subscribing", "clients"} =>
       worker.server # None /\ server[worker.server].port = StartupPort
  /\ worker.pc = "preparing" =>
       /\ registry[StartupPort] = worker.server
       /\ server[worker.server].proc = None /\ server[worker.server].hooked = None
       /\ exiting[worker.server].pc = "none"

ExitsAreHooked ==
  \A s \in Servers :
    server[s].proc \in alive => server[s].hooked = server[s].proc

\* What is removed from the registry has stopped: an exit handler and a
\* finished shutdown find their server stopped as long as it is registered.
TasksFindStopped ==
  ~MayRestart =>
    \A s \in Servers : Registered(s) =>
      /\ exiting[s].pc # "none" => IsServerStopped(s)
      /\ closing[s].pc = "clients" => IsServerStopped(s)
      /\ closing[s].pc \in {"signal", "process"} =>
           server[s].proc = closing[s].proc \/ IsServerStopped(s)

\* A shutdown job that has not failed still works on what runs on its ports.
JobCoversRunning ==
  ~MayRestart /\ worker.pc = "closing" /\ worker.kind = "shutdown" /\ ~worker.failed
  => \A s \in Servers :
       Registered(s) /\ ~IsServerStopped(s) /\ server[s].port \in worker.ports
       => closing[s].pc # "none"

\* While Start runs its server runs, and no handler has taken it up.
StartedRuns ==
  ~MayRestart /\ ~EarlyExit
  /\ worker.pc \in {"preparing", "subscribing", "clients"} =>
    /\ Registered(worker.server) /\ exiting[worker.server].pc = "none"
    /\ worker.pc # "preparing" => server[worker.server].proc \in alive

\* Every client that still runs is awaited by whoever shuts its server down.
RunningClientsAwaited ==
  ~MayRestart /\ ~EarlyExit =>
    \A s \in Servers :
      /\ closing[s].pc = "clients" => ClientsUp(s) \subseteq closing[s].wait
      /\ exiting[s].pc = "clients" => ClientsUp(s) \subseteq exiting[s].wait

\* The conjunction that every step preserves.
LifecycleInv ==
  /\ TypeOK
  /\ RegistryMatches
  /\ ProcessesHavePorts
  /\ UnusedAreBlank
  /\ ClosingBelongsToJob
  /\ StartOwnsServer
  /\ ExitsAreHooked
  /\ ExitsAreWatched
  /\ TasksFindStopped
  /\ RunningServersAreManaged
  /\ JobCoversRunning
  /\ StartedRuns
  /\ RunningClientsAwaited
  /\ NoStrayClients
-----------------------------------------------------------------------------
(***************************************************************************)
(* The abstract specification the registry implements.                     *)
(***************************************************************************)
Slots == INSTANCE ServerSlots
           WITH occupant <- registry,
                used <- {s \in Servers : ~Unused(s)},
                running <- {params[p].port : p \in alive}

\* Unless Arma restarts itself, the manager keeps the promise of ServerSlots:
\* every await, exit event and shutdown maps to a step on one port or to none,
\* so a port is given up only after its process and never to a second one.
SlotsImplemented == Slots!Spec
=============================================================================
