-------------------------- MODULE ServerLifecycleProofs --------------------------
(***************************************************************************)
(* The safety of ServerLifecycle for any sets of ports, modsets, servers,  *)
(* processes and clients: first the types, then the inductive invariant    *)
(* and what follows from it, at last the refinement of ServerSlots.        *)
(***************************************************************************)
EXTENDS ServerLifecycle, TLAPS

USE NamesAssumption

(***************************************************************************)
(* Type correctness.                                                       *)
(***************************************************************************)

-----------------------------------------------------------------------------
(* The records the actions build have the right fields. *)

LEMMA BlankRecords ==
  /\ NoServer \in ServerRecord
  /\ NotClosing \in ClosingRecord
  /\ NotExiting \in ExitingRecord /\ Faulted \in ExitingRecord
  /\ \A failed \in BOOLEAN : Idle(failed) \in WorkerRecord
BY DEF NoServer, ServerRecord, NotClosing, ClosingRecord, NotExiting, Faulted,
       ExitingRecord, Idle, WorkerRecord

\* A discovery finds nothing that does not run.
LEMMA DiscoveredRuns ==
  ASSUME NEW ps, NEW found \in Discovered(ps)
  PROVE  found \subseteq ps
BY DEF Discovered

\* How CheckServerIsRestarting leaves the handler.
LEMMA CheckOutcome ==
  ASSUME NEW s, CheckServerIsRestarting(s)
  PROVE  \/ \E p \in alive : /\ params[p].port = params[exiting[s].of].port
                             /\ exiting' = [exiting EXCEPT ![s] =
                                   [@ EXCEPT !.pc = "adopt", !.found = p]]
         \/ exiting' = [exiting EXCEPT ![s] = Faulted]
         \/ exiting' = [exiting EXCEPT ![s] = AwaitClients(@, s)]
<1>1. PICK found \in Discovered(ServersOn(params[exiting[s].of].port)) :
        \/ \E p \in found : exiting' = [exiting EXCEPT ![s] =
                                  [@ EXCEPT !.pc = "adopt", !.found = p]]
        \/ exiting' = [exiting EXCEPT ![s] = Faulted]
        \/ exiting' = [exiting EXCEPT ![s] = AwaitClients(@, s)]
  BY DEF CheckServerIsRestarting
<1>2. found \subseteq ServersOn(params[exiting[s].of].port)
  BY DiscoveredRuns
<1>3. QED
  BY <1>1, <1>2 DEF ServersOn

LEMMA TypeInit == Init => TypeOK
<1> SUFFICES ASSUME Init PROVE TypeOK
  OBVIOUS
<1>1. worker \in WorkerRecord
  BY DEF Init, Idle, WorkerRecord
<1>2. QED
  BY <1>1, BlankRecords DEF Init, TypeOK, ClientState

\* Awaiting the clients, or one of them being done, keeps a task a task.
LEMMA AwaitClientsType ==
  ASSUME NEW s \in Servers
  PROVE  /\ \A task \in ClosingRecord : AwaitClients(task, s) \in ClosingRecord
         /\ \A task \in ExitingRecord : AwaitClients(task, s) \in ExitingRecord
<1>1. ClientsUp(s) \in SUBSET Clients
  BY DEF ClientsUp
<1>2. QED
  BY <1>1 DEF ClosingRecord, ExitingRecord, AwaitClients

LEMMA ClientDoneType ==
  ASSUME NEW c \in Clients, NEW threw \in BOOLEAN
  PROVE  /\ \A task \in ClosingRecord : ClientDone(task, c, threw) \in ClosingRecord
         /\ \A task \in ExitingRecord : ClientDone(task, c, threw) \in ExitingRecord
<1>1. ASSUME NEW task \in ClosingRecord
      PROVE  ClientDone(task, c, threw) \in ClosingRecord
  <2>1. task.wait \ {c} \in SUBSET Clients /\ (task.threw \/ threw) \in BOOLEAN
    BY DEF ClosingRecord
  <2>2. QED
    BY <2>1 DEF ClosingRecord, ClientDone
<1>2. ASSUME NEW task \in ExitingRecord
      PROVE  ClientDone(task, c, threw) \in ExitingRecord
  <2>1. task.wait \ {c} \in SUBSET Clients /\ (task.threw \/ threw) \in BOOLEAN
    BY DEF ExitingRecord
  <2>2. QED
    BY <2>1 DEF ExitingRecord, ClientDone
<1>3. QED
  BY <1>1, <1>2

LEMMA TypeEnvironment == TypeOK /\ Environment => TypeOK'
<1> SUFFICES ASSUME TypeOK, Environment PROVE TypeOK'
  OBVIOUS
<1> USE DEF TypeOK
<1>1. ASSUME NEW p \in Procs, Exit(p) PROVE TypeOK'
  BY <1>1 DEF Exit
<1>2. ASSUME NEW p \in Procs, PlayersChange(p) PROVE TypeOK'
  BY <1>2 DEF PlayersChange
<1>3. ASSUME NEW p \in Procs, NEW q \in Procs, RestartByItself(p, q) PROVE TypeOK'
  BY <1>3 DEF RestartByItself, FreshProcs
<1>4. ASSUME NEW s \in Servers, NEW c \in Clients, ClientExit(s, c) PROVE TypeOK'
  BY <1>4 DEF ClientExit, osVars, ClientState
<1>5. QED
  BY <1>1, <1>2, <1>3, <1>4 DEF Environment

LEMMA TypeBoot == TypeOK /\ Boot => TypeOK'
<1> SUFFICES ASSUME TypeOK, Boot PROVE TypeOK'
  OBVIOUS
<1>1. ASSUME NEW port \in Ports, NEW s \in Servers, NEW p \in Procs,
             NEW m \in Modsets, NEW cs \in SUBSET Clients,
             RecoverServer(port, s, p, m, cs)
      PROVE  TypeOK'
  <2> DEFINE r == [port |-> port, modset |-> m, proc |-> p, hooked |-> p,
                   watched |-> TRUE, started |-> FALSE]
             h == [c \in Clients |-> IF c \in cs THEN "up" ELSE "absent"]
  <2>1. r \in ServerRecord /\ h \in [Clients -> ClientState]
    BY DEF ServerRecord, ClientState
  <2>2. server' = [server EXCEPT ![s] = r] /\ clients' = [clients EXCEPT ![s] = h]
    BY <1>1 DEF RecoverServer
  <2> HIDE DEF r, h
  <2>3. server' \in [Servers -> ServerRecord]
        /\ clients' \in [Servers -> [Clients -> ClientState]]
    BY <2>1, <2>2 DEF TypeOK
  <2>4. QED
    BY <1>1, <2>3 DEF RecoverServer, TypeOK
<1>2. ASSUME FinishBoot PROVE TypeOK'
  BY <1>2, BlankRecords DEF FinishBoot, TypeOK, osVars
<1>3. QED
  BY <1>1, <1>2 DEF Boot

LEMMA TypeRunJob == TypeOK /\ RunJob => TypeOK'
<1> SUFFICES ASSUME TypeOK, RunJob PROVE TypeOK'
  OBVIOUS
<1> USE DEF TypeOK, osVars, BeginClosing, NotClosing, ClosingRecord, Idle,
            WorkerRecord
<1>1. ASSUME NEW port \in Ports, NEW force \in BOOLEAN,
             RunShutdownServer(port, force)
      PROVE  TypeOK'
  BY <1>1 DEF RunShutdownServer
<1>2. ASSUME NEW force \in BOOLEAN, RunShutdownAllServers(force) PROVE TypeOK'
  BY <1>2 DEF RunShutdownAllServers
<1>3. ASSUME NEW m \in Modsets, NEW n \in HcCounts, RunStartServer(m, n)
      PROVE  TypeOK'
  BY <1>3 DEF RunStartServer
<1>4. QED
  BY <1>1, <1>2, <1>3 DEF RunJob

LEMMA TypeClosing == TypeOK /\ (\E s \in Servers : ClosingStep(s)) => TypeOK'
<1> SUFFICES ASSUME TypeOK, NEW s \in Servers, ClosingStep(s) PROVE TypeOK'
  OBVIOUS
<1>t. closing[s] \in ClosingRecord
  BY DEF TypeOK
<1>a. ASSUME Abandon(s)
      PROVE  closing' \in [Servers -> ClosingRecord] /\ worker' \in WorkerRecord
  <2>1. closing' \in [Servers -> ClosingRecord]
    BY <1>a, BlankRecords DEF Abandon, TypeOK
  <2>2. worker \in WorkerRecord /\ worker' = [worker EXCEPT !.failed = TRUE]
    BY <1>a DEF Abandon, TypeOK
  <2>3. worker' \in WorkerRecord
    BY <2>2 DEF WorkerRecord
  <2>4. QED
    BY <2>1, <2>3
<1>b. ASSUME NEW pc \in {"shutdown", "process"}
      PROVE  [closing EXCEPT ![s].pc = pc] \in [Servers -> ClosingRecord]
  <2>1. closing \in [Servers -> ClosingRecord]
    BY DEF TypeOK
  <2>2. QED
    BY <2>1 DEF ClosingRecord
<1>1. ASSUME CheckPlayers(s) PROVE TypeOK'
  <2>1. closing' \in [Servers -> ClosingRecord] /\ worker' \in WorkerRecord
    <3>1. CASE Abandon(s)
      BY <3>1, <1>a
    <3>2. CASE closing' = [closing EXCEPT ![s].pc = "shutdown"] /\ UNCHANGED worker
      BY <3>2, <1>b DEF TypeOK
    <3>3. QED
      BY <1>1, <3>1, <3>2 DEF CheckPlayers
  <2>2. QED
    BY <1>1, <2>1 DEF CheckPlayers, TypeOK, osVars
<1>2. ASSUME ShutdownProcess(s) PROVE TypeOK'
  <2> DEFINE r == [closing[s] EXCEPT !.pc = "signal", !.proc = server[s].proc]
  <2>0. server[s].proc \in Procs \cup {None}
    BY DEF TypeOK, ServerRecord
  <2>1. r \in ClosingRecord
    BY <1>t, <2>0 DEF ClosingRecord
  <2>2. closing' = [closing EXCEPT ![s] = IF IsServerStopped(s)
                                            THEN AwaitClients(closing[s], s) ELSE r]
    BY <1>2 DEF ShutdownProcess, TypeOK
  <2> HIDE DEF r
  <2>3. closing' \in [Servers -> ClosingRecord]
    BY <1>t, <2>1, <2>2, AwaitClientsType DEF TypeOK
  <2>4. QED
    BY <1>2, <2>3 DEF ShutdownProcess, TypeOK, osVars
<1>3. ASSUME SignalProcess(s) PROVE TypeOK'
  <2>1. closing' \in [Servers -> ClosingRecord] /\ worker' \in WorkerRecord
    <3>1. CASE Abandon(s)
      BY <3>1, <1>a
    <3>2. CASE closing' = [closing EXCEPT ![s].pc = "process"] /\ UNCHANGED worker
      BY <3>2, <1>b DEF TypeOK
    <3>3. QED
      BY <1>3, <3>1, <3>2 DEF SignalProcess
  <2>2. QED
    BY <1>3, <2>1 DEF SignalProcess, TypeOK, osVars
<1>4. ASSUME ProcessGone(s) PROVE TypeOK'
  <2>1. closing' \in [Servers -> ClosingRecord]
    BY <1>4, <1>t, AwaitClientsType DEF ProcessGone, TypeOK
  <2> DEFINE p == IF server[s].proc = closing[s].proc THEN None ELSE server[s].proc
  <2>a. server \in [Servers -> ServerRecord]
    BY DEF TypeOK
  <2>b. p \in Procs \cup {None}
    BY <2>a DEF ServerRecord
  <2>c. server' = [server EXCEPT ![s].proc = p]
    BY <1>4, <2>a DEF ProcessGone
  <2> HIDE DEF p
  <2>2. server' \in [Servers -> ServerRecord]
    BY <2>a, <2>b, <2>c DEF ServerRecord
  <2>3. QED
    BY <1>4, <2>1, <2>2 DEF ProcessGone, TypeOK
<1>5. ASSUME NEW c \in Clients, CloseClient(s, c) PROVE TypeOK'
  <2>1. closing' \in [Servers -> ClosingRecord]
    BY <1>5, <1>t, ClientDoneType DEF CloseClient, TypeOK
  <2>2. clients' \in [Servers -> [Clients -> ClientState]]
    BY <1>5 DEF CloseClient, ClientShutDown, TypeOK, ClientState
  <2>3. QED
    BY <1>5, <2>1, <2>2 DEF CloseClient, TypeOK, osVars
<1>6. ASSUME CompleteShutdown(s) PROVE TypeOK'
  <2>1. closing' \in [Servers -> ClosingRecord] /\ worker' \in WorkerRecord
    <3>1. CASE Abandon(s)
      BY <3>1, <1>a
    <3>2. CASE closing' = [closing EXCEPT ![s] = NotClosing] /\ UNCHANGED worker
      BY <3>2, BlankRecords DEF TypeOK
    <3>3. QED
      BY <1>6, <3>1, <3>2 DEF CompleteShutdown
  <2>2. registry' \in [Ports -> Servers \cup {None}]
    BY <1>6 DEF CompleteShutdown, TryRemoveServer, TypeOK
  <2>3. QED
    BY <1>6, <2>1, <2>2 DEF CompleteShutdown, TypeOK, osVars
<1>7. QED
  BY <1>1, <1>2, <1>3, <1>4, <1>5, <1>6 DEF ClosingStep

LEMMA TypeExiting == TypeOK /\ (\E s \in Servers : ExitingStep(s)) => TypeOK'
<1> SUFFICES ASSUME TypeOK, NEW s \in Servers, ExitingStep(s) PROVE TypeOK'
  OBVIOUS
<1>t. exiting[s] \in ExitingRecord /\ server[s] \in ServerRecord
  BY DEF TypeOK
<1>1. ASSUME RaiseExited(s) PROVE TypeOK'
  <2> DEFINE e == [NotExiting EXCEPT !.pc = "discover", !.of = server[s].hooked]
             r == [server[s] EXCEPT !.hooked = None, !.watched = FALSE]
  <2>1. e \in ExitingRecord /\ r \in ServerRecord
    BY <1>t, BlankRecords DEF ExitingRecord, ServerRecord
  <2>2. /\ exiting' = [exiting EXCEPT ![s] = e] \/ exiting' = exiting
        /\ server' = [server EXCEPT ![s] = r]
    BY <1>1 DEF RaiseExited, TypeOK
  <2> HIDE DEF e, r
  <2>3. QED
    BY <1>1, <2>1, <2>2 DEF RaiseExited, TypeOK, osVars
<1>2. ASSUME CheckServerIsRestarting(s) PROVE TypeOK'
  <2>1. AwaitClients(exiting[s], s) \in ExitingRecord
    BY <1>t, AwaitClientsType
  <2>2. CASE \E p \in alive : exiting' = [exiting EXCEPT ![s] =
                                  [@ EXCEPT !.pc = "adopt", !.found = p]]
    <3>1. PICK p \in alive : exiting' = [exiting EXCEPT ![s] =
                                  [@ EXCEPT !.pc = "adopt", !.found = p]]
      BY <2>2
    <3>2. [exiting[s] EXCEPT !.pc = "adopt", !.found = p] \in ExitingRecord
      BY <1>t DEF ExitingRecord, TypeOK
    <3>3. exiting' \in [Servers -> ExitingRecord]
      BY <3>1, <3>2 DEF TypeOK
    <3>4. QED
      BY <1>2, <3>3 DEF CheckServerIsRestarting, TypeOK, osVars
  <2>3. CASE exiting' = [exiting EXCEPT ![s] = Faulted]
    BY <1>2, <2>3, BlankRecords DEF CheckServerIsRestarting, TypeOK, osVars
  <2>4. CASE exiting' = [exiting EXCEPT ![s] = AwaitClients(@, s)]
    <3>1. exiting' \in [Servers -> ExitingRecord]
      BY <2>1, <2>4 DEF TypeOK
    <3>2. QED
      BY <1>2, <3>1 DEF CheckServerIsRestarting, TypeOK, osVars
  <2>5. QED
    BY <1>2, <2>2, <2>3, <2>4, CheckOutcome
<1>3. ASSUME AdoptProcess(s) PROVE TypeOK'
  <2>1. PICK missed \in BOOLEAN :
          server' = [server EXCEPT ![s] =
            [@ EXCEPT !.proc = exiting[s].found,
                      !.hooked = IF missed THEN None ELSE exiting[s].found,
                      !.watched = ~missed]]
    BY <1>3 DEF AdoptProcess
  <2> DEFINE r == [server[s] EXCEPT !.proc = exiting[s].found,
                     !.hooked = IF missed THEN None ELSE exiting[s].found,
                     !.watched = ~missed]
  <2>2. r \in ServerRecord
    BY <1>t DEF ServerRecord, ExitingRecord
  <2>3. server' = [server EXCEPT ![s] = r]
    BY <2>1 DEF TypeOK
  <2> HIDE DEF r
  <2>4. QED
    BY <1>3, <2>2, <2>3, BlankRecords DEF AdoptProcess, TypeOK, osVars
<1>4. ASSUME NEW c \in Clients, ExitClient(s, c) PROVE TypeOK'
  <2>1. exiting' \in [Servers -> ExitingRecord]
    BY <1>4, <1>t, ClientDoneType DEF ExitClient, TypeOK
  <2>2. clients' \in [Servers -> [Clients -> ClientState]]
    BY <1>4 DEF ExitClient, ClientShutDown, TypeOK, ClientState
  <2>3. QED
    BY <1>4, <2>1, <2>2 DEF ExitClient, TypeOK, osVars
<1>5. ASSUME CompleteExit(s) PROVE TypeOK'
  <2>1. exiting' \in [Servers -> ExitingRecord]
    BY <1>5, BlankRecords DEF CompleteExit, TypeOK
  <2>2. registry' \in [Ports -> Servers \cup {None}]
    BY <1>5 DEF CompleteExit, TryRemoveServer, TypeOK
  <2>3. QED
    BY <1>5, <2>1, <2>2 DEF CompleteExit, TypeOK, osVars
<1>6. QED
  BY <1>1, <1>2, <1>3, <1>4, <1>5 DEF ExitingStep

LEMMA TypeWorker == TypeOK /\ StartOwnsServer /\ WorkerStep => TypeOK'
<1> SUFFICES ASSUME TypeOK, StartOwnsServer, WorkerStep PROVE TypeOK'
  OBVIOUS
<1>w. worker \in WorkerRecord
  BY DEF TypeOK
<1>f. worker.failed \in BOOLEAN
  BY <1>w DEF WorkerRecord
<1>1. ASSUME ShutdownsJoined PROVE TypeOK'
  <2>1. [worker EXCEPT !.pc = "updating"] \in WorkerRecord
    BY <1>w DEF WorkerRecord
  <2>2. QED
    BY <1>1, <1>f, <2>1, BlankRecords DEF ShutdownsJoined, Finish, TypeOK, osVars
<1>2. ASSUME UpdateModsetFails PROVE TypeOK'
  BY <1>2, BlankRecords DEF UpdateModsetFails, Finish, TypeOK, osVars
<1>3. ASSUME NEW s \in Servers, NEW cs \in SUBSET Clients, CreateServer(s, cs)
      PROVE  TypeOK'
  <2> DEFINE r == [NoServer EXCEPT !.port = StartupPort, !.modset = worker.modset]
             h == [c \in Clients |-> IF c \in cs THEN "null" ELSE "absent"]
  <2>1. r \in ServerRecord
    BY <1>w DEF NoServer, ServerRecord, WorkerRecord
  <2>2. h \in [Clients -> ClientState]
    BY DEF ClientState
  <2>3. worker' \in WorkerRecord
    BY <1>3, <1>w DEF CreateServer, WorkerRecord
  <2>4. server' = [server EXCEPT ![s] = r] /\ clients' = [clients EXCEPT ![s] = h]
    BY <1>3 DEF CreateServer
  <2> HIDE DEF r, h
  <2>5. QED
    BY <1>3, <2>1, <2>2, <2>3, <2>4 DEF CreateServer, TypeOK, osVars
<1>4. ASSUME FindServer PROVE TypeOK'
  <2>1. PICK failed \in BOOLEAN : worker' = Idle(failed)
    BY <1>4 DEF FindServer, Finish
  <2>2. QED
    BY <1>4, <2>1, BlankRecords DEF FindServer, TypeOK, osVars
<1>5. ASSUME StartFails PROVE TypeOK'
  BY <1>5, BlankRecords DEF StartFails, Finish, TypeOK, osVars
<1>6. ASSUME NEW p \in Procs, LaunchProcess(p) PROVE TypeOK'
  <2> DEFINE s == worker.server
             r == [server[s] EXCEPT !.proc = p, !.hooked = p]
             a == [port |-> server[s].port, modset |-> server[s].modset]
  <2>1. s \in Servers
    BY <1>6, <1>w DEF LaunchProcess, StartOwnsServer, WorkerRecord
  <2>2. server[s] \in ServerRecord
    BY <2>1 DEF TypeOK
  <2>3. r \in ServerRecord
    BY <2>2 DEF ServerRecord
  <2>4. a \in [port : Ports \cup {None}, modset : Modsets \cup {None}]
    BY <2>2 DEF ServerRecord
  <2>5. worker' \in WorkerRecord
    BY <1>6, <1>w DEF LaunchProcess, WorkerRecord
  <2>6. server' = [server EXCEPT ![s] = r] /\ params' = [params EXCEPT ![p] = a]
    BY <1>6, <2>1 DEF LaunchProcess, TypeOK
  <2> HIDE DEF r, a
  <2>7. QED
    BY <1>6, <2>1, <2>3, <2>4, <2>5, <2>6 DEF LaunchProcess, TypeOK
<1>7. ASSUME SubscribeExit PROVE TypeOK'
  <2> DEFINE s == worker.server
             r == [server[s] EXCEPT !.started = TRUE,
                                    !.watched = (server[s].hooked # None)]
  <2>1. s \in Servers
    BY <1>7, <1>w DEF SubscribeExit, StartOwnsServer, WorkerRecord
  <2>2. server[s] \in ServerRecord /\ (server[s].hooked # None) \in BOOLEAN
    BY <2>1 DEF TypeOK
  <2>3. r \in ServerRecord
    BY <2>2 DEF ServerRecord
  <2>4. worker' \in WorkerRecord
    BY <1>7, <1>w DEF SubscribeExit, WorkerRecord
  <2>5. server' = [server EXCEPT ![s] = r]
    BY <1>7, <2>1 DEF SubscribeExit, TypeOK
  <2> HIDE DEF r
  <2>6. QED
    BY <1>7, <2>1, <2>3, <2>4, <2>5 DEF SubscribeExit, TypeOK, osVars
<1>8. ASSUME NEW c \in Clients, StartClient(c) PROVE TypeOK'
  <2>1. worker.server \in Servers
    BY <1>8, <1>w DEF StartClient, StartOwnsServer, WorkerRecord
  <2> DEFINE left == worker.todo \ {c}
  <2>2. left \in SUBSET Clients
    BY <1>w DEF WorkerRecord
  <2>3. \/ worker' = [worker EXCEPT !.todo = left]
        \/ worker' = [worker EXCEPT !.todo = left, !.failed = TRUE]
    BY <1>8, <1>w DEF StartClient, WorkerRecord
  <2> HIDE DEF left
  <2>4. worker' \in WorkerRecord
    BY <1>w, <2>2, <2>3 DEF WorkerRecord
  <2>5. [clients EXCEPT ![worker.server][c] = "up"]
          \in [Servers -> [Clients -> ClientState]]
    BY <2>1 DEF TypeOK, ClientState
  <2>6. QED
    BY <1>8, <2>4, <2>5 DEF StartClient, TypeOK, osVars
<1>9. ASSUME CompleteStart PROVE TypeOK'
  BY <1>9, <1>f, BlankRecords DEF CompleteStart, Finish, TypeOK, osVars
<1>10. QED
  BY <1>1, <1>2, <1>3, <1>4, <1>5, <1>6, <1>7, <1>8, <1>9 DEF WorkerStep

LEMMA TypeNext == TypeOK /\ StartOwnsServer /\ [Next]_vars => TypeOK'
<1> SUFFICES ASSUME TypeOK, StartOwnsServer, [Next]_vars PROVE TypeOK'
  OBVIOUS
<1>1. CASE Next
  BY <1>1, TypeBoot, TypeRunJob, TypeWorker, TypeClosing, TypeExiting,
     TypeEnvironment DEF Next
<1>2. CASE UNCHANGED vars
  BY <1>2 DEF vars, TypeOK
<1>3. QED
  BY <1>1, <1>2

(***************************************************************************)
(* The inductive invariant of ServerLifecycle and what follows from it.    *)
(*                                                                         *)
(* There is one lemma per action: it preserves LifecycleInv, the types     *)
(* being known to hold afterwards.  Its first steps say what the action    *)
(* changes where that takes more than expanding it; then there is one step *)
(* per conjunct that reads a variable the action assigns, and one for all  *)
(* the others.                                                             *)
(***************************************************************************)

\* What the types say of the fields the invariants compare.
LEMMA FieldTypes ==
  ASSUME LifecycleInv
  PROVE  /\ None \notin alive
         /\ registry \in [Ports -> Servers \cup {None}]
         /\ worker.server \in Servers \cup {None}
         /\ \A s \in Servers : /\ server[s].port \in Ports \cup {None}
                             /\ server[s].proc \in Procs \cup {None}
                             /\ server[s].hooked \in Procs \cup {None}
<1>1. server \in [Servers -> ServerRecord] /\ worker \in WorkerRecord
  BY DEF LifecycleInv, TypeOK
<1>2. None \notin alive /\ registry \in [Ports -> Servers \cup {None}]
  BY DEF LifecycleInv, TypeOK
<1>3. QED
  BY <1>1, <1>2 DEF ServerRecord, WorkerRecord

\* What a shutdown that ends in a failure changes.
LEMMA AbandonFrame ==
  ASSUME LifecycleInv, NEW s \in Servers, Abandon(s)
  PROVE  /\ \A t \in Servers : t # s => closing'[t] = closing[t]
         /\ closing'[s].pc = "none" /\ worker'.failed
         /\ worker'.pc = worker.pc /\ worker'.kind = worker.kind
         /\ worker'.ports = worker.ports /\ worker'.server = worker.server
BY DEF Abandon, NotClosing, LifecycleInv, TypeOK, WorkerRecord

\* A process that ends takes no other one with it.
LEMMA ExitSafe ==
  ASSUME LifecycleInv, TypeOK', NEW p \in Procs, Exit(p)
  PROVE  LifecycleInv'
<1>1. /\ RegistryMatches'
       /\ UnusedAreBlank'
       /\ ClosingBelongsToJob'
       /\ StartOwnsServer'
       /\ RunningClientsAwaited'
       /\ NoStrayClients'
  BY DEF LifecycleInv, Exit, RegistryMatches, UnusedAreBlank,
         ClosingBelongsToJob, StartOwnsServer, RunningClientsAwaited,
         NoStrayClients, ClientsUp, Registered, Unused, osVars
<1>2. ProcessesHavePorts'
  BY DEF LifecycleInv, Exit, BeingStarted, ProcessesHavePorts, StartOwnsServer,
         UnusedAreBlank, ClientsUp, Unused, TypeOK, ClientState, ClosingRecord,
         ExitingRecord, ServerRecord, WorkerRecord, osVars
<1>3. ExitsAreHooked'
  BY DEF LifecycleInv, Exit, BeingStarted, ExitsAreHooked, ProcessesHavePorts,
         UnusedAreBlank, ClientsUp, Unused, TypeOK, ClientState, ClosingRecord,
         ExitingRecord, ServerRecord, osVars
<1>4. ExitsAreWatched'
  BY DEF LifecycleInv, Exit, BeingStarted, ExitsAreWatched, ExitsAreHooked,
         ProcessesHavePorts, UnusedAreBlank, ClientsUp, Unused, TypeOK,
         ClientState, ClosingRecord, ExitingRecord, ServerRecord, WorkerRecord,
         osVars
<1>5. TasksFindStopped'
  BY DEF LifecycleInv, Exit, BeingStarted, TasksFindStopped, RegistryMatches,
         ProcessesHavePorts, UnusedAreBlank, ClosingBelongsToJob,
         StartOwnsServer, ExitsAreHooked, RunningServersAreManaged, ClientsUp,
         IsServerStopped, Registered, Unused, TypeOK, ClientState,
         ClosingRecord, ExitingRecord, ServerRecord, WorkerRecord, osVars
<1>6. RunningServersAreManaged'
  BY DEF LifecycleInv, Exit, BeingStarted, RunningServersAreManaged,
         RegistryMatches, ProcessesHavePorts, UnusedAreBlank,
         ClosingBelongsToJob, StartOwnsServer, ExitsAreHooked,
         TasksFindStopped, ClientsUp, IsServerStopped, Registered, Unused,
         TypeOK, ClientState, ClosingRecord, ExitingRecord, ServerRecord,
         WorkerRecord, osVars
<1>7. JobCoversRunning'
  BY DEF LifecycleInv, Exit, BeingStarted, JobCoversRunning, RegistryMatches,
         ProcessesHavePorts, UnusedAreBlank, ClosingBelongsToJob,
         TasksFindStopped, RunningServersAreManaged, ClientsUp,
         IsServerStopped, Registered, Unused, TypeOK, ClientState,
         ClosingRecord, ExitingRecord, ServerRecord, WorkerRecord, osVars
<1>8. StartedRuns'
  BY DEF LifecycleInv, Exit, BeingStarted, StartedRuns, RegistryMatches,
         ProcessesHavePorts, UnusedAreBlank, ClosingBelongsToJob,
         StartOwnsServer, ExitsAreHooked, TasksFindStopped, ClientsUp,
         IsServerStopped, Registered, Unused, TypeOK, ClientState,
         ClosingRecord, ExitingRecord, ServerRecord, WorkerRecord, osVars
<1>9. QED
  BY <1>1, <1>2, <1>3, <1>4, <1>5, <1>6, <1>7, <1>8 DEF LifecycleInv

\* Players are no part of the invariant.
LEMMA PlayersChangeSafe ==
  ASSUME LifecycleInv, TypeOK', NEW p \in Procs, PlayersChange(p)
  PROVE  LifecycleInv'
<1>1. /\ RegistryMatches'
       /\ ProcessesHavePorts'
       /\ UnusedAreBlank'
       /\ ClosingBelongsToJob'
       /\ StartOwnsServer'
       /\ ExitsAreHooked'
       /\ ExitsAreWatched'
       /\ TasksFindStopped'
       /\ RunningServersAreManaged'
       /\ JobCoversRunning'
       /\ StartedRuns'
       /\ RunningClientsAwaited'
       /\ NoStrayClients'
  BY DEF LifecycleInv, PlayersChange, RegistryMatches, ProcessesHavePorts,
         UnusedAreBlank, ClosingBelongsToJob, StartOwnsServer, ExitsAreHooked,
         ExitsAreWatched, TasksFindStopped, RunningServersAreManaged,
         JobCoversRunning, StartedRuns, RunningClientsAwaited, NoStrayClients,
         ClientsUp, IsServerStopped, Registered, Unused, osVars
<1>2. QED
  BY <1>1 DEF LifecycleInv

\* What comes back by itself has a command line; the rest assumes it does not.
LEMMA RestartByItselfSafe ==
  ASSUME LifecycleInv, TypeOK', NEW p \in Procs, NEW q \in Procs,
         RestartByItself(p, q)
  PROVE  LifecycleInv'
<1>1. /\ RegistryMatches'
       /\ UnusedAreBlank'
       /\ ClosingBelongsToJob'
       /\ StartOwnsServer'
       /\ RunningClientsAwaited'
       /\ NoStrayClients'
  BY DEF LifecycleInv, RestartByItself, RegistryMatches, UnusedAreBlank,
         ClosingBelongsToJob, StartOwnsServer, RunningClientsAwaited,
         NoStrayClients, ClientsUp, Registered, Unused, osVars
<1>2. ProcessesHavePorts'
  BY DEF LifecycleInv, RestartByItself, FreshProcs, ProcessesHavePorts,
         StartOwnsServer, UnusedAreBlank, ClientsUp, Unused, TypeOK,
         ClientState, ClosingRecord, ExitingRecord, ServerRecord, WorkerRecord,
         osVars
<1>3. ExitsAreHooked'
  BY DEF LifecycleInv, RestartByItself, FreshProcs, ExitsAreHooked,
         ProcessesHavePorts, UnusedAreBlank, ClientsUp, Unused, TypeOK,
         ClientState, ClosingRecord, ExitingRecord, ServerRecord, osVars
<1>4. ExitsAreWatched'
  BY DEF LifecycleInv, RestartByItself, FreshProcs, ExitsAreWatched,
         ExitsAreHooked, ProcessesHavePorts, UnusedAreBlank, ClientsUp, Unused,
         TypeOK, ClientState, ClosingRecord, ExitingRecord, ServerRecord,
         WorkerRecord, osVars
<1>5. TasksFindStopped'
  BY DEF LifecycleInv, RestartByItself, FreshProcs, TasksFindStopped,
         RegistryMatches, ProcessesHavePorts, UnusedAreBlank,
         ClosingBelongsToJob, StartOwnsServer, ExitsAreHooked,
         RunningServersAreManaged, ClientsUp, IsServerStopped, Registered,
         Unused, TypeOK, ClientState, ClosingRecord, ExitingRecord,
         ServerRecord, WorkerRecord, osVars
<1>6. RunningServersAreManaged'
  BY DEF LifecycleInv, RestartByItself, FreshProcs, RunningServersAreManaged,
         RegistryMatches, ProcessesHavePorts, UnusedAreBlank,
         ClosingBelongsToJob, StartOwnsServer, ExitsAreHooked,
         TasksFindStopped, ClientsUp, IsServerStopped, Registered, Unused,
         TypeOK, ClientState, ClosingRecord, ExitingRecord, ServerRecord,
         WorkerRecord, osVars
<1>7. JobCoversRunning'
  BY DEF LifecycleInv, RestartByItself, FreshProcs, JobCoversRunning,
         RegistryMatches, ProcessesHavePorts, UnusedAreBlank,
         ClosingBelongsToJob, TasksFindStopped, RunningServersAreManaged,
         ClientsUp, IsServerStopped, Registered, Unused, TypeOK, ClientState,
         ClosingRecord, ExitingRecord, ServerRecord, WorkerRecord, osVars
<1>8. StartedRuns'
  BY DEF LifecycleInv, RestartByItself, FreshProcs, StartedRuns,
         RegistryMatches, ProcessesHavePorts, UnusedAreBlank,
         ClosingBelongsToJob, StartOwnsServer, ExitsAreHooked,
         TasksFindStopped, ClientsUp, IsServerStopped, Registered, Unused,
         TypeOK, ClientState, ClosingRecord, ExitingRecord, ServerRecord,
         WorkerRecord, osVars
<1>9. QED
  BY <1>1, <1>2, <1>3, <1>4, <1>5, <1>6, <1>7, <1>8 DEF LifecycleInv

\* A client fewer only makes the claims about clients easier.
LEMMA ClientExitSafe ==
  ASSUME LifecycleInv, TypeOK', NEW s \in Servers, NEW c \in Clients,
         ClientExit(s, c)
  PROVE  LifecycleInv'
<1>1. /\ RegistryMatches'
       /\ ProcessesHavePorts'
       /\ ClosingBelongsToJob'
       /\ StartOwnsServer'
       /\ ExitsAreHooked'
       /\ ExitsAreWatched'
       /\ TasksFindStopped'
       /\ RunningServersAreManaged'
       /\ JobCoversRunning'
       /\ StartedRuns'
  BY DEF LifecycleInv, ClientExit, RegistryMatches, ProcessesHavePorts,
         ClosingBelongsToJob, StartOwnsServer, ExitsAreHooked, ExitsAreWatched,
         TasksFindStopped, RunningServersAreManaged, JobCoversRunning,
         StartedRuns, IsServerStopped, Registered, osVars
<1>2. UnusedAreBlank'
  BY DEF LifecycleInv, ClientExit, UnusedAreBlank, RegistryMatches,
         StartOwnsServer, ProcessesHavePorts, StartedRuns, ClientsUp,
         Registered, Unused, TypeOK, ClientState, ClosingRecord, ExitingRecord,
         ServerRecord, WorkerRecord, osVars
<1>3. RunningClientsAwaited'
  BY DEF LifecycleInv, ClientExit, RunningClientsAwaited, UnusedAreBlank,
         ClosingBelongsToJob, StartedRuns, StartOwnsServer, ClientsUp,
         Registered, Unused, TypeOK, ClientState, ClosingRecord, ExitingRecord,
         ServerRecord, WorkerRecord, osVars
<1>4. NoStrayClients'
  BY DEF LifecycleInv, ClientExit, NoStrayClients, RunningClientsAwaited,
         StartedRuns, UnusedAreBlank, StartOwnsServer, RegistryMatches,
         ClientsUp, Registered, Unused, TypeOK, ClientState, ClosingRecord,
         ExitingRecord, ServerRecord, WorkerRecord, osVars
<1>5. QED
  BY <1>1, <1>2, <1>3, <1>4 DEF LifecycleInv

\* A refusal fails the job, so the job no longer claims to cover its ports.
LEMMA CheckPlayersSafe ==
  ASSUME LifecycleInv, TypeOK', NEW s \in Servers, CheckPlayers(s)
  PROVE  LifecycleInv'
<1>f. /\ UNCHANGED <<alive, crowded, params, registry, server, clients, exiting>>
      /\ closing[s].pc = "status"
      /\ \A t \in Servers : t # s => closing'[t] = closing[t]
      /\ \/ closing'[s].pc = "shutdown" /\ worker' = worker
         \/ closing'[s].pc = "none" /\ worker'.failed
      /\ worker'.pc = worker.pc /\ worker'.kind = worker.kind
      /\ worker'.ports = worker.ports /\ worker'.server = worker.server
  <2>1. CASE Abandon(s)
    BY <2>1, AbandonFrame DEF CheckPlayers, osVars
  <2>2. CASE closing' = [closing EXCEPT ![s].pc = "shutdown"] /\ UNCHANGED worker
    BY <2>2 DEF CheckPlayers, TypeOK, LifecycleInv, ClosingRecord, osVars
  <2>3. QED
    BY <2>1, <2>2 DEF CheckPlayers
<1>1. /\ RegistryMatches'
       /\ ProcessesHavePorts'
       /\ ExitsAreHooked'
       /\ RunningServersAreManaged'
       /\ NoStrayClients'
  BY <1>f DEF LifecycleInv, RegistryMatches, ProcessesHavePorts,
              ExitsAreHooked, RunningServersAreManaged, NoStrayClients,
              ClientsUp, Registered
<1>2. UnusedAreBlank'
  BY <1>f, FieldTypes DEF LifecycleInv, UnusedAreBlank, RegistryMatches,
                          StartOwnsServer, ProcessesHavePorts, StartedRuns,
                          ClientsUp, Registered, Unused
<1>3. ClosingBelongsToJob'
  BY <1>f, FieldTypes DEF LifecycleInv, ClosingBelongsToJob
<1>4. StartOwnsServer'
  BY <1>f, FieldTypes DEF LifecycleInv, StartOwnsServer, ClosingBelongsToJob,
                          UnusedAreBlank, ExitsAreHooked, ProcessesHavePorts,
                          ClientsUp, Unused
<1>5. ExitsAreWatched'
  BY <1>f, FieldTypes DEF LifecycleInv, ExitsAreWatched, ExitsAreHooked,
                          ProcessesHavePorts, UnusedAreBlank, ClientsUp, Unused
<1>6. TasksFindStopped'
  BY <1>f, FieldTypes DEF LifecycleInv, TasksFindStopped, RegistryMatches,
                          ProcessesHavePorts, UnusedAreBlank,
                          ClosingBelongsToJob, StartOwnsServer, ExitsAreHooked,
                          RunningServersAreManaged, ClientsUp, IsServerStopped,
                          Registered, Unused
<1>7. JobCoversRunning'
  BY <1>f, FieldTypes DEF LifecycleInv, JobCoversRunning, RegistryMatches,
                          ProcessesHavePorts, UnusedAreBlank,
                          ClosingBelongsToJob, TasksFindStopped,
                          RunningServersAreManaged, ClientsUp, IsServerStopped,
                          Registered, Unused
<1>8. StartedRuns'
  BY <1>f, FieldTypes DEF LifecycleInv, StartedRuns, RegistryMatches,
                          ProcessesHavePorts, UnusedAreBlank,
                          ClosingBelongsToJob, StartOwnsServer, ExitsAreHooked,
                          TasksFindStopped, ClientsUp, IsServerStopped,
                          Registered, Unused
<1>9. RunningClientsAwaited'
  BY <1>f, FieldTypes DEF LifecycleInv, RunningClientsAwaited, UnusedAreBlank,
                          ClosingBelongsToJob, StartedRuns, StartOwnsServer,
                          ClientsUp, Registered, Unused
<1>10. QED
  BY <1>1, <1>2, <1>3, <1>4, <1>5, <1>6, <1>7, <1>8, <1>9 DEF LifecycleInv

\* Only a server that has stopped goes on to its clients.
LEMMA ShutdownProcessSafe ==
  ASSUME LifecycleInv, TypeOK', NEW s \in Servers, ShutdownProcess(s)
  PROVE  LifecycleInv'
<1>f. /\ UNCHANGED <<alive, crowded, params, registry, server, clients, exiting, worker>>
      /\ closing[s].pc = "shutdown"
      /\ \A t \in Servers : t # s => closing'[t] = closing[t]
      /\ \/ /\ IsServerStopped(s)
            /\ closing'[s].pc = "clients" /\ closing'[s].wait = ClientsUp(s)
         \/ closing'[s].pc = "signal" /\ closing'[s].proc = server[s].proc
  <2>1. CASE IsServerStopped(s)
    BY <2>1 DEF ShutdownProcess, AwaitClients, TypeOK, LifecycleInv,
                ClosingRecord, osVars
  <2>2. CASE ~IsServerStopped(s)
    BY <2>2 DEF ShutdownProcess, TypeOK, LifecycleInv, ClosingRecord, osVars
  <2>3. QED
    BY <2>1, <2>2
<1>1. /\ RegistryMatches'
       /\ ProcessesHavePorts'
       /\ StartOwnsServer'
       /\ ExitsAreHooked'
       /\ ExitsAreWatched'
       /\ RunningServersAreManaged'
       /\ StartedRuns'
       /\ NoStrayClients'
  BY <1>f DEF LifecycleInv, RegistryMatches, ProcessesHavePorts,
              StartOwnsServer, ExitsAreHooked, ExitsAreWatched,
              RunningServersAreManaged, StartedRuns, NoStrayClients, ClientsUp,
              Registered
<1>2. UnusedAreBlank'
  BY <1>f, FieldTypes DEF LifecycleInv, UnusedAreBlank, RegistryMatches,
                          StartOwnsServer, ProcessesHavePorts, StartedRuns,
                          ClientsUp, Registered, Unused
<1>3. ClosingBelongsToJob'
  BY <1>f, FieldTypes DEF LifecycleInv, ClosingBelongsToJob
<1>4. TasksFindStopped'
  BY <1>f, FieldTypes DEF LifecycleInv, TasksFindStopped, RegistryMatches,
                          ProcessesHavePorts, UnusedAreBlank,
                          ClosingBelongsToJob, StartOwnsServer, ExitsAreHooked,
                          RunningServersAreManaged, ClientsUp, IsServerStopped,
                          Registered, Unused
<1>5. JobCoversRunning'
  BY <1>f, FieldTypes DEF LifecycleInv, JobCoversRunning, RegistryMatches,
                          ProcessesHavePorts, UnusedAreBlank,
                          ClosingBelongsToJob, TasksFindStopped,
                          RunningServersAreManaged, ClientsUp, IsServerStopped,
                          Registered, Unused
<1>6. RunningClientsAwaited'
  BY <1>f, FieldTypes DEF LifecycleInv, RunningClientsAwaited, UnusedAreBlank,
                          ClosingBelongsToJob, StartedRuns, StartOwnsServer,
                          ClientsUp, Registered, Unused
<1>7. QED
  BY <1>1, <1>2, <1>3, <1>4, <1>5, <1>6 DEF LifecycleInv

\* The process that is asked to go is the one the server has.
LEMMA SignalProcessSafe ==
  ASSUME LifecycleInv, TypeOK', NEW s \in Servers, SignalProcess(s)
  PROVE  LifecycleInv'
<1>f. /\ UNCHANGED <<alive, crowded, params, registry, server, clients, exiting>>
      /\ closing[s].pc = "signal"
      /\ \A t \in Servers : t # s => closing'[t] = closing[t]
      /\ \/ /\ closing'[s].pc = "process" /\ closing'[s].proc = closing[s].proc
            /\ worker' = worker
         \/ closing'[s].pc = "none" /\ worker'.failed
      /\ worker'.pc = worker.pc /\ worker'.kind = worker.kind
      /\ worker'.ports = worker.ports /\ worker'.server = worker.server
  <2>1. CASE Abandon(s)
    BY <2>1, AbandonFrame DEF SignalProcess, osVars
  <2>2. CASE closing' = [closing EXCEPT ![s].pc = "process"] /\ UNCHANGED worker
    BY <2>2 DEF SignalProcess, TypeOK, LifecycleInv, ClosingRecord, osVars
  <2>3. QED
    BY <2>1, <2>2 DEF SignalProcess
<1>1. /\ RegistryMatches'
       /\ ProcessesHavePorts'
       /\ ExitsAreHooked'
       /\ RunningServersAreManaged'
       /\ NoStrayClients'
  BY <1>f DEF LifecycleInv, RegistryMatches, ProcessesHavePorts,
              ExitsAreHooked, RunningServersAreManaged, NoStrayClients,
              ClientsUp, Registered
<1>2. UnusedAreBlank'
  BY <1>f, FieldTypes DEF LifecycleInv, UnusedAreBlank, RegistryMatches,
                          StartOwnsServer, ProcessesHavePorts, StartedRuns,
                          ClientsUp, Registered, Unused
<1>3. ClosingBelongsToJob'
  BY <1>f, FieldTypes DEF LifecycleInv, ClosingBelongsToJob
<1>4. StartOwnsServer'
  BY <1>f, FieldTypes DEF LifecycleInv, StartOwnsServer, ClosingBelongsToJob,
                          UnusedAreBlank, ExitsAreHooked, ProcessesHavePorts,
                          ClientsUp, Unused
<1>5. ExitsAreWatched'
  BY <1>f, FieldTypes DEF LifecycleInv, ExitsAreWatched, ExitsAreHooked,
                          ProcessesHavePorts, UnusedAreBlank, ClientsUp, Unused
<1>6. TasksFindStopped'
  BY <1>f, FieldTypes DEF LifecycleInv, TasksFindStopped, RegistryMatches,
                          ProcessesHavePorts, UnusedAreBlank,
                          ClosingBelongsToJob, StartOwnsServer, ExitsAreHooked,
                          RunningServersAreManaged, ClientsUp, IsServerStopped,
                          Registered, Unused
<1>7. JobCoversRunning'
  BY <1>f, FieldTypes DEF LifecycleInv, JobCoversRunning, RegistryMatches,
                          ProcessesHavePorts, UnusedAreBlank,
                          ClosingBelongsToJob, TasksFindStopped,
                          RunningServersAreManaged, ClientsUp, IsServerStopped,
                          Registered, Unused
<1>8. StartedRuns'
  BY <1>f, FieldTypes DEF LifecycleInv, StartedRuns, RegistryMatches,
                          ProcessesHavePorts, UnusedAreBlank,
                          ClosingBelongsToJob, StartOwnsServer, ExitsAreHooked,
                          TasksFindStopped, ClientsUp, IsServerStopped,
                          Registered, Unused
<1>9. RunningClientsAwaited'
  BY <1>f, FieldTypes DEF LifecycleInv, RunningClientsAwaited, UnusedAreBlank,
                          ClosingBelongsToJob, StartedRuns, StartOwnsServer,
                          ClientsUp, Registered, Unused
<1>10. QED
  BY <1>1, <1>2, <1>3, <1>4, <1>5, <1>6, <1>7, <1>8, <1>9 DEF LifecycleInv

\* The clients are awaited once the process that was waited for has gone.
LEMMA ProcessGoneSafe ==
  ASSUME LifecycleInv, TypeOK', NEW s \in Servers, ProcessGone(s)
  PROVE  LifecycleInv'
<1>f. /\ UNCHANGED <<params, registry, clients, exiting, worker>>
      /\ closing[s].pc = "process" /\ alive' = alive \ {closing[s].proc}
      /\ \A t \in Servers : t # s => /\ closing'[t] = closing[t]
                                     /\ server'[t] = server[t]
      /\ closing'[s].pc = "clients" /\ closing'[s].wait = ClientsUp(s)
      /\ server'[s].port = server[s].port /\ server'[s].hooked = server[s].hooked
      /\ server'[s].watched = server[s].watched
      /\ server'[s].proc = IF server[s].proc = closing[s].proc THEN None
                                                              ELSE server[s].proc
  <2>1. closing' = [closing EXCEPT ![s] = AwaitClients(closing[s], s)]
    BY DEF ProcessGone, TypeOK, LifecycleInv
  <2>2. closing'[s] = AwaitClients(closing[s], s)
        /\ \A t \in Servers : t # s => closing'[t] = closing[t]
    BY <2>1 DEF TypeOK, LifecycleInv
  <2>3. closing'[s].pc = "clients" /\ closing'[s].wait = ClientsUp(s)
    BY <2>2 DEF AwaitClients, TypeOK, LifecycleInv, ClosingRecord
  <2>4. server \in [Servers -> ServerRecord]
    BY DEF TypeOK, LifecycleInv
  <2>5. /\ \A t \in Servers : t # s => server'[t] = server[t]
        /\ server'[s] = [server[s] EXCEPT !.proc =
             IF server[s].proc = closing[s].proc THEN None ELSE server[s].proc]
    BY <2>4 DEF ProcessGone
  <2>6. QED
    BY <2>2, <2>3, <2>4, <2>5 DEF ProcessGone, ServerRecord
<1>1. RegistryMatches'
  BY <1>f, FieldTypes DEF LifecycleInv, RegistryMatches, UnusedAreBlank,
                          ClientsUp, Unused
<1>2. ProcessesHavePorts'
  BY <1>f, FieldTypes DEF LifecycleInv, ProcessesHavePorts, StartOwnsServer,
                          UnusedAreBlank, ClientsUp, Unused
<1>3. UnusedAreBlank'
  BY <1>f, FieldTypes DEF LifecycleInv, UnusedAreBlank, RegistryMatches,
                          StartOwnsServer, ProcessesHavePorts, StartedRuns,
                          ClientsUp, Registered, Unused
<1>4. ClosingBelongsToJob'
  BY <1>f, FieldTypes DEF LifecycleInv, ClosingBelongsToJob
<1>5. StartOwnsServer'
  BY <1>f, FieldTypes DEF LifecycleInv, StartOwnsServer, ClosingBelongsToJob,
                          UnusedAreBlank, ExitsAreHooked, ProcessesHavePorts,
                          ClientsUp, Unused
<1>6. ExitsAreHooked'
  BY <1>f, FieldTypes DEF LifecycleInv, ExitsAreHooked, ProcessesHavePorts,
                          UnusedAreBlank, ClientsUp, Unused
<1>7. ExitsAreWatched'
  BY <1>f, FieldTypes DEF LifecycleInv, ExitsAreWatched, ExitsAreHooked,
                          ProcessesHavePorts, UnusedAreBlank, ClientsUp, Unused
<1>8. TasksFindStopped'
  BY <1>f, FieldTypes DEF LifecycleInv, TasksFindStopped, RegistryMatches,
                          ProcessesHavePorts, UnusedAreBlank,
                          ClosingBelongsToJob, StartOwnsServer, ExitsAreHooked,
                          RunningServersAreManaged, ClientsUp, IsServerStopped,
                          Registered, Unused
<1>9. RunningServersAreManaged'
  BY <1>f, FieldTypes DEF LifecycleInv, RunningServersAreManaged,
                          RegistryMatches, ProcessesHavePorts, UnusedAreBlank,
                          ClosingBelongsToJob, StartOwnsServer, ExitsAreHooked,
                          TasksFindStopped, ClientsUp, IsServerStopped,
                          Registered, Unused
<1>10. JobCoversRunning'
  BY <1>f, FieldTypes DEF LifecycleInv, JobCoversRunning, RegistryMatches,
                          ProcessesHavePorts, UnusedAreBlank,
                          ClosingBelongsToJob, TasksFindStopped,
                          RunningServersAreManaged, ClientsUp, IsServerStopped,
                          Registered, Unused
<1>11. StartedRuns'
  BY <1>f, FieldTypes DEF LifecycleInv, StartedRuns, RegistryMatches,
                          ProcessesHavePorts, UnusedAreBlank,
                          ClosingBelongsToJob, StartOwnsServer, ExitsAreHooked,
                          TasksFindStopped, ClientsUp, IsServerStopped,
                          Registered, Unused
<1>12. RunningClientsAwaited'
  BY <1>f, FieldTypes DEF LifecycleInv, RunningClientsAwaited, UnusedAreBlank,
                          ClosingBelongsToJob, StartedRuns, StartOwnsServer,
                          ClientsUp, Registered, Unused
<1>13. NoStrayClients'
  BY <1>f, FieldTypes DEF LifecycleInv, NoStrayClients, RunningClientsAwaited,
                          StartedRuns, UnusedAreBlank, StartOwnsServer,
                          RegistryMatches, ClientsUp, Registered, Unused
<1>14. QED
  BY <1>1, <1>2, <1>3, <1>4, <1>5, <1>6, <1>7, <1>8, <1>9, <1>10, <1>11, <1>12,
     <1>13
     DEF LifecycleInv

\* A client is done only when its process is no longer there.
LEMMA CloseClientSafe ==
  ASSUME LifecycleInv, TypeOK', NEW s \in Servers, NEW c \in Clients,
         CloseClient(s, c)
  PROVE  LifecycleInv'
<1>1. /\ RegistryMatches'
       /\ ProcessesHavePorts'
       /\ StartOwnsServer'
       /\ ExitsAreHooked'
       /\ ExitsAreWatched'
       /\ RunningServersAreManaged'
       /\ StartedRuns'
  BY DEF LifecycleInv, CloseClient, RegistryMatches, ProcessesHavePorts,
         StartOwnsServer, ExitsAreHooked, ExitsAreWatched,
         RunningServersAreManaged, StartedRuns, Registered, osVars
<1>2. UnusedAreBlank'
  BY DEF LifecycleInv, CloseClient, ClientShutDown, ClientDone, UnusedAreBlank,
         RegistryMatches, StartOwnsServer, ProcessesHavePorts, StartedRuns,
         ClientsUp, Registered, Unused, TypeOK, ClientState, ClosingRecord,
         ExitingRecord, ServerRecord, WorkerRecord, osVars
<1>3. ClosingBelongsToJob'
  BY DEF LifecycleInv, CloseClient, ClientShutDown, ClientDone,
         ClosingBelongsToJob, TypeOK, ClosingRecord, ServerRecord,
         WorkerRecord, osVars
<1>4. TasksFindStopped'
  BY DEF LifecycleInv, CloseClient, ClientShutDown, ClientDone,
         TasksFindStopped, RegistryMatches, ProcessesHavePorts, UnusedAreBlank,
         ClosingBelongsToJob, StartOwnsServer, ExitsAreHooked,
         RunningServersAreManaged, ClientsUp, IsServerStopped, Registered,
         Unused, TypeOK, ClientState, ClosingRecord, ExitingRecord,
         ServerRecord, WorkerRecord, osVars
<1>5. JobCoversRunning'
  BY DEF LifecycleInv, CloseClient, ClientShutDown, ClientDone,
         JobCoversRunning, RegistryMatches, ProcessesHavePorts, UnusedAreBlank,
         ClosingBelongsToJob, TasksFindStopped, RunningServersAreManaged,
         ClientsUp, IsServerStopped, Registered, Unused, TypeOK, ClientState,
         ClosingRecord, ExitingRecord, ServerRecord, WorkerRecord, osVars
<1>6. RunningClientsAwaited'
  BY DEF LifecycleInv, CloseClient, ClientShutDown, ClientDone,
         RunningClientsAwaited, UnusedAreBlank, ClosingBelongsToJob,
         StartedRuns, StartOwnsServer, ClientsUp, Registered, Unused, TypeOK,
         ClientState, ClosingRecord, ExitingRecord, ServerRecord, WorkerRecord,
         osVars
<1>7. NoStrayClients'
  BY DEF LifecycleInv, CloseClient, ClientShutDown, ClientDone, NoStrayClients,
         RunningClientsAwaited, StartedRuns, UnusedAreBlank, StartOwnsServer,
         RegistryMatches, ClientsUp, Registered, Unused, TypeOK, ClientState,
         ClosingRecord, ExitingRecord, ServerRecord, WorkerRecord, osVars
<1>8. QED
  BY <1>1, <1>2, <1>3, <1>4, <1>5, <1>6, <1>7 DEF LifecycleInv

\* The server leaves the registry stopped and without clients.
LEMMA CompleteShutdownSafe ==
  ASSUME LifecycleInv, TypeOK', NEW s \in Servers, CompleteShutdown(s)
  PROVE  LifecycleInv'
<1>f. /\ UNCHANGED <<alive, crowded, params, server, clients, exiting>>
      /\ closing[s].pc = "clients" /\ closing[s].wait = {} /\ closing'[s].pc = "none"
      /\ \A t \in Servers : t # s => closing'[t] = closing[t]
      /\ \/ registry' = registry /\ worker'.failed
         \/ worker' = worker /\ TryRemoveServer(s)
      /\ worker'.pc = worker.pc /\ worker'.kind = worker.kind
      /\ worker'.ports = worker.ports /\ worker'.server = worker.server
  <2>1. CASE closing[s].threw
    BY <2>1, AbandonFrame DEF CompleteShutdown, osVars
  <2>2. CASE ~closing[s].threw
    BY <2>2 DEF CompleteShutdown, TypeOK, LifecycleInv, NotClosing, osVars
  <2>3. QED
    BY <2>1, <2>2
<1>1. /\ ProcessesHavePorts'
       /\ ExitsAreHooked'
  BY <1>f DEF LifecycleInv, ProcessesHavePorts, ExitsAreHooked
<1>2. RegistryMatches'
  BY <1>f, FieldTypes DEF LifecycleInv, RegistryMatches, UnusedAreBlank,
                          ClientsUp, Unused, TryRemoveServer
<1>3. UnusedAreBlank'
  BY <1>f, FieldTypes DEF LifecycleInv, UnusedAreBlank, RegistryMatches,
                          StartOwnsServer, ProcessesHavePorts, StartedRuns,
                          ClientsUp, Registered, Unused, TryRemoveServer
<1>4. ClosingBelongsToJob'
  BY <1>f, FieldTypes DEF LifecycleInv, ClosingBelongsToJob, TryRemoveServer
<1>5. StartOwnsServer'
  BY <1>f, FieldTypes DEF LifecycleInv, StartOwnsServer, ClosingBelongsToJob,
                          UnusedAreBlank, ExitsAreHooked, ProcessesHavePorts,
                          ClientsUp, Unused, TryRemoveServer
<1>6. ExitsAreWatched'
  BY <1>f, FieldTypes DEF LifecycleInv, ExitsAreWatched, ExitsAreHooked,
                          ProcessesHavePorts, UnusedAreBlank, ClientsUp,
                          Unused, TryRemoveServer
<1>7. TasksFindStopped'
  BY <1>f, FieldTypes DEF LifecycleInv, TasksFindStopped, RegistryMatches,
                          ProcessesHavePorts, UnusedAreBlank,
                          ClosingBelongsToJob, StartOwnsServer, ExitsAreHooked,
                          RunningServersAreManaged, ClientsUp, IsServerStopped,
                          Registered, Unused, TryRemoveServer
<1>8. RunningServersAreManaged'
  BY <1>f, FieldTypes DEF LifecycleInv, RunningServersAreManaged,
                          RegistryMatches, ProcessesHavePorts, UnusedAreBlank,
                          ClosingBelongsToJob, StartOwnsServer, ExitsAreHooked,
                          TasksFindStopped, ClientsUp, IsServerStopped,
                          Registered, Unused, TryRemoveServer
<1>9. JobCoversRunning'
  BY <1>f, FieldTypes DEF LifecycleInv, JobCoversRunning, RegistryMatches,
                          ProcessesHavePorts, UnusedAreBlank,
                          ClosingBelongsToJob, TasksFindStopped,
                          RunningServersAreManaged, ClientsUp, IsServerStopped,
                          Registered, Unused, TryRemoveServer
<1>10. StartedRuns'
  BY <1>f, FieldTypes DEF LifecycleInv, StartedRuns, RegistryMatches,
                          ProcessesHavePorts, UnusedAreBlank,
                          ClosingBelongsToJob, StartOwnsServer, ExitsAreHooked,
                          TasksFindStopped, ClientsUp, IsServerStopped,
                          Registered, Unused, TryRemoveServer
<1>11. RunningClientsAwaited'
  BY <1>f, FieldTypes DEF LifecycleInv, RunningClientsAwaited, UnusedAreBlank,
                          ClosingBelongsToJob, StartedRuns, StartOwnsServer,
                          ClientsUp, Registered, Unused, TryRemoveServer
<1>12. NoStrayClients'
  BY <1>f, FieldTypes DEF LifecycleInv, NoStrayClients, RunningClientsAwaited,
                          StartedRuns, UnusedAreBlank, StartOwnsServer,
                          RegistryMatches, ClientsUp, Registered, Unused,
                          TryRemoveServer
<1>13. QED
  BY <1>1, <1>2, <1>3, <1>4, <1>5, <1>6, <1>7, <1>8, <1>9, <1>10, <1>11, <1>12
     DEF LifecycleInv

\* An exit is raised only for a process that has gone.
LEMMA RaiseExitedSafe ==
  ASSUME LifecycleInv, TypeOK', NEW s \in Servers, RaiseExited(s)
  PROVE  LifecycleInv'
<1>1. ClosingBelongsToJob'
  BY DEF LifecycleInv, RaiseExited, ClosingBelongsToJob, osVars
<1>2. RegistryMatches'
  BY DEF LifecycleInv, RaiseExited, RegistryMatches, UnusedAreBlank, ClientsUp,
         Unused, TypeOK, ClientState, ClosingRecord, ExitingRecord,
         ServerRecord, osVars
<1>3. ProcessesHavePorts'
  BY DEF LifecycleInv, RaiseExited, ProcessesHavePorts, StartOwnsServer,
         UnusedAreBlank, ClientsUp, Unused, TypeOK, ClientState, ClosingRecord,
         ExitingRecord, ServerRecord, WorkerRecord, osVars
<1>4. UnusedAreBlank'
  BY DEF LifecycleInv, RaiseExited, UnusedAreBlank, RegistryMatches,
         StartOwnsServer, ProcessesHavePorts, StartedRuns, ClientsUp,
         Registered, Unused, TypeOK, ClientState, ClosingRecord, ExitingRecord,
         ServerRecord, WorkerRecord, osVars
<1>5. StartOwnsServer'
  BY DEF LifecycleInv, RaiseExited, StartOwnsServer, ClosingBelongsToJob,
         UnusedAreBlank, ExitsAreHooked, ProcessesHavePorts, ClientsUp, Unused,
         TypeOK, ClientState, ClosingRecord, ExitingRecord, ServerRecord,
         WorkerRecord, osVars
<1>6. ExitsAreHooked'
  BY DEF LifecycleInv, RaiseExited, ExitsAreHooked, ProcessesHavePorts,
         UnusedAreBlank, ClientsUp, Unused, TypeOK, ClientState, ClosingRecord,
         ExitingRecord, ServerRecord, osVars
<1>7. ExitsAreWatched'
  BY DEF LifecycleInv, RaiseExited, ExitsAreWatched, ExitsAreHooked,
         ProcessesHavePorts, UnusedAreBlank, ClientsUp, Unused, TypeOK,
         ClientState, ClosingRecord, ExitingRecord, ServerRecord, WorkerRecord,
         osVars
<1>8. TasksFindStopped'
  BY DEF LifecycleInv, RaiseExited, TasksFindStopped, RegistryMatches,
         ProcessesHavePorts, UnusedAreBlank, ClosingBelongsToJob,
         StartOwnsServer, ExitsAreHooked, RunningServersAreManaged, ClientsUp,
         IsServerStopped, Registered, Unused, TypeOK, ClientState,
         ClosingRecord, ExitingRecord, ServerRecord, WorkerRecord, osVars
<1>9. RunningServersAreManaged'
  BY DEF LifecycleInv, RaiseExited, RunningServersAreManaged, RegistryMatches,
         ProcessesHavePorts, UnusedAreBlank, ClosingBelongsToJob,
         StartOwnsServer, ExitsAreHooked, TasksFindStopped, ClientsUp,
         IsServerStopped, Registered, Unused, TypeOK, ClientState,
         ClosingRecord, ExitingRecord, ServerRecord, WorkerRecord, osVars
<1>10. JobCoversRunning'
  BY DEF LifecycleInv, RaiseExited, JobCoversRunning, RegistryMatches,
         ProcessesHavePorts, UnusedAreBlank, ClosingBelongsToJob,
         TasksFindStopped, RunningServersAreManaged, ClientsUp,
         IsServerStopped, Registered, Unused, TypeOK, ClientState,
         ClosingRecord, ExitingRecord, ServerRecord, WorkerRecord, osVars
<1>11. StartedRuns'
  BY DEF LifecycleInv, RaiseExited, StartedRuns, RegistryMatches,
         ProcessesHavePorts, UnusedAreBlank, ClosingBelongsToJob,
         StartOwnsServer, ExitsAreHooked, TasksFindStopped, ClientsUp,
         IsServerStopped, Registered, Unused, TypeOK, ClientState,
         ClosingRecord, ExitingRecord, ServerRecord, WorkerRecord, osVars
<1>12. RunningClientsAwaited'
  BY DEF LifecycleInv, RaiseExited, RunningClientsAwaited, UnusedAreBlank,
         ClosingBelongsToJob, StartedRuns, StartOwnsServer, ClientsUp,
         Registered, Unused, TypeOK, ClientState, ClosingRecord, ExitingRecord,
         ServerRecord, WorkerRecord, osVars
<1>13. NoStrayClients'
  BY DEF LifecycleInv, RaiseExited, NoStrayClients, RunningClientsAwaited,
         StartedRuns, UnusedAreBlank, StartOwnsServer, RegistryMatches,
         ClientsUp, Registered, Unused, TypeOK, ClientState, ClosingRecord,
         ExitingRecord, ServerRecord, WorkerRecord, osVars
<1>14. QED
  BY <1>1, <1>2, <1>3, <1>4, <1>5, <1>6, <1>7, <1>8, <1>9, <1>10, <1>11, <1>12,
     <1>13
     DEF LifecycleInv

\* Only a process on the same port is taken for the restarted one.
LEMMA CheckServerIsRestartingSafe ==
  ASSUME LifecycleInv, TypeOK', NEW s \in Servers, CheckServerIsRestarting(s)
  PROVE  LifecycleInv'
<1>f. /\ UNCHANGED <<alive, crowded, params, registry, server, clients, closing, worker>>
      /\ exiting[s].pc = "discover"
      /\ \A t \in Servers : t # s => exiting'[t] = exiting[t]
      /\ \/ exiting'[s].pc = "none"
         \/ /\ exiting'[s].pc = "clients" /\ exiting'[s].wait = ClientsUp(s)
            /\ exiting'[s].of = exiting[s].of
         \/ /\ exiting'[s].pc = "adopt" /\ exiting'[s].of = exiting[s].of
            /\ exiting'[s].found \in Procs
            /\ params[exiting'[s].found].port = params[exiting[s].of].port
  <2>t. exiting \in [Servers -> ExitingRecord] /\ alive \subseteq Procs
    BY DEF LifecycleInv, TypeOK
  <2>1. ASSUME NEW p \in alive, params[p].port = params[exiting[s].of].port,
               exiting' = [exiting EXCEPT ![s] = [@ EXCEPT !.pc = "adopt", !.found = p]]
        PROVE  /\ \A t \in Servers : t # s => exiting'[t] = exiting[t]
               /\ exiting'[s].pc = "adopt" /\ exiting'[s].of = exiting[s].of
               /\ exiting'[s].found \in Procs
               /\ params[exiting'[s].found].port = params[exiting[s].of].port
    BY <2>t, <2>1 DEF ExitingRecord
  <2>2. ASSUME exiting' = [exiting EXCEPT ![s] = Faulted]
        PROVE  /\ \A t \in Servers : t # s => exiting'[t] = exiting[t]
               /\ exiting'[s].pc = "none"
    BY <2>t, <2>2 DEF NotExiting, Faulted
  <2>3. ASSUME exiting' = [exiting EXCEPT ![s] = AwaitClients(@, s)]
        PROVE  /\ \A t \in Servers : t # s => exiting'[t] = exiting[t]
               /\ exiting'[s].pc = "clients" /\ exiting'[s].wait = ClientsUp(s)
               /\ exiting'[s].of = exiting[s].of
    BY <2>t, <2>3 DEF ExitingRecord, AwaitClients
  <2>4. \/ \E p \in alive : /\ params[p].port = params[exiting[s].of].port
                            /\ exiting' = [exiting EXCEPT ![s] =
                                  [@ EXCEPT !.pc = "adopt", !.found = p]]
        \/ exiting' = [exiting EXCEPT ![s] = Faulted]
        \/ exiting' = [exiting EXCEPT ![s] = AwaitClients(@, s)]
    BY CheckOutcome
  <2>5. /\ UNCHANGED <<alive, crowded, params, registry, server, clients, closing, worker>>
        /\ exiting[s].pc = "discover"
    BY DEF CheckServerIsRestarting, osVars
  <2>6. QED
    BY <2>1, <2>2, <2>3, <2>4, <2>5
<1>1. /\ RegistryMatches'
       /\ ClosingBelongsToJob'
       /\ ExitsAreHooked'
       /\ ExitsAreWatched'
       /\ RunningServersAreManaged'
       /\ JobCoversRunning'
       /\ NoStrayClients'
  BY <1>f DEF LifecycleInv, RegistryMatches, ClosingBelongsToJob,
              ExitsAreHooked, ExitsAreWatched, RunningServersAreManaged,
              JobCoversRunning, NoStrayClients, ClientsUp, IsServerStopped,
              Registered
<1>2. ProcessesHavePorts'
  BY <1>f, FieldTypes DEF LifecycleInv, ProcessesHavePorts, StartOwnsServer,
                          UnusedAreBlank, ClientsUp, Unused
<1>3. UnusedAreBlank'
  BY <1>f, FieldTypes DEF LifecycleInv, UnusedAreBlank, RegistryMatches,
                          StartOwnsServer, ProcessesHavePorts, StartedRuns,
                          ClientsUp, Registered, Unused
<1>4. StartOwnsServer'
  BY <1>f, FieldTypes DEF LifecycleInv, StartOwnsServer, ClosingBelongsToJob,
                          UnusedAreBlank, ExitsAreHooked, ProcessesHavePorts,
                          ClientsUp, Unused
<1>5. TasksFindStopped'
  BY <1>f, FieldTypes DEF LifecycleInv, TasksFindStopped, RegistryMatches,
                          ProcessesHavePorts, UnusedAreBlank,
                          ClosingBelongsToJob, StartOwnsServer, ExitsAreHooked,
                          RunningServersAreManaged, ClientsUp, IsServerStopped,
                          Registered, Unused
<1>6. StartedRuns'
  BY <1>f, FieldTypes DEF LifecycleInv, StartedRuns, RegistryMatches,
                          ProcessesHavePorts, UnusedAreBlank,
                          ClosingBelongsToJob, StartOwnsServer, ExitsAreHooked,
                          TasksFindStopped, ClientsUp, IsServerStopped,
                          Registered, Unused
<1>7. RunningClientsAwaited'
  BY <1>f, FieldTypes DEF LifecycleInv, RunningClientsAwaited, UnusedAreBlank,
                          ClosingBelongsToJob, StartedRuns, StartOwnsServer,
                          ClientsUp, Registered, Unused
<1>8. QED
  BY <1>1, <1>2, <1>3, <1>4, <1>5, <1>6, <1>7 DEF LifecycleInv

\* The adopted process is hooked and watched, or has gone already.
LEMMA AdoptProcessSafe ==
  ASSUME LifecycleInv, TypeOK', NEW s \in Servers, AdoptProcess(s)
  PROVE  LifecycleInv'
<1>f. /\ UNCHANGED <<alive, crowded, params, registry, clients, closing, worker>>
      /\ exiting[s].pc = "adopt" /\ exiting'[s].pc = "none"
      /\ \A t \in Servers : t # s => /\ exiting'[t] = exiting[t]
                                     /\ server'[t] = server[t]
      /\ server'[s].port = server[s].port
      /\ server'[s].proc = exiting[s].found
      /\ \/ server'[s].hooked = exiting[s].found /\ server'[s].watched
         \/ server'[s].hooked = None /\ exiting[s].found \notin alive
  <2>1. PICK missed \in BOOLEAN :
          /\ missed => exiting[s].found \notin alive
          /\ server' = [server EXCEPT ![s] =
               [@ EXCEPT !.proc = exiting[s].found,
                         !.hooked = IF missed THEN None ELSE exiting[s].found,
                         !.watched = ~missed]]
    BY DEF AdoptProcess
  <2>2. server \in [Servers -> ServerRecord]
    BY DEF LifecycleInv, TypeOK
  <2>3. \A t \in Servers : t # s => server'[t] = server[t]
    BY <2>1, <2>2
  <2>4. /\ server'[s].port = server[s].port /\ server'[s].proc = exiting[s].found
        /\ \/ server'[s].hooked = exiting[s].found /\ server'[s].watched
           \/ server'[s].hooked = None /\ exiting[s].found \notin alive
    <3>1. CASE missed
      BY <2>1, <2>2, <3>1 DEF ServerRecord
    <3>2. CASE ~missed
      BY <2>1, <2>2, <3>2 DEF ServerRecord
    <3>3. QED
      BY <3>1, <3>2
  <2>5. QED
    BY <2>3, <2>4 DEF AdoptProcess, NotExiting, LifecycleInv, TypeOK, osVars
<1>1. ClosingBelongsToJob'
  BY <1>f DEF LifecycleInv, ClosingBelongsToJob
<1>2. RegistryMatches'
  BY <1>f, FieldTypes DEF LifecycleInv, RegistryMatches, UnusedAreBlank,
                          ClientsUp, Unused
<1>3. ProcessesHavePorts'
  BY <1>f, FieldTypes DEF LifecycleInv, ProcessesHavePorts, StartOwnsServer,
                          UnusedAreBlank, ClientsUp, Unused
<1>4. UnusedAreBlank'
  BY <1>f, FieldTypes DEF LifecycleInv, UnusedAreBlank, RegistryMatches,
                          StartOwnsServer, ProcessesHavePorts, StartedRuns,
                          ClientsUp, Registered, Unused
<1>5. StartOwnsServer'
  BY <1>f, FieldTypes DEF LifecycleInv, StartOwnsServer, ClosingBelongsToJob,
                          UnusedAreBlank, ExitsAreHooked, ProcessesHavePorts,
                          ClientsUp, Unused
<1>6. ExitsAreHooked'
  BY <1>f, FieldTypes DEF LifecycleInv, ExitsAreHooked, ProcessesHavePorts,
                          UnusedAreBlank, ClientsUp, Unused
<1>7. ExitsAreWatched'
  BY <1>f, FieldTypes DEF LifecycleInv, ExitsAreWatched, ExitsAreHooked,
                          ProcessesHavePorts, UnusedAreBlank, ClientsUp, Unused
<1>8. TasksFindStopped'
  BY <1>f, FieldTypes DEF LifecycleInv, TasksFindStopped, RegistryMatches,
                          ProcessesHavePorts, UnusedAreBlank,
                          ClosingBelongsToJob, StartOwnsServer, ExitsAreHooked,
                          RunningServersAreManaged, ClientsUp, IsServerStopped,
                          Registered, Unused
<1>9. RunningServersAreManaged'
  BY <1>f, FieldTypes DEF LifecycleInv, RunningServersAreManaged,
                          RegistryMatches, ProcessesHavePorts, UnusedAreBlank,
                          ClosingBelongsToJob, StartOwnsServer, ExitsAreHooked,
                          TasksFindStopped, ClientsUp, IsServerStopped,
                          Registered, Unused
<1>10. JobCoversRunning'
  BY <1>f, FieldTypes DEF LifecycleInv, JobCoversRunning, RegistryMatches,
                          ProcessesHavePorts, UnusedAreBlank,
                          ClosingBelongsToJob, TasksFindStopped,
                          RunningServersAreManaged, ClientsUp, IsServerStopped,
                          Registered, Unused
<1>11. StartedRuns'
  BY <1>f, FieldTypes DEF LifecycleInv, StartedRuns, RegistryMatches,
                          ProcessesHavePorts, UnusedAreBlank,
                          ClosingBelongsToJob, StartOwnsServer, ExitsAreHooked,
                          TasksFindStopped, ClientsUp, IsServerStopped,
                          Registered, Unused
<1>12. RunningClientsAwaited'
  BY <1>f, FieldTypes DEF LifecycleInv, RunningClientsAwaited, UnusedAreBlank,
                          ClosingBelongsToJob, StartedRuns, StartOwnsServer,
                          ClientsUp, Registered, Unused
<1>13. NoStrayClients'
  BY <1>f, FieldTypes DEF LifecycleInv, NoStrayClients, RunningClientsAwaited,
                          StartedRuns, UnusedAreBlank, StartOwnsServer,
                          RegistryMatches, ClientsUp, Registered, Unused
<1>14. QED
  BY <1>1, <1>2, <1>3, <1>4, <1>5, <1>6, <1>7, <1>8, <1>9, <1>10, <1>11, <1>12,
     <1>13
     DEF LifecycleInv

\* A client is done only when its process is no longer there.
LEMMA ExitClientSafe ==
  ASSUME LifecycleInv, TypeOK', NEW s \in Servers, NEW c \in Clients,
         ExitClient(s, c)
  PROVE  LifecycleInv'
<1>1. /\ RegistryMatches'
       /\ ClosingBelongsToJob'
       /\ ExitsAreHooked'
       /\ ExitsAreWatched'
       /\ RunningServersAreManaged'
       /\ JobCoversRunning'
  BY DEF LifecycleInv, ExitClient, RegistryMatches, ClosingBelongsToJob,
         ExitsAreHooked, ExitsAreWatched, RunningServersAreManaged,
         JobCoversRunning, IsServerStopped, Registered, osVars
<1>2. ProcessesHavePorts'
  BY DEF LifecycleInv, ExitClient, ClientShutDown, ClientDone,
         ProcessesHavePorts, StartOwnsServer, UnusedAreBlank, ClientsUp,
         Unused, TypeOK, ClientState, ClosingRecord, ExitingRecord,
         ServerRecord, WorkerRecord, osVars
<1>3. UnusedAreBlank'
  BY DEF LifecycleInv, ExitClient, ClientShutDown, ClientDone, UnusedAreBlank,
         RegistryMatches, StartOwnsServer, ProcessesHavePorts, StartedRuns,
         ClientsUp, Registered, Unused, TypeOK, ClientState, ClosingRecord,
         ExitingRecord, ServerRecord, WorkerRecord, osVars
<1>4. StartOwnsServer'
  BY DEF LifecycleInv, ExitClient, ClientShutDown, ClientDone, StartOwnsServer,
         ClosingBelongsToJob, UnusedAreBlank, ExitsAreHooked,
         ProcessesHavePorts, ClientsUp, Unused, TypeOK, ClientState,
         ClosingRecord, ExitingRecord, ServerRecord, WorkerRecord, osVars
<1>5. TasksFindStopped'
  BY DEF LifecycleInv, ExitClient, ClientShutDown, ClientDone,
         TasksFindStopped, RegistryMatches, ProcessesHavePorts, UnusedAreBlank,
         ClosingBelongsToJob, StartOwnsServer, ExitsAreHooked,
         RunningServersAreManaged, ClientsUp, IsServerStopped, Registered,
         Unused, TypeOK, ClientState, ClosingRecord, ExitingRecord,
         ServerRecord, WorkerRecord, osVars
<1>6. StartedRuns'
  BY DEF LifecycleInv, ExitClient, ClientShutDown, ClientDone, StartedRuns,
         RegistryMatches, ProcessesHavePorts, UnusedAreBlank,
         ClosingBelongsToJob, StartOwnsServer, ExitsAreHooked,
         TasksFindStopped, ClientsUp, IsServerStopped, Registered, Unused,
         TypeOK, ClientState, ClosingRecord, ExitingRecord, ServerRecord,
         WorkerRecord, osVars
<1>7. RunningClientsAwaited'
  BY DEF LifecycleInv, ExitClient, ClientShutDown, ClientDone,
         RunningClientsAwaited, UnusedAreBlank, ClosingBelongsToJob,
         StartedRuns, StartOwnsServer, ClientsUp, Registered, Unused, TypeOK,
         ClientState, ClosingRecord, ExitingRecord, ServerRecord, WorkerRecord,
         osVars
<1>8. NoStrayClients'
  BY DEF LifecycleInv, ExitClient, ClientShutDown, ClientDone, NoStrayClients,
         RunningClientsAwaited, StartedRuns, UnusedAreBlank, StartOwnsServer,
         RegistryMatches, ClientsUp, Registered, Unused, TypeOK, ClientState,
         ClosingRecord, ExitingRecord, ServerRecord, WorkerRecord, osVars
<1>9. QED
  BY <1>1, <1>2, <1>3, <1>4, <1>5, <1>6, <1>7, <1>8 DEF LifecycleInv

\* The server leaves the registry stopped and without clients.
LEMMA CompleteExitSafe ==
  ASSUME LifecycleInv, TypeOK', NEW s \in Servers, CompleteExit(s)
  PROVE  LifecycleInv'
<1>f. /\ UNCHANGED <<alive, crowded, params, server, clients, closing, worker>>
      /\ exiting[s].pc = "clients" /\ exiting[s].wait = {} /\ exiting'[s].pc = "none"
      /\ \A t \in Servers : t # s => exiting'[t] = exiting[t]
      /\ registry' = registry \/ TryRemoveServer(s)
  <2>1. exiting' = [exiting EXCEPT ![s] = Faulted] \/ exiting' = [exiting EXCEPT ![s] = NotExiting]
    BY DEF CompleteExit
  <2>2. Faulted.pc = "none" /\ NotExiting.pc = "none"
    BY DEF Faulted, NotExiting
  <2>3. /\ exiting'[s].pc = "none"
        /\ \A t \in Servers : t # s => exiting'[t] = exiting[t]
    BY <2>1, <2>2 DEF LifecycleInv, TypeOK
  <2>4. QED
    BY <2>3 DEF CompleteExit, osVars
<1>1. /\ ClosingBelongsToJob'
       /\ ExitsAreHooked'
       /\ ExitsAreWatched'
  BY <1>f DEF LifecycleInv, ClosingBelongsToJob, ExitsAreHooked,
              ExitsAreWatched
<1>2. RegistryMatches'
  BY <1>f, FieldTypes DEF LifecycleInv, RegistryMatches, UnusedAreBlank,
                          ClientsUp, Unused, TryRemoveServer
<1>3. ProcessesHavePorts'
  BY <1>f, FieldTypes DEF LifecycleInv, ProcessesHavePorts, StartOwnsServer,
                          UnusedAreBlank, ClientsUp, Unused, TryRemoveServer
<1>4. UnusedAreBlank'
  BY <1>f, FieldTypes DEF LifecycleInv, UnusedAreBlank, RegistryMatches,
                          StartOwnsServer, ProcessesHavePorts, StartedRuns,
                          ClientsUp, Registered, Unused, TryRemoveServer
<1>5. StartOwnsServer'
  BY <1>f, FieldTypes DEF LifecycleInv, StartOwnsServer, ClosingBelongsToJob,
                          UnusedAreBlank, ExitsAreHooked, ProcessesHavePorts,
                          ClientsUp, Unused, TryRemoveServer
<1>6. TasksFindStopped'
  BY <1>f, FieldTypes DEF LifecycleInv, TasksFindStopped, RegistryMatches,
                          ProcessesHavePorts, UnusedAreBlank,
                          ClosingBelongsToJob, StartOwnsServer, ExitsAreHooked,
                          RunningServersAreManaged, ClientsUp, IsServerStopped,
                          Registered, Unused, TryRemoveServer
<1>7. RunningServersAreManaged'
  BY <1>f, FieldTypes DEF LifecycleInv, RunningServersAreManaged,
                          RegistryMatches, ProcessesHavePorts, UnusedAreBlank,
                          ClosingBelongsToJob, StartOwnsServer, ExitsAreHooked,
                          TasksFindStopped, ClientsUp, IsServerStopped,
                          Registered, Unused, TryRemoveServer
<1>8. JobCoversRunning'
  BY <1>f, FieldTypes DEF LifecycleInv, JobCoversRunning, RegistryMatches,
                          ProcessesHavePorts, UnusedAreBlank,
                          ClosingBelongsToJob, TasksFindStopped,
                          RunningServersAreManaged, ClientsUp, IsServerStopped,
                          Registered, Unused, TryRemoveServer
<1>9. StartedRuns'
  BY <1>f, FieldTypes DEF LifecycleInv, StartedRuns, RegistryMatches,
                          ProcessesHavePorts, UnusedAreBlank,
                          ClosingBelongsToJob, StartOwnsServer, ExitsAreHooked,
                          TasksFindStopped, ClientsUp, IsServerStopped,
                          Registered, Unused, TryRemoveServer
<1>10. RunningClientsAwaited'
  BY <1>f, FieldTypes DEF LifecycleInv, RunningClientsAwaited, UnusedAreBlank,
                          ClosingBelongsToJob, StartedRuns, StartOwnsServer,
                          ClientsUp, Registered, Unused, TryRemoveServer
<1>11. NoStrayClients'
  BY <1>f, FieldTypes DEF LifecycleInv, NoStrayClients, RunningClientsAwaited,
                          StartedRuns, UnusedAreBlank, StartOwnsServer,
                          RegistryMatches, ClientsUp, Registered, Unused,
                          TryRemoveServer
<1>12. QED
  BY <1>1, <1>2, <1>3, <1>4, <1>5, <1>6, <1>7, <1>8, <1>9, <1>10, <1>11
     DEF LifecycleInv

\* A recovered server is registered, hooked and watched at once.
LEMMA RecoverServerSafe ==
  ASSUME LifecycleInv, TypeOK', NEW port \in Ports, NEW s \in Servers, NEW p
         \in Procs, NEW m \in Modsets, NEW cs \in SUBSET Clients,
         RecoverServer(port, s, p, m, cs)
  PROVE  LifecycleInv'
<1>1. ClosingBelongsToJob'
  BY DEF LifecycleInv, RecoverServer, ClosingBelongsToJob, osVars
<1>2. RegistryMatches'
  BY DEF LifecycleInv, RecoverServer, FreshProcs, Unused, NoServer,
         RegistryMatches, UnusedAreBlank, ClientsUp, TypeOK, ClientState,
         ClosingRecord, ExitingRecord, ServerRecord, osVars
<1>3. ProcessesHavePorts'
  BY DEF LifecycleInv, RecoverServer, FreshProcs, Unused, NoServer,
         ProcessesHavePorts, StartOwnsServer, UnusedAreBlank, ClientsUp,
         TypeOK, ClientState, ClosingRecord, ExitingRecord, ServerRecord,
         WorkerRecord, osVars
<1>4. UnusedAreBlank'
  BY DEF LifecycleInv, RecoverServer, FreshProcs, Unused, NoServer,
         UnusedAreBlank, RegistryMatches, StartOwnsServer, ProcessesHavePorts,
         StartedRuns, ClientsUp, Registered, TypeOK, ClientState,
         ClosingRecord, ExitingRecord, ServerRecord, WorkerRecord, osVars
<1>5. StartOwnsServer'
  BY DEF LifecycleInv, RecoverServer, FreshProcs, Unused, NoServer,
         StartOwnsServer, ClosingBelongsToJob, UnusedAreBlank, ExitsAreHooked,
         ProcessesHavePorts, ClientsUp, TypeOK, ClientState, ClosingRecord,
         ExitingRecord, ServerRecord, WorkerRecord, osVars
<1>6. ExitsAreHooked'
  BY DEF LifecycleInv, RecoverServer, FreshProcs, Unused, NoServer,
         ExitsAreHooked, ProcessesHavePorts, UnusedAreBlank, ClientsUp, TypeOK,
         ClientState, ClosingRecord, ExitingRecord, ServerRecord, osVars
<1>7. ExitsAreWatched'
  BY DEF LifecycleInv, RecoverServer, FreshProcs, Unused, NoServer,
         ExitsAreWatched, ExitsAreHooked, ProcessesHavePorts, UnusedAreBlank,
         ClientsUp, TypeOK, ClientState, ClosingRecord, ExitingRecord,
         ServerRecord, WorkerRecord, osVars
<1>8. TasksFindStopped'
  BY DEF LifecycleInv, RecoverServer, FreshProcs, Unused, NoServer,
         TasksFindStopped, RegistryMatches, ProcessesHavePorts, UnusedAreBlank,
         ClosingBelongsToJob, StartOwnsServer, ExitsAreHooked,
         RunningServersAreManaged, ClientsUp, IsServerStopped, Registered,
         TypeOK, ClientState, ClosingRecord, ExitingRecord, ServerRecord,
         WorkerRecord, osVars
<1>9. RunningServersAreManaged'
  BY DEF LifecycleInv, RecoverServer, FreshProcs, Unused, NoServer,
         RunningServersAreManaged, RegistryMatches, ProcessesHavePorts,
         UnusedAreBlank, ClosingBelongsToJob, StartOwnsServer, ExitsAreHooked,
         TasksFindStopped, ClientsUp, IsServerStopped, Registered, TypeOK,
         ClientState, ClosingRecord, ExitingRecord, ServerRecord, WorkerRecord,
         osVars
<1>10. JobCoversRunning'
  BY DEF LifecycleInv, RecoverServer, FreshProcs, Unused, NoServer,
         JobCoversRunning, RegistryMatches, ProcessesHavePorts, UnusedAreBlank,
         ClosingBelongsToJob, TasksFindStopped, RunningServersAreManaged,
         ClientsUp, IsServerStopped, Registered, TypeOK, ClientState,
         ClosingRecord, ExitingRecord, ServerRecord, WorkerRecord, osVars
<1>11. StartedRuns'
  BY DEF LifecycleInv, RecoverServer, FreshProcs, Unused, NoServer,
         StartedRuns, RegistryMatches, ProcessesHavePorts, UnusedAreBlank,
         ClosingBelongsToJob, StartOwnsServer, ExitsAreHooked,
         TasksFindStopped, ClientsUp, IsServerStopped, Registered, TypeOK,
         ClientState, ClosingRecord, ExitingRecord, ServerRecord, WorkerRecord,
         osVars
<1>12. RunningClientsAwaited'
  BY DEF LifecycleInv, RecoverServer, FreshProcs, Unused, NoServer,
         RunningClientsAwaited, UnusedAreBlank, ClosingBelongsToJob,
         StartedRuns, StartOwnsServer, ClientsUp, Registered, TypeOK,
         ClientState, ClosingRecord, ExitingRecord, ServerRecord, WorkerRecord,
         osVars
<1>13. NoStrayClients'
  BY DEF LifecycleInv, RecoverServer, FreshProcs, Unused, NoServer,
         NoStrayClients, RunningClientsAwaited, StartedRuns, UnusedAreBlank,
         StartOwnsServer, RegistryMatches, ClientsUp, Registered, TypeOK,
         ClientState, ClosingRecord, ExitingRecord, ServerRecord, WorkerRecord,
         osVars
<1>14. QED
  BY <1>1, <1>2, <1>3, <1>4, <1>5, <1>6, <1>7, <1>8, <1>9, <1>10, <1>11, <1>12,
     <1>13
     DEF LifecycleInv

\* The end of the recovery changes nothing but the worker.
LEMMA FinishBootSafe ==
  ASSUME LifecycleInv, TypeOK', FinishBoot
  PROVE  LifecycleInv'
<1>1. /\ RegistryMatches'
       /\ ProcessesHavePorts'
       /\ UnusedAreBlank'
       /\ ExitsAreHooked'
       /\ TasksFindStopped'
       /\ RunningServersAreManaged'
       /\ RunningClientsAwaited'
       /\ NoStrayClients'
  BY DEF LifecycleInv, FinishBoot, RegistryMatches, ProcessesHavePorts,
         UnusedAreBlank, ExitsAreHooked, TasksFindStopped,
         RunningServersAreManaged, RunningClientsAwaited, NoStrayClients,
         ClientsUp, IsServerStopped, Registered, Unused, osVars
<1>2. ClosingBelongsToJob'
  BY DEF LifecycleInv, FinishBoot, Idle, ClosingBelongsToJob, TypeOK,
         ClosingRecord, ServerRecord, WorkerRecord, osVars
<1>3. StartOwnsServer'
  BY DEF LifecycleInv, FinishBoot, Idle, StartOwnsServer, ClosingBelongsToJob,
         UnusedAreBlank, ExitsAreHooked, ProcessesHavePorts, ClientsUp, Unused,
         TypeOK, ClientState, ClosingRecord, ExitingRecord, ServerRecord,
         WorkerRecord, osVars
<1>4. ExitsAreWatched'
  BY DEF LifecycleInv, FinishBoot, Idle, ExitsAreWatched, ExitsAreHooked,
         ProcessesHavePorts, UnusedAreBlank, ClientsUp, Unused, TypeOK,
         ClientState, ClosingRecord, ExitingRecord, ServerRecord, WorkerRecord,
         osVars
<1>5. JobCoversRunning'
  BY DEF LifecycleInv, FinishBoot, Idle, JobCoversRunning, RegistryMatches,
         ProcessesHavePorts, UnusedAreBlank, ClosingBelongsToJob,
         TasksFindStopped, RunningServersAreManaged, ClientsUp,
         IsServerStopped, Registered, Unused, TypeOK, ClientState,
         ClosingRecord, ExitingRecord, ServerRecord, WorkerRecord, osVars
<1>6. StartedRuns'
  BY DEF LifecycleInv, FinishBoot, Idle, StartedRuns, RegistryMatches,
         ProcessesHavePorts, UnusedAreBlank, ClosingBelongsToJob,
         StartOwnsServer, ExitsAreHooked, TasksFindStopped, ClientsUp,
         IsServerStopped, Registered, Unused, TypeOK, ClientState,
         ClosingRecord, ExitingRecord, ServerRecord, WorkerRecord, osVars
<1>7. QED
  BY <1>1, <1>2, <1>3, <1>4, <1>5, <1>6 DEF LifecycleInv

\* The job takes up every running server of its port.
LEMMA RunShutdownServerSafe ==
  ASSUME LifecycleInv, TypeOK', NEW port \in Ports, NEW force \in BOOLEAN,
         RunShutdownServer(port, force)
  PROVE  LifecycleInv'
<1>1. /\ RegistryMatches'
       /\ ProcessesHavePorts'
       /\ ExitsAreHooked'
       /\ RunningServersAreManaged'
       /\ NoStrayClients'
  BY DEF LifecycleInv, RunShutdownServer, RegistryMatches, ProcessesHavePorts,
         ExitsAreHooked, RunningServersAreManaged, NoStrayClients, ClientsUp,
         Registered, osVars
<1>2. UnusedAreBlank'
  BY DEF LifecycleInv, RunShutdownServer, BeginClosing, RunningOn, NotClosing,
         Idle, IsServerStopped, Registered, UnusedAreBlank, RegistryMatches,
         StartOwnsServer, ProcessesHavePorts, StartedRuns, ClientsUp, Unused,
         TypeOK, ClientState, ClosingRecord, ExitingRecord, ServerRecord,
         WorkerRecord, osVars
<1>3. ClosingBelongsToJob'
  BY DEF LifecycleInv, RunShutdownServer, BeginClosing, RunningOn, NotClosing,
         Idle, IsServerStopped, Registered, ClosingBelongsToJob, TypeOK,
         ClosingRecord, ServerRecord, WorkerRecord, osVars
<1>4. StartOwnsServer'
  BY DEF LifecycleInv, RunShutdownServer, BeginClosing, RunningOn, NotClosing,
         Idle, IsServerStopped, Registered, StartOwnsServer,
         ClosingBelongsToJob, UnusedAreBlank, ExitsAreHooked,
         ProcessesHavePorts, ClientsUp, Unused, TypeOK, ClientState,
         ClosingRecord, ExitingRecord, ServerRecord, WorkerRecord, osVars
<1>5. ExitsAreWatched'
  BY DEF LifecycleInv, RunShutdownServer, BeginClosing, RunningOn, NotClosing,
         Idle, IsServerStopped, Registered, ExitsAreWatched, ExitsAreHooked,
         ProcessesHavePorts, UnusedAreBlank, ClientsUp, Unused, TypeOK,
         ClientState, ClosingRecord, ExitingRecord, ServerRecord, WorkerRecord,
         osVars
<1>6. TasksFindStopped'
  BY DEF LifecycleInv, RunShutdownServer, BeginClosing, RunningOn, NotClosing,
         Idle, IsServerStopped, Registered, TasksFindStopped, RegistryMatches,
         ProcessesHavePorts, UnusedAreBlank, ClosingBelongsToJob,
         StartOwnsServer, ExitsAreHooked, RunningServersAreManaged, ClientsUp,
         Unused, TypeOK, ClientState, ClosingRecord, ExitingRecord,
         ServerRecord, WorkerRecord, osVars
<1>7. JobCoversRunning'
  BY DEF LifecycleInv, RunShutdownServer, BeginClosing, RunningOn, NotClosing,
         Idle, IsServerStopped, Registered, JobCoversRunning, RegistryMatches,
         ProcessesHavePorts, UnusedAreBlank, ClosingBelongsToJob,
         TasksFindStopped, RunningServersAreManaged, ClientsUp, Unused, TypeOK,
         ClientState, ClosingRecord, ExitingRecord, ServerRecord, WorkerRecord,
         osVars
<1>8. StartedRuns'
  BY DEF LifecycleInv, RunShutdownServer, BeginClosing, RunningOn, NotClosing,
         Idle, IsServerStopped, Registered, StartedRuns, RegistryMatches,
         ProcessesHavePorts, UnusedAreBlank, ClosingBelongsToJob,
         StartOwnsServer, ExitsAreHooked, TasksFindStopped, ClientsUp, Unused,
         TypeOK, ClientState, ClosingRecord, ExitingRecord, ServerRecord,
         WorkerRecord, osVars
<1>9. RunningClientsAwaited'
  BY DEF LifecycleInv, RunShutdownServer, BeginClosing, RunningOn, NotClosing,
         Idle, IsServerStopped, Registered, RunningClientsAwaited,
         UnusedAreBlank, ClosingBelongsToJob, StartedRuns, StartOwnsServer,
         ClientsUp, Unused, TypeOK, ClientState, ClosingRecord, ExitingRecord,
         ServerRecord, WorkerRecord, osVars
<1>10. QED
  BY <1>1, <1>2, <1>3, <1>4, <1>5, <1>6, <1>7, <1>8, <1>9 DEF LifecycleInv

\* The job takes up every registered server.
LEMMA RunShutdownAllServersSafe ==
  ASSUME LifecycleInv, TypeOK', NEW force \in BOOLEAN,
         RunShutdownAllServers(force)
  PROVE  LifecycleInv'
<1>1. /\ RegistryMatches'
       /\ ProcessesHavePorts'
       /\ ExitsAreHooked'
       /\ RunningServersAreManaged'
       /\ NoStrayClients'
  BY DEF LifecycleInv, RunShutdownAllServers, RegistryMatches,
         ProcessesHavePorts, ExitsAreHooked, RunningServersAreManaged,
         NoStrayClients, ClientsUp, Registered, osVars
<1>2. UnusedAreBlank'
  BY DEF LifecycleInv, RunShutdownAllServers, BeginClosing, NotClosing, Idle,
         Registered, UnusedAreBlank, RegistryMatches, StartOwnsServer,
         ProcessesHavePorts, StartedRuns, ClientsUp, Unused, TypeOK,
         ClientState, ClosingRecord, ExitingRecord, ServerRecord, WorkerRecord,
         osVars
<1>3. ClosingBelongsToJob'
  BY DEF LifecycleInv, RunShutdownAllServers, BeginClosing, NotClosing, Idle,
         Registered, ClosingBelongsToJob, TypeOK, ClosingRecord, ServerRecord,
         WorkerRecord, osVars
<1>4. StartOwnsServer'
  BY DEF LifecycleInv, RunShutdownAllServers, BeginClosing, NotClosing, Idle,
         Registered, StartOwnsServer, ClosingBelongsToJob, UnusedAreBlank,
         ExitsAreHooked, ProcessesHavePorts, ClientsUp, Unused, TypeOK,
         ClientState, ClosingRecord, ExitingRecord, ServerRecord, WorkerRecord,
         osVars
<1>5. ExitsAreWatched'
  BY DEF LifecycleInv, RunShutdownAllServers, BeginClosing, NotClosing, Idle,
         Registered, ExitsAreWatched, ExitsAreHooked, ProcessesHavePorts,
         UnusedAreBlank, ClientsUp, Unused, TypeOK, ClientState, ClosingRecord,
         ExitingRecord, ServerRecord, WorkerRecord, osVars
<1>6. TasksFindStopped'
  BY DEF LifecycleInv, RunShutdownAllServers, BeginClosing, NotClosing, Idle,
         Registered, TasksFindStopped, RegistryMatches, ProcessesHavePorts,
         UnusedAreBlank, ClosingBelongsToJob, StartOwnsServer, ExitsAreHooked,
         RunningServersAreManaged, ClientsUp, IsServerStopped, Unused, TypeOK,
         ClientState, ClosingRecord, ExitingRecord, ServerRecord, WorkerRecord,
         osVars
<1>7. JobCoversRunning'
  BY DEF LifecycleInv, RunShutdownAllServers, BeginClosing, NotClosing, Idle,
         Registered, JobCoversRunning, RegistryMatches, ProcessesHavePorts,
         UnusedAreBlank, ClosingBelongsToJob, TasksFindStopped,
         RunningServersAreManaged, ClientsUp, IsServerStopped, Unused, TypeOK,
         ClientState, ClosingRecord, ExitingRecord, ServerRecord, WorkerRecord,
         osVars
<1>8. StartedRuns'
  BY DEF LifecycleInv, RunShutdownAllServers, BeginClosing, NotClosing, Idle,
         Registered, StartedRuns, RegistryMatches, ProcessesHavePorts,
         UnusedAreBlank, ClosingBelongsToJob, StartOwnsServer, ExitsAreHooked,
         TasksFindStopped, ClientsUp, IsServerStopped, Unused, TypeOK,
         ClientState, ClosingRecord, ExitingRecord, ServerRecord, WorkerRecord,
         osVars
<1>9. RunningClientsAwaited'
  BY DEF LifecycleInv, RunShutdownAllServers, BeginClosing, NotClosing, Idle,
         Registered, RunningClientsAwaited, UnusedAreBlank,
         ClosingBelongsToJob, StartedRuns, StartOwnsServer, ClientsUp, Unused,
         TypeOK, ClientState, ClosingRecord, ExitingRecord, ServerRecord,
         WorkerRecord, osVars
<1>10. QED
  BY <1>1, <1>2, <1>3, <1>4, <1>5, <1>6, <1>7, <1>8, <1>9 DEF LifecycleInv

\* A start job claims nothing about the ports it shuts down.
LEMMA RunStartServerSafe ==
  ASSUME LifecycleInv, TypeOK', NEW m \in Modsets, NEW n \in HcCounts,
         RunStartServer(m, n)
  PROVE  LifecycleInv'
<1>1. /\ RegistryMatches'
       /\ ProcessesHavePorts'
       /\ ExitsAreHooked'
       /\ RunningServersAreManaged'
       /\ NoStrayClients'
  BY DEF LifecycleInv, RunStartServer, RegistryMatches, ProcessesHavePorts,
         ExitsAreHooked, RunningServersAreManaged, NoStrayClients, ClientsUp,
         Registered, osVars
<1>2. UnusedAreBlank'
  BY DEF LifecycleInv, RunStartServer, BeginClosing, RunningOn, NotClosing,
         Idle, IsServerStopped, Registered, UnusedAreBlank, RegistryMatches,
         StartOwnsServer, ProcessesHavePorts, StartedRuns, ClientsUp, Unused,
         TypeOK, ClientState, ClosingRecord, ExitingRecord, ServerRecord,
         WorkerRecord, osVars
<1>3. ClosingBelongsToJob'
  BY DEF LifecycleInv, RunStartServer, BeginClosing, RunningOn, NotClosing,
         Idle, IsServerStopped, Registered, ClosingBelongsToJob, TypeOK,
         ClosingRecord, ServerRecord, WorkerRecord, osVars
<1>4. StartOwnsServer'
  BY DEF LifecycleInv, RunStartServer, BeginClosing, RunningOn, NotClosing,
         Idle, IsServerStopped, Registered, StartOwnsServer,
         ClosingBelongsToJob, UnusedAreBlank, ExitsAreHooked,
         ProcessesHavePorts, ClientsUp, Unused, TypeOK, ClientState,
         ClosingRecord, ExitingRecord, ServerRecord, WorkerRecord, osVars
<1>5. ExitsAreWatched'
  BY DEF LifecycleInv, RunStartServer, BeginClosing, RunningOn, NotClosing,
         Idle, IsServerStopped, Registered, ExitsAreWatched, ExitsAreHooked,
         ProcessesHavePorts, UnusedAreBlank, ClientsUp, Unused, TypeOK,
         ClientState, ClosingRecord, ExitingRecord, ServerRecord, WorkerRecord,
         osVars
<1>6. TasksFindStopped'
  BY DEF LifecycleInv, RunStartServer, BeginClosing, RunningOn, NotClosing,
         Idle, IsServerStopped, Registered, TasksFindStopped, RegistryMatches,
         ProcessesHavePorts, UnusedAreBlank, ClosingBelongsToJob,
         StartOwnsServer, ExitsAreHooked, RunningServersAreManaged, ClientsUp,
         Unused, TypeOK, ClientState, ClosingRecord, ExitingRecord,
         ServerRecord, WorkerRecord, osVars
<1>7. JobCoversRunning'
  BY DEF LifecycleInv, RunStartServer, BeginClosing, RunningOn, NotClosing,
         Idle, IsServerStopped, Registered, JobCoversRunning, RegistryMatches,
         ProcessesHavePorts, UnusedAreBlank, ClosingBelongsToJob,
         TasksFindStopped, RunningServersAreManaged, ClientsUp, Unused, TypeOK,
         ClientState, ClosingRecord, ExitingRecord, ServerRecord, WorkerRecord,
         osVars
<1>8. StartedRuns'
  BY DEF LifecycleInv, RunStartServer, BeginClosing, RunningOn, NotClosing,
         Idle, IsServerStopped, Registered, StartedRuns, RegistryMatches,
         ProcessesHavePorts, UnusedAreBlank, ClosingBelongsToJob,
         StartOwnsServer, ExitsAreHooked, TasksFindStopped, ClientsUp, Unused,
         TypeOK, ClientState, ClosingRecord, ExitingRecord, ServerRecord,
         WorkerRecord, osVars
<1>9. RunningClientsAwaited'
  BY DEF LifecycleInv, RunStartServer, BeginClosing, RunningOn, NotClosing,
         Idle, IsServerStopped, Registered, RunningClientsAwaited,
         UnusedAreBlank, ClosingBelongsToJob, StartedRuns, StartOwnsServer,
         ClientsUp, Unused, TypeOK, ClientState, ClosingRecord, ExitingRecord,
         ServerRecord, WorkerRecord, osVars
<1>10. QED
  BY <1>1, <1>2, <1>3, <1>4, <1>5, <1>6, <1>7, <1>8, <1>9 DEF LifecycleInv

\* The join happens when no shutdown is left in flight.
LEMMA ShutdownsJoinedSafe ==
  ASSUME LifecycleInv, TypeOK', ShutdownsJoined
  PROVE  LifecycleInv'
<1>1. /\ RegistryMatches'
       /\ ProcessesHavePorts'
       /\ UnusedAreBlank'
       /\ ExitsAreHooked'
       /\ TasksFindStopped'
       /\ RunningServersAreManaged'
       /\ RunningClientsAwaited'
       /\ NoStrayClients'
  BY DEF LifecycleInv, ShutdownsJoined, RegistryMatches, ProcessesHavePorts,
         UnusedAreBlank, ExitsAreHooked, TasksFindStopped,
         RunningServersAreManaged, RunningClientsAwaited, NoStrayClients,
         ClientsUp, IsServerStopped, Registered, Unused, osVars
<1>2. ClosingBelongsToJob'
  BY DEF LifecycleInv, ShutdownsJoined, Finish, Idle, ClosingBelongsToJob,
         TypeOK, ClosingRecord, ServerRecord, WorkerRecord, osVars
<1>3. StartOwnsServer'
  BY DEF LifecycleInv, ShutdownsJoined, Finish, Idle, StartOwnsServer,
         ClosingBelongsToJob, UnusedAreBlank, ExitsAreHooked,
         ProcessesHavePorts, ClientsUp, Unused, TypeOK, ClientState,
         ClosingRecord, ExitingRecord, ServerRecord, WorkerRecord, osVars
<1>4. ExitsAreWatched'
  BY DEF LifecycleInv, ShutdownsJoined, Finish, Idle, ExitsAreWatched,
         ExitsAreHooked, ProcessesHavePorts, UnusedAreBlank, ClientsUp, Unused,
         TypeOK, ClientState, ClosingRecord, ExitingRecord, ServerRecord,
         WorkerRecord, osVars
<1>5. JobCoversRunning'
  BY DEF LifecycleInv, ShutdownsJoined, Finish, Idle, JobCoversRunning,
         RegistryMatches, ProcessesHavePorts, UnusedAreBlank,
         ClosingBelongsToJob, TasksFindStopped, RunningServersAreManaged,
         ClientsUp, IsServerStopped, Registered, Unused, TypeOK, ClientState,
         ClosingRecord, ExitingRecord, ServerRecord, WorkerRecord, osVars
<1>6. StartedRuns'
  BY DEF LifecycleInv, ShutdownsJoined, Finish, Idle, StartedRuns,
         RegistryMatches, ProcessesHavePorts, UnusedAreBlank,
         ClosingBelongsToJob, StartOwnsServer, ExitsAreHooked,
         TasksFindStopped, ClientsUp, IsServerStopped, Registered, Unused,
         TypeOK, ClientState, ClosingRecord, ExitingRecord, ServerRecord,
         WorkerRecord, osVars
<1>7. QED
  BY <1>1, <1>2, <1>3, <1>4, <1>5, <1>6 DEF LifecycleInv

\* Only the worker changes.
LEMMA UpdateModsetFailsSafe ==
  ASSUME LifecycleInv, TypeOK', UpdateModsetFails
  PROVE  LifecycleInv'
<1>1. /\ RegistryMatches'
       /\ ProcessesHavePorts'
       /\ UnusedAreBlank'
       /\ ExitsAreHooked'
       /\ TasksFindStopped'
       /\ RunningServersAreManaged'
       /\ RunningClientsAwaited'
       /\ NoStrayClients'
  BY DEF LifecycleInv, UpdateModsetFails, RegistryMatches, ProcessesHavePorts,
         UnusedAreBlank, ExitsAreHooked, TasksFindStopped,
         RunningServersAreManaged, RunningClientsAwaited, NoStrayClients,
         ClientsUp, IsServerStopped, Registered, Unused, osVars
<1>2. ClosingBelongsToJob'
  BY DEF LifecycleInv, UpdateModsetFails, Finish, Idle, ClosingBelongsToJob,
         TypeOK, ClosingRecord, ServerRecord, WorkerRecord, osVars
<1>3. StartOwnsServer'
  BY DEF LifecycleInv, UpdateModsetFails, Finish, Idle, StartOwnsServer,
         ClosingBelongsToJob, UnusedAreBlank, ExitsAreHooked,
         ProcessesHavePorts, ClientsUp, Unused, TypeOK, ClientState,
         ClosingRecord, ExitingRecord, ServerRecord, WorkerRecord, osVars
<1>4. ExitsAreWatched'
  BY DEF LifecycleInv, UpdateModsetFails, Finish, Idle, ExitsAreWatched,
         ExitsAreHooked, ProcessesHavePorts, UnusedAreBlank, ClientsUp, Unused,
         TypeOK, ClientState, ClosingRecord, ExitingRecord, ServerRecord,
         WorkerRecord, osVars
<1>5. JobCoversRunning'
  BY DEF LifecycleInv, UpdateModsetFails, Finish, Idle, JobCoversRunning,
         RegistryMatches, ProcessesHavePorts, UnusedAreBlank,
         ClosingBelongsToJob, TasksFindStopped, RunningServersAreManaged,
         ClientsUp, IsServerStopped, Registered, Unused, TypeOK, ClientState,
         ClosingRecord, ExitingRecord, ServerRecord, WorkerRecord, osVars
<1>6. StartedRuns'
  BY DEF LifecycleInv, UpdateModsetFails, Finish, Idle, StartedRuns,
         RegistryMatches, ProcessesHavePorts, UnusedAreBlank,
         ClosingBelongsToJob, StartOwnsServer, ExitsAreHooked,
         TasksFindStopped, ClientsUp, IsServerStopped, Registered, Unused,
         TypeOK, ClientState, ClosingRecord, ExitingRecord, ServerRecord,
         WorkerRecord, osVars
<1>7. QED
  BY <1>1, <1>2, <1>3, <1>4, <1>5, <1>6 DEF LifecycleInv

\* A fresh server takes a free port, and nothing else knows it.
LEMMA CreateServerSafe ==
  ASSUME LifecycleInv, TypeOK', NEW s \in Servers, NEW cs \in SUBSET Clients,
         CreateServer(s, cs)
  PROVE  LifecycleInv'
<1>1. RegistryMatches'
  BY DEF LifecycleInv, CreateServer, Unused, NoServer, RegistryMatches,
         UnusedAreBlank, ClientsUp, TypeOK, ClientState, ClosingRecord,
         ExitingRecord, ServerRecord, osVars
<1>2. ProcessesHavePorts'
  BY DEF LifecycleInv, CreateServer, Unused, NoServer, ProcessesHavePorts,
         StartOwnsServer, UnusedAreBlank, ClientsUp, TypeOK, ClientState,
         ClosingRecord, ExitingRecord, ServerRecord, WorkerRecord, osVars
<1>3. UnusedAreBlank'
  BY DEF LifecycleInv, CreateServer, Unused, NoServer, UnusedAreBlank,
         RegistryMatches, StartOwnsServer, ProcessesHavePorts, StartedRuns,
         ClientsUp, Registered, TypeOK, ClientState, ClosingRecord,
         ExitingRecord, ServerRecord, WorkerRecord, osVars
<1>4. ClosingBelongsToJob'
  BY DEF LifecycleInv, CreateServer, Unused, NoServer, ClosingBelongsToJob,
         TypeOK, ClosingRecord, ServerRecord, WorkerRecord, osVars
<1>5. StartOwnsServer'
  BY DEF LifecycleInv, CreateServer, Unused, NoServer, StartOwnsServer,
         ClosingBelongsToJob, UnusedAreBlank, ExitsAreHooked,
         ProcessesHavePorts, ClientsUp, TypeOK, ClientState, ClosingRecord,
         ExitingRecord, ServerRecord, WorkerRecord, osVars
<1>6. ExitsAreHooked'
  BY DEF LifecycleInv, CreateServer, Unused, NoServer, ExitsAreHooked,
         ProcessesHavePorts, UnusedAreBlank, ClientsUp, TypeOK, ClientState,
         ClosingRecord, ExitingRecord, ServerRecord, osVars
<1>7. ExitsAreWatched'
  BY DEF LifecycleInv, CreateServer, Unused, NoServer, ExitsAreWatched,
         ExitsAreHooked, ProcessesHavePorts, UnusedAreBlank, ClientsUp, TypeOK,
         ClientState, ClosingRecord, ExitingRecord, ServerRecord, WorkerRecord,
         osVars
<1>8. TasksFindStopped'
  BY DEF LifecycleInv, CreateServer, Unused, NoServer, TasksFindStopped,
         RegistryMatches, ProcessesHavePorts, UnusedAreBlank,
         ClosingBelongsToJob, StartOwnsServer, ExitsAreHooked,
         RunningServersAreManaged, ClientsUp, IsServerStopped, Registered,
         TypeOK, ClientState, ClosingRecord, ExitingRecord, ServerRecord,
         WorkerRecord, osVars
<1>9. RunningServersAreManaged'
  BY DEF LifecycleInv, CreateServer, Unused, NoServer,
         RunningServersAreManaged, RegistryMatches, ProcessesHavePorts,
         UnusedAreBlank, ClosingBelongsToJob, StartOwnsServer, ExitsAreHooked,
         TasksFindStopped, ClientsUp, IsServerStopped, Registered, TypeOK,
         ClientState, ClosingRecord, ExitingRecord, ServerRecord, WorkerRecord,
         osVars
<1>10. JobCoversRunning'
  BY DEF LifecycleInv, CreateServer, Unused, NoServer, JobCoversRunning,
         RegistryMatches, ProcessesHavePorts, UnusedAreBlank,
         ClosingBelongsToJob, TasksFindStopped, RunningServersAreManaged,
         ClientsUp, IsServerStopped, Registered, TypeOK, ClientState,
         ClosingRecord, ExitingRecord, ServerRecord, WorkerRecord, osVars
<1>11. StartedRuns'
  BY DEF LifecycleInv, CreateServer, Unused, NoServer, StartedRuns,
         RegistryMatches, ProcessesHavePorts, UnusedAreBlank,
         ClosingBelongsToJob, StartOwnsServer, ExitsAreHooked,
         TasksFindStopped, ClientsUp, IsServerStopped, Registered, TypeOK,
         ClientState, ClosingRecord, ExitingRecord, ServerRecord, WorkerRecord,
         osVars
<1>12. RunningClientsAwaited'
  BY DEF LifecycleInv, CreateServer, Unused, NoServer, RunningClientsAwaited,
         UnusedAreBlank, ClosingBelongsToJob, StartedRuns, StartOwnsServer,
         ClientsUp, Registered, TypeOK, ClientState, ClosingRecord,
         ExitingRecord, ServerRecord, WorkerRecord, osVars
<1>13. NoStrayClients'
  BY DEF LifecycleInv, CreateServer, Unused, NoServer, NoStrayClients,
         RunningClientsAwaited, StartedRuns, UnusedAreBlank, StartOwnsServer,
         RegistryMatches, ClientsUp, Registered, TypeOK, ClientState,
         ClosingRecord, ExitingRecord, ServerRecord, WorkerRecord, osVars
<1>14. QED
  BY <1>1, <1>2, <1>3, <1>4, <1>5, <1>6, <1>7, <1>8, <1>9, <1>10, <1>11, <1>12,
     <1>13
     DEF LifecycleInv

\* Only the worker changes.
LEMMA FindServerSafe ==
  ASSUME LifecycleInv, TypeOK', FindServer
  PROVE  LifecycleInv'
<1>1. /\ RegistryMatches'
       /\ ProcessesHavePorts'
       /\ UnusedAreBlank'
       /\ ExitsAreHooked'
       /\ TasksFindStopped'
       /\ RunningServersAreManaged'
       /\ RunningClientsAwaited'
       /\ NoStrayClients'
  BY DEF LifecycleInv, FindServer, RegistryMatches, ProcessesHavePorts,
         UnusedAreBlank, ExitsAreHooked, TasksFindStopped,
         RunningServersAreManaged, RunningClientsAwaited, NoStrayClients,
         ClientsUp, IsServerStopped, Registered, Unused, osVars
<1>2. ClosingBelongsToJob'
  BY DEF LifecycleInv, FindServer, Finish, Idle, ClosingBelongsToJob, TypeOK,
         ClosingRecord, ServerRecord, WorkerRecord, osVars
<1>3. StartOwnsServer'
  BY DEF LifecycleInv, FindServer, Finish, Idle, StartOwnsServer,
         ClosingBelongsToJob, UnusedAreBlank, ExitsAreHooked,
         ProcessesHavePorts, ClientsUp, Unused, TypeOK, ClientState,
         ClosingRecord, ExitingRecord, ServerRecord, WorkerRecord, osVars
<1>4. ExitsAreWatched'
  BY DEF LifecycleInv, FindServer, Finish, Idle, ExitsAreWatched,
         ExitsAreHooked, ProcessesHavePorts, UnusedAreBlank, ClientsUp, Unused,
         TypeOK, ClientState, ClosingRecord, ExitingRecord, ServerRecord,
         WorkerRecord, osVars
<1>5. JobCoversRunning'
  BY DEF LifecycleInv, FindServer, Finish, Idle, JobCoversRunning,
         RegistryMatches, ProcessesHavePorts, UnusedAreBlank,
         ClosingBelongsToJob, TasksFindStopped, RunningServersAreManaged,
         ClientsUp, IsServerStopped, Registered, Unused, TypeOK, ClientState,
         ClosingRecord, ExitingRecord, ServerRecord, WorkerRecord, osVars
<1>6. StartedRuns'
  BY DEF LifecycleInv, FindServer, Finish, Idle, StartedRuns, RegistryMatches,
         ProcessesHavePorts, UnusedAreBlank, ClosingBelongsToJob,
         StartOwnsServer, ExitsAreHooked, TasksFindStopped, ClientsUp,
         IsServerStopped, Registered, Unused, TypeOK, ClientState,
         ClosingRecord, ExitingRecord, ServerRecord, WorkerRecord, osVars
<1>7. QED
  BY <1>1, <1>2, <1>3, <1>4, <1>5, <1>6 DEF LifecycleInv

\* Only the worker changes.
LEMMA StartFailsSafe ==
  ASSUME LifecycleInv, TypeOK', StartFails
  PROVE  LifecycleInv'
<1>1. /\ RegistryMatches'
       /\ ProcessesHavePorts'
       /\ UnusedAreBlank'
       /\ ExitsAreHooked'
       /\ TasksFindStopped'
       /\ RunningServersAreManaged'
       /\ RunningClientsAwaited'
       /\ NoStrayClients'
  BY DEF LifecycleInv, StartFails, RegistryMatches, ProcessesHavePorts,
         UnusedAreBlank, ExitsAreHooked, TasksFindStopped,
         RunningServersAreManaged, RunningClientsAwaited, NoStrayClients,
         ClientsUp, IsServerStopped, Registered, Unused, osVars
<1>2. ClosingBelongsToJob'
  BY DEF LifecycleInv, StartFails, Finish, Idle, ClosingBelongsToJob, TypeOK,
         ClosingRecord, ServerRecord, WorkerRecord, osVars
<1>3. StartOwnsServer'
  BY DEF LifecycleInv, StartFails, Finish, Idle, StartOwnsServer,
         ClosingBelongsToJob, UnusedAreBlank, ExitsAreHooked,
         ProcessesHavePorts, ClientsUp, Unused, TypeOK, ClientState,
         ClosingRecord, ExitingRecord, ServerRecord, WorkerRecord, osVars
<1>4. ExitsAreWatched'
  BY DEF LifecycleInv, StartFails, Finish, Idle, ExitsAreWatched,
         ExitsAreHooked, ProcessesHavePorts, UnusedAreBlank, ClientsUp, Unused,
         TypeOK, ClientState, ClosingRecord, ExitingRecord, ServerRecord,
         WorkerRecord, osVars
<1>5. JobCoversRunning'
  BY DEF LifecycleInv, StartFails, Finish, Idle, JobCoversRunning,
         RegistryMatches, ProcessesHavePorts, UnusedAreBlank,
         ClosingBelongsToJob, TasksFindStopped, RunningServersAreManaged,
         ClientsUp, IsServerStopped, Registered, Unused, TypeOK, ClientState,
         ClosingRecord, ExitingRecord, ServerRecord, WorkerRecord, osVars
<1>6. StartedRuns'
  BY DEF LifecycleInv, StartFails, Finish, Idle, StartedRuns, RegistryMatches,
         ProcessesHavePorts, UnusedAreBlank, ClosingBelongsToJob,
         StartOwnsServer, ExitsAreHooked, TasksFindStopped, ClientsUp,
         IsServerStopped, Registered, Unused, TypeOK, ClientState,
         ClosingRecord, ExitingRecord, ServerRecord, WorkerRecord, osVars
<1>7. QED
  BY <1>1, <1>2, <1>3, <1>4, <1>5, <1>6 DEF LifecycleInv

\* The new process belongs to the server registered on its port.
LEMMA LaunchProcessSafe ==
  ASSUME LifecycleInv, TypeOK', NEW p \in Procs, LaunchProcess(p)
  PROVE  LifecycleInv'
<1>1. RunningClientsAwaited'
  BY DEF LifecycleInv, LaunchProcess, RunningClientsAwaited, ClientsUp, osVars
<1>2. RegistryMatches'
  BY DEF LifecycleInv, LaunchProcess, FreshProcs, RegistryMatches,
         UnusedAreBlank, ClientsUp, Unused, TypeOK, ClientState, ClosingRecord,
         ExitingRecord, ServerRecord, osVars
<1>3. ProcessesHavePorts'
  BY DEF LifecycleInv, LaunchProcess, FreshProcs, ProcessesHavePorts,
         StartOwnsServer, UnusedAreBlank, ClientsUp, Unused, TypeOK,
         ClientState, ClosingRecord, ExitingRecord, ServerRecord, WorkerRecord,
         osVars
<1>4. UnusedAreBlank'
  BY DEF LifecycleInv, LaunchProcess, FreshProcs, UnusedAreBlank,
         RegistryMatches, StartOwnsServer, ProcessesHavePorts, StartedRuns,
         ClientsUp, Registered, Unused, TypeOK, ClientState, ClosingRecord,
         ExitingRecord, ServerRecord, WorkerRecord, osVars
<1>5. ClosingBelongsToJob'
  BY DEF LifecycleInv, LaunchProcess, FreshProcs, ClosingBelongsToJob, TypeOK,
         ClosingRecord, ServerRecord, WorkerRecord, osVars
<1>6. StartOwnsServer'
  BY DEF LifecycleInv, LaunchProcess, FreshProcs, StartOwnsServer,
         ClosingBelongsToJob, UnusedAreBlank, ExitsAreHooked,
         ProcessesHavePorts, ClientsUp, Unused, TypeOK, ClientState,
         ClosingRecord, ExitingRecord, ServerRecord, WorkerRecord, osVars
<1>7. ExitsAreHooked'
  BY DEF LifecycleInv, LaunchProcess, FreshProcs, ExitsAreHooked,
         ProcessesHavePorts, UnusedAreBlank, ClientsUp, Unused, TypeOK,
         ClientState, ClosingRecord, ExitingRecord, ServerRecord, osVars
<1>8. ExitsAreWatched'
  BY DEF LifecycleInv, LaunchProcess, FreshProcs, ExitsAreWatched,
         ExitsAreHooked, ProcessesHavePorts, UnusedAreBlank, ClientsUp, Unused,
         TypeOK, ClientState, ClosingRecord, ExitingRecord, ServerRecord,
         WorkerRecord, osVars
<1>9. TasksFindStopped'
  BY DEF LifecycleInv, LaunchProcess, FreshProcs, TasksFindStopped,
         RegistryMatches, ProcessesHavePorts, UnusedAreBlank,
         ClosingBelongsToJob, StartOwnsServer, ExitsAreHooked,
         RunningServersAreManaged, ClientsUp, IsServerStopped, Registered,
         Unused, TypeOK, ClientState, ClosingRecord, ExitingRecord,
         ServerRecord, WorkerRecord, osVars
<1>10. RunningServersAreManaged'
  BY DEF LifecycleInv, LaunchProcess, FreshProcs, RunningServersAreManaged,
         RegistryMatches, ProcessesHavePorts, UnusedAreBlank,
         ClosingBelongsToJob, StartOwnsServer, ExitsAreHooked,
         TasksFindStopped, ClientsUp, IsServerStopped, Registered, Unused,
         TypeOK, ClientState, ClosingRecord, ExitingRecord, ServerRecord,
         WorkerRecord, osVars
<1>11. JobCoversRunning'
  BY DEF LifecycleInv, LaunchProcess, FreshProcs, JobCoversRunning,
         RegistryMatches, ProcessesHavePorts, UnusedAreBlank,
         ClosingBelongsToJob, TasksFindStopped, RunningServersAreManaged,
         ClientsUp, IsServerStopped, Registered, Unused, TypeOK, ClientState,
         ClosingRecord, ExitingRecord, ServerRecord, WorkerRecord, osVars
<1>12. StartedRuns'
  BY DEF LifecycleInv, LaunchProcess, FreshProcs, StartedRuns, RegistryMatches,
         ProcessesHavePorts, UnusedAreBlank, ClosingBelongsToJob,
         StartOwnsServer, ExitsAreHooked, TasksFindStopped, ClientsUp,
         IsServerStopped, Registered, Unused, TypeOK, ClientState,
         ClosingRecord, ExitingRecord, ServerRecord, WorkerRecord, osVars
<1>13. NoStrayClients'
  BY DEF LifecycleInv, LaunchProcess, FreshProcs, NoStrayClients,
         RunningClientsAwaited, StartedRuns, UnusedAreBlank, StartOwnsServer,
         RegistryMatches, ClientsUp, Registered, Unused, TypeOK, ClientState,
         ClosingRecord, ExitingRecord, ServerRecord, WorkerRecord, osVars
<1>14. QED
  BY <1>1, <1>2, <1>3, <1>4, <1>5, <1>6, <1>7, <1>8, <1>9, <1>10, <1>11, <1>12,
     <1>13
     DEF LifecycleInv

\* From here on the exit of the new process is watched.
LEMMA SubscribeExitSafe ==
  ASSUME LifecycleInv, TypeOK', SubscribeExit
  PROVE  LifecycleInv'
<1>f. /\ UNCHANGED <<alive, crowded, params, registry, clients, closing, exiting>>
      /\ worker.pc = "subscribing" /\ worker'.pc = "clients"
      /\ worker'.server = worker.server
      /\ \A t \in Servers : t # worker.server => server'[t] = server[t]
      /\ server'[worker.server].port = server[worker.server].port
      /\ server'[worker.server].proc = server[worker.server].proc
      /\ server'[worker.server].hooked = server[worker.server].hooked
      /\ server[worker.server].hooked # None => server'[worker.server].watched
  <2>1. worker.pc = "subscribing" /\ worker.server \in Servers
    BY FieldTypes DEF SubscribeExit, LifecycleInv, StartOwnsServer
  <2>2. server \in [Servers -> ServerRecord]
    BY DEF LifecycleInv, TypeOK
  <2> DEFINE w == server[worker.server].hooked # None
  <2>3. server' = [server EXCEPT ![worker.server] = [@ EXCEPT !.started = TRUE, !.watched = w]]
    BY <2>2 DEF SubscribeExit
  <2> HIDE DEF w
  <2>4. /\ \A t \in Servers : t # worker.server => server'[t] = server[t]
        /\ server'[worker.server].port = server[worker.server].port
        /\ server'[worker.server].proc = server[worker.server].proc
        /\ server'[worker.server].hooked = server[worker.server].hooked
        /\ server'[worker.server].watched = w
    BY <2>1, <2>2, <2>3 DEF ServerRecord
  <2>5. worker'.pc = "clients" /\ worker'.server = worker.server
    BY DEF SubscribeExit, LifecycleInv, TypeOK, WorkerRecord
  <2>6. QED
    BY <2>1, <2>4, <2>5 DEF SubscribeExit, osVars, w
<1>1. RunningClientsAwaited'
  BY <1>f DEF LifecycleInv, RunningClientsAwaited, ClientsUp
<1>2. RegistryMatches'
  BY <1>f, FieldTypes DEF LifecycleInv, RegistryMatches, UnusedAreBlank,
                          ClientsUp, Unused
<1>3. ProcessesHavePorts'
  BY <1>f, FieldTypes DEF LifecycleInv, ProcessesHavePorts, StartOwnsServer,
                          UnusedAreBlank, ClientsUp, Unused
<1>4. UnusedAreBlank'
  BY <1>f, FieldTypes DEF LifecycleInv, UnusedAreBlank, RegistryMatches,
                          StartOwnsServer, ProcessesHavePorts, StartedRuns,
                          ClientsUp, Registered, Unused
<1>5. ClosingBelongsToJob'
  BY <1>f, FieldTypes DEF LifecycleInv, ClosingBelongsToJob
<1>6. StartOwnsServer'
  BY <1>f, FieldTypes DEF LifecycleInv, StartOwnsServer, ClosingBelongsToJob,
                          UnusedAreBlank, ExitsAreHooked, ProcessesHavePorts,
                          ClientsUp, Unused
<1>7. ExitsAreHooked'
  BY <1>f, FieldTypes DEF LifecycleInv, ExitsAreHooked, ProcessesHavePorts,
                          UnusedAreBlank, ClientsUp, Unused
<1>8. ExitsAreWatched'
  BY <1>f, FieldTypes DEF LifecycleInv, ExitsAreWatched, ExitsAreHooked,
                          ProcessesHavePorts, UnusedAreBlank, ClientsUp, Unused
<1>9. TasksFindStopped'
  BY <1>f, FieldTypes DEF LifecycleInv, TasksFindStopped, RegistryMatches,
                          ProcessesHavePorts, UnusedAreBlank,
                          ClosingBelongsToJob, StartOwnsServer, ExitsAreHooked,
                          RunningServersAreManaged, ClientsUp, IsServerStopped,
                          Registered, Unused
<1>10. RunningServersAreManaged'
  BY <1>f, FieldTypes DEF LifecycleInv, RunningServersAreManaged,
                          RegistryMatches, ProcessesHavePorts, UnusedAreBlank,
                          ClosingBelongsToJob, StartOwnsServer, ExitsAreHooked,
                          TasksFindStopped, ClientsUp, IsServerStopped,
                          Registered, Unused
<1>11. JobCoversRunning'
  BY <1>f, FieldTypes DEF LifecycleInv, JobCoversRunning, RegistryMatches,
                          ProcessesHavePorts, UnusedAreBlank,
                          ClosingBelongsToJob, TasksFindStopped,
                          RunningServersAreManaged, ClientsUp, IsServerStopped,
                          Registered, Unused
<1>12. StartedRuns'
  BY <1>f, FieldTypes DEF LifecycleInv, StartedRuns, RegistryMatches,
                          ProcessesHavePorts, UnusedAreBlank,
                          ClosingBelongsToJob, StartOwnsServer, ExitsAreHooked,
                          TasksFindStopped, ClientsUp, IsServerStopped,
                          Registered, Unused
<1>13. NoStrayClients'
  BY <1>f, FieldTypes DEF LifecycleInv, NoStrayClients, RunningClientsAwaited,
                          StartedRuns, UnusedAreBlank, StartOwnsServer,
                          RegistryMatches, ClientsUp, Registered, Unused
<1>14. QED
  BY <1>1, <1>2, <1>3, <1>4, <1>5, <1>6, <1>7, <1>8, <1>9, <1>10, <1>11, <1>12,
     <1>13
     DEF LifecycleInv

\* The client joins a server that is registered.
LEMMA StartClientSafe ==
  ASSUME LifecycleInv, TypeOK', NEW c \in Clients, StartClient(c)
  PROVE  LifecycleInv'
<1>f. /\ UNCHANGED <<alive, crowded, params, registry, server, closing, exiting>>
      /\ worker.pc = "clients" /\ worker.server \in Servers
      /\ \A t \in Servers : t # worker.server => clients'[t] = clients[t]
      /\ worker'.pc = worker.pc /\ worker'.kind = worker.kind
      /\ worker'.ports = worker.ports /\ worker'.server = worker.server
      /\ worker.failed => worker'.failed
  <2>1. worker.pc = "clients" /\ worker.server \in Servers
    BY DEF StartClient, LifecycleInv, StartOwnsServer, TypeOK, WorkerRecord
  <2>2. \A t \in Servers : t # worker.server => clients'[t] = clients[t]
    BY <2>1 DEF StartClient, LifecycleInv, TypeOK
  <2> DEFINE left == worker.todo \ {c}
  <2>3. \/ worker' = [worker EXCEPT !.todo = left]
        \/ worker' = [worker EXCEPT !.todo = left, !.failed = TRUE]
    BY DEF StartClient, LifecycleInv, TypeOK, WorkerRecord
  <2> HIDE DEF left
  <2>4. /\ worker'.pc = worker.pc /\ worker'.kind = worker.kind
        /\ worker'.ports = worker.ports /\ worker'.server = worker.server
        /\ worker.failed => worker'.failed
    BY <2>3 DEF LifecycleInv, TypeOK, WorkerRecord
  <2>5. QED
    BY <2>1, <2>2, <2>4 DEF StartClient, osVars
<1>1. /\ RegistryMatches'
       /\ ProcessesHavePorts'
       /\ ExitsAreHooked'
       /\ TasksFindStopped'
       /\ RunningServersAreManaged'
  BY <1>f DEF LifecycleInv, RegistryMatches, ProcessesHavePorts,
              ExitsAreHooked, TasksFindStopped, RunningServersAreManaged,
              IsServerStopped, Registered
<1>2. UnusedAreBlank'
  BY <1>f, FieldTypes DEF LifecycleInv, UnusedAreBlank, RegistryMatches,
                          StartOwnsServer, ProcessesHavePorts, StartedRuns,
                          ClientsUp, Registered, Unused
<1>3. ClosingBelongsToJob'
  BY <1>f, FieldTypes DEF LifecycleInv, ClosingBelongsToJob
<1>4. StartOwnsServer'
  BY <1>f, FieldTypes DEF LifecycleInv, StartOwnsServer, ClosingBelongsToJob,
                          UnusedAreBlank, ExitsAreHooked, ProcessesHavePorts,
                          ClientsUp, Unused
<1>5. ExitsAreWatched'
  BY <1>f, FieldTypes DEF LifecycleInv, ExitsAreWatched, ExitsAreHooked,
                          ProcessesHavePorts, UnusedAreBlank, ClientsUp, Unused
<1>6. JobCoversRunning'
  BY <1>f, FieldTypes DEF LifecycleInv, JobCoversRunning, RegistryMatches,
                          ProcessesHavePorts, UnusedAreBlank,
                          ClosingBelongsToJob, TasksFindStopped,
                          RunningServersAreManaged, ClientsUp, IsServerStopped,
                          Registered, Unused
<1>7. StartedRuns'
  BY <1>f, FieldTypes DEF LifecycleInv, StartedRuns, RegistryMatches,
                          ProcessesHavePorts, UnusedAreBlank,
                          ClosingBelongsToJob, StartOwnsServer, ExitsAreHooked,
                          TasksFindStopped, ClientsUp, IsServerStopped,
                          Registered, Unused
<1>8. RunningClientsAwaited'
  BY <1>f, FieldTypes DEF LifecycleInv, RunningClientsAwaited, UnusedAreBlank,
                          ClosingBelongsToJob, StartedRuns, StartOwnsServer,
                          ClientsUp, Registered, Unused
<1>9. NoStrayClients'
  BY <1>f, FieldTypes DEF LifecycleInv, NoStrayClients, RunningClientsAwaited,
                          StartedRuns, UnusedAreBlank, StartOwnsServer,
                          RegistryMatches, ClientsUp, Registered, Unused
<1>10. QED
  BY <1>1, <1>2, <1>3, <1>4, <1>5, <1>6, <1>7, <1>8, <1>9 DEF LifecycleInv

\* Only the worker changes.
LEMMA CompleteStartSafe ==
  ASSUME LifecycleInv, TypeOK', CompleteStart
  PROVE  LifecycleInv'
<1>1. /\ RegistryMatches'
       /\ ProcessesHavePorts'
       /\ UnusedAreBlank'
       /\ ExitsAreHooked'
       /\ TasksFindStopped'
       /\ RunningServersAreManaged'
       /\ RunningClientsAwaited'
       /\ NoStrayClients'
  BY DEF LifecycleInv, CompleteStart, RegistryMatches, ProcessesHavePorts,
         UnusedAreBlank, ExitsAreHooked, TasksFindStopped,
         RunningServersAreManaged, RunningClientsAwaited, NoStrayClients,
         ClientsUp, IsServerStopped, Registered, Unused, osVars
<1>2. ClosingBelongsToJob'
  BY DEF LifecycleInv, CompleteStart, Finish, Idle, ClosingBelongsToJob,
         TypeOK, ClosingRecord, ServerRecord, WorkerRecord, osVars
<1>3. StartOwnsServer'
  BY DEF LifecycleInv, CompleteStart, Finish, Idle, StartOwnsServer,
         ClosingBelongsToJob, UnusedAreBlank, ExitsAreHooked,
         ProcessesHavePorts, ClientsUp, Unused, TypeOK, ClientState,
         ClosingRecord, ExitingRecord, ServerRecord, WorkerRecord, osVars
<1>4. ExitsAreWatched'
  BY DEF LifecycleInv, CompleteStart, Finish, Idle, ExitsAreWatched,
         ExitsAreHooked, ProcessesHavePorts, UnusedAreBlank, ClientsUp, Unused,
         TypeOK, ClientState, ClosingRecord, ExitingRecord, ServerRecord,
         WorkerRecord, osVars
<1>5. JobCoversRunning'
  BY DEF LifecycleInv, CompleteStart, Finish, Idle, JobCoversRunning,
         RegistryMatches, ProcessesHavePorts, UnusedAreBlank,
         ClosingBelongsToJob, TasksFindStopped, RunningServersAreManaged,
         ClientsUp, IsServerStopped, Registered, Unused, TypeOK, ClientState,
         ClosingRecord, ExitingRecord, ServerRecord, WorkerRecord, osVars
<1>6. StartedRuns'
  BY DEF LifecycleInv, CompleteStart, Finish, Idle, StartedRuns,
         RegistryMatches, ProcessesHavePorts, UnusedAreBlank,
         ClosingBelongsToJob, StartOwnsServer, ExitsAreHooked,
         TasksFindStopped, ClientsUp, IsServerStopped, Registered, Unused,
         TypeOK, ClientState, ClosingRecord, ExitingRecord, ServerRecord,
         WorkerRecord, osVars
<1>7. QED
  BY <1>1, <1>2, <1>3, <1>4, <1>5, <1>6 DEF LifecycleInv
-----------------------------------------------------------------------------
\* Before anything runs the invariant holds.
LEMMA InvInit == Init => LifecycleInv
<1> SUFFICES ASSUME Init PROVE LifecycleInv
  OBVIOUS
<1>1. TypeOK
  BY TypeInit
<1>2. /\ RegistryMatches /\ ProcessesHavePorts /\ UnusedAreBlank
      /\ ExitsAreHooked /\ ExitsAreWatched /\ TasksFindStopped
      /\ RunningServersAreManaged /\ RunningClientsAwaited /\ NoStrayClients
  BY DEF Init, NoServer, NotClosing, NotExiting, Idle, RegistryMatches,
         ProcessesHavePorts, UnusedAreBlank, Unused, ClientsUp, ExitsAreHooked,
         ExitsAreWatched, TasksFindStopped, Registered, RunningServersAreManaged,
         RunningClientsAwaited, NoStrayClients
<1>3. ClosingBelongsToJob /\ StartOwnsServer /\ JobCoversRunning /\ StartedRuns
  BY DEF Init, NotClosing, Idle, ClosingBelongsToJob, StartOwnsServer,
         JobCoversRunning, StartedRuns
<1>4. QED
  BY <1>1, <1>2, <1>3 DEF LifecycleInv

\* Every step preserves it.
LEMMA InvNext == LifecycleInv /\ [Next]_vars => LifecycleInv'
<1> SUFFICES ASSUME LifecycleInv, [Next]_vars PROVE LifecycleInv'
  OBVIOUS
<1>1. TypeOK'
  BY TypeNext DEF LifecycleInv
<1>2. CASE Environment
  BY <1>1, <1>2, ExitSafe, PlayersChangeSafe, RestartByItselfSafe,
     ClientExitSafe DEF Environment
<1>3. CASE Boot
  BY <1>1, <1>3, RecoverServerSafe, FinishBootSafe DEF Boot
<1>4. CASE RunJob
  BY <1>1, <1>4, RunShutdownServerSafe, RunShutdownAllServersSafe,
     RunStartServerSafe DEF RunJob
<1>5. CASE WorkerStep
  BY <1>1, <1>5, ShutdownsJoinedSafe, UpdateModsetFailsSafe, CreateServerSafe,
     FindServerSafe, StartFailsSafe, LaunchProcessSafe, SubscribeExitSafe,
     StartClientSafe, CompleteStartSafe DEF WorkerStep
<1>6. ASSUME NEW s \in Servers, ClosingStep(s) PROVE LifecycleInv'
  BY <1>1, <1>6, CheckPlayersSafe, ShutdownProcessSafe, SignalProcessSafe,
     ProcessGoneSafe, CloseClientSafe, CompleteShutdownSafe DEF ClosingStep
<1>7. ASSUME NEW s \in Servers, ExitingStep(s) PROVE LifecycleInv'
  BY <1>1, <1>7, RaiseExitedSafe, CheckServerIsRestartingSafe, AdoptProcessSafe,
     ExitClientSafe, CompleteExitSafe DEF ExitingStep
<1>8. CASE UNCHANGED vars
  BY <1>1, <1>8
     DEF vars, LifecycleInv, RegistryMatches, ProcessesHavePorts, UnusedAreBlank,
         ClosingBelongsToJob, StartOwnsServer, ExitsAreHooked, ExitsAreWatched,
         TasksFindStopped, RunningServersAreManaged, JobCoversRunning,
         StartedRuns, RunningClientsAwaited, NoStrayClients, Unused, Registered,
         IsServerStopped, ClientsUp
<1>9. QED
  BY <1>2, <1>3, <1>4, <1>5, <1>6, <1>7, <1>8 DEF Next

\* The named invariant holds in every reachable state, for any number of ports,
\* modsets, servers, processes and clients and whatever the environment may do.
THEOREM LifecycleInvariant == Spec => []LifecycleInv
BY InvInit, InvNext, PTL DEF Spec

\* Every variable keeps the shape the code gives it.
THEOREM TypeCorrect == Spec => []TypeOK
<1>1. LifecycleInv => TypeOK
  BY DEF LifecycleInv
<1>2. QED
  BY <1>1, LifecycleInvariant, PTL

\* No interleaving of shutdowns, exit events and starts makes the registry lose
\* a running server, or puts two servers on a port.
THEOREM RunningManaged == Spec => []RunningServersAreManaged
<1>1. LifecycleInv => RunningServersAreManaged
  BY DEF LifecycleInv
<1>2. QED
  BY <1>1, LifecycleInvariant, PTL

\* The exit of every running server process is watched, except inside Start
\* before it has subscribed.
THEOREM ExitsWatched == Spec => []ExitsAreWatched
<1>1. LifecycleInv => ExitsAreWatched
  BY DEF LifecycleInv
<1>2. QED
  BY <1>1, LifecycleInvariant, PTL

\* A server that is not registered has no headless client left running.
THEOREM NoClientsStray == Spec => []NoStrayClients
<1>1. LifecycleInv => NoStrayClients
  BY DEF LifecycleInv
<1>2. QED
  BY <1>1, LifecycleInvariant, PTL

\* Only the join of the shutdowns can end a shutdown job with success, and it
\* finds nothing running that the job did not take up.
LEMMA JoinLeavesNothing ==
  ASSUME ~MayRestart, LifecycleInv, [Next]_vars
  PROVE  [ShutdownLeavesNothing]_vars
<1> SUFFICES ASSUME Next, worker.pc = "closing", worker.kind = "shutdown",
                    worker'.pc = "idle", ~worker'.failed,
                    NEW p \in alive, params[p].port \in worker.ports
             PROVE  FALSE
  BY DEF ShutdownLeavesNothing
<1>w. worker \in WorkerRecord
  BY DEF LifecycleInv, TypeOK
<1>1. ShutdownsJoined
  <2>1. ~Boot
    BY DEF Boot, RecoverServer, FinishBoot
  <2>2. ~RunJob
    BY DEF RunJob, RunShutdownServer, RunShutdownAllServers, RunStartServer
  <2>3. ~Environment
    BY DEF Environment, Exit, PlayersChange, RestartByItself, ClientExit
  <2>4. ASSUME NEW s \in Servers PROVE ~ExitingStep(s)
    BY DEF ExitingStep, RaiseExited, CheckServerIsRestarting, AdoptProcess,
           ExitClient, CompleteExit
  <2>5. ASSUME NEW s \in Servers PROVE ~ClosingStep(s)
    <3>1. Abandon(s) => worker'.pc = worker.pc
      BY <1>w DEF Abandon, WorkerRecord
    <3>2. QED
      BY <3>1 DEF ClosingStep, CheckPlayers, ShutdownProcess, SignalProcess,
                  ProcessGone, CloseClient, CompleteShutdown
  <2>6. QED
    BY <2>1, <2>2, <2>3, <2>4, <2>5
       DEF Next, WorkerStep, UpdateModsetFails, CreateServer, FindServer,
           StartFails, LaunchProcess, SubscribeExit, StartClient, CompleteStart
<1>2. ~worker.failed /\ \A s \in Servers : closing[s].pc = "none"
  BY <1>1, <1>w DEF ShutdownsJoined, Finish, Idle, WorkerRecord
<1>3. PICK s \in Servers : registry[params[p].port] = s /\ server[s].proc = p
  BY DEF LifecycleInv, RunningServersAreManaged
<1>4. params[p].port \in Ports /\ server[s].port = params[p].port
  BY <1>3, <1>w DEF LifecycleInv, RegistryMatches, WorkerRecord
<1>5. Registered(s) /\ ~IsServerStopped(s)
  BY <1>3, <1>4, FieldTypes DEF Registered, IsServerStopped
<1>6. closing[s].pc # "none"
  BY <1>2, <1>4, <1>5 DEF LifecycleInv, JobCoversRunning
<1>7. QED
  BY <1>2, <1>6

\* A shutdown job that succeeds leaves no server process on its ports, unless
\* Arma restarts itself.
THEOREM ShutdownSuccess ==
  ASSUME ~MayRestart
  PROVE  Spec => ShutdownSuccessMeansStopped
<1>1. LifecycleInv /\ [Next]_vars => [ShutdownLeavesNothing]_vars
  BY JoinLeavesNothing
<1>2. QED
  BY <1>1, LifecycleInvariant, PTL DEF Spec, ShutdownSuccessMeansStopped

(***************************************************************************)
(* ServerLifecycle implements ServerSlots when Arma does not restart       *)
(* itself.  Every step is quiet (it moves no port), or is one step of the  *)
(* abstract specification; that it is allowed there follows from           *)
(* LifecycleInv, above all from TasksFindStopped and                       *)
(* RunningServersAreManaged.                                               *)
(***************************************************************************)

slots == <<registry, {s \in Servers : ~Unused(s)}, {params[p].port : p \in alive}>>

\* A step that moves no process, no registration and no server's port.
LEMMA QuietStep ==
  ASSUME UNCHANGED <<registry, alive, params>>,
         \A s \in Servers : server'[s].port = server[s].port
  PROVE  UNCHANGED slots
BY DEF slots, Unused

\* A running process occupies the port of the registered server that tracks
\* it, alone.
LEMMA OnePerPort ==
  ASSUME ~MayRestart, LifecycleInv, NEW p \in alive
  PROVE  /\ params[p].port \in Ports
         /\ \E s \in Servers : registry[params[p].port] = s /\ server[s].proc = p
         /\ \A q \in alive : params[q].port = params[p].port => q = p
<1>1. alive \subseteq Procs
      /\ params \in [Procs -> [port : Ports \cup {None}, modset : Modsets \cup {None}]]
  BY DEF LifecycleInv, TypeOK
<1>2. params[p].port \in Ports
  BY <1>1 DEF LifecycleInv, ProcessesHavePorts
<1>3. \A q \in alive : \E s \in Servers : registry[params[q].port] = s /\ server[s].proc = q
  BY DEF LifecycleInv, RunningServersAreManaged
<1>4. QED
  BY <1>2, <1>3

\* The end of a process is Stop on its port.
LEMMA StopStep ==
  ASSUME ~MayRestart, LifecycleInv, NEW p \in alive, alive' = alive \ {p},
         UNCHANGED <<registry, params>>,
         \A s \in Servers : server'[s].port = server[s].port
  PROVE  Slots!Stop(params[p].port)
<1>1. {params[q].port : q \in alive'} = {params[q].port : q \in alive} \ {params[p].port}
  BY OnePerPort
<1>2. {s \in Servers : ~Unused(s)}' = {s \in Servers : ~Unused(s)}
  BY DEF Unused
<1>3. QED
  BY <1>1, <1>2 DEF Slots!Stop

\* A server whose process has gone is taken off its port: Vacate, or nothing if
\* the port has passed to another one.
LEMMA RemoveStep ==
  ASSUME ~MayRestart, LifecycleInv, NEW s \in Servers, TryRemoveServer(s),
         server[s].port # None, Registered(s) => IsServerStopped(s),
         UNCHANGED <<alive, params, server>>
  PROVE  Slots!Vacate(server[s].port) \/ UNCHANGED slots
<1>1. registry \in [Ports -> Servers \cup {None}] /\ server[s].port \in Ports
  BY FieldTypes
<1>2. CASE registry[server[s].port] = s
  <2>1. \A p \in alive : params[p].port # server[s].port
    BY <1>2, OnePerPort, FieldTypes DEF Registered, IsServerStopped
  <2>2. registry' = [registry EXCEPT ![server[s].port] = None]
    BY <1>1, <1>2 DEF TryRemoveServer
  <2>3. s # None
    BY NamesAssumption
  <2>4. QED
    BY <1>2, <2>1, <2>2, <2>3 DEF Slots!Vacate, Unused
<1>3. CASE registry[server[s].port] # s
  <2>1. registry' = registry
    BY <1>1, <1>3 DEF TryRemoveServer
  <2>2. QED
    BY <2>1, QuietStep
<1>4. QED
  BY <1>2, <1>3

\* A server found at start-up comes with its process.
LEMMA RecoverStep ==
  ASSUME LifecycleInv, NEW port \in Ports, NEW s \in Servers, NEW p \in Procs,
         NEW m \in Modsets, NEW cs \in SUBSET Clients,
         RecoverServer(port, s, p, m, cs)
  PROVE  Slots!Occupy(port, s)
<1>1. p \notin alive
  BY DEF RecoverServer, FreshProcs, LifecycleInv, ProcessesHavePorts
<1>2. \A q \in alive : q \in Procs /\ q # p
  BY <1>1 DEF LifecycleInv, TypeOK
<1>3. params \in [Procs -> [port : Ports \cup {None}, modset : Modsets \cup {None}]]
      /\ server \in [Servers -> ServerRecord]
  BY DEF LifecycleInv, TypeOK
<1>4. {params[q].port : q \in alive}' = {params[q].port : q \in alive} \cup {port}
  <2>1. params'[p].port = port /\ alive' = alive \cup {p}
    BY <1>3 DEF RecoverServer
  <2>2. \A q \in alive : params'[q].port = params[q].port
    BY <1>2, <1>3 DEF RecoverServer
  <2>3. QED
    BY <2>1, <2>2
<1>5. {t \in Servers : ~Unused(t)}' = {t \in Servers : ~Unused(t)} \cup {s}
  <2>1. server'[s].port = port /\ port # None
    BY <1>3, NamesAssumption DEF RecoverServer
  <2>2. \A t \in Servers : t # s => server'[t] = server[t]
    BY <1>3 DEF RecoverServer
  <2>3. QED
    BY <2>1, <2>2 DEF Unused
<1>6. QED
  BY <1>4, <1>5 DEF Slots!Occupy, RecoverServer

\* CreateServer registers an unstarted server.
LEMMA CreateStep ==
  ASSUME LifecycleInv, NEW s \in Servers, NEW cs \in SUBSET Clients,
         CreateServer(s, cs)
  PROVE  Slots!Occupy(StartupPort, s)
<1>1. server \in [Servers -> ServerRecord]
  BY DEF LifecycleInv, TypeOK
<1>2. {t \in Servers : ~Unused(t)}' = {t \in Servers : ~Unused(t)} \cup {s}
  <2>1. server'[s].port = StartupPort /\ StartupPort # None
    BY <1>1, NamesAssumption DEF CreateServer, NoServer
  <2>2. \A t \in Servers : t # s => server'[t] = server[t]
    BY <1>1 DEF CreateServer
  <2>3. QED
    BY <2>1, <2>2 DEF Unused
<1>3. {params[q].port : q \in alive}' = {params[q].port : q \in alive}
  BY DEF CreateServer, osVars
<1>4. QED
  BY <1>2, <1>3 DEF Slots!Occupy, CreateServer

\* The process Start launches is the only one on the port of its server.
LEMMA LaunchStep ==
  ASSUME ~MayRestart, LifecycleInv, NEW p \in Procs, LaunchProcess(p)
  PROVE  Slots!Launch(StartupPort)
<1>1. /\ worker.server \in Servers /\ worker.server # None
      /\ server[worker.server].port = StartupPort
      /\ registry[StartupPort] = worker.server
      /\ server[worker.server].proc = None
  BY FieldTypes DEF LaunchProcess, LifecycleInv, StartOwnsServer
<1>2. params \in [Procs -> [port : Ports \cup {None}, modset : Modsets \cup {None}]]
      /\ server \in [Servers -> ServerRecord] /\ alive \subseteq Procs
  BY DEF LifecycleInv, TypeOK
<1>3. p \notin alive /\ None \notin alive
  BY <1>2, NamesAssumption
     DEF LaunchProcess, FreshProcs, LifecycleInv, ProcessesHavePorts
<1>4. \A q \in alive : params[q].port # StartupPort
  BY <1>1, <1>3, OnePerPort
<1>5. {params[q].port : q \in alive}' = {params[q].port : q \in alive} \cup {StartupPort}
  <2>1. params'[p].port = StartupPort /\ alive' = alive \cup {p}
    BY <1>1, <1>2 DEF LaunchProcess
  <2>2. \A q \in alive : params'[q].port = params[q].port
    BY <1>2, <1>3 DEF LaunchProcess
  <2>3. QED
    BY <2>1, <2>2
<1>6. {t \in Servers : ~Unused(t)}' = {t \in Servers : ~Unused(t)}
  BY <1>2 DEF LaunchProcess, Unused
<1>7. QED
  BY <1>1, <1>4, <1>5, <1>6 DEF Slots!Launch, LaunchProcess

\* The worker occupies a port or launches a process on it.
LEMMA WorkerStepRefines ==
  ASSUME ~MayRestart, LifecycleInv, WorkerStep
  PROVE  Slots!Next \/ UNCHANGED slots
<1>1. ASSUME NEW s \in Servers, NEW cs \in SUBSET Clients, CreateServer(s, cs)
      PROVE  Slots!Next
  BY <1>1, CreateStep, NamesAssumption DEF Slots!Next
<1>2. ASSUME NEW p \in Procs, LaunchProcess(p) PROVE Slots!Next
  BY <1>2, LaunchStep, NamesAssumption DEF Slots!Next
<1>3. CASE SubscribeExit
  <2>1. server \in [Servers -> ServerRecord]
    BY DEF LifecycleInv, TypeOK
  <2>2. QED
    BY <1>3, <2>1, QuietStep DEF SubscribeExit, osVars
<1>4. CASE ShutdownsJoined \/ UpdateModsetFails \/ FindServer \/ StartFails
           \/ CompleteStart \/ \E c \in Clients : StartClient(c)
  BY <1>4, QuietStep
     DEF ShutdownsJoined, UpdateModsetFails, FindServer, StartFails,
         CompleteStart, StartClient, osVars
<1>5. QED
  BY <1>1, <1>2, <1>3, <1>4 DEF WorkerStep

\* A shutdown ends a process or vacates a port.
LEMMA ClosingStepRefines ==
  ASSUME ~MayRestart, LifecycleInv, NEW s \in Servers, ClosingStep(s)
  PROVE  Slots!Next \/ UNCHANGED slots
<1>1. CASE CompleteShutdown(s)
  <2>1. CASE closing[s].threw
    BY <1>1, <2>1, QuietStep DEF CompleteShutdown, osVars
  <2>2. CASE ~closing[s].threw
    <3>1. TryRemoveServer(s) /\ UNCHANGED <<alive, params, server>>
      BY <1>1, <2>2 DEF CompleteShutdown, osVars
    <3>2. server[s].port # None /\ (Registered(s) => IsServerStopped(s))
      BY <1>1 DEF CompleteShutdown, LifecycleInv, UnusedAreBlank, Unused,
                  TasksFindStopped
    <3>3. server[s].port \in Ports
      BY <3>2, FieldTypes
    <3>4. QED
      BY <3>1, <3>2, <3>3, RemoveStep DEF Slots!Next
  <2>3. QED
    BY <2>1, <2>2
<1>2. CASE ProcessGone(s)
  <2>1. server \in [Servers -> ServerRecord]
    BY DEF LifecycleInv, TypeOK
  <2>2. \A t \in Servers : server'[t].port = server[t].port
    BY <1>2, <2>1 DEF ProcessGone
  <2>3. CASE closing[s].proc \in alive
    <3> DEFINE p == closing[s].proc
    <3>1. alive' = alive \ {p} /\ UNCHANGED <<registry, params>>
      BY <1>2 DEF ProcessGone
    <3>2. Slots!Stop(params[p].port)
      BY <2>2, <2>3, <3>1, StopStep DEF Slots!Stop
    <3>3. params[p].port \in Ports
      BY <2>3, OnePerPort
    <3>4. QED
      BY <3>2, <3>3 DEF Slots!Next, Slots!Stop
  <2>4. CASE closing[s].proc \notin alive
    BY <1>2, <2>2, <2>4, QuietStep DEF ProcessGone
  <2>5. QED
    BY <2>3, <2>4
<1>3. CASE CheckPlayers(s) \/ ShutdownProcess(s) \/ SignalProcess(s)
           \/ \E c \in Clients : CloseClient(s, c)
  BY <1>3, QuietStep
     DEF CheckPlayers, ShutdownProcess, SignalProcess, CloseClient, osVars
<1>4. QED
  BY <1>1, <1>2, <1>3 DEF ClosingStep

\* An exit handler can only vacate a port.
LEMMA ExitingStepRefines ==
  ASSUME ~MayRestart, LifecycleInv, NEW s \in Servers, ExitingStep(s)
  PROVE  Slots!Next \/ UNCHANGED slots
<1>1. CASE CompleteExit(s)
  <2>1. CASE exiting[s].threw
    BY <1>1, <2>1, QuietStep DEF CompleteExit, osVars
  <2>2. CASE ~exiting[s].threw
    <3>1. TryRemoveServer(s) /\ UNCHANGED <<alive, params, server>>
      BY <1>1, <2>2 DEF CompleteExit, osVars
    <3>2. server[s].port # None /\ (Registered(s) => IsServerStopped(s))
      BY <1>1 DEF CompleteExit, LifecycleInv, UnusedAreBlank, Unused,
                  TasksFindStopped
    <3>3. server[s].port \in Ports
      BY <3>2, FieldTypes
    <3>4. QED
      BY <3>1, <3>2, <3>3, RemoveStep DEF Slots!Next
  <2>3. QED
    BY <2>1, <2>2
<1>2. CASE RaiseExited(s) \/ AdoptProcess(s)
  <2>1. server \in [Servers -> ServerRecord]
    BY DEF LifecycleInv, TypeOK
  <2>2. QED
    <3>1. UNCHANGED <<registry, alive, params>>
      BY <1>2 DEF RaiseExited, AdoptProcess, osVars
    <3>2. ASSUME NEW t \in Servers PROVE server'[t].port = server[t].port
      <4>1. CASE RaiseExited(s)
        BY <2>1, <4>1 DEF RaiseExited
      <4>2. CASE AdoptProcess(s)
        BY <2>1, <4>2 DEF AdoptProcess
      <4>3. QED
        BY <1>2, <4>1, <4>2
    <3>3. QED
      BY <3>1, <3>2, QuietStep
<1>3. CASE CheckServerIsRestarting(s) \/ \E c \in Clients : ExitClient(s, c)
  BY <1>3, QuietStep DEF CheckServerIsRestarting, ExitClient, osVars
<1>4. QED
  BY <1>1, <1>2, <1>3 DEF ExitingStep

\* Every step is a step of ServerSlots or moves nothing it speaks of.
LEMMA StepRefines ==
  ASSUME ~MayRestart, LifecycleInv, [Next]_vars
  PROVE  Slots!Next \/ UNCHANGED slots
<1>1. CASE Environment
  <2>1. ASSUME NEW p \in Procs, Exit(p) PROVE Slots!Next
    <3>1. /\ p \in alive /\ alive' = alive \ {p}
          /\ UNCHANGED <<registry, params, server>>
      BY <2>1 DEF Exit
    <3>2. Slots!Stop(params[p].port)
      BY <3>1, StopStep
    <3>3. params[p].port \in Ports
      BY <3>1, OnePerPort
    <3>4. QED
      BY <3>2, <3>3 DEF Slots!Next, Slots!Stop
  <2>2. CASE ~\E p \in Procs : Exit(p)
    BY <1>1, <2>2, QuietStep
       DEF Environment, PlayersChange, RestartByItself, ClientExit, osVars
  <2>3. QED
    BY <2>1, <2>2
<1>2. CASE Boot
  BY <1>2, RecoverStep, QuietStep DEF Boot, FinishBoot, Slots!Next, osVars
<1>3. CASE RunJob
  BY <1>3, QuietStep
     DEF RunJob, RunShutdownServer, RunShutdownAllServers, RunStartServer, osVars
<1>4. CASE UNCHANGED vars
  BY <1>4, QuietStep DEF vars
<1>5. QED
  BY <1>1, <1>2, <1>3, <1>4, WorkerStepRefines, ClosingStepRefines,
     ExitingStepRefines DEF Next

\* Nothing is occupied when the manager starts.
LEMMA InitRefines == Init => Slots!Init
BY DEF Init, Slots!Init, NoServer, Unused

\* Unless Arma restarts itself, the servers, their processes and the registry
\* keep the promise of ServerSlots, for any number of them.
THEOREM SlotsRefinement ==
  ASSUME ~MayRestart
  PROVE  Spec => SlotsImplemented
<1>1. LifecycleInv /\ [Next]_vars => [Slots!Next]_(Slots!vars)
  BY StepRefines DEF slots, Slots!vars
<1>2. QED
  BY <1>1, InitRefines, LifecycleInvariant, PTL
     DEF Spec, SlotsImplemented, Slots!Spec
=============================================================================
