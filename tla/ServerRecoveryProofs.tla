------------------------- MODULE ServerRecoveryProofs -------------------------
(***************************************************************************)
(* The safety of ServerRecovery for any ports, processes and modsets, and  *)
(* for any number of crashes.                                              *)
(***************************************************************************)
EXTENDS ServerRecovery, TLAPS

(***************************************************************************)
(* Types.                                                                  *)
(***************************************************************************)

\* Written out: EXCEPT and record sets are kept apart below.
LEMMA Constants ==
  /\ StartupPort \in Ports
  /\ None \notin Ports /\ None \notin Modsets /\ None \notin Procs
  /\ \A m \in Modsets : Extracted(m) \in Modsets \cup {None}
  /\ Extracted(None) = None
BY RecoveryAssumption DEF Extracted

LEMMA NoServerType == NoServer \in ServerRecord
BY DEF NoServer, ServerRecord

LEMMA NotLoadedType == NotLoaded \in LoadRecord
BY DEF NotLoaded, LoadRecord

LEMMA NotLoadedFields ==
  ASSUME NEW ports
  PROVE  /\ NotLoaded.pc = "none" /\ NotLoaded.found = {} /\ NotLoaded.todo = {}
         /\ [NotLoaded EXCEPT !.pc = "adding", !.todo = ports].pc = "adding"
         /\ [NotLoaded EXCEPT !.pc = "adding", !.todo = ports].found = {}
         /\ [NotLoaded EXCEPT !.pc = "adding", !.todo = ports].todo = ports
         /\ [NotLoaded EXCEPT !.pc = "ready"].pc = "ready"
         /\ [NotLoaded EXCEPT !.pc = "ready"].found = {}
         /\ [NotLoaded EXCEPT !.pc = "ready"].todo = {}
BY DEF NotLoaded

\* What the load is after it has been dropped, after all ports are visited, at its end.
LEMMA LoadEnds ==
  /\ LoadThrows \/ Crash => load'.pc = "none" /\ load'.found = {} /\ load'.todo = {}
  /\ AllVisited => load'.pc = "adding" /\ load'.found = {} /\ load'.todo = Loaded
  /\ Ready => load'.pc = "ready" /\ load'.found = {} /\ load'.todo = {}
<1>1. /\ LoadThrows \/ Crash => load' = NotLoaded
      /\ AllVisited => load' = [NotLoaded EXCEPT !.pc = "adding", !.todo = Loaded]
      /\ Ready => load' = [NotLoaded EXCEPT !.pc = "ready"]
  BY DEF LoadThrows, Crash, AllVisited, Ready
<1>2. ASSUME load' = NotLoaded PROVE load'.pc = "none" /\ load'.found = {} /\ load'.todo = {}
  BY ONLY <1>2, NotLoadedFields, Zenon
<1>3. ASSUME load' = [NotLoaded EXCEPT !.pc = "adding", !.todo = Loaded]
      PROVE  load'.pc = "adding" /\ load'.found = {} /\ load'.todo = Loaded
  BY ONLY <1>3, NotLoadedFields, Zenon
<1>4. ASSUME load' = [NotLoaded EXCEPT !.pc = "ready"]
      PROVE  load'.pc = "ready" /\ load'.found = {} /\ load'.todo = {}
  BY ONLY <1>4, NotLoadedFields, Zenon
<1> QED
  BY <1>1, <1>2, <1>3, <1>4

\* What is not said of a server, its fields with EXCEPT keep.
LEMMA ServerFields ==
  ASSUME NEW o \in ServerRecord
  PROVE  /\ o.proc \in Procs \cup {None} /\ o.modset \in Modsets \cup {None}
         /\ o.clients \subseteq Procs
         /\ o.watched \in BOOLEAN /\ o.subscribed \in BOOLEAN
         /\ o.pc \in {"none", "check", "clients", "notify", "failed"}
BY DEF ServerRecord

\* The object of a server found running.
LEMMA Recreated ==
  ASSUME NEW p \in Procs, NEW m \in Modsets \cup {None}, NEW cs \in SUBSET Procs,
         NEW w \in BOOLEAN
  PROVE  [NoServer EXCEPT !.proc = p, !.modset = m, !.clients = cs, !.watched = w]
           \in ServerRecord
BY DEF NoServer, ServerRecord

LEMMA CommandTypes ==
  ASSUME TypeOK, Next
  PROVE  cmd' \in [Procs -> CommandLine]
<1> USE DEF TypeOK
<1>1. ASSUME NEW p \in Procs, NEW m \in Modsets, NEW cs \in SUBSET Fresh,
             StartServer(p, m, cs)
      PROVE  cmd' \in [Procs -> CommandLine]
  <2>1. StartupPort \in Ports
    BY Constants
  <2>2. \A q : [port |-> StartupPort, modset |-> m, client |-> q \in cs] \in CommandLine
    BY <2>1 DEF CommandLine
  <2>3. \A q \in Procs : cmd[q] \in CommandLine
    OBVIOUS
  <2> QED
    BY <1>1, <2>2, <2>3 DEF StartServer
<1>2. ASSUME NEW p \in Procs, NEW q \in Procs, RestartByItself(p, q)
      PROVE  cmd' \in [Procs -> CommandLine]
  BY <1>2 DEF RestartByItself
<1>3. CASE UNCHANGED cmd
  BY <1>3
<1> QED
  BY <1>1, <1>2, <1>3 DEF Next, Discover, LoadStep, CloseOrphans, FetchModsetFails,
     RecreateServer, AddServer, LoadThrows, AllVisited, SubscribeShutdown, RemoveStopped,
     Ready, OrphanCloses, HandlerStep, RaiseExited, CheckServerIsRestarting,
     ShutdownClients, NotifyShutdown, ShutdownServer, Exit, Crash

LEMMA LoadTypes ==
  ASSUME RecoveryInv, Next
  PROVE  load' \in LoadRecord
<1> USE DEF RecoveryInv, TypeOK
<1>1. CASE Discover
  <2>1. PICK found \in SUBSET alive :
          load' = [load EXCEPT !.pc = "visiting", !.found = found,
                               !.todo = {cmd[p].port : p \in found}]
    BY <1>1 DEF Discover, Readable
  <2>2. found \subseteq Procs /\ {cmd[p].port : p \in found} \subseteq Ports
    BY DEF ObjectsMatch, CommandLine
  <2> QED
    BY <2>1, <2>2 DEF LoadRecord
<1>2. CASE \E port \in Ports : CloseOrphans(port) \/ FetchModsetFails(port) \/ RecreateServer(port)
  BY <1>2 DEF CloseOrphans, FetchModsetFails, RecreateServer, Visited, LoadRecord
<1>3. CASE AllVisited
  BY <1>3 DEF AllVisited, Loaded, NotLoaded, LoadRecord
<1>4. CASE LoadThrows \/ Crash
  BY <1>4, NotLoadedType DEF LoadThrows, Crash
<1>5. CASE \E port \in Ports : AddServer(port)
  <2>1. PICK port \in Ports :
          load' = [load EXCEPT !.pc = "subscribing", !.todo = @ \ {port}, !.port = port]
    BY <1>5 DEF AddServer
  <2> QED
    BY <2>1 DEF LoadRecord
<1>6. CASE SubscribeShutdown
  BY <1>6 DEF SubscribeShutdown, LoadRecord
<1>7. CASE RemoveStopped
  BY <1>7 DEF RemoveStopped, LoadRecord
<1>8. CASE Ready
  BY <1>8 DEF Ready, NotLoaded, LoadRecord
<1>9. CASE UNCHANGED load
  BY <1>9
<1>10. CASE LoadStep
  BY ONLY <1>2, <1>3, <1>4, <1>5, <1>6, <1>7, <1>8, <1>10 DEF LoadStep
<1>11. CASE \E port \in Ports : HandlerStep(port)
  BY <1>9, <1>11 DEF HandlerStep, RaiseExited, CheckServerIsRestarting, ShutdownClients,
     NotifyShutdown
<1> QED
  BY ONLY Next, <1>1, <1>4, <1>9, <1>10, <1>11 DEF Next, OrphanCloses, StartServer,
     ShutdownServer, Exit, RestartByItself

\* The servers a step builds or changes.
LEMMA ServerTypes ==
  ASSUME RecoveryInv, Next
  PROVE  server' \in [Ports -> ServerRecord]
<1> USE DEF RecoveryInv, TypeOK
<1>s. \A port \in Ports : server[port] \in ServerRecord
  OBVIOUS
<1>0. ASSUME NEW port \in Ports, NEW o \in ServerRecord, server' = [server EXCEPT ![port] = o]
      PROVE  server' \in [Ports -> ServerRecord]
  BY <1>0
<1>1. ASSUME NEW port \in Ports, RecreateServer(port)
      PROVE  server' \in [Ports -> ServerRecord]
  <2>1. PICK p \in load.found :
          /\ Extracted(cmd[p].modset) # None
          /\ server' = [server EXCEPT ![port] =
               [NoServer EXCEPT !.proc = p, !.modset = Extracted(cmd[p].modset),
                                !.clients = ClientsOf(load.found, port),
                                !.watched = p \in alive]]
    BY <1>1 DEF RecreateServer
  <2>2. p \in Procs /\ load.found \subseteq Procs
    BY <2>1 DEF LoadRecord
  <2>3. Extracted(cmd[p].modset) \in Modsets \cup {None}
    BY <2>2, Constants DEF CommandLine
  <2>4. ClientsOf(load.found, port) \subseteq Procs
    BY <2>2 DEF ClientsOf
  <2>5. [NoServer EXCEPT !.proc = p, !.modset = Extracted(cmd[p].modset),
                         !.clients = ClientsOf(load.found, port),
                         !.watched = p \in alive] \in ServerRecord
    <3>1. (p \in alive) \in BOOLEAN
      OBVIOUS
    <3> QED
      BY ONLY <2>2, <2>3, <2>4, <3>1, Recreated, Zenon
  <2> QED
    BY <1>0, <2>1, <2>5
<1>2. CASE SubscribeShutdown
  BY <1>2, <1>s DEF SubscribeShutdown, ServerRecord
<1>3. ASSUME NEW port \in Ports, RaiseExited(port) \/ ShutdownClients(port) \/ NotifyShutdown(port)
      PROVE  server' \in [Ports -> ServerRecord]
  <2>1. CASE RaiseExited(port)
    BY <2>1, <1>s DEF RaiseExited, ServerRecord
  <2>2. CASE ShutdownClients(port)
    BY <2>2, <1>s DEF ShutdownClients, ServerRecord
  <2>3. CASE NotifyShutdown(port)
    BY <2>3, <1>s DEF NotifyShutdown, ServerRecord
  <2> QED
    BY <1>3, <2>1, <2>2, <2>3
<1>4. ASSUME NEW port \in Ports, CheckServerIsRestarting(port)
      PROVE  server' \in [Ports -> ServerRecord]
  <2>1. CASE \/ server' = [server EXCEPT ![port].pc = "failed"]
             \/ server' = [server EXCEPT ![port].pc = "clients"]
    BY <2>1, <1>s DEF ServerRecord
  <2>2. ASSUME NEW q \in alive,
               server' = [server EXCEPT ![port] =
                  [@ EXCEPT !.proc = q, !.modset = Extracted(cmd[q].modset),
                            !.watched = TRUE, !.pc = "none"]]
        PROVE  server' \in [Ports -> ServerRecord]
    <3>1. q \in Procs /\ Extracted(cmd[q].modset) \in Modsets \cup {None}
      BY Constants DEF CommandLine
    <3> QED
      BY <2>2, <3>1, <1>s DEF ServerRecord
  <2> QED
    BY <1>4, <2>1, <2>2 DEF CheckServerIsRestarting, ServersOf, Readable
<1>5. ASSUME NEW p \in Procs, NEW m \in Modsets, NEW cs \in SUBSET Fresh,
             StartServer(p, m, cs)
      PROVE  server' \in [Ports -> ServerRecord]
  <2>1. cs \subseteq Procs
    BY DEF Fresh
  <2>2. [NoServer EXCEPT !.proc = p, !.modset = m, !.clients = cs, !.watched = TRUE,
                         !.subscribed = TRUE] \in ServerRecord
    BY ONLY <2>1, p \in Procs, m \in Modsets DEF NoServer, ServerRecord
  <2> QED
    BY <1>0, <1>5, <2>2, Constants DEF StartServer
<1>6. CASE LoadThrows \/ Crash
  BY <1>6, NoServerType DEF LoadThrows, Crash
<1>7. CASE UNCHANGED server
  BY <1>7
<1> QED
  BY <1>1, <1>2, <1>3, <1>4, <1>5, <1>6, <1>7 DEF Next, Discover, LoadStep, CloseOrphans,
     FetchModsetFails, AddServer, AllVisited, RemoveStopped, Ready, OrphanCloses, HandlerStep,
     ShutdownServer, Exit, RestartByItself

-----------------------------------------------------------------------------
(***************************************************************************)
(* What the handler of an exit does with the object of its server.         *)
(***************************************************************************)

Adopts(port, q) ==
  /\ q \in alive /\ cmd[q].port = port /\ ~cmd[q].client
  /\ server' = [server EXCEPT ![port] =
       [@ EXCEPT !.proc = q, !.modset = Extracted(cmd[q].modset),
                 !.watched = TRUE, !.pc = "none"]]
  /\ unowned' = IF port \in registered THEN unowned \ {q} ELSE unowned

\* An exception, no restart, or one that is adopted.
LEMMA Restarting ==
  ASSUME NEW port \in Ports, CheckServerIsRestarting(port)
  PROVE  /\ server[port].pc = "check"
         /\ UNCHANGED <<alive, cmd, load, registered, shutting, crashes>>
         /\ \/ /\ server' = [server EXCEPT ![port].pc = "failed"]
               /\ unowned' = unowned \cup server[port].clients
            \/ /\ server' = [server EXCEPT ![port].pc = "clients"]
               /\ UNCHANGED unowned
            \/ \E q \in alive : Adopts(port, q)
<1>1. ASSUME NEW found \in SUBSET alive, NEW q, ServersOf(found, port) = {q}
      PROVE  q \in alive /\ cmd[q].port = port /\ ~cmd[q].client
  BY <1>1 DEF ServersOf
<1>2. PICK found \in SUBSET alive :
        \/ /\ server' = [server EXCEPT ![port].pc = "failed"]
           /\ unowned' = unowned \cup server[port].clients
        \/ /\ server' = [server EXCEPT ![port].pc = "clients"]
           /\ UNCHANGED unowned
        \/ \E q : /\ ServersOf(found, port) = {q}
                  /\ server' = [server EXCEPT ![port] =
                       [@ EXCEPT !.proc = q, !.modset = Extracted(cmd[q].modset),
                                 !.watched = TRUE, !.pc = "none"]]
                  /\ unowned' = IF port \in registered THEN unowned \ {q} ELSE unowned
  BY DEF CheckServerIsRestarting, Readable
<1> QED
  BY <1>1, <1>2 DEF CheckServerIsRestarting, Adopts

LEMMA Adopted ==
  ASSUME RecoveryInv, NEW port \in Ports, NEW q \in alive, Adopts(port, q)
  PROVE  /\ cmd[q].port = port /\ ~cmd[q].client /\ q \in Procs
         /\ server'[port].proc = q /\ server'[port].watched /\ server'[port].pc = "none"
         /\ server'[port].clients = server[port].clients
         /\ \A other \in Ports \ {port} : server'[other] = server[other]
         /\ unowned' = IF port \in registered THEN unowned \ {q} ELSE unowned
BY DEF RecoveryInv, TypeOK, ServerRecord, Adopts

\* A handler has an object, and touches no other.
LEMMA HandlerFrame ==
  ASSUME RecoveryInv, NEW port \in Ports, HandlerStep(port)
  PROVE  /\ server[port] # NoServer /\ server[port].proc # None
         /\ server'[port].proc # None
         /\ \A other \in Ports \ {port} : server'[other] = server[other]
         /\ UNCHANGED <<load, shutting, cmd>> /\ registered' \subseteq registered
<1> USE DEF RecoveryInv, TypeOK
<1>1. server[port] \in ServerRecord /\ None \notin alive
  BY Constants
<1>2. server[port] # NoServer /\ server[port].proc # None
  <2>1. server[port].watched \/ server[port].pc # "none"
    BY DEF HandlerStep, RaiseExited, CheckServerIsRestarting, ShutdownClients, NotifyShutdown
  <2>2. server[port] # NoServer
    BY <2>1 DEF NoServer
  <2> QED
    BY <2>2 DEF ExitsHandled
<1>3. CASE CheckServerIsRestarting(port)
  <2>1. UNCHANGED <<alive, cmd, load, registered, shutting, crashes>>
    BY <1>3, Restarting
  <2>2. CASE \/ server' = [server EXCEPT ![port].pc = "failed"]
             \/ server' = [server EXCEPT ![port].pc = "clients"]
    BY <1>1, <1>2, <2>1, <2>2 DEF ServerRecord
  <2>3. CASE \E q \in alive : Adopts(port, q)
    BY <1>1, <1>2, <2>1, <2>3, Adopted
  <2> QED
    BY <1>3, <2>2, <2>3, Restarting
<1>4. CASE RaiseExited(port)
  BY <1>1, <1>2, <1>4 DEF RaiseExited, ServerRecord
<1>5. CASE ShutdownClients(port)
  BY <1>1, <1>2, <1>5 DEF ShutdownClients, ServerRecord
<1>6. CASE NotifyShutdown(port)
  BY <1>1, <1>2, <1>6 DEF NotifyShutdown, ServerRecord
<1> QED
  BY <1>3, <1>4, <1>5, <1>6 DEF HandlerStep

-----------------------------------------------------------------------------

LEMMA TypeStep ==
  ASSUME RecoveryInv, Next
  PROVE  TypeOK'
<1> USE DEF RecoveryInv, TypeOK
<1>1. /\ alive' \subseteq Procs /\ shutting' \subseteq Procs /\ unowned' \subseteq Procs
      /\ crashes' \in 0 .. MaxCrashes
  <2>1. load.found \subseteq Procs
    BY DEF LoadRecord
  <2>2. \A port \in Ports : server[port].clients \subseteq Procs
    BY ServerFields
  <2>3. CASE LoadStep
    BY <2>1, <2>2, <2>3 DEF LoadStep, CloseOrphans, FetchModsetFails, RecreateServer,
       AddServer, LoadThrows, AllVisited, SubscribeShutdown, RemoveStopped, Ready, ClientsOf
  <2>4. CASE \E port \in Ports : HandlerStep(port)
    BY <2>2, <2>4 DEF HandlerStep, RaiseExited, CheckServerIsRestarting, ShutdownClients,
       NotifyShutdown
  <2>5. ASSUME NEW p \in Procs, NEW m \in Modsets, NEW cs \in SUBSET Fresh, StartServer(p, m, cs)
        PROVE  /\ alive' \subseteq Procs /\ shutting' \subseteq Procs /\ unowned' \subseteq Procs
               /\ crashes' \in 0 .. MaxCrashes
    BY <2>2, <2>5, Constants DEF StartServer, Fresh
  <2>6. CASE Crash
    BY <2>6, RecoveryAssumption DEF Crash
  <2> QED
    BY <2>3, <2>4, <2>5, <2>6 DEF Next, Discover, OrphanCloses, ShutdownServer, Exit,
       RestartByItself
<1>2. registered' \subseteq Loaded'
  <2>1. registered \subseteq Loaded
    OBVIOUS
  <2>2. CASE LoadStep
    <3>1. CASE \E port \in Ports : RecreateServer(port)
      BY <3>1 DEF RecreateServer, Visiting, LoadPhases
    <3>2. CASE SubscribeShutdown
      BY <2>1, <3>2 DEF SubscribeShutdown, Loaded, ServerRecord
    <3>3. CASE \E port \in Ports : AddServer(port)
      BY <2>1, <3>3 DEF AddServer, LoadPhases, Loaded
    <3> QED
      BY <2>1, <2>2, <3>1, <3>2, <3>3 DEF LoadStep, CloseOrphans, FetchModsetFails,
         LoadThrows, AllVisited, RemoveStopped, Ready, Loaded, LoadPhases
  <2>3. ASSUME NEW port \in Ports, HandlerStep(port) PROVE registered' \subseteq Loaded'
    <3>1. /\ registered' \subseteq registered
          /\ server'[port].proc # None
          /\ \A other \in Ports \ {port} : server'[other] = server[other]
      BY <2>3, HandlerFrame
    <3> QED
      BY <2>1, <3>1 DEF Loaded
  <2>4. ASSUME NEW p \in Procs, NEW m \in Modsets, NEW cs \in SUBSET Fresh, StartServer(p, m, cs)
        PROVE  registered' \subseteq Loaded'
    BY <2>1, <2>4, Constants DEF StartServer, Loaded, NoServer
  <2>5. CASE Crash
    BY <2>5 DEF Crash
  <2> QED
    BY <2>1, <2>2, <2>3, <2>4, <2>5 DEF Next, Discover, OrphanCloses, ShutdownServer, Exit,
       RestartByItself, Loaded
<1> QED
  BY <1>1, <1>2, CommandTypes, LoadTypes, ServerTypes

-----------------------------------------------------------------------------
(***************************************************************************)
(* The phases of the load, and the processes that objects refer to.        *)
(***************************************************************************)

\* One port less to visit, nothing else.
LEMMA VisitedFields ==
  ASSUME RecoveryInv, NEW port \in Ports, Visiting(port), Visited(port)
  PROVE  /\ load.pc = "visiting" /\ port \in load.todo
         /\ load'.pc = "visiting" /\ load'.todo = load.todo \ {port}
         /\ load'.found = load.found
BY DEF RecoveryInv, TypeOK, LoadRecord, Visiting, Visited

LEMMA PhasesStep ==
  ASSUME RecoveryInv, Next
  PROVE  LoadPhases'
<1> USE DEF RecoveryInv
<1>t. load \in LoadRecord /\ server \in [Ports -> ServerRecord] /\ registered \subseteq Loaded
  BY DEF TypeOK
<1>1. ASSUME NEW port \in Ports, HandlerStep(port) PROVE LoadPhases'
  <2>1. /\ server[port] # NoServer /\ server'[port].proc # None
        /\ \A other \in Ports \ {port} : server'[other] = server[other]
        /\ UNCHANGED load /\ registered' \subseteq registered
    BY <1>1, HandlerFrame
  <2>2. load.pc # "none"
    BY <2>1 DEF LoadPhases
  <2>3. Loaded \subseteq Loaded'
    BY <2>1 DEF Loaded
  <2>4. load.pc = "visiting" => \A other \in load.todo : server'[other] = NoServer
    BY <1>t, <2>1 DEF LoadPhases, LoadRecord
  <2> QED
    BY <2>1, <2>2, <2>3, <2>4 DEF LoadPhases
<1>2. ASSUME UNCHANGED <<load, server>>, registered' \subseteq registered PROVE LoadPhases'
  BY <1>2 DEF LoadPhases, Loaded
<1>3. ASSUME NEW port \in Ports,
             CloseOrphans(port) \/ FetchModsetFails(port) \/ RecreateServer(port)
      PROVE  LoadPhases'
  <2>1. /\ load.pc = "visiting" /\ load'.pc = "visiting"
        /\ load'.todo = load.todo \ {port} /\ load.todo \subseteq Ports
    BY <1>3, <1>t, VisitedFields DEF CloseOrphans, FetchModsetFails, RecreateServer, LoadRecord
  <2>2. UNCHANGED registered /\ \A other \in Ports \ {port} : server'[other] = server[other]
    BY <1>3, <1>t DEF CloseOrphans, FetchModsetFails, RecreateServer
  <2> QED
    BY <2>1, <2>2 DEF LoadPhases
<1>4. CASE Discover
  <2>1. load'.pc = "visiting" /\ \A port \in Ports : server'[port] = NoServer
    BY <1>4, <1>t DEF Discover, LoadPhases, LoadRecord
  <2>2. load' \in LoadRecord
    BY LoadTypes
  <2> QED
    BY <1>4, <2>1, <2>2 DEF Discover, LoadPhases, LoadRecord
<1>5. CASE LoadThrows \/ Crash
  BY <1>5 DEF LoadThrows, Crash, LoadPhases, NotLoaded
<1>6. CASE AllVisited \/ \E port \in Ports : AddServer(port)
  BY <1>6, <1>t DEF AllVisited, AddServer, LoadPhases, NotLoaded, Loaded, LoadRecord
<1>7. CASE SubscribeShutdown
  BY <1>7, <1>t DEF SubscribeShutdown, LoadPhases, Loaded, LoadRecord, ServerRecord
<1>8. CASE RemoveStopped \/ Ready
  BY <1>8, <1>t DEF RemoveStopped, Ready, NotLoaded, LoadPhases, Loaded, LoadRecord
<1>9. ASSUME NEW p \in Procs, NEW m \in Modsets, NEW cs \in SUBSET Fresh, StartServer(p, m, cs)
      PROVE  LoadPhases'
  BY <1>9 DEF StartServer, LoadPhases
<1> QED
  BY <1>1, <1>2, <1>3, <1>4, <1>5, <1>6, <1>7, <1>8, <1>9 DEF Next, LoadStep, OrphanCloses,
     ShutdownServer, Exit, RestartByItself

\* The command line of a process that has been started stays.
LEMMA CommandsStay ==
  ASSUME RecoveryInv, Next, NEW p \in Procs, cmd[p].port # None
  PROVE  cmd'[p] = cmd[p]
<1> USE DEF RecoveryInv, TypeOK
<1>1. ASSUME NEW q \in Procs, NEW m \in Modsets, NEW cs \in SUBSET Fresh, StartServer(q, m, cs)
      PROVE  cmd'[p] = cmd[p]
  <2>1. p # q /\ p \notin cs
    BY <1>1 DEF StartServer, Fresh
  <2> QED
    BY <1>1, <2>1 DEF StartServer
<1>2. ASSUME NEW q \in Procs, NEW r \in Procs, RestartByItself(q, r)
      PROVE  cmd'[p] = cmd[p]
  BY <1>2 DEF RestartByItself, Fresh
<1>3. CASE UNCHANGED cmd
  BY <1>3
<1>4. CASE \E port \in Ports : HandlerStep(port)
  BY <1>3, <1>4, HandlerFrame
<1>5. CASE LoadStep
  BY <1>3, <1>5 DEF LoadStep, CloseOrphans, FetchModsetFails, RecreateServer, AddServer,
     LoadThrows, AllVisited, SubscribeShutdown, RemoveStopped, Ready
<1> QED
  BY <1>1, <1>2, <1>3, <1>4, <1>5 DEF Next, Discover, OrphanCloses, ShutdownServer, Exit, Crash

\* The object of a port matches what has been started.
Matches(o, port, lines) ==
  /\ o.proc # None => lines[o.proc].port = port /\ ~lines[o.proc].client
  /\ \A c \in o.clients : lines[c].port = port /\ lines[c].client

LEMMA MatchStep ==
  ASSUME RecoveryInv, Next
  PROVE  ObjectsMatch'
<1> USE DEF RecoveryInv
<1>t. /\ load \in LoadRecord /\ server \in [Ports -> ServerRecord]
      /\ alive \subseteq Procs /\ shutting \subseteq Procs /\ cmd \in [Procs -> CommandLine]
  BY DEF TypeOK
<1>c. \A p \in Procs : cmd[p].port # None => cmd'[p] = cmd[p]
  BY CommandsStay
<1>1. \A p \in alive' \cup shutting' \cup load'.found : cmd'[p].port # None
  <2>1. \A p \in alive \cup shutting \cup load.found : p \in Procs /\ cmd[p].port # None
    BY <1>t DEF ObjectsMatch, LoadRecord
  <2>2. ASSUME alive' \subseteq alive, shutting' \subseteq shutting \cup alive,
               load'.found \subseteq load.found \cup alive
        PROVE  \A p \in alive' \cup shutting' \cup load'.found : cmd'[p].port # None
    BY <1>c, <2>1, <2>2
  <2>3. ASSUME NEW p \in Procs, NEW m \in Modsets, NEW cs \in SUBSET Fresh, StartServer(p, m, cs)
        PROVE  \A q \in alive' \cup shutting' \cup load'.found : cmd'[q].port # None
    <3>1. StartupPort # None /\ cs \subseteq Procs
      BY Constants DEF Fresh
    <3>2. cmd'[p].port # None /\ \A c \in cs : cmd'[c].port # None
      BY <2>3, <3>1 DEF StartServer
    <3>3. UNCHANGED <<load, shutting>> /\ alive' = alive \cup {p} \cup cs
      BY <2>3 DEF StartServer
    <3> QED
      BY <1>c, <2>1, <3>2, <3>3
  <2>4. ASSUME NEW p \in Procs, NEW q \in Procs, RestartByItself(p, q)
        PROVE  \A r \in alive' \cup shutting' \cup load'.found : cmd'[r].port # None
    BY <1>c, <1>t, <2>1, <2>4 DEF RestartByItself
  <2>5. CASE Discover
    <3>1. PICK found \in SUBSET alive :
            load' = [load EXCEPT !.pc = "visiting", !.found = found,
                                 !.todo = {cmd[p].port : p \in found}]
      BY <2>5 DEF Discover, Readable
    <3>2. load'.found = found
      BY <1>t, <3>1 DEF LoadRecord
    <3> QED
      BY <2>2, <2>5, <3>2 DEF Discover
  <2>6. CASE LoadStep
    <3>1. UNCHANGED alive /\ shutting' \subseteq shutting \cup alive
      BY <2>6 DEF LoadStep, CloseOrphans, FetchModsetFails, RecreateServer, AddServer,
         LoadThrows, AllVisited, SubscribeShutdown, RemoveStopped, Ready
    <3>2. load'.found \subseteq load.found
      <4>1. CASE \E port \in Ports :
                   CloseOrphans(port) \/ FetchModsetFails(port) \/ RecreateServer(port)
        BY <4>1, VisitedFields DEF CloseOrphans, FetchModsetFails, RecreateServer
      <4>2. CASE \E port \in Ports : AddServer(port)
        <5>1. PICK port \in Ports :
                load' = [load EXCEPT !.pc = "subscribing", !.todo = @ \ {port}, !.port = port]
          BY <4>2 DEF AddServer
        <5> QED
          BY <5>1, <1>t DEF LoadRecord
      <4>3. CASE SubscribeShutdown \/ RemoveStopped
        <5>1. \/ load' = [load EXCEPT !.pc = "checking"]
              \/ load' = [load EXCEPT !.pc = "adding", !.port = None]
          BY <4>3 DEF SubscribeShutdown, RemoveStopped
        <5> QED
          BY <5>1, <1>t DEF LoadRecord
      <4>4. CASE LoadThrows \/ AllVisited \/ Ready
        BY <4>4, LoadEnds
      <4> QED
        BY <2>6, <4>1, <4>2, <4>3, <4>4 DEF LoadStep
    <3> QED
      BY <2>2, <3>1, <3>2
  <2>7. ASSUME NEW port \in Ports, HandlerStep(port)
        PROVE  \A p \in alive' \cup shutting' \cup load'.found : cmd'[p].port # None
    <3>1. UNCHANGED <<load, shutting>>
      BY <2>7, HandlerFrame
    <3>2. alive' \subseteq alive
      BY <2>7 DEF HandlerStep, RaiseExited, CheckServerIsRestarting, ShutdownClients,
         NotifyShutdown
    <3> QED
      BY <2>2, <3>1, <3>2
  <2>8. CASE Crash
    BY <2>2, <2>8 DEF Crash, NotLoaded
  <2> QED
    BY <2>2, <2>3, <2>4, <2>5, <2>6, <2>7, <2>8 DEF Next, OrphanCloses, ShutdownServer, Exit
<1>2. \A c \in shutting' : cmd'[c].client
  <2>1. \A c \in shutting : c \in Procs /\ cmd'[c] = cmd[c] /\ cmd[c].client
    BY <1>c, <1>t DEF ObjectsMatch
  <2>2. ASSUME NEW port \in Ports, CloseOrphans(port) PROVE \A c \in shutting' : cmd'[c].client
    BY <2>1, <2>2 DEF CloseOrphans, ClientsOf
  <2>3. ASSUME shutting' \subseteq shutting PROVE \A c \in shutting' : cmd'[c].client
    BY <2>1, <2>3
  <2>4. ASSUME NEW port \in Ports, HandlerStep(port) PROVE shutting' \subseteq shutting
    BY <2>4, HandlerFrame
  <2> QED
    BY <2>2, <2>3, <2>4 DEF Next, Discover, LoadStep, FetchModsetFails, RecreateServer,
       AddServer, LoadThrows, AllVisited, SubscribeShutdown, RemoveStopped, Ready,
       OrphanCloses, StartServer, ShutdownServer, Exit, RestartByItself, Crash
<1>3. ASSUME NEW port \in Ports PROVE Matches(server'[port], port, cmd')
  <2>1. ASSUME NEW o, Matches(o, port, cmd), o.proc \in Procs \cup {None},
               o.clients \subseteq Procs, server'[port].proc = o.proc,
               server'[port].clients = o.clients
        PROVE  Matches(server'[port], port, cmd')
    BY <1>c, <2>1, Constants DEF Matches
  <2>2. /\ Matches(server[port], port, cmd) /\ server[port].proc \in Procs \cup {None}
        /\ server[port].clients \subseteq Procs
    BY <1>t, ServerFields DEF ObjectsMatch, Matches
  <2>3. CASE server'[port] = server[port]
    BY <2>1, <2>2, <2>3
  <2>4. CASE server'[port] = NoServer
    BY <2>4 DEF NoServer, Matches
  <2>5. CASE RecreateServer(port)
    <3>1. PICK p \in load.found :
            /\ ServersOf(load.found, port) = {p}
            /\ server' = [server EXCEPT ![port] =
                 [NoServer EXCEPT !.proc = p, !.modset = Extracted(cmd[p].modset),
                                  !.clients = ClientsOf(load.found, port),
                                  !.watched = p \in alive]]
            /\ UNCHANGED cmd
      BY <2>5 DEF RecreateServer
    <3>2. server'[port].proc = p /\ server'[port].clients = ClientsOf(load.found, port)
      BY <1>t, <3>1 DEF NoServer
    <3> QED
      BY <3>1, <3>2 DEF Matches, ServersOf, ClientsOf
  <2>6. CASE CheckServerIsRestarting(port)
    <3>1. ASSUME NEW q \in alive, Adopts(port, q) PROVE Matches(server'[port], port, cmd')
      BY <2>2, <2>6, <3>1, Adopted, Restarting DEF Matches
    <3>2. CASE \/ server' = [server EXCEPT ![port].pc = "failed"]
               \/ server' = [server EXCEPT ![port].pc = "clients"]
      <4>1. server'[port].proc = server[port].proc /\ server'[port].clients = server[port].clients
        BY <1>t, <3>2 DEF ServerRecord
      <4> QED
        BY <2>1, <2>2, <4>1
    <3> QED
      BY <2>6, <3>1, <3>2, Restarting
  <2>7. CASE RaiseExited(port) \/ ShutdownClients(port) \/ NotifyShutdown(port) \/ SubscribeShutdown
    <3>1. server'[port].proc = server[port].proc /\ server'[port].clients = server[port].clients
      <4>1. CASE RaiseExited(port)
        BY <1>t, <4>1 DEF RaiseExited, ServerRecord
      <4>2. CASE ShutdownClients(port)
        BY <1>t, <4>2 DEF ShutdownClients, ServerRecord
      <4>3. CASE NotifyShutdown(port)
        BY <1>t, <4>3 DEF NotifyShutdown, ServerRecord
      <4>4. CASE SubscribeShutdown
        BY <1>t, <4>4 DEF SubscribeShutdown, ServerRecord
      <4> QED
        BY <2>7, <4>1, <4>2, <4>3, <4>4
    <3> QED
      BY <2>1, <2>2, <3>1
  <2>8. ASSUME NEW p \in Procs, NEW m \in Modsets, NEW cs \in SUBSET Fresh, StartServer(p, m, cs),
               port = StartupPort
        PROVE  Matches(server'[port], port, cmd')
    <3>1. server'[port].proc = p /\ server'[port].clients = cs
      BY <1>t, <2>8 DEF StartServer, NoServer
    <3>2. p \notin cs /\ cs \subseteq Procs
      BY <2>8 DEF StartServer, Fresh
    <3>3. /\ cmd'[p].port = StartupPort /\ ~cmd'[p].client
          /\ \A c \in cs : cmd'[c].port = StartupPort /\ cmd'[c].client
      BY <2>8, <3>2 DEF StartServer
    <3> QED
      BY <2>8, <3>1, <3>3 DEF Matches
  <2>9. ASSUME NEW other \in Ports \ {port}, HandlerStep(other) \/ RecreateServer(other)
        PROVE  server'[port] = server[port]
    BY <1>t, <2>9, HandlerFrame DEF RecreateServer
  <2>10. CASE LoadStep
    <3>1. CASE LoadThrows
      BY <2>4, <3>1 DEF LoadThrows
    <3> QED
      BY <2>3, <2>5, <2>7, <2>9, <2>10, <3>1 DEF LoadStep, CloseOrphans, FetchModsetFails, AddServer,
         AllVisited, RemoveStopped, Ready
  <2>11. CASE \E other \in Ports : HandlerStep(other)
    BY <2>3, <2>6, <2>7, <2>9, <2>11 DEF HandlerStep
  <2>12. CASE Crash
    BY <2>4, <2>12 DEF Crash
  <2>13. ASSUME NEW p \in Procs, NEW m \in Modsets, NEW cs \in SUBSET Fresh, StartServer(p, m, cs)
         PROVE  Matches(server'[port], port, cmd')
    <3>1. CASE port # StartupPort
      BY <1>t, <2>3, <2>13, <3>1 DEF StartServer
    <3> QED
      BY <2>8, <2>13, <3>1
  <2> QED
    BY <2>3, <2>10, <2>11, <2>12, <2>13 DEF Next, Discover, OrphanCloses, ShutdownServer, Exit,
       RestartByItself
<1> QED
  BY <1>1, <1>2, <1>3 DEF ObjectsMatch, Matches

-----------------------------------------------------------------------------
(***************************************************************************)
(* The exits of the servers.                                               *)
(***************************************************************************)

ExitHandled(o, living, unknown) ==
  /\ o.proc = None => o = NoServer
  /\ o.proc \in living => o.watched
  /\ o.pc # "none" => o.proc \notin living /\ ~o.watched
  /\ o.pc = "notify" => o.clients \cap living = {}
  /\ o.proc \notin living /\ ~o.watched /\ o.pc \notin {"check", "clients", "notify"} =>
       o.clients \cap living \subseteq unknown

LEMMA ExitsStep ==
  ASSUME RecoveryInv, Next
  PROVE  ExitsHandled'
<1> USE DEF RecoveryInv
<1>t. /\ load \in LoadRecord /\ server \in [Ports -> ServerRecord]
      /\ alive \subseteq Procs /\ cmd \in [Procs -> CommandLine]
  BY DEF TypeOK
<1> SUFFICES ASSUME NEW port \in Ports PROVE ExitHandled(server'[port], alive', unowned')
  BY DEF ExitsHandled, ExitHandled, Handled
<1>h. ExitHandled(server[port], alive, unowned)
  BY DEF ExitsHandled, ExitHandled, Handled
<1>f. /\ server[port] \in ServerRecord
      /\ server[port].proc # None => cmd[server[port].proc].port = port /\ ~cmd[server[port].proc].client
      /\ \A c \in server[port].clients : cmd[c].port = port /\ cmd[c].client
  BY <1>t DEF ObjectsMatch
\* An object that does not change, while no process of it starts anew.
<1>0. ASSUME server'[port] = server[port],
             alive' \cap ({server[port].proc} \cup server[port].clients) \subseteq alive,
             unowned \cap server[port].clients \subseteq unowned'
      PROVE  ExitHandled(server'[port], alive', unowned')
  BY <1>h, <1>0 DEF ExitHandled
<1>n. ExitHandled(NoServer, alive', unowned')
  BY Constants, TypeStep DEF ExitHandled, NoServer, TypeOK
<1>1. CASE LoadStep
  <2>1. ASSUME NEW other \in Ports, RecreateServer(other) PROVE ExitHandled(server'[port], alive', unowned')
    <3>1. PICK p \in load.found :
            /\ server' = [server EXCEPT ![other] =
                 [NoServer EXCEPT !.proc = p, !.modset = Extracted(cmd[p].modset),
                                  !.clients = ClientsOf(load.found, other),
                                  !.watched = p \in alive]]
            /\ unowned' = IF p \in alive THEN unowned \ {q \in load.found : cmd[q].port = other}
                                         ELSE unowned \cup ClientsOf(load.found, other)
            /\ UNCHANGED alive
      BY <2>1 DEF RecreateServer
    <3>2. CASE other = port
      <4>1. /\ server'[port].proc = p /\ server'[port].clients = ClientsOf(load.found, other)
            /\ server'[port].watched = (p \in alive) /\ server'[port].pc = "none"
        BY <1>t, <3>1, <3>2 DEF NoServer
      <4>2. p # None
        BY <1>t, Constants DEF LoadRecord
      <4> QED
        BY <3>1, <4>1, <4>2 DEF ExitHandled
    <3>3. CASE other # port
      BY <1>0, <1>f, <1>t, <3>1, <3>3
    <3> QED
      BY <3>2, <3>3
  <2>2. CASE SubscribeShutdown
    <3>1. server[load.port].proc # None
      BY <2>2 DEF SubscribeShutdown, LoadPhases, Loaded
    <3> QED
      BY <1>h, <1>t, <2>2, <3>1 DEF SubscribeShutdown, ExitHandled, ServerRecord
  <2>3. CASE LoadThrows
    BY <1>n, <2>3 DEF LoadThrows
  <2> QED
    BY <1>0, <1>1, <2>1, <2>2, <2>3 DEF LoadStep, CloseOrphans, FetchModsetFails, AddServer,
       AllVisited, RemoveStopped, Ready
<1>2. ASSUME NEW other \in Ports \ {port}, HandlerStep(other)
      PROVE  ExitHandled(server'[port], alive', unowned')
  <2>1. server'[port] = server[port]
    BY <1>2, HandlerFrame
  <2>2. alive' \subseteq alive
    BY <1>2 DEF HandlerStep, RaiseExited, CheckServerIsRestarting, ShutdownClients, NotifyShutdown
  <2>3. unowned \cap server[port].clients \subseteq unowned'
    <3>1. CASE CheckServerIsRestarting(other)
      BY <1>f, <3>1, Restarting, Adopted
    <3> QED
      BY <1>2, <3>1 DEF HandlerStep, RaiseExited, ShutdownClients, NotifyShutdown
  <2> QED
    BY <1>0, <2>1, <2>2, <2>3
<1>3. ASSUME HandlerStep(port) PROVE ExitHandled(server'[port], alive', unowned')
  <2>0. server[port].proc # None
    BY <1>3, HandlerFrame
  <2>1. CASE RaiseExited(port)
    <3>1. /\ server'[port].proc = server[port].proc /\ server'[port].clients = server[port].clients
          /\ ~server'[port].watched /\ server'[port].pc = "check"
      BY <1>t, <2>1 DEF RaiseExited, ServerRecord
    <3> QED
      BY <2>0, <2>1, <3>1 DEF RaiseExited, IsServerStopped, ExitHandled
  <2>2. CASE CheckServerIsRestarting(port)
    <3>0. server[port].pc = "check" /\ UNCHANGED alive
      BY <2>2, Restarting
    <3>1. ASSUME server' = [server EXCEPT ![port].pc = "failed"],
                 unowned' = unowned \cup server[port].clients
          PROVE  ExitHandled(server'[port], alive', unowned')
      <4>1. /\ server'[port].proc = server[port].proc /\ server'[port].clients = server[port].clients
            /\ server'[port].watched = server[port].watched /\ server'[port].pc = "failed"
        BY <1>t, <3>1 DEF ServerRecord
      <4> QED
        BY <1>h, <2>0, <3>0, <3>1, <4>1 DEF ExitHandled
    <3>2. ASSUME server' = [server EXCEPT ![port].pc = "clients"]
          PROVE  ExitHandled(server'[port], alive', unowned')
      <4>1. /\ server'[port].proc = server[port].proc /\ server'[port].clients = server[port].clients
            /\ server'[port].watched = server[port].watched /\ server'[port].pc = "clients"
        BY <1>t, <3>2 DEF ServerRecord
      <4> QED
        BY <1>h, <2>0, <3>0, <4>1 DEF ExitHandled
    <3>3. ASSUME NEW q \in alive, Adopts(port, q)
          PROVE  ExitHandled(server'[port], alive', unowned')
      <4>1. /\ server'[port].proc = q /\ server'[port].watched /\ server'[port].pc = "none"
            /\ q # None
        BY <3>3, Adopted, Constants
      <4> QED
        BY <4>1 DEF ExitHandled
    <3> QED
      BY <2>2, <3>1, <3>2, <3>3, Restarting
  <2>3. CASE ShutdownClients(port)
    <3>1. /\ server'[port].proc = server[port].proc /\ server'[port].clients = server[port].clients
          /\ server'[port].watched = server[port].watched /\ server'[port].pc = "notify"
      BY <1>t, <2>3 DEF ShutdownClients, ServerRecord
    <3> QED
      BY <1>h, <2>0, <2>3, <3>1 DEF ShutdownClients, ExitHandled
  <2>4. CASE NotifyShutdown(port)
    <3>1. /\ server'[port].proc = server[port].proc /\ server'[port].clients = server[port].clients
          /\ server'[port].watched = server[port].watched /\ server'[port].pc = "none"
      BY <1>t, <2>4 DEF NotifyShutdown, ServerRecord
    <3> QED
      BY <1>h, <2>0, <2>4, <3>1 DEF NotifyShutdown, ExitHandled
  <2> QED
    BY <1>3, <2>1, <2>2, <2>3, <2>4 DEF HandlerStep
<1>4. ASSUME NEW p \in Procs, NEW m \in Modsets, NEW cs \in SUBSET Fresh, StartServer(p, m, cs)
      PROVE  ExitHandled(server'[port], alive', unowned')
  <2>1. CASE port = StartupPort
    <3>1. server'[port].proc = p /\ server'[port].watched /\ server'[port].pc = "none" /\ p # None
      BY <1>t, <1>4, <2>1, Constants DEF StartServer, NoServer
    <3> QED
      BY <3>1 DEF ExitHandled
  <2>2. CASE port # StartupPort
    <3>1. server'[port] = server[port] /\ unowned \subseteq unowned'
      BY <1>t, <1>4, <2>2 DEF StartServer
    <3>2. alive' \cap ({server[port].proc} \cup server[port].clients) \subseteq alive
      BY <1>4, <1>f, Constants DEF StartServer, Fresh
    <3> QED
      BY <1>0, <3>1, <3>2
  <2> QED
    BY <2>1, <2>2
<1>5. ASSUME NEW p \in Procs, NEW q \in Procs, RestartByItself(p, q)
      PROVE  ExitHandled(server'[port], alive', unowned')
  BY <1>0, <1>f, <1>5, Constants DEF RestartByItself, Fresh
<1>6. CASE Crash
  BY <1>n, <1>6 DEF Crash
<1> QED
  BY <1>0, <1>1, <1>2, <1>3, <1>4, <1>5, <1>6 DEF Next, Discover, OrphanCloses, ShutdownServer, Exit

-----------------------------------------------------------------------------
(***************************************************************************)
(* No process is lost.                                                     *)
(***************************************************************************)

InUse(port) == port \in registered \/ server[port].watched \/ Handled(port)

InCareOf(p, port) == InUse(port) /\ (p = server[port].proc \/ p \in server[port].clients)

Known(p) == p \in shutting \/ p \in unowned \/ \E port \in Ports : InCareOf(p, port)

ToVisit(p) == p \in load.found /\ cmd[p].port \in load.todo

LEMMA ManagedIs ==
  ASSUME NEW p
  PROVE  /\ p \in Managed \cup unowned <=> Known(p)
         /\ p \in (Managed \cup unowned)' <=> Known(p)'
BY DEF Managed, Known, InCareOf, InUse, Handled

\* What is known stays known while its objects and lists do.
LEMMA KnownStays ==
  ASSUME NEW p, Known(p), p \in shutting => p \in shutting',
         p \in unowned => p \in unowned',
         \A port \in Ports : InCareOf(p, port) => InCareOf(p, port)'
  PROVE  Known(p)'
BY DEF Known

\* A handler loses nobody.
LEMMA HandlerKeeps ==
  ASSUME RecoveryInv, NEW port \in Ports, HandlerStep(port), NEW p \in alive', Known(p)
  PROVE  Known(p)'
<1> USE DEF RecoveryInv
<1>t. server \in [Ports -> ServerRecord] /\ registered' \subseteq registered
  BY HandlerFrame DEF TypeOK
<1>h. server[port].pc # "none" => server[port].proc \notin alive
  BY DEF ExitsHandled
<1>1. alive' \subseteq alive /\ registered \ {port} \subseteq registered'
  BY DEF HandlerStep, RaiseExited, CheckServerIsRestarting, ShutdownClients, NotifyShutdown
<1>2. ASSUME NEW other \in Ports \ {port}, InCareOf(p, other) PROVE InCareOf(p, other)'
  BY <1>1, <1>2, HandlerFrame DEF InCareOf, InUse, Handled
<1>3. CASE CheckServerIsRestarting(port)
  <2>0. /\ server[port].pc = "check" /\ p # server[port].proc
        /\ UNCHANGED <<alive, registered, shutting>>
    BY <1>1, <1>3, <1>h, Restarting
  <2>1. ASSUME server' = [server EXCEPT ![port].pc = "failed"],
               unowned' = unowned \cup server[port].clients
        PROVE  Known(p)'
    <3>1. CASE InCareOf(p, port)
      BY <2>0, <2>1, <3>1 DEF InCareOf, Known
    <3> QED
      BY <1>2, <2>0, <2>1, <3>1 DEF Known
  <2>2. ASSUME server' = [server EXCEPT ![port].pc = "clients"], UNCHANGED unowned
        PROVE  Known(p)'
    <3>1. server'[port].pc = "clients" /\ server'[port].clients = server[port].clients
      BY <1>t, <2>2 DEF ServerRecord
    <3>2. InCareOf(p, port) => InCareOf(p, port)'
      BY <2>0, <3>1 DEF InCareOf, InUse, Handled
    <3> QED
      BY <1>2, <2>0, <2>2, <3>2, KnownStays
  <2>3. ASSUME NEW q \in alive, Adopts(port, q) PROVE Known(p)'
    <3>1. /\ server'[port].proc = q /\ server'[port].watched
          /\ server'[port].clients = server[port].clients
          /\ unowned' = IF port \in registered THEN unowned \ {q} ELSE unowned
      BY <2>3, Adopted
    <3>2. CASE p = q
      BY <3>1, <3>2 DEF Known, InCareOf, InUse, Handled
    <3>3. InCareOf(p, port) => InCareOf(p, port)'
      BY <2>0, <3>1 DEF InCareOf, InUse, Handled
    <3> QED
      BY <1>2, <2>0, <3>1, <3>2, <3>3, KnownStays
  <2> QED
    BY <1>3, <2>1, <2>2, <2>3, Restarting
<1>4. CASE RaiseExited(port)
  <2>1. /\ server'[port].proc = server[port].proc /\ server'[port].clients = server[port].clients
        /\ server'[port].pc = "check" /\ UNCHANGED <<shutting, unowned>>
    BY <1>t, <1>4 DEF RaiseExited, ServerRecord
  <2>2. InCareOf(p, port) => InCareOf(p, port)'
    BY <2>1 DEF InCareOf, InUse, Handled
  <2> QED
    BY <1>2, <2>1, <2>2, KnownStays
<1>5. CASE ShutdownClients(port) \/ NotifyShutdown(port)
  <2>1. ~InCareOf(p, port) /\ UNCHANGED <<shutting, unowned>>
    BY <1>1, <1>5, <1>h DEF ShutdownClients, NotifyShutdown, InCareOf, ExitsHandled
  <2> QED
    BY <1>2, <2>1, KnownStays
<1> QED
  BY <1>3, <1>4, <1>5 DEF HandlerStep

\* A process that has come back by itself is not known, which is known.
LEMMA RestartKnown ==
  ASSUME NEW p, NEW q, NEW r \in alive', RestartByItself(p, q), r \in alive => Known(r)
  PROVE  Known(r)'
BY DEF RestartByItself, Known, InCareOf, InUse, Handled

LEMMA VisitedStep ==
  ASSUME RecoveryInv, Next
  PROVE  VisitedAreKnown'
<1> USE DEF RecoveryInv
<1> SUFFICES ASSUME load'.pc = "visiting"
             PROVE  /\ \A p \in alive' : Known(p)' \/ ToVisit(p)'
                    /\ alive' \subseteq load'.found \cup unowned'
  BY ManagedIs DEF VisitedAreKnown, ToVisit
<1>t. load \in LoadRecord /\ server \in [Ports -> ServerRecord]
  BY DEF TypeOK
<1>1. CASE Discover
  <2>1. PICK found \in SUBSET alive :
          /\ load' = [load EXCEPT !.pc = "visiting", !.found = found,
                                  !.todo = {cmd[p].port : p \in found}]
          /\ unowned' = unowned \cup (alive \ found)
          /\ UNCHANGED <<alive, cmd>>
    BY <1>1 DEF Discover, Readable
  <2>2. load'.found = found /\ load'.todo = {cmd[p].port : p \in found}
    BY <1>t, <2>1 DEF LoadRecord
  <2> QED
    BY <2>1, <2>2 DEF ToVisit, Known
\* A step that leaves the load alone.
<1>2. ASSUME UNCHANGED load, alive' \subseteq alive, UNCHANGED cmd,
             \A p \in alive' : Known(p) => Known(p)',
             unowned \subseteq unowned'
      PROVE  /\ \A p \in alive' : Known(p)' \/ ToVisit(p)'
             /\ alive' \subseteq load'.found \cup unowned'
  BY <1>2, ManagedIs DEF VisitedAreKnown, ToVisit
<1>3. ASSUME NEW port \in Ports, HandlerStep(port)
      PROVE  /\ \A p \in alive' : Known(p)' \/ ToVisit(p)'
             /\ alive' \subseteq load'.found \cup unowned'
  <2>1. UNCHANGED <<load, cmd>> /\ load.pc = "visiting"
    BY <1>3, HandlerFrame
  <2>2. registered = {}
    BY <2>1 DEF LoadPhases
  <2>3. alive' \subseteq alive /\ unowned \subseteq unowned'
    <3>1. CASE CheckServerIsRestarting(port)
      BY <2>2, <3>1, Restarting, Adopted
    <3> QED
      BY <1>3, <3>1 DEF HandlerStep, RaiseExited, ShutdownClients, NotifyShutdown
  <2>4. \A p \in alive' : Known(p) => Known(p)'
    BY <1>3, HandlerKeeps
  <2> QED
    BY <1>2, <2>1, <2>3, <2>4
<1>4. ASSUME NEW c \in Procs, OrphanCloses(c) \/ Exit(c)
      PROVE  /\ \A p \in alive' : Known(p)' \/ ToVisit(p)'
             /\ alive' \subseteq load'.found \cup unowned'
  <2>1. \A p \in alive' : Known(p) => Known(p)'
    BY <1>4 DEF OrphanCloses, Exit, Known, InCareOf, InUse, Handled
  <2> QED
    BY <1>2, <1>4, <2>1 DEF OrphanCloses, Exit
<1>5. ASSUME NEW p \in Procs, NEW q \in Procs, RestartByItself(p, q)
      PROVE  /\ \A r \in alive' : Known(r)' \/ ToVisit(r)'
             /\ alive' \subseteq load'.found \cup unowned'
  <2>1. \A r \in alive : r \in Procs /\ cmd'[r] = cmd[r]
    BY CommandsStay DEF ObjectsMatch, TypeOK
  <2>2. \A r \in alive : Known(r) \/ ToVisit(r)
    BY <1>5, ManagedIs DEF RestartByItself, VisitedAreKnown, ToVisit
  <2>3. alive' = alive \cup {q} /\ unowned' = unowned \cup {q} /\ UNCHANGED load
    BY <1>5 DEF RestartByItself
  <2>4. \A r \in alive : Known(r) => Known(r)'
    BY <1>5, RestartKnown, <2>3
  <2>5. Known(q)'
    BY <2>3 DEF Known
  <2> QED
    BY <2>1, <2>2, <2>3, <2>4, <2>5 DEF VisitedAreKnown, ToVisit
<1>6. ASSUME NEW port \in Ports,
             CloseOrphans(port) \/ FetchModsetFails(port) \/ RecreateServer(port)
      PROVE  /\ \A p \in alive' : Known(p)' \/ ToVisit(p)'
             /\ alive' \subseteq load'.found \cup unowned'
  <2>1. /\ load.pc = "visiting" /\ port \in load.todo /\ load'.found = load.found
        /\ load'.todo = load.todo \ {port} /\ UNCHANGED <<alive, cmd, registered>>
    BY <1>6, VisitedFields DEF CloseOrphans, FetchModsetFails, RecreateServer
  <2>2. /\ \A p \in alive : Known(p) \/ ToVisit(p)
        /\ alive \subseteq load.found \cup unowned
    BY <2>1, ManagedIs DEF VisitedAreKnown, ToVisit
  <2>3. ASSUME NEW p \in alive PROVE Known(p)' \/ ToVisit(p)'
    <3>1. CASE CloseOrphans(port)
      <4>1. CASE p \in load.found /\ cmd[p].port = port
        <5>1. p \in shutting'
          BY <3>1, <4>1 DEF CloseOrphans, ServersOf, ClientsOf
        <5> QED
          BY <5>1 DEF Known
      <4>2. Known(p) => Known(p)'
        BY <3>1 DEF CloseOrphans, Known, InCareOf, InUse, Handled
      <4> QED
        BY <2>1, <2>2, <4>1, <4>2 DEF ToVisit
    <3>2. CASE FetchModsetFails(port)
      <4>1. CASE p \in load.found /\ cmd[p].port = port
        BY <3>2, <4>1 DEF FetchModsetFails, Known
      <4>2. Known(p) => Known(p)'
        BY <3>2 DEF FetchModsetFails, Known, InCareOf, InUse, Handled
      <4> QED
        BY <2>1, <2>2, <4>1, <4>2 DEF ToVisit
    <3>3. CASE RecreateServer(port)
      <4>0. PICK x \in load.found :
            /\ ServersOf(load.found, port) = {x}
            /\ server' = [server EXCEPT ![port] =
                 [NoServer EXCEPT !.proc = x, !.modset = Extracted(cmd[x].modset),
                                  !.clients = ClientsOf(load.found, port),
                                  !.watched = x \in alive]]
            /\ unowned' = IF x \in alive THEN unowned \ {q \in load.found : cmd[q].port = port}
                                         ELSE unowned \cup ClientsOf(load.found, port)
            /\ UNCHANGED shutting
        BY <3>3 DEF RecreateServer
      <4>1. /\ server'[port].proc = x /\ server'[port].clients = ClientsOf(load.found, port)
            /\ server'[port].watched = (x \in alive) /\ server'[port].pc = "none"
            /\ server[port] = NoServer
        BY <1>t, <2>1, <4>0 DEF NoServer, LoadPhases
      <4>2. CASE p \in load.found /\ cmd[p].port = port
        <5>1. p = x \/ p \in ClientsOf(load.found, port)
          BY <4>0, <4>2 DEF ServersOf, ClientsOf
        <5>2. CASE x \in alive
          BY <4>1, <5>1, <5>2 DEF Known, InCareOf, InUse, Handled
        <5>3. CASE x \notin alive
          BY <4>0, <5>1, <5>3 DEF Known
        <5> QED
          BY <5>2, <5>3
      <4>3. ~InCareOf(p, port)
        BY <2>1, <4>1 DEF InCareOf, InUse, Handled, NoServer, LoadPhases
      <4>4. \A other \in Ports \ {port} : InCareOf(p, other) => InCareOf(p, other)'
        BY <1>t, <2>1, <4>0 DEF InCareOf, InUse, Handled
      <4>5. CASE ~(p \in load.found /\ cmd[p].port = port)
        <5>1. Known(p) => Known(p)'
          BY <4>0, <4>3, <4>4, <4>5 DEF Known
        <5> QED
          BY <2>1, <2>2, <4>5, <5>1 DEF ToVisit
      <4> QED
        BY <4>2, <4>5
    <3> QED
      BY <1>6, <3>1, <3>2, <3>3
  <2>4. alive \subseteq load.found \cup unowned'
    BY <1>6, <2>2 DEF CloseOrphans, FetchModsetFails, RecreateServer
  <2> QED
    BY <2>1, <2>3, <2>4
<1>7. CASE LoadStep
  <2>1. ~(LoadThrows \/ AllVisited \/ Ready)
    BY LoadEnds
  <2>3. ~(SubscribeShutdown \/ RemoveStopped)
    BY <1>t DEF SubscribeShutdown, RemoveStopped, LoadRecord
  <2>2. ~\E port \in Ports : AddServer(port)
    BY <1>t DEF AddServer, LoadRecord
  <2> QED
    BY <1>6, <1>7, <2>1, <2>2, <2>3 DEF LoadStep
<1> QED
  BY <1>1, <1>3, <1>4, <1>5, <1>7, LoadEnds DEF Next, StartServer, ShutdownServer

LEMMA KnownStep ==
  ASSUME RecoveryInv, Next, load'.pc \notin {"none", "visiting"}
  PROVE  alive' \subseteq (Managed \cup unowned)'
<1> USE DEF RecoveryInv
<1> SUFFICES ASSUME NEW p \in alive' PROVE Known(p)'
  BY ManagedIs
<1>t. load \in LoadRecord /\ server \in [Ports -> ServerRecord]
  BY DEF TypeOK
<1>k. load.pc \notin {"none", "visiting"} => \A q \in alive : Known(q)
  BY ManagedIs DEF AllAreKnown
<1>1. CASE LoadStep
  <2>1. UNCHANGED <<alive, shutting>> \/ load'.pc = "visiting"
    BY <1>1, VisitedFields DEF LoadStep, CloseOrphans, FetchModsetFails, RecreateServer, AddServer,
       LoadThrows, AllVisited, SubscribeShutdown, RemoveStopped, Ready
  <2>2. CASE AllVisited
    <3>1. Known(p)
      BY <2>2, ManagedIs DEF AllVisited, VisitedAreKnown
    <3> QED
      BY <2>2, <3>1 DEF AllVisited, Known, InCareOf, InUse, Handled
  <2>3. CASE SubscribeShutdown
    <3>1. Known(p) /\ UNCHANGED <<shutting, unowned, registered>>
      BY <1>k, <2>3 DEF SubscribeShutdown
    <3>2. \A port \in Ports :
            /\ server'[port].proc = server[port].proc /\ server'[port].clients = server[port].clients
            /\ server'[port].watched = server[port].watched /\ server'[port].pc = server[port].pc
      BY <1>t, <2>3 DEF SubscribeShutdown, ServerRecord
    <3> QED
      BY <3>1, <3>2 DEF Known, InCareOf, InUse, Handled
  <2>4. CASE RemoveStopped
    <3>1. Known(p) /\ p \in alive /\ UNCHANGED <<shutting, unowned, server>>
      BY <1>k, <2>4 DEF RemoveStopped
    <3>2. registered \ {load.port} \subseteq registered'
      BY <2>4 DEF RemoveStopped
    <3>3. registered' = registered \/ server[load.port].proc \notin alive
      BY <2>4 DEF RemoveStopped, IsServerStopped
    <3>4. load.port \in Ports
      BY <2>4 DEF RemoveStopped, LoadPhases, Loaded
    <3>5. CASE InCareOf(p, load.port) /\ server[load.port].proc \notin alive
      BY <3>1, <3>4, <3>5 DEF ExitsHandled, Known, InCareOf, InUse, Handled
    <3>6. \A port \in Ports \ {load.port} : InCareOf(p, port) => InCareOf(p, port)'
      BY <3>1, <3>2 DEF InCareOf, InUse, Handled
    <3>7. CASE ~InCareOf(p, load.port)
      BY <3>1, <3>6, <3>7, KnownStays
    <3>8. CASE registered' = registered
      BY <3>1, <3>8 DEF Known, InCareOf, InUse, Handled
    <3> QED
      BY <3>3, <3>5, <3>7, <3>8
  <2>5. CASE Ready \/ \E port \in Ports : AddServer(port)
    <3>1. Known(p) /\ registered \subseteq registered' /\ UNCHANGED <<shutting, unowned, server>>
      BY <1>k, <2>5 DEF Ready, AddServer
    <3> QED
      BY <3>1 DEF Known, InCareOf, InUse, Handled
  <2>6. ~\E port \in Ports : CloseOrphans(port) \/ FetchModsetFails(port) \/ RecreateServer(port)
    BY VisitedFields DEF CloseOrphans, FetchModsetFails, RecreateServer
  <2> QED
    BY <1>1, <2>2, <2>3, <2>4, <2>5, <2>6, LoadEnds DEF LoadStep
<1>2. ASSUME NEW port \in Ports, HandlerStep(port) PROVE Known(p)'
  <2>1. UNCHANGED load /\ alive' \subseteq alive
    BY <1>2, HandlerFrame DEF HandlerStep, RaiseExited, CheckServerIsRestarting, ShutdownClients,
       NotifyShutdown
  <2> QED
    BY <1>2, <1>k, <2>1, HandlerKeeps
<1>3. ASSUME NEW q \in Procs, NEW m \in Modsets, NEW cs \in SUBSET Fresh, StartServer(q, m, cs)
      PROVE  Known(p)'
  <2>1. /\ load.pc = "ready" /\ load.todo = {} /\ StartupPort \in Ports \ registered
        /\ ~Handled(StartupPort)
        /\ server[StartupPort].watched => server[StartupPort].proc \in alive
    BY <1>3, Constants DEF StartServer, LoadPhases, IsServerStopped
  <2>2. /\ server'[StartupPort].proc = q /\ server'[StartupPort].clients = cs
        /\ server'[StartupPort].watched
        /\ \A port \in Ports \ {StartupPort} : server'[port] = server[port]
        /\ registered \subseteq registered' /\ UNCHANGED shutting
        /\ unowned' = unowned \cup server[StartupPort].clients
        /\ alive' = alive \cup {q} \cup cs
    BY <1>3, <1>t, Constants DEF StartServer, NoServer
  <2>3. CASE p = q \/ p \in cs
    BY <2>2, <2>3, Constants DEF Known, InCareOf, InUse, Handled
  <2>4. CASE p \in alive
    <3>1. Known(p)
      BY <1>k, <2>1, <2>4
    <3>2. server[StartupPort].proc \in alive => server[StartupPort].proc \in unowned
      BY <2>1 DEF AllAreKnown
    <3>3. CASE InCareOf(p, StartupPort)
      BY <2>2, <2>4, <3>2, <3>3 DEF InCareOf, Known
    <3>4. \A port \in Ports \ {StartupPort} : InCareOf(p, port) => InCareOf(p, port)'
      BY <2>2 DEF InCareOf, InUse, Handled
    <3> QED
      BY <2>2, <3>1, <3>3, <3>4, KnownStays
  <2> QED
    BY <2>2, <2>3, <2>4
<1>4. ASSUME NEW port \in Ports, ShutdownServer(port) PROVE Known(p)'
  <2>1. /\ Known(p) /\ p # server[port].proc /\ p \notin server[port].clients
        /\ registered \ {port} \subseteq registered' /\ UNCHANGED <<shutting, unowned, server>>
    BY <1>4, <1>k DEF ShutdownServer
  <2>2. \A other \in Ports : InCareOf(p, other) => InCareOf(p, other)'
    BY <2>1 DEF InCareOf, InUse, Handled
  <2> QED
    BY <2>1, <2>2, KnownStays
<1>5. ASSUME NEW c \in Procs, OrphanCloses(c) \/ Exit(c) PROVE Known(p)'
  BY <1>5, <1>k DEF OrphanCloses, Exit, Known, InCareOf, InUse, Handled
<1>6. ASSUME NEW q \in Procs, NEW r \in Procs, RestartByItself(q, r) PROVE Known(p)'
  BY <1>6, <1>k, RestartKnown DEF RestartByItself
<1>7. ~Discover
  BY <1>t DEF Discover, LoadRecord
<1> QED
  BY <1>1, <1>2, <1>3, <1>4, <1>5, <1>6, <1>7, LoadEnds DEF Next

\* A server that the registry lacks is not taken for one it knows.
LEMMA AllKnownStep ==
  ASSUME RecoveryInv, Next
  PROVE  AllAreKnown'
<1> USE DEF RecoveryInv
<1> SUFFICES ASSUME load'.pc \notin {"none", "visiting"},
                    NEW port \in Ports, port \notin registered' \cup load'.todo,
                    server'[port].proc \in alive'
             PROVE  server'[port].proc \in unowned'
  BY KnownStep DEF AllAreKnown
<1>t. load \in LoadRecord /\ server \in [Ports -> ServerRecord] /\ None \notin alive
  BY Constants DEF TypeOK
<1>f. /\ server[port].proc # None => cmd[server[port].proc].port = port /\ ~cmd[server[port].proc].client
      /\ server[port].pc # "none" => server[port].proc \notin alive
  BY DEF ObjectsMatch, ExitsHandled
\* The object stays, and so does what is known of it.
<1>0. ASSUME load.pc \notin {"none", "visiting"}, port \notin registered \cup load.todo,
             server[port].proc \in alive, server'[port].proc = server[port].proc,
             server[port].proc \in unowned => server[port].proc \in unowned'
      PROVE  server'[port].proc \in unowned'
  BY <1>0 DEF AllAreKnown
<1>1. CASE LoadStep
  <2>1. CASE AllVisited
    BY <1>t, <2>1, LoadEnds DEF AllVisited, Loaded
  <2>2. CASE SubscribeShutdown
    <3>1. /\ server'[port].proc = server[port].proc /\ UNCHANGED <<alive, registered, unowned>>
          /\ load'.todo = load.todo /\ load.pc = "subscribing"
      BY <1>t, <2>2 DEF SubscribeShutdown, ServerRecord, LoadRecord
    <3> QED
      BY <1>0, <3>1
  <2>3. CASE RemoveStopped
    <3>1. /\ UNCHANGED <<alive, server, unowned>> /\ load.pc = "checking"
          /\ registered' = registered \/ server[load.port].proc \notin alive
          /\ registered \ {load.port} \subseteq registered'
      BY <2>3 DEF RemoveStopped, IsServerStopped
    <3>2. load'.todo = load.todo
      BY <1>t, <2>3 DEF RemoveStopped, LoadRecord
    <3> QED
      BY <1>0, <3>1, <3>2
  <2>4. ASSUME NEW other \in Ports, AddServer(other) PROVE server'[port].proc \in unowned'
    <3>1. load' = [load EXCEPT !.pc = "subscribing", !.todo = @ \ {other}, !.port = other]
      BY <2>4 DEF AddServer
    <3>2. load'.todo = load.todo \ {other}
      BY <1>t, <3>1 DEF LoadRecord
    <3> QED
      BY <1>0, <2>4, <3>2 DEF AddServer
  <2>5. CASE Ready
    BY <1>0, <2>5 DEF Ready
  <2>6. ~\E other \in Ports : CloseOrphans(other) \/ FetchModsetFails(other) \/ RecreateServer(other)
    BY VisitedFields DEF CloseOrphans, FetchModsetFails, RecreateServer
  <2> QED
    BY <1>1, <2>1, <2>2, <2>3, <2>4, <2>5, <2>6, LoadEnds DEF LoadStep
<1>2. ASSUME NEW other \in Ports, HandlerStep(other) PROVE server'[port].proc \in unowned'
  <2>0. UNCHANGED load /\ registered' \subseteq registered /\ registered \ {other} \subseteq registered'
        /\ alive' \subseteq alive
    BY <1>2, HandlerFrame DEF HandlerStep, RaiseExited, CheckServerIsRestarting, ShutdownClients,
       NotifyShutdown
  <2>1. CASE CheckServerIsRestarting(other)
    <3>0. UNCHANGED <<registered, alive>> /\ server[other].pc = "check"
      BY <2>1, Restarting
    <3>1. CASE \/ /\ server' = [server EXCEPT ![other].pc = "failed"]
                  /\ unowned' = unowned \cup server[other].clients
               \/ /\ server' = [server EXCEPT ![other].pc = "clients"]
                  /\ UNCHANGED unowned
      <4>1. server'[port].proc = server[port].proc
        BY <1>t, <3>1 DEF ServerRecord
      <4> QED
        BY <1>0, <2>0, <3>0, <3>1, <4>1
    <3>2. ASSUME NEW q \in alive, Adopts(other, q) PROVE server'[port].proc \in unowned'
      <4>1. /\ cmd[q].port = other /\ ~cmd[q].client
            /\ server'[other].proc = q
            /\ other # port => server'[port] = server[port]
            /\ unowned' = IF other \in registered THEN unowned \ {q} ELSE unowned
        BY <3>2, Adopted
      <4>2. CASE other # port
        BY <1>0, <1>f, <1>t, <2>0, <3>0, <4>1, <4>2
      <4>3. CASE other = port
        <5>1. Known(q) /\ port \notin registered
          BY <2>0, <3>0, ManagedIs DEF AllAreKnown
        <5>2. q \notin shutting
          BY <4>1 DEF ObjectsMatch
        <5>3. ASSUME NEW third \in Ports, InCareOf(q, third) PROVE FALSE
          <6>1. third = port
            BY <1>t, <4>1, <4>3, <5>3 DEF InCareOf, ObjectsMatch
          <6>2. q # server[port].proc /\ q \notin server[port].clients
            BY <1>f, <3>0, <4>1, <4>3 DEF ObjectsMatch
          <6> QED
            BY <5>3, <6>1, <6>2 DEF InCareOf
        <5> QED
          BY <4>1, <4>3, <5>1, <5>2, <5>3 DEF Known
      <4> QED
        BY <4>2, <4>3
    <3> QED
      BY <2>1, <3>1, <3>2, Restarting
  <2>2. CASE RaiseExited(other) \/ ShutdownClients(other) \/ NotifyShutdown(other)
    <3>1. server'[port].proc = server[port].proc /\ UNCHANGED unowned
      <4>1. CASE RaiseExited(other)
        BY <1>t, <4>1 DEF RaiseExited, ServerRecord
      <4>2. CASE ShutdownClients(other)
        BY <1>t, <4>2 DEF ShutdownClients, ServerRecord
      <4>3. CASE NotifyShutdown(other)
        BY <1>t, <4>3 DEF NotifyShutdown, ServerRecord
      <4> QED
        BY <2>2, <4>1, <4>2, <4>3
    <3>2. CASE port \in registered
      <4>1. port = other /\ NotifyShutdown(other)
        BY <2>0, <2>2, <3>2 DEF RaiseExited, ShutdownClients
      <4> QED
        BY <1>f, <2>0, <3>1, <4>1 DEF NotifyShutdown
    <3> QED
      BY <1>0, <2>0, <3>1, <3>2
  <2> QED
    BY <1>2, <2>1, <2>2 DEF HandlerStep
<1>3. ASSUME NEW q \in Procs, NEW m \in Modsets, NEW cs \in SUBSET Fresh, StartServer(q, m, cs)
      PROVE  server'[port].proc \in unowned'
  <2>1. /\ port # StartupPort /\ server'[port] = server[port] /\ UNCHANGED load
        /\ load.pc = "ready" /\ registered \subseteq registered' /\ unowned \subseteq unowned'
    BY <1>3, <1>t DEF StartServer
  <2>2. server[port].proc \in alive
    BY <1>3, <1>f, <2>1, Constants, TypeStep DEF StartServer, Fresh, TypeOK
  <2> QED
    BY <1>0, <2>1, <2>2
<1>4. ASSUME NEW other \in Ports, ShutdownServer(other) PROVE server'[port].proc \in unowned'
  BY <1>0, <1>4 DEF ShutdownServer
<1>5. ASSUME NEW c \in Procs, OrphanCloses(c) \/ Exit(c) PROVE server'[port].proc \in unowned'
  BY <1>0, <1>5 DEF OrphanCloses, Exit
<1>6. ASSUME NEW q \in Procs, NEW r \in Procs, RestartByItself(q, r)
      PROVE  server'[port].proc \in unowned'
  BY <1>0, <1>6 DEF RestartByItself
<1>7. ~Discover
  BY <1>t DEF Discover, LoadRecord
<1> QED
  BY <1>1, <1>2, <1>3, <1>4, <1>5, <1>6, <1>7, LoadEnds DEF Next

-----------------------------------------------------------------------------
(***************************************************************************)
(* One server on a port.                                                   *)
(***************************************************************************)

Servers(p, q) ==
  p # q /\ cmd[p].port = cmd[q].port /\ ~cmd[p].client /\ ~cmd[q].client

LEMMA OneServerStep ==
  ASSUME RecoveryInv, Next
  PROVE  OneServerPerPort'
<1> USE DEF RecoveryInv
<1> SUFFICES ASSUME NEW p \in alive', NEW q \in alive', Servers(p, q)'
             PROVE  p \in unowned' \/ q \in unowned'
  BY DEF OneServerPerPort, Servers
<1>t. /\ load \in LoadRecord /\ server \in [Ports -> ServerRecord]
      /\ alive \subseteq Procs /\ cmd \in [Procs -> CommandLine]
  BY DEF TypeOK
<1>c. \A r \in alive : cmd'[r] = cmd[r]
  BY <1>t, CommandsStay DEF ObjectsMatch
<1>o. p \in alive /\ q \in alive => p \in unowned \/ q \in unowned
  BY <1>c DEF OneServerPerPort, Servers
<1>0. ASSUME alive' \subseteq alive, unowned \subseteq unowned'
      PROVE  p \in unowned' \/ q \in unowned'
  BY <1>0, <1>o
<1>1. ASSUME NEW port \in Ports, RecreateServer(port)
      PROVE  p \in unowned' \/ q \in unowned'
  <2>1. PICK x \in load.found :
          /\ ServersOf(load.found, port) = {x}
          /\ unowned' = IF x \in alive THEN unowned \ {r \in load.found : cmd[r].port = port}
                                       ELSE unowned \cup ClientsOf(load.found, port)
    BY <1>1 DEF RecreateServer
  <2>2. UNCHANGED <<alive, cmd>> /\ alive \subseteq load.found \cup unowned
    BY <1>1 DEF RecreateServer, Visiting, VisitedAreKnown
  <2>3. CASE p \in load.found /\ q \in load.found /\ cmd[p].port = port
    <3>1. p \in ServersOf(load.found, port) /\ q \in ServersOf(load.found, port)
      BY <2>2, <2>3 DEF ServersOf, Servers
    <3> QED
      BY <2>1, <3>1 DEF Servers
  <2>4. CASE cmd[p].port # port
    BY <1>o, <2>1, <2>2, <2>4 DEF Servers
  <2>5. CASE p \notin load.found \/ q \notin load.found
    BY <2>1, <2>2, <2>5
  <2> QED
    BY <2>3, <2>4, <2>5
<1>2. ASSUME NEW port \in Ports, CheckServerIsRestarting(port)
      PROVE  p \in unowned' \/ q \in unowned'
  <2>1. UNCHANGED <<alive, cmd>>
    BY <1>2, Restarting
  <2>2. ASSUME NEW r \in alive, Adopts(port, r) PROVE p \in unowned' \/ q \in unowned'
    <3>1. /\ unowned' = IF port \in registered THEN unowned \ {r} ELSE unowned
          /\ cmd[r].port = port /\ server[port].proc \notin alive
      BY <1>2, <2>2, Adopted, Restarting DEF ExitsHandled
    <3>2. ASSUME port \in registered, NEW x \in alive, cmd[x].port = port, ~cmd[x].client
          PROVE  x \in unowned
      <4>1. Known(x)
        BY <3>2, ManagedIs DEF LoadPhases, AllAreKnown
      <4>2. x \notin shutting
        BY <3>2 DEF ObjectsMatch
      <4>3. ASSUME NEW other \in Ports, InCareOf(x, other) PROVE FALSE
        <5>1. x # None
          BY <1>t, Constants
        <5>2. x = server[port].proc
          BY <3>2, <4>3, <5>1 DEF InCareOf, ObjectsMatch
        <5> QED
          BY <3>1, <5>2
      <4> QED
        BY <4>1, <4>2, <4>3 DEF Known
    <3> QED
      BY <1>o, <2>1, <3>1, <3>2 DEF Servers
  <2> QED
    BY <1>0, <1>2, <2>1, <2>2, Restarting
<1>3. ASSUME NEW r \in Procs, NEW m \in Modsets, NEW cs \in SUBSET Fresh, StartServer(r, m, cs)
      PROVE  p \in unowned' \/ q \in unowned'
  <2>1. /\ load.pc = "ready" /\ load.todo = {} /\ StartupPort \in Ports \ registered
        /\ server[StartupPort].watched => server[StartupPort].proc \in alive
        /\ ~Handled(StartupPort) /\ r \notin cs /\ cs \subseteq Procs
        /\ alive' = alive \cup {r} \cup cs /\ unowned \subseteq unowned'
    BY <1>3, Constants DEF StartServer, LoadPhases, IsServerStopped, Fresh
  <2>2. \A c \in cs : cmd'[c].client
    BY <1>3, <2>1 DEF StartServer
  <2>3. cmd'[r].port = StartupPort
    BY <1>3 DEF StartServer
  <2>4. ASSUME NEW x \in alive, cmd[x].port = StartupPort, ~cmd[x].client
        PROVE  x \in unowned
    <3>1. Known(x)
      BY <2>1, ManagedIs DEF AllAreKnown
    <3>2. x \notin shutting
      BY <2>4 DEF ObjectsMatch
    <3>3. ASSUME NEW port \in Ports, InCareOf(x, port) PROVE x \in unowned
      <4>0. x # None
        BY <1>t, Constants
      <4>1. x = server[port].proc /\ port = StartupPort
        BY <2>4, <3>3, <4>0 DEF InCareOf, ObjectsMatch
      <4> QED
        BY <2>1, <4>1 DEF AllAreKnown
    <3> QED
      BY <3>1, <3>2, <3>3 DEF Known
  <2>5. CASE p = r
    <3>1. q \in alive /\ cmd[q].port = StartupPort /\ ~cmd[q].client
      BY <1>c, <2>1, <2>2, <2>3, <2>5 DEF Servers
    <3> QED
      BY <2>1, <2>4, <3>1
  <2>6. CASE q = r
    <3>1. p \in alive /\ cmd[p].port = StartupPort /\ ~cmd[p].client
      BY <1>c, <2>1, <2>2, <2>3, <2>6 DEF Servers
    <3> QED
      BY <2>1, <2>4, <3>1
  <2>7. CASE p \in alive /\ q \in alive
    BY <1>o, <2>1, <2>7
  <2> QED
    BY <2>1, <2>2, <2>5, <2>6, <2>7 DEF Servers
<1>4. ASSUME NEW r \in Procs, NEW x \in Procs, RestartByItself(r, x)
      PROVE  p \in unowned' \/ q \in unowned'
  BY <1>o, <1>4 DEF RestartByItself
<1>5. CASE LoadStep
  BY <1>0, <1>1, <1>5 DEF LoadStep, CloseOrphans, FetchModsetFails, AddServer, LoadThrows,
     AllVisited, SubscribeShutdown, RemoveStopped, Ready
<1>6. CASE \E port \in Ports : HandlerStep(port)
  BY <1>0, <1>2, <1>6 DEF HandlerStep, RaiseExited, ShutdownClients, NotifyShutdown
<1> QED
  BY <1>0, <1>3, <1>4, <1>5, <1>6 DEF Next, Discover, OrphanCloses, ShutdownServer, Exit, Crash

-----------------------------------------------------------------------------
(***************************************************************************)
(* The theorems.                                                           *)
(***************************************************************************)

LEMMA RecoveryInit == Init => RecoveryInv
<1> SUFFICES ASSUME Init PROVE RecoveryInv
  OBVIOUS
<1>1. PICK port \in [alive -> Ports], m \in [Ports -> Modsets], cs \in SUBSET alive :
        /\ \A p, q \in alive \ cs : port[p] = port[q] => p = q
        /\ cmd = [p \in Procs |->
             IF p \in alive
               THEN [port |-> port[p], modset |-> m[port[p]], client |-> p \in cs]
               ELSE NoCommand]
  BY DEF Init
<1>2. alive \subseteq Procs
  BY DEF Init
<1>3. ASSUME NEW p \in alive
      PROVE  /\ cmd[p].port = port[p] /\ port[p] \in Ports
             /\ cmd[p].client <=> p \in cs
             /\ cmd[p] \in CommandLine
  <2>1. cmd[p] = [port |-> port[p], modset |-> m[port[p]], client |-> p \in cs]
    BY <1>1, <1>2
  <2>2. (p \in cs) \in BOOLEAN /\ port[p] \in Ports /\ m[port[p]] \in Modsets
    OBVIOUS
  <2>3. cmd[p].port = port[p]
    BY ONLY <2>1
  <2>4. cmd[p].client <=> p \in cs
    <3>1. ASSUME NEW b \in BOOLEAN, NEW n, NEW s, NEW r,
                 r = [port |-> n, modset |-> s, client |-> b]
          PROVE  r.client <=> b
      BY <3>1
    <3> QED
      BY ONLY <2>1, <2>2, <3>1, Zenon
  <2>5. ASSUME NEW b \in BOOLEAN, NEW n \in Ports, NEW s \in Modsets
        PROVE  [port |-> n, modset |-> s, client |-> b] \in CommandLine
    BY DEF CommandLine
  <2>6. cmd[p] \in CommandLine
    BY ONLY <2>1, <2>2, <2>5, Zenon
  <2> QED
    BY <2>2, <2>3, <2>4, <2>6
<1>4. cmd \in [Procs -> CommandLine]
  <2>1. NoCommand \in CommandLine
    BY DEF NoCommand, CommandLine
  <2>2. \A p \in Procs \ alive : cmd[p] = NoCommand
    BY <1>1
  <2>3. \A p \in Procs : cmd[p] \in CommandLine
    BY <1>2, <1>3, <2>1, <2>2
  <2>4. cmd = [p \in Procs |-> cmd[p]]
    BY <1>1
  <2> QED
    BY <2>3, <2>4
<1>5. TypeOK
  BY <1>2, <1>4, NoServerType, NotLoadedType, RecoveryAssumption DEF Init, TypeOK
<1>6. ObjectsMatch
  <2>1. \A p \in alive : cmd[p].port # None
    BY <1>3, Constants
  <2> QED
    BY <2>1 DEF Init, ObjectsMatch, NoServer, NotLoaded
<1>7. LoadPhases /\ VisitedAreKnown /\ AllAreKnown
  BY NotLoadedFields DEF Init, LoadPhases, VisitedAreKnown, AllAreKnown
<1>8. ExitsHandled
  BY <1>2, Constants DEF Init, ExitsHandled, NoServer
<1>9. OneServerPerPort
  <2> SUFFICES ASSUME NEW p \in alive, NEW q \in alive, ~cmd[p].client, ~cmd[q].client,
                      cmd[p].port = cmd[q].port
               PROVE  p = q
    BY Zenon DEF OneServerPerPort
  <2>1. p \in alive \ cs /\ q \in alive \ cs /\ port[p] = port[q]
    BY <1>3
  <2> QED
    BY ONLY <1>1, <2>1
<1> QED
  BY <1>5, <1>6, <1>7, <1>8, <1>9 DEF RecoveryInv

LEMMA RecoveryStep == RecoveryInv /\ [Next]_vars => RecoveryInv'
<1> SUFFICES ASSUME RecoveryInv, [Next]_vars PROVE RecoveryInv'
  OBVIOUS
<1>1. CASE Next
  BY <1>1, TypeStep, MatchStep, PhasesStep, ExitsStep, VisitedStep, AllKnownStep, OneServerStep
     DEF RecoveryInv
<1>2. CASE UNCHANGED vars
  <2> USE <1>2 DEF vars, RecoveryInv
  <2>1. TypeOK'
    BY DEF TypeOK, Loaded
  <2>2. ObjectsMatch' /\ LoadPhases' /\ ExitsHandled'
    BY DEF ObjectsMatch, LoadPhases, Loaded, ExitsHandled, Handled
  <2>3. VisitedAreKnown' /\ AllAreKnown'
    BY DEF VisitedAreKnown, AllAreKnown, Managed, Handled
  <2>4. OneServerPerPort'
    BY DEF OneServerPerPort
  <2> QED
    BY <2>1, <2>2, <2>3, <2>4
<1> QED
  BY <1>1, <1>2

\* Whatever exits, comes back, is passed over or crashes while the registry is built and
\* used, the load and the objects account for every process that runs.
THEOREM RecoveryInvariant == Spec => []RecoveryInv
BY RecoveryInit, RecoveryStep, PTL DEF Spec

\* Processes, command lines, the load and the servers have the shapes the code gives
\* them, and only a server that has been built is registered.
THEOREM RecoveryTypeCorrect == Spec => []TypeOK
<1>1. RecoveryInv => TypeOK
  BY DEF RecoveryInv
<1> QED
  BY <1>1, RecoveryInvariant, PTL

\* Once ServerProvider has its registry no Arma process runs that nobody will look
\* after, but for those it passed over and the ways to lose headless clients.
THEOREM RunningIsAlwaysKnown == Spec => []RunningIsKnown
<1>1. RecoveryInv => RunningIsKnown
  BY DEF RecoveryInv, AllAreKnown, RunningIsKnown
<1> QED
  BY <1>1, RecoveryInvariant, PTL

\* The manager itself never puts two servers on one port, after any number of crashes:
\* one of two was passed over (FetchModset) or has come back by itself.
THEOREM OneServerOnEveryPort == Spec => []OneServerPerPort
<1>1. RecoveryInv => OneServerPerPort
  BY DEF RecoveryInv
<1> QED
  BY <1>1, RecoveryInvariant, PTL
=============================================================================
