---------------------------- MODULE HeadlessClients ----------------------------
(***************************************************************************)
(* SetHeadlessClients on one registered server: requests run on their own  *)
(* threads, beside the worker that starts and shuts the server down and    *)
(* beside the handler of the server's exit, and none of them takes a lock. *)
(* They share the stack of the server's headless clients (a                *)
(* ConcurrentStack, its operations are atomic) and the clients' processes. *)
(***************************************************************************)
EXTENDS Integers, Sequences, FiniteSets, Functions

CONSTANTS
  Requests,     \* the requests, each made once
  Clients,      \* identities of headless ArmaProcess objects
  Counts,       \* numbers of headless clients a request may ask for
  StartCounts,  \* numbers of headless clients the server is built with
  Recovered,    \* may the server be one found running at boot?
  NoClient, NoRequest

ASSUME HeadlessAssumption ==
  /\ IsFiniteSet(Clients)
  /\ Counts \subseteq Nat /\ StartCounts \subseteq Nat
  /\ NoClient \notin Clients /\ NoRequest \notin Requests
  /\ Recovered \in BOOLEAN

VARIABLES
  server,   \* the server process and what the registry and the object know of it
  stack,    \* DedicatedServer._headlessProcesses, its top first
  client,   \* the state of every client object
  doubled,  \* clients whose first process no object refers to any more
  request,  \* SetHeadlessClients in flight
  worker,   \* the job on this server: Start or Shutdown
  handler,  \* OnServerProcessShutdown in flight
  alone,    \* history: the request since whose begin nobody else has moved
  raced,    \* history: clients taken away while a thread was about to start them
  dropped   \* history: clients popped by a request that then threw

vars == <<server, stack, client, doubled, request, worker, handler, alone, raced,
          dropped>>

-----------------------------------------------------------------------------

\* Not created, never started, running, exited by itself, shut down by us.
ClientState == {"new", "made", "up", "exited", "null"}

ServerRecord == [proc : {"none", "up", "down"},  \* _serverProcess
                 watched : BOOLEAN,              \* its exit is subscribed to
                 started : BOOLEAN,              \* _serverWasStarted
                 registered : BOOLEAN]

NoTask == [pc |-> "none", todo |-> {}, wait |-> {}, threw |-> FALSE, cur |-> NoClient]

TaskRecord ==
  [pc : {"none", "prepare", "launched", "starting", "launch", "process", "discover",
         "snapshot", "clients"},
   todo : SUBSET Clients, wait : SUBSET Clients, threw : BOOLEAN,
   cur : Clients \cup {NoClient}]

RequestRecord ==
  [pc : {"idle", "done", "count", "remove", "pop", "close", "create", "add", "pushed",
         "start", "launch"},
   desired : Counts \cup {0}, change : Int, mine : SUBSET Clients,
   todo : SUBSET Clients, wait : SUBSET Clients, nulls : BOOLEAN, failed : BOOLEAN,
   cur : Clients \cup {NoClient}]

NoRequestYet == [pc |-> "idle", desired |-> 0, change |-> 0, mine |-> {}, todo |-> {},
                 wait |-> {}, nulls |-> FALSE, failed |-> FALSE, cur |-> NoClient]

IsServerStopped == server.proc # "up"

Elements == Range(stack)

Running == {c \in Clients : client[c] = "up"}

\* Mutant of HeadlessClientsConnected: every client of the stack counts.
ClientsInStack == Len(stack)

HeadlessClientsConnected == Cardinality(Elements \cap Running)

\* Mutant of Fresh: client objects that are not running are used again.
FreshOrStopped == {c \in Clients : client[c] # "up"}

Fresh == {c \in Clients : client[c] = "new"}

\* The clients that requests at these places are about to start, and those that
\* the server's Start has enumerated.
AboutToStart(pcs) ==
  {request[r].cur : r \in {q \in Requests : request[q].pc \in pcs}}
    \cup (IF worker.pc \in {"starting", "launch"} THEN worker.todo \cup {worker.cur}
                                                 ELSE {})

\* Everybody but the request that is alone disturbs it.
StepBy(r) == alone' = IF alone = r THEN r ELSE NoRequest

-----------------------------------------------------------------------------
(***************************************************************************)
(* ArmaProcess.Start of a client: IsStopped is tested, then Process.Start  *)
(* replaces _process, also when another thread has started it meanwhile.   *)
(***************************************************************************)
Launch(c) ==
  \/ /\ client' = [client EXCEPT ![c] = "up"]
     /\ doubled' = doubled \cup (IF client[c] = "up" THEN {c} ELSE {})
  \/ UNCHANGED <<client, doubled>>   \* Process.Start throws: a failed result

\* ArmaProcess.Shutdown of one client of a task that shuts several down; the
\* fields todo and wait are the clients not tested yet and those waited for.
TestClient(task, c) ==
  IF client[c] = "up"
    THEN [task EXCEPT !.todo = @ \ {c}, !.wait = @ \cup {c}]
    ELSE [task EXCEPT !.todo = @ \ {c}]

\* _process is read again after the wait: it is null if another task got there
\* first, and that may throw.
ClientShutDown(task, c, threw) ==
  /\ c \in task.wait
  /\ threw => client[c] = "null"
  /\ client' = [client EXCEPT ![c] = "null"]

-----------------------------------------------------------------------------
(***************************************************************************)
(* The request.                                                            *)
(***************************************************************************)
Finished(r) == request' = [request EXCEPT ![r] = [NoRequestYet EXCEPT !.pc = "done"]]

\* The server is registered; its running clients are counted.
Begin(r, n) ==
  /\ request[r].pc = "idle" /\ server.registered
  /\ request' = [request EXCEPT ![r] =
       [NoRequestYet EXCEPT !.desired = n, !.failed = FALSE,
          !.change = n - HeadlessClientsConnected,
          !.pc = IF HeadlessClientsConnected > n THEN "count" ELSE "create"]]
  /\ alone' = r
  /\ UNCHANGED <<server, stack, client, doubled, worker, handler, raced, dropped>>

\* The clients to remove are counted anew.
CountAgain(r) ==
  /\ request[r].pc = "count"
  /\ request' = [request EXCEPT ![r] = [@ EXCEPT !.pc = "remove",
       !.change = HeadlessClientsConnected - request[r].desired]]
  /\ StepBy(r)
  /\ UNCHANGED <<server, stack, client, doubled, worker, handler, raced, dropped>>

\* RemoveHeadlessClients: a server shut down is a failure, an array of negative
\* length throws, and nothing is popped into one of length zero.
Remove(r) ==
  LET gone == IsServerStopped /\ server.started
  IN /\ request[r].pc = "remove"
     /\ IF gone \/ request[r].change <= 0
          THEN Finished(r)
          ELSE request' = [request EXCEPT ![r].pc = "pop"]
     /\ StepBy(r)
     /\ UNCHANGED <<server, stack, client, doubled, worker, handler, raced, dropped>>

\* Mutant of Pop: the first client popped is skipped.
PopFromOne(r) ==
  LET k == IF request[r].change < Len(stack) THEN request[r].change ELSE Len(stack)
  IN /\ request[r].pc = "pop"
     /\ stack' = SubSeq(stack, k + 1, Len(stack))
     /\ request' = [request EXCEPT ![r] = [@ EXCEPT !.pc = "close",
          !.todo = {stack[i] : i \in 2 .. k}, !.nulls = (k < request[r].change)]]
     /\ raced' = raced \cup ({stack[i] : i \in 1 .. k}
                               \cap AboutToStart({"pushed", "start", "launch"}))
     /\ StepBy(r)
     /\ UNCHANGED <<server, client, doubled, worker, handler, dropped>>

\* TryPopRange takes what there is, the rest of the array stays null.
Pop(r) ==
  LET k == IF request[r].change < Len(stack) THEN request[r].change ELSE Len(stack)
  IN /\ request[r].pc = "pop"
     /\ stack' = SubSeq(stack, k + 1, Len(stack))
     /\ request' = [request EXCEPT ![r] = [@ EXCEPT !.pc = "close",
          !.todo = {stack[i] : i \in 1 .. k}, !.nulls = (k < request[r].change)]]
     /\ raced' = raced \cup ({stack[i] : i \in 1 .. k}
                               \cap AboutToStart({"pushed", "start", "launch"}))
     /\ StepBy(r)
     /\ UNCHANGED <<server, client, doubled, worker, handler, dropped>>

TestPopped(r, c) ==
  /\ request[r].pc = "close" /\ c \in request[r].todo
  /\ request' = [request EXCEPT ![r] =
       [TestClient(@, c) EXCEPT !.failed = request[r].failed \/ client[c] # "up"]]
  /\ StepBy(r)
  /\ UNCHANGED <<server, stack, client, doubled, worker, handler, raced, dropped>>

ShutPopped(r, c) ==
  /\ request[r].pc = "close"
  /\ \E threw \in BOOLEAN :
       /\ ClientShutDown(request[r], c, threw)
       /\ request' = [request EXCEPT ![r] =
            [@ EXCEPT !.wait = request[r].wait \ {c},
                      !.failed = request[r].failed \/ threw]]
  /\ StepBy(r)
  /\ UNCHANGED <<server, stack, doubled, worker, handler, raced, dropped>>

\* A null of the array throws inside the parallel query: the clients it has not
\* come to are never asked to stop, and they have left the stack.
MeetNull(r) ==
  /\ request[r].pc = "close" /\ request[r].nulls
  /\ dropped' = dropped \cup request[r].todo
  /\ request' = [request EXCEPT ![r] = [@ EXCEPT !.nulls = FALSE, !.todo = {},
                                                 !.failed = TRUE]]
  /\ StepBy(r)
  /\ UNCHANGED <<server, stack, client, doubled, worker, handler, raced>>

Removed(r) ==
  /\ request[r].pc = "close" /\ ~request[r].nulls
  /\ request[r].todo = {} /\ request[r].wait = {}
  /\ Finished(r)
  /\ StepBy(r)
  /\ UNCHANGED <<server, stack, client, doubled, worker, handler, raced, dropped>>

\* CreateHeadlessClients reads the modset's configuration, which may fail; then
\* AddAndStartHeadlessClients looks at the server.  Bounded by the identities left.
Create(r) ==
  /\ request[r].pc = "create"
  /\ \/ /\ Finished(r)
        /\ UNCHANGED client
     \/ /\ ~(IsServerStopped /\ server.started)
        /\ \E cs \in SUBSET Fresh :
             /\ Cardinality(cs) = request[r].change
             /\ client' = [c \in Clients |-> IF c \in cs THEN "made" ELSE client[c]]
             /\ request' = [request EXCEPT ![r] =
                  [@ EXCEPT !.pc = "add", !.mine = cs, !.todo = cs]]
  /\ StepBy(r)
  /\ UNCHANGED <<server, stack, doubled, worker, handler, raced, dropped>>

Push(r, c) ==
  /\ request[r].pc = "add" /\ c \in request[r].todo
  /\ stack' = <<c>> \o stack
  /\ request' = [request EXCEPT ![r] = [@ EXCEPT !.pc = "pushed", !.cur = c,
                                                 !.todo = request[r].todo \ {c}]]
  /\ StepBy(r)
  /\ UNCHANGED <<server, client, doubled, worker, handler, raced, dropped>>

\* Mutant of CheckServer: the client is started whatever the server does.
CheckNoServer(r) ==
  /\ request[r].pc = "pushed"
  /\ request' = [request EXCEPT ![r].pc = "start"]
  /\ StepBy(r)
  /\ UNCHANGED <<server, stack, client, doubled, worker, handler, raced, dropped>>

\* A stopped server: the client stays in the stack, neither started nor failed.
CheckServer(r) ==
  /\ request[r].pc = "pushed"
  /\ request' = [request EXCEPT ![r].pc = IF IsServerStopped THEN "add" ELSE "start"]
  /\ StepBy(r)
  /\ UNCHANGED <<server, stack, client, doubled, worker, handler, raced, dropped>>

\* Start succeeds at once when the client runs already.
TestMine(r) ==
  /\ request[r].pc = "start"
  /\ request' = [request EXCEPT ![r].pc =
                   IF client[request[r].cur] = "up" THEN "add" ELSE "launch"]
  /\ StepBy(r)
  /\ UNCHANGED <<server, stack, client, doubled, worker, handler, raced, dropped>>

LaunchMine(r) ==
  /\ request[r].pc = "launch"
  /\ Launch(request[r].cur)
  /\ request' = [request EXCEPT ![r] =
       [@ EXCEPT !.pc = "add",
                 !.failed = request[r].failed \/ client'[request[r].cur] # "up"]]
  /\ StepBy(r)
  /\ UNCHANGED <<server, stack, worker, handler, raced, dropped>>

Added(r) ==
  /\ request[r].pc = "add" /\ request[r].todo = {}
  /\ Finished(r)
  /\ StepBy(r)
  /\ UNCHANGED <<server, stack, client, doubled, worker, handler, raced, dropped>>

RequestStep(r) ==
  \/ CountAgain(r) \/ Remove(r) \/ Pop(r)
  \/ \E c \in Clients : TestPopped(r, c) \/ ShutPopped(r, c)
  \/ MeetNull(r) \/ Removed(r)
  \/ Create(r)
  \/ \E c \in Clients : Push(r, c)
  \/ CheckServer(r) \/ TestMine(r) \/ LaunchMine(r) \/ Added(r)

-----------------------------------------------------------------------------
(***************************************************************************)
(* The server's own Start and Shutdown, and the handler of its exit.       *)
(***************************************************************************)

ProcessEnds ==
  /\ server' = [server EXCEPT !.proc = "down"]
  /\ raced' = raced \cup (AboutToStart({"start", "launch"}) \ {NoClient})

\* Start: the process, then the flag and the subscription, then the clients that
\* the stack holds when their enumeration begins.
StartServer ==
  /\ worker.pc = "prepare"
  /\ \/ /\ server' = [server EXCEPT !.proc = "up"]
        /\ worker' = [worker EXCEPT !.pc = "launched"]
     \/ /\ worker' = NoTask      \* configuration, keys or Process.Start fail
        /\ UNCHANGED server
  /\ UNCHANGED <<stack, client, doubled, request, handler, raced, dropped>>

SubscribeExit ==
  /\ worker.pc = "launched"
  /\ \E raised \in BOOLEAN :   \* has the exit of a process already gone been raised?
       server' = [server EXCEPT !.started = TRUE,
                                !.watched = ~raised \/ ~IsServerStopped]
  /\ raced' = raced \cup (IF IsServerStopped THEN Elements ELSE {})
  /\ worker' = [worker EXCEPT !.pc = "starting", !.todo = Elements]
  /\ UNCHANGED <<stack, client, doubled, request, handler, dropped>>

TestClientOfServer(c) ==
  /\ worker.pc = "starting" /\ c \in worker.todo
  /\ worker' = [worker EXCEPT !.todo = @ \ {c}, !.cur = c,
                  !.pc = IF client[c] = "up" THEN "starting" ELSE "launch"]
  /\ UNCHANGED <<server, stack, client, doubled, request, handler, raced, dropped>>

LaunchClientOfServer ==
  /\ worker.pc = "launch"
  /\ Launch(worker.cur)
  /\ worker' = [worker EXCEPT !.pc = "starting"]
  /\ UNCHANGED <<server, stack, request, handler, raced, dropped>>

StartDone ==
  /\ worker.pc = "starting" /\ worker.todo = {}
  /\ worker' = NoTask
  /\ UNCHANGED <<server, stack, client, doubled, request, handler, raced, dropped>>

\* A shutdown job takes the server up.  The players and the calls that may throw
\* on a process that has just gone are those of ServerLifecycle.
BeginShutdown ==
  /\ worker.pc = "none" /\ server.registered
  /\ worker' = [NoTask EXCEPT !.pc = IF IsServerStopped THEN "snapshot" ELSE "process"]
  /\ UNCHANGED <<server, stack, client, doubled, request, handler, raced, dropped>>

ShutProcess ==
  /\ worker.pc = "process"
  /\ IF IsServerStopped THEN UNCHANGED <<server, raced>> ELSE ProcessEnds
  /\ worker' = [worker EXCEPT !.pc = "snapshot"]
  /\ UNCHANGED <<stack, client, doubled, request, handler, dropped>>

\* The exit event of the watched process.
RaiseExited ==
  /\ server.proc = "down" /\ server.watched /\ handler.pc = "none"
  /\ server' = [server EXCEPT !.watched = FALSE]
  /\ handler' = [NoTask EXCEPT !.pc = "discover"]
  /\ UNCHANGED <<stack, client, doubled, request, worker, raced, dropped>>

\* A process that has come back by itself, if there is one, is adopted.
CheckServerIsRestarting ==
  /\ handler.pc = "discover"
  /\ \/ /\ server' = [server EXCEPT !.proc = "up", !.watched = TRUE]
        /\ handler' = NoTask
     \/ /\ handler' = [handler EXCEPT !.pc = "snapshot"]
        /\ UNCHANGED server
  /\ UNCHANGED <<stack, client, doubled, request, worker, raced, dropped>>

\* The stack as it is when ShutdownHeadlessClients enumerates it.
Enumerated(task) == [task EXCEPT !.pc = "clients", !.todo = Elements]

\* ShutdownHeadlessClients of a task, then the registry forgets the server unless
\* the shutdown of a client has thrown.
Closing(task, newTask) ==
  \/ /\ task.pc = "snapshot"
     /\ newTask = Enumerated(task)
     /\ UNCHANGED <<server, client>>
  \/ \E c \in task.todo :
       /\ task.pc = "clients"
       /\ newTask = TestClient(task, c)
       /\ UNCHANGED <<server, client>>
  \/ \E c \in Clients, threw \in BOOLEAN :
       /\ task.pc = "clients"
       /\ ClientShutDown(task, c, threw)
       /\ newTask = [task EXCEPT !.wait = @ \ {c}, !.threw = @ \/ threw]
       /\ UNCHANGED server
  \/ /\ task.pc = "clients" /\ task.todo = {} /\ task.wait = {}
     /\ server' = [server EXCEPT !.registered = @ /\ task.threw]
     /\ newTask = NoTask
     /\ UNCHANGED client

WorkerStep ==
  \/ StartServer \/ SubscribeExit
  \/ \E c \in Clients : TestClientOfServer(c)
  \/ LaunchClientOfServer \/ StartDone
  \/ BeginShutdown \/ ShutProcess
  \/ /\ Closing(worker, worker')
     /\ UNCHANGED <<stack, doubled, request, handler, raced, dropped>>

HandlerStep ==
  \/ RaiseExited \/ CheckServerIsRestarting
  \/ /\ Closing(handler, handler')
     /\ UNCHANGED <<stack, doubled, request, worker, raced, dropped>>

\* The server process or a client ends by itself.
ServerExits ==
  /\ server.proc = "up" /\ ProcessEnds
  /\ UNCHANGED <<stack, client, doubled, request, worker, handler, dropped>>

ClientExits(c) ==
  /\ client[c] = "up"
  /\ client' = [client EXCEPT ![c] = "exited"]
  /\ UNCHANGED <<server, stack, doubled, request, worker, handler, raced, dropped>>

-----------------------------------------------------------------------------

\* A server just built, its Start ahead, or one found running at boot, of which
\* _serverWasStarted is false.
Init ==
  /\ \E cs \in SUBSET Clients :
       /\ Cardinality(cs) \in StartCounts
       /\ stack \in {f \in [1 .. Cardinality(cs) -> cs] : IsInjective(f)}
       /\ \/ /\ server = [proc |-> "none", watched |-> FALSE, started |-> FALSE,
                          registered |-> TRUE]
             /\ worker = [NoTask EXCEPT !.pc = "prepare"]
             /\ client = [c \in Clients |-> IF c \in cs THEN "made" ELSE "new"]
          \/ /\ Recovered
             /\ server = [proc |-> "up", watched |-> TRUE, started |-> FALSE,
                          registered |-> TRUE]
             /\ worker = NoTask
             /\ client = [c \in Clients |-> IF c \in cs THEN "up" ELSE "new"]
  /\ doubled = {} /\ raced = {} /\ dropped = {} /\ alone = NoRequest
  /\ request = [r \in Requests |-> NoRequestYet]
  /\ handler = NoTask

Next ==
  \/ \E r \in Requests : RequestStep(r) \/ \E n \in Counts : Begin(r, n)
  \/ /\ WorkerStep \/ HandlerStep \/ ServerExits \/ \E c \in Clients : ClientExits(c)
     /\ alone' = NoRequest

Spec == Init /\ [][Next]_vars

-----------------------------------------------------------------------------
(***************************************************************************)
(* Properties.                                                             *)
(***************************************************************************)

\* Every variable has the shape the code gives it, and no client is twice in the
\* stack.
TypeOK ==
  /\ server \in ServerRecord
  /\ stack \in Seq(Clients) /\ IsInjective(stack)
  /\ client \in [Clients -> ClientState]
  /\ doubled \subseteq Clients /\ raced \subseteq Clients /\ dropped \subseteq Clients
  /\ request \in [Requests -> RequestRecord]
  /\ worker \in TaskRecord /\ handler \in TaskRecord
  /\ alone \in Requests \cup {NoRequest}

\* The clients a request has popped and not shut down yet.
InHands == UNION {request[r].todo \cup request[r].wait :
                    r \in {q \in Requests : request[q].pc = "close"}}

\* A running client is in the stack, from which it is counted and shut down, or a
\* request that has popped it will stop it.  There are exactly two ways to lose
\* one: a request pops it while another thread is about to start it, or a removal
\* throws because it finds fewer clients than it has counted.
RunningClientsOwned == Running \subseteq Elements \cup InHands \cup raced \cup dropped

\* Once a stopped server has left the registry and its shutdown and its exit have
\* been handled, a client still runs only if it was lost before or if a thread had
\* already decided to start it when the server process exited.
OnlyRacingStartsOutlive ==
  /\ ~server.registered /\ IsServerStopped /\ ~server.watched
  /\ worker.pc = "none" /\ handler.pc = "none"
  => Running \subseteq InHands \cup raced \cup dropped

\* All that is left to the request is to report success.
Succeeds(r) ==
  /\ ~request[r].failed /\ ~request[r].nulls
  /\ request[r].todo = {} /\ request[r].wait = {}
  /\ request[r].pc \in {"close", "add"}

\* A request that reports success, and during which nobody else did anything,
\* leaves a running server with the number of clients asked for, whichever clients
\* of the stack had died before.
SuccessAloneSetsCount ==
  \A r \in Requests :
    Succeeds(r) /\ alone = r /\ server.proc = "up"
    => Cardinality(Elements \cap Running) = request[r].desired

\* Requests alone never start one client object twice: its first process would run
\* on unknown to the manager.  (The server's Start and a request can.)
RequestsStartOnce == ~server.started => doubled = {}

\* A request starts the client it has just pushed; the others it has created are
\* in nobody else's sight.
Starting(r) == request[r].pc \in {"pushed", "start", "launch"}

Adding(r) == request[r].pc = "add" \/ Starting(r)

Unpushed == UNION {request[r].todo : r \in {q \in Requests : Adding(q)}}

\* The clients that are in the stack or that some thread has taken from there.
Seen == Elements \cup InHands \cup worker.todo \cup worker.wait \cup {worker.cur}
          \cup handler.todo \cup handler.wait
          \cup {request[r].cur : r \in {q \in Requests : Starting(q)}}

\* A client object is pushed once, by the request that made it; nobody touches it
\* before, and what has been popped never comes back.
UnpushedUnseen == \A c \in Unpushed : client[c] = "made" /\ c \notin Seen

SeenAreMade == \A c \in Seen \ {NoClient} : client[c] # "new"

OwnClients ==
  \A q, r \in Requests : q # r =>
    /\ Adding(q) /\ Adding(r) => request[q].todo \cap request[r].todo = {}
    /\ Starting(q) /\ Starting(r) => request[q].cur # request[r].cur

RequestPhases ==
  \A r \in Requests :
    /\ Starting(r) => request[r].cur \in Clients
    /\ request[r].pc = "pop" => request[r].change > 0
    /\ IF request[r].pc = "close" THEN request[r].todo \cap request[r].wait = {}
                                  ELSE request[r].wait = {}

PoppedForGood == InHands \cap Elements = {}

PushedOnce ==
  UnpushedUnseen /\ SeenAreMade /\ OwnClients /\ RequestPhases /\ PoppedForGood

\* Whatever is about to be started is in the stack or was lost, and behind a server
\* that does not run it was lost.
StartsAreSeen ==
  /\ AboutToStart({"pushed", "start", "launch"}) \ {NoClient} \subseteq Elements \cup raced
  /\ server.proc # "up" =>
       AboutToStart({"start", "launch"}) \ {NoClient} \subseteq raced

\* Where the worker and the handler are says what the server is.
ServerPhases ==
  /\ server.proc = "none" =>
       /\ Running = {} /\ \A r \in Requests : request[r].pc \notin {"start", "launch"}
       /\ worker.pc \in {"none", "prepare", "snapshot", "clients"}
  /\ server.proc = "up" => server.watched \/ worker.pc = "launched"
  /\ handler.pc # "none" => server.proc = "down" /\ ~server.watched
  /\ handler.pc # "clients" => handler.todo = {} /\ handler.wait = {}
  /\ worker.pc \in {"prepare", "launched"} =>
       /\ ~server.watched /\ ~server.started
       /\ handler.pc = "none" /\ worker.cur = NoClient
  /\ worker.pc = "prepare" => server.proc = "none"
  /\ worker.pc \in {"starting", "launch"} => server.started
  /\ worker.pc = "launch" => worker.cur \in Clients

\* From the moment a stopped server's exit has been dealt with, its running clients
\* are those the handler is shutting down and the lost ones.
LostOutlive ==
  /\ server.proc # "up" /\ ~server.watched
  /\ worker.pc # "launched" /\ handler.pc \in {"none", "clients"}
  => Running \subseteq handler.todo \cup handler.wait \cup InHands \cup raced \cup dropped

\* How many clients an undisturbed request still has to stop or to start.
StillToDo(r) ==
  LET q == request[r]
      H == HeadlessClientsConnected
  IN /\ q.pc = "count" => H > q.desired
     /\ q.pc \in {"remove", "pop"} => q.change = H - q.desired
     /\ q.pc = "create" => q.change = q.desired - H
     /\ q.pc = "close" /\ ~q.failed /\ ~q.nulls =>
          H = q.desired + Cardinality(q.todo \ Running)
     /\ q.pc = "add" /\ ~q.failed /\ server.proc = "up" =>
          H + Cardinality(q.todo) = q.desired
     /\ Starting(r) /\ ~q.failed /\ server.proc = "up" =>
          /\ H + Cardinality(q.todo) + 1 = q.desired
          /\ client[q.cur] = "made" /\ q.cur \in Elements

AloneCounts == \A r \in Requests : alone = r => StillToDo(r)

\* Until the server is started, a client that a request is about to start is down.
StartedOnce ==
  ~server.started =>
    doubled = {} /\ \A r \in Requests : Starting(r) => client[request[r].cur] # "up"

\* The inductive invariant behind the four properties above.
HeadlessInv ==
  /\ TypeOK /\ PushedOnce /\ StartsAreSeen /\ ServerPhases /\ RunningClientsOwned
  /\ LostOutlive /\ AloneCounts /\ StartedOnce

\* IServerCommandLogic: a successful result if headless clients were started.
SuccessMeansStarted ==
  \A r \in Requests : Succeeds(r) => \A c \in request[r].mine : client[c] # "made"
=============================================================================
