------------------------------ MODULE McpServers -------------------------------
(***************************************************************************)
(* The MCP tool servers of the orchestrator: the configuration file, the   *)
(* registry of running servers and their life-cycle tasks                  *)
(* (core/provider/func_tool_manager.py), the start-up task that connects   *)
(* the configured servers (provider/manager.py), and the dashboard's       *)
(* requests that add, change and delete one                                *)
(* (dashboard/services/tools_service.py).                                  *)
(*                                                                         *)
(* A step is what a task does between two suspensions.  _runtime_lock is   *)
(* never held across one, so it has no variable.  Names begin with Mcp     *)
(* where several components would use the same.                            *)
(***************************************************************************)
EXTENDS Naturals, FiniteSets

CONSTANTS
  Server,       \* names of servers
  Configured,   \* those that are active in the file at start-up
  Admin,        \* requests of the dashboard that may be under way together
  Client,       \* identities of MCPClient objects
  NoServer, NoClient,
  MaxRequests   \* bound: requests of the dashboard

ASSUME McpAssumption ==
  /\ Configured \subseteq Server
  /\ Server \cap Admin = {}
  /\ NoServer \notin Server /\ NoClient \notin Client
  /\ MaxRequests \in Nat

VARIABLES
  file,       \* mcp_server.json: absent, active or inactive
  runtime,    \* _mcp_server_runtime: the client registered for a name
  starting,   \* _mcp_starting
  listed,     \* func_list: the client whose tools are listed under a name
  open,       \* clients with a connection
  life,       \* the life-cycle task of each client
  request,    \* what each request, and each task of the start-up, is doing
  startup,    \* init_mcp_clients: gathering or over
  asked,      \* counter of the bound
  parted,     \* history: names for which a request wrote another flag than it obeyed
  forgotten,  \* history: names whose runtime the end of the start-up popped
  troubled    \* history: names for which two requests overlapped or one failed

mcpVars == <<file, runtime, starting, listed, open, life, request, startup, asked,
             parted, forgotten, troubled>>
mcpHistory == <<parted, forgotten, troubled>>

Worker == Admin \cup Server   \* a server's name stands for its task of the start-up
Idle   == [pc |-> "idle"]
Kind   == {"add", "update", "boot"}

\* A life-cycle task awaits its event, was told, or closes the client it found.
LifeCycle == [at : {"none", "done"}] \cup [at : {"waiting", "told"}, name : Server]
               \cup [at : {"closing"}, name : Server, closes : Client]

\* What a request or a task of the start-up is doing.
Testing    == [pc : {"test"}, name : Server, active : {"active", "inactive"},
               seen : [Server -> {"absent", "active", "inactive"}]]
Connecting == [pc : {"connect"}, name : Server, client : Client, kind : Kind]
Stopping   == [pc : {"stop"}, name : Server, client : Client, next : Server \cup {NoServer}]
McpTask    == {Idle} \cup [pc : {"begin", "up", "failed"}] \cup Testing \cup Connecting
                \cup Stopping

McpTypeOK ==
  /\ file \in [Server -> {"absent", "active", "inactive"}]
  /\ {runtime, listed} \subseteq [Server -> Client \cup {NoClient}]
  /\ starting \subseteq Server
  /\ open \subseteq Client
  /\ life \in [Client -> LifeCycle]
  /\ request \in [Worker -> McpTask]
  /\ startup \in {"gathering", "over"}
  /\ asked \in 0..MaxRequests
  /\ {parted, forgotten, troubled} \subseteq SUBSET Server

McpInit ==
  /\ file = [n \in Server |-> IF n \in Configured THEN "active" ELSE "absent"]
  /\ runtime = [n \in Server |-> NoClient]
  /\ starting = {}
  /\ listed = [n \in Server |-> NoClient]
  /\ open = {}
  /\ life = [c \in Client |-> [at |-> "none"]]
  /\ request = [w \in Worker |-> IF w \in Configured THEN [pc |-> "begin"] ELSE Idle]
  /\ startup = IF Configured = {} THEN "over" ELSE "gathering"
  /\ asked = 0
  /\ parted = {}
  /\ forgotten = {}
  /\ troubled = {}

Registered(n) == runtime[n] # NoClient

\* What the requests have asked of the runtime: the file's flag, or its opposite.
Wanted(n) == IF n \in parted THEN file[n] # "active" ELSE file[n] = "active"

\* The names a worker is busy with; the start-up is busy with all of its names
\* until it is over.
NamesOf(w) ==
  IF w \in Server THEN IF startup = "gathering" /\ w \in Configured THEN {w} ELSE {}
  ELSE CASE request[w].pc = "idle" -> {}
         [] request[w].pc = "stop" -> {request[w].name, request[w].next} \ {NoServer}
         [] OTHER                  -> {request[w].name}
Busy(n) == \E w \in Worker : n \in NamesOf(w)

\* A client object nobody refers to any more.
Unused(c) ==
  /\ c \notin open
  /\ \A n \in Server : c \notin {runtime[n], listed[n]}
  /\ life[c].at \in {"none", "done"}
  /\ \A w \in Worker : request[w].pc \in {"connect", "stop"} => request[w].client # c
  /\ \A d \in Client : life[d].at = "closing" => life[d].closes # c

Is(w, pc)     == request[w].pc = pc
Finish(w)     == request' = [request EXCEPT ![w] = Idle]
Outcome(w, r) == request' = [request EXCEPT ![w] = IF w \in Server THEN [pc |-> r] ELSE Idle]

-------------------------------------------------------------------------------
(* Starting a server: _start_mcp_server, _init_mcp_client.                 *)

\* Mutant: a name that is being started is not looked for.
StartUnlessRegistered(w, n, kind) ==
  IF Registered(n)
  THEN Outcome(w, "up") /\ UNCHANGED <<starting, open>>
  ELSE LET c == CHOOSE c \in Client : Unused(c)
       IN  /\ \E d \in Client : Unused(d)
           /\ starting' = starting \cup {n}
           /\ open' = open \cup {c}
           /\ request' = [request EXCEPT ![w] =
                [pc |-> "connect", name |-> n, client |-> c, kind |-> kind]]

\* A name that runs or is being started is left alone, as if it had been started;
\* otherwise a new client begins to connect.
Start(w, n, kind) ==
  IF Registered(n) \/ n \in starting
  THEN Outcome(w, "up") /\ UNCHANGED <<starting, open>>
  ELSE LET c == CHOOSE c \in Client : Unused(c)
       IN  /\ \E d \in Client : Unused(d)
           /\ starting' = starting \cup {n}
           /\ open' = open \cup {c}
           /\ request' = [request EXCEPT ![w] =
                [pc |-> "connect", name |-> n, client |-> c, kind |-> kind]]

\* The client is connected and has listed its tools, which replace those of the
\* name; its life-cycle task is made and registered.
Connected(w) ==
  LET n == request[w].name  c == request[w].client IN
  /\ Is(w, "connect")
  /\ listed' = [listed EXCEPT ![n] = c]
  /\ runtime' = [runtime EXCEPT ![n] = c]
  /\ starting' = starting \ {n}
  /\ life' = [life EXCEPT ![c] = [at |-> "waiting", name |-> n]]
  /\ Outcome(w, "up")
  /\ UNCHANGED <<file, open, startup, asked, mcpHistory>>

\* Mutant: a server that could not be added stays in the file.
ConnectFailsNoRollback(w) ==
  /\ Is(w, "connect")
  /\ open' = open \ {request[w].client}
  /\ starting' = starting \ {request[w].name}
  /\ troubled' = IF request[w].kind = "add" THEN troubled ELSE troubled \cup {request[w].name}
  /\ Outcome(w, "failed")
  /\ UNCHANGED <<file, runtime, listed, life, startup, asked, parted, forgotten>>

\* It raises or times out, and is cleaned up; an added server is taken out of the
\* file again (rollback_mcp_server), which is read anew.
ConnectFails(w) ==
  LET n == request[w].name IN
  /\ Is(w, "connect")
  /\ open' = open \ {request[w].client}
  /\ starting' = starting \ {n}
  /\ IF request[w].kind = "add"
     THEN /\ file' = [file EXCEPT ![n] = "absent"]
          /\ parted' = parted \ {n}
          /\ UNCHANGED troubled
     ELSE troubled' = troubled \cup {n} /\ UNCHANGED <<file, parted>>
  /\ Outcome(w, "failed")
  /\ UNCHANGED <<runtime, listed, life, startup, asked, forgotten>>

-------------------------------------------------------------------------------
(* The start-up: init_mcp_clients.                                         *)

BeginStartup(n) ==
  /\ Is(n, "begin")
  /\ Start(n, n, "boot")
  /\ UNCHANGED <<file, runtime, listed, life, startup, asked, mcpHistory>>

\* All have answered; the runtime of each that failed is popped, whoever has
\* registered it meanwhile.
EndStartup ==
  LET failed == { n \in Configured : Is(n, "failed") } IN
  /\ startup = "gathering"
  /\ \A n \in Configured : request[n].pc \in {"up", "failed"}
  /\ startup' = "over"
  /\ runtime' = [n \in Server |-> IF n \in failed THEN NoClient ELSE runtime[n]]
  /\ forgotten' = forgotten \cup { n \in failed : Registered(n) }
  /\ request' = [w \in Worker |-> IF w \in Configured THEN Idle ELSE request[w]]
  /\ UNCHANGED <<file, starting, listed, open, life, asked, parted, troubled>>

-------------------------------------------------------------------------------
(* Stopping a server: disable_mcp_server, _shutdown_runtimes, the          *)
(* life-cycle task and _terminate_mcp_client.                              *)

\* The request goes on: it starts the next server, if it has one.
GoOnTo(w, next) ==
  IF next = NoServer THEN Finish(w) /\ UNCHANGED <<starting, open>>
                     ELSE Start(w, next, "update")

\* Nothing is registered or its task has ended: there is nothing to wait for.
\* Otherwise the event is set and the task awaited.
Stop(w, n, next) ==
  LET c == runtime[n] IN
  IF ~Registered(n) \/ life[c].at = "done"
  THEN GoOnTo(w, next) /\ UNCHANGED life
  ELSE /\ life' = [life EXCEPT ![c] = IF @.at = "waiting" THEN [@ EXCEPT !.at = "told"] ELSE @]
       /\ request' = [request EXCEPT ![w] =
            [pc |-> "stop", name |-> n, client |-> c, next |-> next]]
       /\ UNCHANGED <<starting, open>>

\* The task wakes and looks the runtime up by its name.
Terminate(c) ==
  LET n == life[c].name IN
  /\ life[c].at = "told"
  /\ IF Registered(n)
     THEN /\ life' = [life EXCEPT ![c] =
                        [at |-> "closing", name |-> n, closes |-> runtime[n]]]
          /\ UNCHANGED <<listed, starting>>
     ELSE /\ life' = [life EXCEPT ![c] = [at |-> "done"]]
          /\ listed' = [listed EXCEPT ![n] = NoClient]
          /\ starting' = starting \ {n}
  /\ UNCHANGED <<file, runtime, open, request, startup, asked, mcpHistory>>

\* Mutant: the tools are left in the list.
ClosedKeepingTools(c) ==
  /\ life[c].at = "closing"
  /\ open' = open \ {life[c].closes}
  /\ runtime' = [runtime EXCEPT ![life[c].name] = NoClient]
  /\ starting' = starting \ {life[c].name}
  /\ life' = [life EXCEPT ![c] = [at |-> "done"]]
  /\ UNCHANGED <<file, listed, request, startup, asked, mcpHistory>>

\* The client is cleaned up (an error in that is only logged), then the tools, the
\* runtime and the start of that name are dropped.
Closed(c) ==
  LET n == life[c].name IN
  /\ life[c].at = "closing"
  /\ open' = open \ {life[c].closes}
  /\ listed' = [listed EXCEPT ![n] = NoClient]
  /\ runtime' = [runtime EXCEPT ![n] = NoClient]
  /\ starting' = starting \ {n}
  /\ life' = [life EXCEPT ![c] = [at |-> "done"]]
  /\ UNCHANGED <<file, request, startup, asked, mcpHistory>>

\* Mutant: the wait returns only for the task that it told to stop.
StoppedWhenClosing(w) ==
  /\ Is(w, "stop")
  /\ life[request[w].client].at = "closing"
  /\ GoOnTo(w, request[w].next)
  /\ UNCHANGED <<file, runtime, listed, life, startup, asked, mcpHistory>>

\* The task has ended, by itself or because another request's wait cut it.
Stopped(w) ==
  /\ Is(w, "stop")
  /\ life[request[w].client].at = "done"
  /\ GoOnTo(w, request[w].next)
  /\ UNCHANGED <<file, runtime, listed, life, startup, asked, mcpHistory>>

\* The wait times out and cancels the task in its cleanup: nothing after the
\* cleanup is done, the connection may be closed or not, and the request fails.
StopTimesOut(w) ==
  LET c == request[w].client IN
  /\ Is(w, "stop")
  /\ life[c].at = "closing"
  /\ open' \in {open, open \ {life[c].closes}}
  /\ life' = [life EXCEPT ![c] = [at |-> "done"]]
  /\ troubled' = troubled \cup ({request[w].name, request[w].next} \ {NoServer})
  /\ Finish(w)
  /\ UNCHANGED <<file, runtime, starting, listed, startup, asked, parted, forgotten>>

-------------------------------------------------------------------------------
(* The dashboard's requests.                                               *)

\* One more request, within the bound, about some names.
Ask(w, names) ==
  /\ Is(w, "idle")
  /\ asked < MaxRequests
  /\ asked' = asked + 1
  /\ troubled' = troubled \cup { n \in names : Busy(n) }

\* What a request writes into the file and what it does to the runtime may differ: an
\* mcpServers payload replaces the whole entry, with the flag that it brings itself or
\* none (which counts as active), while the runtime follows the request's own flag.
PartedBy(n, flag, obeyed) == IF flag = obeyed THEN {} ELSE {n}

\* add_mcp_server: the file is read and the connection tested ...
Add(w, n, active) ==
  /\ file[n] = "absent"
  /\ Ask(w, {n})
  /\ request' = [request EXCEPT ![w] =
       [pc |-> "test", name |-> n, active |-> active, seen |-> file]]
  /\ UNCHANGED <<file, runtime, starting, listed, open, life, startup, parted, forgotten>>

TestFails(w) ==
  /\ Is(w, "test")
  /\ Finish(w)
  /\ UNCHANGED <<file, runtime, starting, listed, open, life, startup, asked, mcpHistory>>

\* ... then the file is written as it was read, with the new server, which is
\* started whatever flag is written.
TestPasses(w) ==
  LET r == request[w] IN
  /\ Is(w, "test")
  /\ file' = [r.seen EXCEPT ![r.name] = r.active]
  /\ parted' = (parted \ {r.name}) \cup PartedBy(r.name, r.active, "active")
  /\ troubled' = troubled \cup { n \in Server : r.seen[n] # file[n] }
  /\ Start(w, r.name, "add")
  /\ UNCHANGED <<runtime, listed, life, startup, asked, forgotten>>

\* update_mcp_server, under the same name or a new one: flag is written, active is the
\* request's, or that of the old entry.
Update(w, old, n, flag, active) ==
  /\ file[old] # "absent"
  /\ n # old => file[n] = "absent"
  /\ Ask(w, {old, n})
  /\ file' = [file EXCEPT ![old] = "absent", ![n] = flag]
  /\ parted' = (parted \ {old, n}) \cup PartedBy(n, flag, active)
  /\ Stop(w, old, IF active = "active" THEN n ELSE NoServer)
  /\ UNCHANGED <<runtime, listed, startup, forgotten>>

\* delete_mcp_server
Delete(w, n) ==
  /\ file[n] # "absent"
  /\ Ask(w, {n})
  /\ file' = [file EXCEPT ![n] = "absent"]
  /\ parted' = parted \ {n}
  /\ Stop(w, n, NoServer)
  /\ UNCHANGED <<runtime, listed, startup, forgotten>>

\* sync_modelscope_mcp_servers, with one server in its answer.
Sync(w, n) ==
  /\ Ask(w, {n})
  /\ file' = [file EXCEPT ![n] = "active"]
  /\ parted' = parted \ {n}
  /\ Start(w, n, "update")
  /\ UNCHANGED <<runtime, listed, life, startup, forgotten>>

Request(w) ==
  \E n \in Server :
    \/ \E flag \in {"active", "inactive"} :
         \/ Add(w, n, flag)
         \/ \E old \in Server, active \in {"active", "inactive"} :
              Update(w, old, n, flag, active)
    \/ Delete(w, n)
    \/ Sync(w, n)

Work(w)      == \/ Connected(w) \/ ConnectFails(w)
                \/ TestFails(w) \/ TestPasses(w)
                \/ Stopped(w) \/ StopTimesOut(w)
LifeStep(c)  == Terminate(c) \/ Closed(c)
StartupStep  == EndStartup \/ \E n \in Server : BeginStartup(n)

McpNext ==
  \/ \E w \in Worker : Work(w)
  \/ \E w \in Admin : Request(w)
  \/ \E c \in Client : LifeStep(c)
  \/ StartupStep

McpSpec == McpInit /\ [][McpNext]_mcpVars

\* A task that can go on does; connecting, testing and cleaning up return, raise
\* or time out.
McpFairness ==
  /\ \A w \in Worker : WF_mcpVars(Work(w))
  /\ \A c \in Client : WF_mcpVars(LifeStep(c))
  /\ WF_mcpVars(StartupStep)

-------------------------------------------------------------------------------
(* Properties.                                                             *)

\* The tools an agent is offered under a name are those of the client that is
\* registered for it, and a registered client's tools are offered: starts, stops,
\* time-outs and requests that overlap never leave the one without the other.  The
\* only exception are names whose runtime the start-up popped.
ListedIsRegistered == \A n \in Server \ forgotten : listed[n] = runtime[n]

\* A name in _mcp_starting is being started by exactly one task, and any other by
\* none, so no two clients are ever connected for a name and none is left marked.
OneStart ==
  \A n \in Server \ forgotten :
    Cardinality({ w \in Worker : Is(w, "connect") /\ request[w].name = n })
      = IF n \in starting THEN 1 ELSE 0

\* The registry has a name that nobody is busy with just when the file says that it is
\* active, whatever goes on about other names, unless requests about the name overlapped
\* or one failed.  Where the last request wrote another flag than it obeyed, the two are
\* opposite instead, until a request about the name writes what it does.
FileAndRegistryAgree ==
  \A n \in Server \ troubled : ~Busy(n) => (Wanted(n) <=> Registered(n))

\* The dashboard's requests get their answers: with no more of them than there are,
\* after any state comes one in which none is waiting, so no wait for a life-cycle task
\* outlives that task.
EveryRequestEnds == []<>(\A w \in Admin : Is(w, "idle"))
===============================================================================
