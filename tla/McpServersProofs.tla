---------------------------- MODULE McpServersProofs ---------------------------
(***************************************************************************)
(* What is registered, listed and being started belongs together, for any  *)
(* servers, requests, clients, failures and time-outs.                     *)
(***************************************************************************)
EXTENDS McpServers, TLAPS, FiniteSetTheorems

-------------------------------------------------------------------------------
(* The inductive invariant.                                                *)

Connects(w, n) == Is(w, "connect") /\ request[w].name = n

\* A start is marked exactly while one task connects.
MarkedConnects ==
  \A n \in Server \ forgotten :
    /\ n \in starting <=> \E w \in Worker : Connects(w, n)
    /\ \A v, w \in Worker : Connects(v, n) /\ Connects(w, n) => v = w

\* A name that is registered is not being started ...
NotBoth == \A n \in Server \ forgotten : Registered(n) => n \notin starting

\* ... and a life-cycle task that did not end looks after the client registered for its
\* name, so that what it drops is its own.
Alive(c)   == life[c].at \in {"waiting", "told", "closing"}
OwnRuntime == \A c \in Client : Alive(c) /\ life[c].name \notin forgotten
                                  => runtime[life[c].name] = c

McpInv == McpTypeOK /\ ListedIsRegistered /\ MarkedConnects /\ NotBoth /\ OwnRuntime

-------------------------------------------------------------------------------
(* What tasks hold, and how a step changes them.                           *)

LEMMA Shapes ==
  ASSUME NEW x \in McpTask
  PROVE  /\ x.pc = "test" => x \in Testing
         /\ x.pc = "connect" => x \in Connecting
         /\ x.pc = "stop" => x \in Stopping
<1>1. CASE x = Idle
  BY <1>1 DEF Idle
<1>2. CASE x \in [pc : {"begin", "up", "failed"}]
  BY <1>2
<1>3. CASE x \in Testing
  BY <1>3 DEF Testing
<1>4. CASE x \in Connecting
  BY <1>4 DEF Connecting
<1>5. CASE x \in Stopping
  BY <1>5 DEF Stopping
<1> QED BY <1>1, <1>2, <1>3, <1>4, <1>5 DEF McpTask

LEMMA TaskFacts ==
  ASSUME McpTypeOK, NEW w \in Worker
  PROVE  /\ Is(w, "test") => /\ request[w].name \in Server
                             /\ request[w].active \in {"active", "inactive"}
                             /\ request[w].seen \in [Server -> {"absent", "active", "inactive"}]
         /\ Is(w, "connect") => request[w].name \in Server /\ request[w].client \in Client
         /\ Is(w, "stop") => /\ request[w].name \in Server /\ request[w].client \in Client
                             /\ request[w].next \in Server \cup {NoServer}
<1>1. request[w] \in McpTask
  BY DEF McpTypeOK
<1>2. Is(w, "test") => request[w] \in Testing
  BY <1>1, Shapes DEF Is
<1>3. Is(w, "connect") => request[w] \in Connecting
  BY <1>1, Shapes DEF Is
<1>4. Is(w, "stop") => request[w] \in Stopping
  BY <1>1, Shapes DEF Is
<1> QED BY <1>2, <1>3, <1>4 DEF Testing, Connecting, Stopping

LEMMA LifeFacts ==
  ASSUME McpTypeOK, NEW c \in Client
  PROVE  /\ life[c] \in LifeCycle
         /\ Alive(c) => life[c].name \in Server
         /\ life[c].at = "closing" => life[c].closes \in Client
         /\ life[c].at \in {"waiting", "told"} => life[c] \in [at : {"waiting", "told"}, name : Server]
<1>1. life[c] \in LifeCycle
  BY DEF McpTypeOK
<1>2. CASE life[c] \in [at : {"none", "done"}]
  BY <1>1, <1>2 DEF Alive
<1>3. CASE life[c] \in [at : {"waiting", "told"}, name : Server]
  BY <1>1, <1>3 DEF Alive
<1>4. CASE life[c] \in [at : {"closing"}, name : Server, closes : Client]
  BY <1>1, <1>4 DEF Alive
<1> QED BY <1>1, <1>2, <1>3, <1>4 DEF LifeCycle

\* A task that does not connect before or after a step leaves the marks right.
LEMMA QuietStep ==
  ASSUME McpTypeOK, NEW w \in Worker, ~Is(w, "connect"), request'[w].pc # "connect",
         \A v \in Worker : v # w => request'[v] = request[v], UNCHANGED <<starting, forgotten>>
  PROVE  MarkedConnects => MarkedConnects'
<1>1. \A v \in Worker : \A n : Connects(v, n)' <=> Connects(v, n)
  BY DEF Connects, Is
<1> QED BY <1>1 DEF MarkedConnects

LEMMA FinishStep ==
  ASSUME McpTypeOK, NEW w \in Worker, Finish(w)
  PROVE  /\ request' \in [Worker -> McpTask] /\ request'[w].pc = "idle"
         /\ \A v \in Worker : v # w => request'[v] = request[v]
<1>1. Idle \in McpTask /\ Idle.pc = "idle"
  BY DEF McpTask, Idle
<1> QED BY <1>1 DEF McpTypeOK, Finish

LEMMA OutcomeStep ==
  ASSUME McpTypeOK, NEW w \in Worker, NEW r \in {"up", "failed"}, Outcome(w, r)
  PROVE  /\ request' \in [Worker -> McpTask] /\ request'[w].pc \in {"idle", r}
         /\ \A v \in Worker : v # w => request'[v] = request[v]
<1> DEFINE x == IF w \in Server THEN [pc |-> r] ELSE Idle
<1>1. x \in McpTask /\ x.pc \in {"idle", r}
  BY DEF McpTask, Idle
<1>2. request' = [request EXCEPT ![w] = x] /\ request \in [Worker -> McpTask]
  BY DEF Outcome, McpTypeOK
<1> HIDE DEF x
<1> QED BY <1>1, <1>2

\* Starting a server: either it is left alone or one task more connects and marks it.
LEMMA StartStep ==
  ASSUME McpTypeOK, NEW w \in Worker, ~Is(w, "connect"), NEW n \in Server, NEW kind \in Kind,
         Start(w, n, kind), UNCHANGED <<runtime, forgotten>>
  PROVE  /\ request' \in [Worker -> McpTask] /\ starting' \subseteq Server /\ open' \subseteq Client
         /\ MarkedConnects => MarkedConnects'
         /\ NotBoth => NotBoth'
<1>1. CASE Registered(n) \/ n \in starting
  <2>1. Outcome(w, "up") /\ UNCHANGED <<starting, open>>
    BY <1>1 DEF Start
  <2>2. MarkedConnects => MarkedConnects'
    BY <2>1, OutcomeStep, QuietStep
  <2> QED BY <2>1, <2>2, OutcomeStep DEF McpTypeOK, NotBoth, Registered
<1>2. CASE ~(Registered(n) \/ n \in starting)
  <2> DEFINE c == CHOOSE c \in Client : Unused(c)
             x == [pc |-> "connect", name |-> n, client |-> c, kind |-> kind]
  <2>1. /\ \E d \in Client : Unused(d)
        /\ starting' = starting \cup {n} /\ open' = open \cup {c}
        /\ request' = [request EXCEPT ![w] = x]
    BY <1>2 DEF Start
  <2>2. c \in Client
    BY <2>1
  <2> HIDE DEF c
  <2>3. x \in McpTask /\ x.pc = "connect" /\ x.name = n
    BY <2>2 DEF McpTask, Connecting
  <2> HIDE DEF x
  <2>4. /\ request' \in [Worker -> McpTask] /\ request'[w] = x
        /\ \A v \in Worker : v # w => request'[v] = request[v]
    BY <2>1, <2>3 DEF McpTypeOK
  <2>5. ASSUME NEW v \in Worker, NEW m \in Server
        PROVE  Connects(v, m)' <=> Connects(v, m) \/ (v = w /\ m = n)
    BY <2>3, <2>4 DEF Connects, Is
  <2>6. ASSUME MarkedConnects PROVE MarkedConnects'
    <3> SUFFICES ASSUME NEW m \in Server \ forgotten
                 PROVE  /\ m \in starting' <=> \E v \in Worker : Connects(v, m)'
                        /\ \A u, v \in Worker : Connects(u, m)' /\ Connects(v, m)' => u = v
      BY DEF MarkedConnects
    <3>1. /\ m \in starting <=> \E v \in Worker : Connects(v, m)
          /\ \A u, v \in Worker : Connects(u, m) /\ Connects(v, m) => u = v
      BY <2>6 DEF MarkedConnects
    <3> QED BY <1>2, <2>1, <2>5, <3>1
  <2>7. NotBoth => NotBoth'
    BY <1>2, <2>1 DEF NotBoth, Registered
  <2> QED BY <2>1, <2>2, <2>4, <2>6, <2>7 DEF McpTypeOK
<1> QED BY <1>1, <1>2

LEMMA GoOnStep ==
  ASSUME McpTypeOK, NEW w \in Worker, ~Is(w, "connect"), NEW next \in Server \cup {NoServer},
         GoOnTo(w, next), UNCHANGED <<runtime, forgotten>>
  PROVE  /\ request' \in [Worker -> McpTask] /\ starting' \subseteq Server /\ open' \subseteq Client
         /\ MarkedConnects => MarkedConnects'
         /\ NotBoth => NotBoth'
<1>1. CASE next = NoServer
  <2>1. Finish(w) /\ UNCHANGED <<starting, open>>
    BY <1>1 DEF GoOnTo
  <2>2. MarkedConnects => MarkedConnects'
    BY <2>1, FinishStep, QuietStep
  <2> QED BY <2>1, <2>2, FinishStep DEF McpTypeOK, NotBoth, Registered
<1>2. CASE next # NoServer
  <2>1. Start(w, next, "update") /\ next \in Server /\ "update" \in Kind
    BY <1>2 DEF GoOnTo, Kind
  <2> QED BY <2>1, StartStep
<1> QED BY <1>1, <1>2

\* Stopping a server: the task that looks after it is told, and keeps its name.
LEMMA StopStep ==
  ASSUME McpTypeOK, NEW w \in Worker, ~Is(w, "connect"), NEW n \in Server,
         NEW next \in Server \cup {NoServer}, Stop(w, n, next), UNCHANGED <<runtime, forgotten>>
  PROVE  /\ request' \in [Worker -> McpTask] /\ starting' \subseteq Server /\ open' \subseteq Client
         /\ life' \in [Client -> LifeCycle]
         /\ MarkedConnects => MarkedConnects'
         /\ NotBoth => NotBoth'
         /\ OwnRuntime => OwnRuntime'
<1> DEFINE c == runtime[n]
<1>1. CASE ~Registered(n) \/ life[c].at = "done"
  <2>1. GoOnTo(w, next) /\ UNCHANGED life
    BY <1>1 DEF Stop
  <2>2. OwnRuntime => OwnRuntime'
    BY <2>1 DEF OwnRuntime, Alive
  <2> QED BY <2>1, <2>2, GoOnStep DEF McpTypeOK
<1>2. CASE ~(~Registered(n) \/ life[c].at = "done")
  <2> DEFINE y == IF life[c].at = "waiting" THEN [life[c] EXCEPT !.at = "told"] ELSE life[c]
             x == [pc |-> "stop", name |-> n, client |-> c, next |-> next]
  <2>1. /\ life' = [life EXCEPT ![c] = y] /\ request' = [request EXCEPT ![w] = x]
        /\ UNCHANGED <<starting, open>>
    BY <1>2 DEF Stop
  <2>2. c \in Client
    BY <1>2 DEF Registered, McpTypeOK
  <2>3. y \in LifeCycle /\ (y.at \in {"waiting", "told", "closing"} <=> Alive(c))
        /\ (Alive(c) => y.name = life[c].name)
    <3>1. CASE life[c].at = "waiting"
      <4>1. life[c] \in [at : {"waiting", "told"}, name : Server]
        BY <2>2, <3>1, LifeFacts
      <4>2. /\ [life[c] EXCEPT !.at = "told"] \in [at : {"waiting", "told"}, name : Server]
            /\ [life[c] EXCEPT !.at = "told"].name = life[c].name
            /\ [life[c] EXCEPT !.at = "told"].at = "told"
        BY <4>1
      <4> QED BY <3>1, <4>2 DEF LifeCycle, Alive
    <3>2. CASE life[c].at # "waiting"
      BY <2>2, <3>2, LifeFacts DEF Alive
    <3> QED BY <3>1, <3>2
  <2>4. x \in McpTask /\ x.pc = "stop"
    BY <2>2 DEF McpTask, Stopping
  <2> HIDE DEF c, x, y
  <2>5. /\ request' \in [Worker -> McpTask] /\ request'[w].pc = "stop"
        /\ \A v \in Worker : v # w => request'[v] = request[v]
    BY <2>1, <2>4 DEF McpTypeOK
  <2>6. MarkedConnects => MarkedConnects'
    BY <2>1, <2>5, QuietStep
  <2>7. /\ life' \in [Client -> LifeCycle] /\ life'[c] = y
        /\ \A d \in Client : d # c => life'[d] = life[d]
    BY <2>1, <2>2, <2>3 DEF McpTypeOK
  <2>8. \A d \in Client : Alive(d)' => Alive(d) /\ life'[d].name = life[d].name
    BY <2>3, <2>7 DEF Alive
  <2>9. OwnRuntime => OwnRuntime'
    BY <2>8 DEF OwnRuntime
  <2> QED BY <2>1, <2>5, <2>6, <2>7, <2>9 DEF McpTypeOK, NotBoth, Registered
<1> QED BY <1>1, <1>2

LEMMA Workers == \A w \in Admin \cup Server : w \in Worker
  BY DEF Worker

\* One more request about names that exist, of a worker that was idle.
LEMMA AskStep ==
  ASSUME McpTypeOK, NEW w \in Admin, NEW names \in SUBSET Server, Ask(w, names)
  PROVE  ~Is(w, "connect") /\ asked' \in 0..MaxRequests /\ troubled' \subseteq Server
<1>1. asked' \in 0..MaxRequests
  BY McpAssumption DEF Ask, McpTypeOK
<1>2. troubled' \subseteq Server
  BY DEF Ask, McpTypeOK
<1> QED BY <1>1, <1>2 DEF Ask, Is

-------------------------------------------------------------------------------
(* Types are kept.                                                         *)

LEMMA TypeInit == McpInit => McpTypeOK
<1> SUFFICES ASSUME McpInit PROVE McpTypeOK
  OBVIOUS
<1>1. request \in [Worker -> McpTask]
  BY DEF McpInit, McpTask
<1>2. life \in [Client -> LifeCycle]
  BY DEF McpInit, LifeCycle
<1>3. asked \in 0..MaxRequests
  BY McpAssumption DEF McpInit
<1> QED BY <1>1, <1>2, <1>3 DEF McpInit, McpTypeOK

LEMMA TypeStep == McpTypeOK /\ [McpNext]_mcpVars => McpTypeOK'
<1> SUFFICES ASSUME McpTypeOK, [McpNext]_mcpVars PROVE McpTypeOK'
  OBVIOUS
<1>1. ASSUME NEW w \in Worker, Connected(w) PROVE McpTypeOK'
  <2>1. request[w].name \in Server /\ request[w].client \in Client
    BY <1>1, TaskFacts DEF Connected
  <2>2. request' \in [Worker -> McpTask]
    BY <1>1, OutcomeStep DEF Connected
  <2>3. life' \in [Client -> LifeCycle]
    <3>1. [at |-> "waiting", name |-> request[w].name] \in LifeCycle
      BY <2>1 DEF LifeCycle
    <3> QED BY <1>1, <3>1 DEF Connected, McpTypeOK
  <2> QED BY <1>1, <2>1, <2>2, <2>3 DEF McpTypeOK, Connected, mcpHistory
<1>2. ASSUME NEW w \in Worker, ConnectFails(w) PROVE McpTypeOK'
  <2>1. request[w].name \in Server /\ request[w].client \in Client
    BY <1>2, TaskFacts DEF ConnectFails
  <2>2. request' \in [Worker -> McpTask]
    BY <1>2, OutcomeStep DEF ConnectFails
  <2> QED BY <1>2, <2>1, <2>2 DEF McpTypeOK, ConnectFails, mcpHistory
<1>3. ASSUME NEW w \in Worker, TestFails(w) PROVE McpTypeOK'
  BY <1>3, FinishStep DEF McpTypeOK, TestFails, mcpHistory
<1>4. ASSUME NEW w \in Worker, TestPasses(w) PROVE McpTypeOK'
  <2>1. /\ request[w].name \in Server /\ request[w].active \in {"active", "inactive"}
        /\ request[w].seen \in [Server -> {"absent", "active", "inactive"}]
        /\ ~Is(w, "connect") /\ "add" \in Kind
    BY <1>4, TaskFacts DEF TestPasses, Is, Kind
  <2>2. /\ request' \in [Worker -> McpTask] /\ starting' \subseteq Server
        /\ open' \subseteq Client
    BY <1>4, <2>1, StartStep DEF TestPasses
  <2>3. /\ file' \in [Server -> {"absent", "active", "inactive"}]
        /\ troubled' \subseteq Server /\ parted' \subseteq Server
    BY <1>4, <2>1 DEF TestPasses, PartedBy, McpTypeOK
  <2> QED BY <1>4, <2>2, <2>3 DEF McpTypeOK, TestPasses
<1>5. ASSUME NEW w \in Worker, Stopped(w) PROVE McpTypeOK'
  <2>1. request[w].next \in Server \cup {NoServer} /\ ~Is(w, "connect")
    BY <1>5, TaskFacts DEF Stopped, Is
  <2>2. /\ request' \in [Worker -> McpTask] /\ starting' \subseteq Server
        /\ open' \subseteq Client
    BY <1>5, <2>1, GoOnStep DEF Stopped, mcpHistory
  <2> QED BY <1>5, <2>2 DEF McpTypeOK, Stopped, mcpHistory
<1>6. ASSUME NEW w \in Worker, StopTimesOut(w) PROVE McpTypeOK'
  <2>1. /\ request[w].name \in Server /\ request[w].client \in Client
        /\ request[w].next \in Server \cup {NoServer}
    BY <1>6, TaskFacts DEF StopTimesOut
  <2>2. [at |-> "done"] \in LifeCycle
    BY DEF LifeCycle
  <2>3. life' \in [Client -> LifeCycle] /\ troubled' \subseteq Server /\ open' \subseteq Client
    BY <1>6, <2>1, <2>2 DEF StopTimesOut, McpTypeOK
  <2> QED BY <1>6, <2>3, FinishStep DEF McpTypeOK, StopTimesOut
<1>7. ASSUME NEW w \in Admin, NEW n \in Server, NEW active \in {"active", "inactive"}, Add(w, n, active) PROVE McpTypeOK'
  <2>1. asked' \in 0..MaxRequests /\ troubled' \subseteq Server
    BY <1>7, AskStep DEF Add
  <2>2. [pc |-> "test", name |-> n, active |-> active, seen |-> file] \in McpTask
    BY DEF McpTypeOK, McpTask, Testing
  <2>3. request' \in [Worker -> McpTask]
    BY <1>7, <2>2 DEF Add, McpTypeOK
  <2> QED BY <1>7, <2>1, <2>3 DEF McpTypeOK, Add
<1>8. ASSUME NEW w \in Admin, NEW old \in Server, NEW n \in Server, NEW flag \in {"active", "inactive"}, NEW active \in {"active", "inactive"}, Update(w, old, n, flag, active) PROVE McpTypeOK'
  <2>1. ~Is(w, "connect") /\ asked' \in 0..MaxRequests /\ troubled' \subseteq Server
    BY <1>8, AskStep DEF Update
  <2>2. /\ request' \in [Worker -> McpTask] /\ starting' \subseteq Server
        /\ open' \subseteq Client /\ life' \in [Client -> LifeCycle]
    BY <1>8, <2>1, Workers, StopStep DEF Update
  <2>3. file' \in [Server -> {"absent", "active", "inactive"}] /\ parted' \subseteq Server
    BY <1>8 DEF Update, PartedBy, McpTypeOK
  <2> QED BY <1>8, <2>1, <2>2, <2>3 DEF McpTypeOK, Update
<1>9. ASSUME NEW w \in Admin, NEW n \in Server, Delete(w, n) PROVE McpTypeOK'
  <2>1. ~Is(w, "connect") /\ asked' \in 0..MaxRequests /\ troubled' \subseteq Server
    BY <1>9, AskStep DEF Delete
  <2>2. /\ request' \in [Worker -> McpTask] /\ starting' \subseteq Server
        /\ open' \subseteq Client /\ life' \in [Client -> LifeCycle]
    BY <1>9, <2>1, Workers, StopStep DEF Delete
  <2>3. file' \in [Server -> {"absent", "active", "inactive"}]
    BY <1>9 DEF Delete, McpTypeOK
  <2> QED BY <1>9, <2>1, <2>2, <2>3 DEF McpTypeOK, Delete
<1>10. ASSUME NEW w \in Admin, NEW n \in Server, Sync(w, n) PROVE McpTypeOK'
  <2>1. ~Is(w, "connect") /\ asked' \in 0..MaxRequests /\ troubled' \subseteq Server
    BY <1>10, AskStep DEF Sync
  <2>2. /\ request' \in [Worker -> McpTask] /\ starting' \subseteq Server
        /\ open' \subseteq Client
    BY <1>10, <2>1, Workers, StartStep DEF Sync, Kind
  <2>3. file' \in [Server -> {"absent", "active", "inactive"}]
    BY <1>10 DEF Sync, McpTypeOK
  <2> QED BY <1>10, <2>1, <2>2, <2>3 DEF McpTypeOK, Sync
<1>11. ASSUME NEW c \in Client, Terminate(c) PROVE McpTypeOK'
  <2>1. life[c].name \in Server
    BY <1>11, LifeFacts DEF Terminate, Alive
  <2>2. [at |-> "done"] \in LifeCycle
    BY DEF LifeCycle
  <2>3. Registered(life[c].name) =>
          [at |-> "closing", name |-> life[c].name, closes |-> runtime[life[c].name]] \in LifeCycle
    BY <2>1 DEF LifeCycle, Registered, McpTypeOK
  <2>4. life' \in [Client -> LifeCycle]
    BY <1>11, <2>2, <2>3 DEF Terminate, McpTypeOK
  <2>5. listed' \in [Server -> Client \cup {NoClient}] /\ starting' \subseteq Server
    BY <1>11 DEF Terminate, McpTypeOK
  <2> QED BY <1>11, <2>4, <2>5 DEF McpTypeOK, Terminate, mcpHistory
<1>12. ASSUME NEW c \in Client, Closed(c) PROVE McpTypeOK'
  <2>1. [at |-> "done"] \in LifeCycle
    BY DEF LifeCycle
  <2>2. life' \in [Client -> LifeCycle]
    BY <1>12, <2>1 DEF Closed, McpTypeOK
  <2> QED BY <1>12, <2>2 DEF McpTypeOK, Closed, mcpHistory
<1>13. ASSUME NEW n \in Server, BeginStartup(n) PROVE McpTypeOK'
  <2>1. ~Is(n, "connect") /\ "boot" \in Kind /\ n \in Worker
    BY <1>13, Workers DEF BeginStartup, Is, Kind
  <2>2. /\ request' \in [Worker -> McpTask] /\ starting' \subseteq Server
        /\ open' \subseteq Client
    BY <1>13, <2>1, StartStep DEF BeginStartup, mcpHistory
  <2> QED BY <1>13, <2>2 DEF McpTypeOK, BeginStartup, mcpHistory
<1>14. CASE EndStartup
  <2>1. Idle \in McpTask
    BY DEF McpTask
  <2>2. request' \in [Worker -> McpTask]
    BY <1>14, <2>1 DEF EndStartup, McpTypeOK
  <2>3. runtime' \in [Server -> Client \cup {NoClient}] /\ forgotten' \subseteq Server
    BY <1>14, McpAssumption DEF EndStartup, McpTypeOK
  <2> QED BY <1>14, <2>2, <2>3 DEF McpTypeOK, EndStartup
<1>15. CASE UNCHANGED mcpVars
  BY <1>15 DEF McpTypeOK, mcpVars
<1> QED
  BY <1>1, <1>2, <1>3, <1>4, <1>5, <1>6, <1>7, <1>8, <1>9, <1>10, <1>11, <1>12,
      <1>13, <1>14, <1>15 DEF McpNext, Work, Request, LifeStep, StartupStep

-------------------------------------------------------------------------------
(* The invariant holds at first, and every action keeps it.                *)

LEMMA McpInitially == McpInit => McpInv
<1> SUFFICES ASSUME McpInit PROVE McpInv
  OBVIOUS
<1>1. MarkedConnects
  BY DEF McpInit, MarkedConnects, Connects, Is, Idle
<1>2. OwnRuntime
  BY DEF McpInit, OwnRuntime, Alive
<1> QED BY <1>1, <1>2, TypeInit DEF McpInit, McpInv, ListedIsRegistered, NotBoth

LEMMA ConnectedKeeps ==
  ASSUME McpInv, McpTypeOK', NEW w \in Worker, Connected(w)
  PROVE  McpInv'
<1>1. ListedIsRegistered'
  BY TaskFacts DEF McpInv, ListedIsRegistered, Connected, mcpHistory, McpTypeOK
<1>2. MarkedConnects'
  <2> DEFINE n == request[w].name
             c == request[w].client
  <2>1. n \in Server /\ c \in Client /\ Connects(w, n)
    BY TaskFacts DEF McpInv, Connected, Connects
  <2>2. /\ request'[w].pc \in {"idle", "up"}
        /\ \A v \in Worker : v # w => request'[v] = request[v]
    BY OutcomeStep DEF McpInv, Connected
  <2>3. /\ runtime' = [runtime EXCEPT ![n] = c] /\ starting' = starting \ {n}
        /\ life' = [life EXCEPT ![c] = [at |-> "waiting", name |-> n]]
        /\ forgotten' = forgotten
    BY DEF Connected, mcpHistory
  <2>4. n \notin forgotten => n \in starting /\ ~Registered(n)
    BY <2>1 DEF McpInv, MarkedConnects, NotBoth
  <2>5. \A v \in Worker, m \in Server : Connects(v, m)' <=> v # w /\ Connects(v, m)
    BY <2>2 DEF Connects, Is
  <2>6. \A m \in Server : Connects(w, m) => m = n
    BY DEF Connects
  <2> QED BY <2>1, <2>3, <2>5, <2>6 DEF McpInv, MarkedConnects
<1>3. NotBoth'
  <2> DEFINE n == request[w].name
             c == request[w].client
  <2>1. n \in Server /\ c \in Client /\ Connects(w, n)
    BY TaskFacts DEF McpInv, Connected, Connects
  <2>2. /\ request'[w].pc \in {"idle", "up"}
        /\ \A v \in Worker : v # w => request'[v] = request[v]
    BY OutcomeStep DEF McpInv, Connected
  <2>3. /\ runtime' = [runtime EXCEPT ![n] = c] /\ starting' = starting \ {n}
        /\ life' = [life EXCEPT ![c] = [at |-> "waiting", name |-> n]]
        /\ forgotten' = forgotten
    BY DEF Connected, mcpHistory
  <2>4. n \notin forgotten => n \in starting /\ ~Registered(n)
    BY <2>1 DEF McpInv, MarkedConnects, NotBoth
  <2> QED BY <2>1, <2>3 DEF McpInv, NotBoth, Registered, McpTypeOK
<1>4. OwnRuntime'
  <2> DEFINE n == request[w].name
             c == request[w].client
  <2>1. n \in Server /\ c \in Client /\ Connects(w, n)
    BY TaskFacts DEF McpInv, Connected, Connects
  <2>2. /\ request'[w].pc \in {"idle", "up"}
        /\ \A v \in Worker : v # w => request'[v] = request[v]
    BY OutcomeStep DEF McpInv, Connected
  <2>3. /\ runtime' = [runtime EXCEPT ![n] = c] /\ starting' = starting \ {n}
        /\ life' = [life EXCEPT ![c] = [at |-> "waiting", name |-> n]]
        /\ forgotten' = forgotten
    BY DEF Connected, mcpHistory
  <2>4. n \notin forgotten => n \in starting /\ ~Registered(n)
    BY <2>1 DEF McpInv, MarkedConnects, NotBoth
  <2> HIDE DEF n, c
  <2>5. /\ life'[c].name = n /\ runtime'[n] = c
        /\ \A d \in Client : d # c => life'[d] = life[d]
        /\ \A m \in Server : m # n => runtime'[m] = runtime[m]
    BY <2>1, <2>3 DEF McpInv, McpTypeOK
  <2> SUFFICES ASSUME NEW d \in Client, Alive(d)', life'[d].name \notin forgotten
               PROVE  runtime'[life'[d].name] = d
    BY <2>3 DEF OwnRuntime
  <2>6. CASE d = c
    BY <2>5, <2>6
  <2>7. CASE d # c
    <3>1. Alive(d) /\ life'[d] = life[d] /\ life[d].name \in Server
      BY <2>5, <2>7, LifeFacts DEF McpInv, Alive
    <3>2. runtime[life[d].name] = d /\ d # NoClient
      BY <3>1, McpAssumption DEF McpInv, OwnRuntime
    <3>3. life[d].name # n
      BY <2>4, <3>1, <3>2 DEF Registered
    <3> QED BY <2>5, <3>1, <3>2, <3>3
  <2> QED BY <2>6, <2>7
<1> QED BY <1>1, <1>2, <1>3, <1>4 DEF McpInv

LEMMA ConnectFailsKeeps ==
  ASSUME McpInv, McpTypeOK', NEW w \in Worker, ConnectFails(w)
  PROVE  McpInv'
<1>1. ListedIsRegistered' /\ OwnRuntime'
  BY DEF McpInv, ListedIsRegistered, OwnRuntime, ConnectFails, Alive, Outcome
<1>2. MarkedConnects'
  <2> DEFINE n == request[w].name
  <2>1. n \in Server /\ Connects(w, n)
    BY TaskFacts DEF McpInv, ConnectFails, Connects
  <2>2. /\ request'[w].pc \in {"idle", "failed"}
        /\ \A v \in Worker : v # w => request'[v] = request[v]
    BY OutcomeStep DEF McpInv, ConnectFails
  <2>3. starting' = starting \ {n} /\ forgotten' = forgotten
    BY DEF ConnectFails
  <2>4. \A v \in Worker, m \in Server : Connects(v, m)' <=> v # w /\ Connects(v, m)
    BY <2>2 DEF Connects, Is
  <2>5. \A m \in Server : Connects(w, m) => m = n
    BY DEF Connects
  <2> QED BY <2>1, <2>3, <2>4, <2>5 DEF McpInv, MarkedConnects
<1>3. NotBoth'
  BY DEF McpInv, NotBoth, Registered, ConnectFails
<1> QED BY <1>1, <1>2, <1>3 DEF McpInv

LEMMA TestFailsKeeps ==
  ASSUME McpInv, McpTypeOK', NEW w \in Worker, TestFails(w)
  PROVE  McpInv'
<1>1. ListedIsRegistered' /\ NotBoth' /\ OwnRuntime'
  BY DEF McpInv, ListedIsRegistered, NotBoth, OwnRuntime, TestFails, Registered,
      Alive, Finish, mcpHistory
<1>2. MarkedConnects'
  BY FinishStep, QuietStep DEF McpInv, TestFails, Is, mcpHistory
<1> QED BY <1>1, <1>2 DEF McpInv

LEMMA TestPassesKeeps ==
  ASSUME McpInv, McpTypeOK', NEW w \in Worker, TestPasses(w)
  PROVE  McpInv'
<1>1. ListedIsRegistered' /\ OwnRuntime'
  BY DEF McpInv, ListedIsRegistered, OwnRuntime, TestPasses, Alive, Start, Outcome
<1>2. MarkedConnects'
  <2>1. request[w].name \in Server /\ ~Is(w, "connect") /\ "add" \in Kind
    BY TaskFacts DEF McpInv, TestPasses, Is, Kind
  <2> QED BY <2>1, StartStep DEF McpInv, TestPasses
<1>3. NotBoth'
  <2>1. request[w].name \in Server /\ ~Is(w, "connect") /\ "add" \in Kind
    BY TaskFacts DEF McpInv, TestPasses, Is, Kind
  <2> QED BY <2>1, StartStep DEF McpInv, TestPasses
<1> QED BY <1>1, <1>2, <1>3 DEF McpInv

LEMMA StoppedKeeps ==
  ASSUME McpInv, McpTypeOK', NEW w \in Worker, Stopped(w)
  PROVE  McpInv'
<1>1. ListedIsRegistered' /\ OwnRuntime'
  BY DEF McpInv, ListedIsRegistered, OwnRuntime, Stopped, Alive, GoOnTo, Finish,
      Start, Outcome, mcpHistory
<1>2. MarkedConnects'
  <2>1. request[w].next \in Server \cup {NoServer} /\ ~Is(w, "connect")
    BY TaskFacts DEF McpInv, Stopped, Is
  <2> QED BY <2>1, GoOnStep DEF McpInv, Stopped, mcpHistory
<1>3. NotBoth'
  <2>1. request[w].next \in Server \cup {NoServer} /\ ~Is(w, "connect")
    BY TaskFacts DEF McpInv, Stopped, Is
  <2> QED BY <2>1, GoOnStep DEF McpInv, Stopped, mcpHistory
<1> QED BY <1>1, <1>2, <1>3 DEF McpInv

LEMMA StopTimesOutKeeps ==
  ASSUME McpInv, McpTypeOK', NEW w \in Worker, StopTimesOut(w)
  PROVE  McpInv'
<1>1. ListedIsRegistered' /\ NotBoth'
  BY DEF McpInv, ListedIsRegistered, NotBoth, StopTimesOut, Registered, Finish
<1>2. MarkedConnects'
  BY FinishStep, QuietStep DEF McpInv, StopTimesOut, Is
<1>3. OwnRuntime'
  <2>1. \A d \in Client : Alive(d)' => life'[d] = life[d] /\ Alive(d)
    BY TaskFacts DEF McpInv, StopTimesOut, Alive, McpTypeOK
  <2> QED BY <2>1 DEF McpInv, OwnRuntime, StopTimesOut
<1> QED BY <1>1, <1>2, <1>3 DEF McpInv

LEMMA AddKeeps ==
  ASSUME McpInv, McpTypeOK', NEW w \in Admin, NEW n \in Server, NEW active \in {"active", "inactive"}, Add(w, n, active)
  PROVE  McpInv'
<1>1. ListedIsRegistered' /\ NotBoth' /\ OwnRuntime'
  BY DEF McpInv, ListedIsRegistered, NotBoth, OwnRuntime, Add, Registered, Alive,
      Ask
<1>2. MarkedConnects'
  <2>1. ~Is(w, "connect") /\ w \in Worker
    BY AskStep, Workers DEF McpInv, Add
  <2>2. /\ request'[w].pc = "test" /\ \A v \in Worker : v # w => request'[v] = request[v]
        /\ UNCHANGED <<starting, forgotten>>
    BY <2>1 DEF McpInv, Add, McpTypeOK
  <2> QED BY <2>1, <2>2, QuietStep DEF McpInv
<1> QED BY <1>1, <1>2 DEF McpInv

LEMMA UpdateKeeps ==
  ASSUME McpInv, McpTypeOK', NEW w \in Admin, NEW old \in Server, NEW n \in Server, NEW flag \in {"active", "inactive"}, NEW active \in {"active", "inactive"}, Update(w, old, n, flag, active)
  PROVE  McpInv'
<1>1. ListedIsRegistered'
  BY DEF McpInv, ListedIsRegistered, Update, Ask, Stop, GoOnTo, Finish, Start,
      Outcome
<1>2. MarkedConnects'
  <2>1. ~Is(w, "connect")
    BY AskStep DEF McpInv, Update
  <2> QED BY <2>1, Workers, StopStep DEF McpInv, Update
<1>3. NotBoth'
  <2>1. ~Is(w, "connect")
    BY AskStep DEF McpInv, Update
  <2> QED BY <2>1, Workers, StopStep DEF McpInv, Update
<1>4. OwnRuntime'
  <2>1. ~Is(w, "connect")
    BY AskStep DEF McpInv, Update
  <2> QED BY <2>1, Workers, StopStep DEF McpInv, Update
<1> QED BY <1>1, <1>2, <1>3, <1>4 DEF McpInv

LEMMA DeleteKeeps ==
  ASSUME McpInv, McpTypeOK', NEW w \in Admin, NEW n \in Server, Delete(w, n)
  PROVE  McpInv'
<1>1. ListedIsRegistered'
  BY DEF McpInv, ListedIsRegistered, Delete, Ask, Stop, GoOnTo, Finish, Start,
      Outcome
<1>2. MarkedConnects'
  <2>1. ~Is(w, "connect")
    BY AskStep DEF McpInv, Delete
  <2> QED BY <2>1, Workers, StopStep DEF McpInv, Delete
<1>3. NotBoth'
  <2>1. ~Is(w, "connect")
    BY AskStep DEF McpInv, Delete
  <2> QED BY <2>1, Workers, StopStep DEF McpInv, Delete
<1>4. OwnRuntime'
  <2>1. ~Is(w, "connect")
    BY AskStep DEF McpInv, Delete
  <2> QED BY <2>1, Workers, StopStep DEF McpInv, Delete
<1> QED BY <1>1, <1>2, <1>3, <1>4 DEF McpInv

LEMMA SyncKeeps ==
  ASSUME McpInv, McpTypeOK', NEW w \in Admin, NEW n \in Server, Sync(w, n)
  PROVE  McpInv'
<1>1. ListedIsRegistered' /\ OwnRuntime'
  BY DEF McpInv, ListedIsRegistered, OwnRuntime, Sync, Alive, Ask, Start, Outcome
<1>2. MarkedConnects'
  <2>1. ~Is(w, "connect") /\ "update" \in Kind
    BY AskStep DEF McpInv, Sync, Kind
  <2> QED BY <2>1, Workers, StartStep DEF McpInv, Sync
<1>3. NotBoth'
  <2>1. ~Is(w, "connect") /\ "update" \in Kind
    BY AskStep DEF McpInv, Sync, Kind
  <2> QED BY <2>1, Workers, StartStep DEF McpInv, Sync
<1> QED BY <1>1, <1>2, <1>3 DEF McpInv

LEMMA TerminateKeeps ==
  ASSUME McpInv, McpTypeOK', NEW c \in Client, Terminate(c)
  PROVE  McpInv'
<1>1. ListedIsRegistered'
  <2>1. life[c].name \in Server /\ Alive(c) /\ c # NoClient
    BY LifeFacts, McpAssumption DEF McpInv, Terminate, Alive
  <2>2. life[c].name \notin forgotten =>
          runtime[life[c].name] = c /\ Registered(life[c].name) /\ life[c].name \notin starting
    BY <2>1 DEF McpInv, OwnRuntime, Registered, NotBoth
  <2> QED BY <2>1, <2>2 DEF McpInv, ListedIsRegistered, Terminate, mcpHistory, McpTypeOK
<1>2. MarkedConnects'
  <2>1. life[c].name \in Server /\ Alive(c) /\ c # NoClient
    BY LifeFacts, McpAssumption DEF McpInv, Terminate, Alive
  <2>2. life[c].name \notin forgotten =>
          runtime[life[c].name] = c /\ Registered(life[c].name) /\ life[c].name \notin starting
    BY <2>1 DEF McpInv, OwnRuntime, Registered, NotBoth
  <2>3. \A m \in Server \ forgotten : m \in starting' <=> m \in starting
    BY <2>2 DEF Terminate
  <2>4. \A v \in Worker : \A m : Connects(v, m)' <=> Connects(v, m)
    BY DEF Terminate, Connects, Is
  <2> QED BY <2>3, <2>4 DEF McpInv, MarkedConnects, Terminate, mcpHistory
<1>3. NotBoth'
  BY DEF McpInv, NotBoth, Registered, Terminate, mcpHistory, McpTypeOK
<1>4. OwnRuntime'
  <2>1. life[c].name \in Server /\ Alive(c) /\ c # NoClient
    BY LifeFacts, McpAssumption DEF McpInv, Terminate, Alive
  <2>2. life[c].name \notin forgotten =>
          runtime[life[c].name] = c /\ Registered(life[c].name) /\ life[c].name \notin starting
    BY <2>1 DEF McpInv, OwnRuntime, Registered, NotBoth
  <2>3. \A d \in Client : Alive(d)' => Alive(d) /\ life'[d].name = life[d].name
    BY <2>1 DEF McpInv, Terminate, Alive, McpTypeOK
  <2> QED BY <2>3 DEF McpInv, OwnRuntime, Terminate, mcpHistory
<1> QED BY <1>1, <1>2, <1>3, <1>4 DEF McpInv

LEMMA ClosedKeeps ==
  ASSUME McpInv, McpTypeOK', NEW c \in Client, Closed(c)
  PROVE  McpInv'
<1>1. ListedIsRegistered'
  <2>1. life[c].name \in Server /\ Alive(c) /\ c # NoClient
    BY LifeFacts, McpAssumption DEF McpInv, Closed, Alive
  <2>2. life[c].name \notin forgotten =>
          runtime[life[c].name] = c /\ Registered(life[c].name) /\ life[c].name \notin starting
    BY <2>1 DEF McpInv, OwnRuntime, Registered, NotBoth
  <2> QED BY <2>1, <2>2 DEF McpInv, ListedIsRegistered, Closed, mcpHistory, McpTypeOK
<1>2. MarkedConnects'
  <2>1. life[c].name \in Server /\ Alive(c) /\ c # NoClient
    BY LifeFacts, McpAssumption DEF McpInv, Closed, Alive
  <2>2. life[c].name \notin forgotten =>
          runtime[life[c].name] = c /\ Registered(life[c].name) /\ life[c].name \notin starting
    BY <2>1 DEF McpInv, OwnRuntime, Registered, NotBoth
  <2>3. \A m \in Server \ forgotten : m \in starting' <=> m \in starting
    BY <2>2 DEF Closed
  <2>4. \A v \in Worker : \A m : Connects(v, m)' <=> Connects(v, m)
    BY DEF Closed, Connects, Is
  <2> QED BY <2>3, <2>4 DEF McpInv, MarkedConnects, Closed, mcpHistory
<1>3. NotBoth'
  BY DEF McpInv, NotBoth, Registered, Closed, mcpHistory, McpTypeOK
<1>4. OwnRuntime'
  <2>1. life[c].name \in Server /\ Alive(c) /\ c # NoClient
    BY LifeFacts, McpAssumption DEF McpInv, Closed, Alive
  <2>2. life[c].name \notin forgotten =>
          runtime[life[c].name] = c /\ Registered(life[c].name) /\ life[c].name \notin starting
    BY <2>1 DEF McpInv, OwnRuntime, Registered, NotBoth
  <2>3. \A d \in Client : Alive(d)' => d # c /\ Alive(d) /\ life'[d] = life[d]
    BY <2>1 DEF McpInv, Closed, Alive, McpTypeOK
  <2> SUFFICES ASSUME NEW d \in Client, Alive(d)', life'[d].name \notin forgotten
               PROVE  runtime'[life'[d].name] = d
    BY DEF OwnRuntime, Closed, mcpHistory
  <2>4. runtime[life[d].name] = d /\ life[d].name \in Server /\ d # c
    BY <2>3, LifeFacts DEF McpInv, OwnRuntime
  <2>5. life[d].name # life[c].name
    BY <2>2, <2>3, <2>4
  <2> QED BY <2>3, <2>4, <2>5 DEF McpInv, Closed, McpTypeOK
<1> QED BY <1>1, <1>2, <1>3, <1>4 DEF McpInv

LEMMA BeginStartupKeeps ==
  ASSUME McpInv, McpTypeOK', NEW n \in Server, BeginStartup(n)
  PROVE  McpInv'
<1>1. ListedIsRegistered' /\ OwnRuntime'
  BY DEF McpInv, ListedIsRegistered, OwnRuntime, BeginStartup, Alive, Start,
      Outcome, mcpHistory
<1>2. MarkedConnects'
  <2>1. ~Is(n, "connect") /\ "boot" \in Kind
    BY DEF BeginStartup, Is, Kind
  <2> QED BY <2>1, Workers, StartStep DEF McpInv, BeginStartup, mcpHistory
<1>3. NotBoth'
  <2>1. ~Is(n, "connect") /\ "boot" \in Kind
    BY DEF BeginStartup, Is, Kind
  <2> QED BY <2>1, Workers, StartStep DEF McpInv, BeginStartup, mcpHistory
<1> QED BY <1>1, <1>2, <1>3 DEF McpInv

LEMMA EndStartupKeeps ==
  ASSUME McpInv, McpTypeOK', EndStartup
  PROVE  McpInv'
<1>1. ListedIsRegistered'
  <2>1. \A n \in Server \ forgotten' : runtime'[n] = runtime[n] /\ n \notin forgotten
    <3> SUFFICES ASSUME NEW n \in Server \ forgotten' PROVE runtime'[n] = runtime[n]
      BY DEF EndStartup
    <3>1. CASE n \in Configured /\ Is(n, "failed")
      BY <3>1 DEF EndStartup, Registered
    <3>2. CASE ~(n \in Configured /\ Is(n, "failed"))
      BY <3>2 DEF EndStartup
    <3> QED BY <3>1, <3>2
  <2> QED BY <2>1 DEF McpInv, ListedIsRegistered, EndStartup
<1>2. MarkedConnects'
  <2>1. \A n \in Server \ forgotten' : runtime'[n] = runtime[n] /\ n \notin forgotten
    <3> SUFFICES ASSUME NEW n \in Server \ forgotten' PROVE runtime'[n] = runtime[n]
      BY DEF EndStartup
    <3>1. CASE n \in Configured /\ Is(n, "failed")
      BY <3>1 DEF EndStartup, Registered
    <3>2. CASE ~(n \in Configured /\ Is(n, "failed"))
      BY <3>2 DEF EndStartup
    <3> QED BY <3>1, <3>2
  <2>2. ASSUME NEW v \in Worker PROVE request'[v].pc = "connect" <=> Is(v, "connect")
    BY DEF EndStartup, Is, Idle
  <2>3. \A v \in Worker : Is(v, "connect") => request'[v] = request[v]
    BY DEF EndStartup, Is
  <2>4. \A v \in Worker : \A n : Connects(v, n)' <=> Connects(v, n)
    BY <2>2, <2>3 DEF Connects, Is
  <2> QED BY <2>1, <2>4 DEF McpInv, MarkedConnects, EndStartup
<1>3. NotBoth'
  <2>1. \A n \in Server \ forgotten' : runtime'[n] = runtime[n] /\ n \notin forgotten
    <3> SUFFICES ASSUME NEW n \in Server \ forgotten' PROVE runtime'[n] = runtime[n]
      BY DEF EndStartup
    <3>1. CASE n \in Configured /\ Is(n, "failed")
      BY <3>1 DEF EndStartup, Registered
    <3>2. CASE ~(n \in Configured /\ Is(n, "failed"))
      BY <3>2 DEF EndStartup
    <3> QED BY <3>1, <3>2
  <2> QED BY <2>1 DEF McpInv, NotBoth, Registered, EndStartup
<1>4. OwnRuntime'
  <2>1. \A n \in Server \ forgotten' : runtime'[n] = runtime[n] /\ n \notin forgotten
    <3> SUFFICES ASSUME NEW n \in Server \ forgotten' PROVE runtime'[n] = runtime[n]
      BY DEF EndStartup
    <3>1. CASE n \in Configured /\ Is(n, "failed")
      BY <3>1 DEF EndStartup, Registered
    <3>2. CASE ~(n \in Configured /\ Is(n, "failed"))
      BY <3>2 DEF EndStartup
    <3> QED BY <3>1, <3>2
  <2>2. \A d \in Client : Alive(d)' => Alive(d) /\ life'[d] = life[d] /\ life[d].name \in Server
    BY LifeFacts DEF McpInv, EndStartup, Alive
  <2> QED BY <2>1, <2>2 DEF McpInv, OwnRuntime
<1> QED BY <1>1, <1>2, <1>3, <1>4 DEF McpInv

LEMMA McpKept == McpInv /\ [McpNext]_mcpVars => McpInv'
<1> SUFFICES ASSUME McpInv, [McpNext]_mcpVars PROVE McpInv'
  OBVIOUS
<1>1. McpTypeOK'
  BY TypeStep DEF McpInv
<1>2. CASE UNCHANGED mcpVars
  <2>1. (ListedIsRegistered /\ NotBoth)'
    BY <1>2 DEF McpInv, mcpVars, ListedIsRegistered, NotBoth, Registered
  <2>2. MarkedConnects'
    BY <1>2 DEF McpInv, mcpVars, MarkedConnects, Connects, Is
  <2>3. OwnRuntime'
    BY <1>2 DEF McpInv, mcpVars, OwnRuntime, Alive
  <2> QED BY <1>1, <2>1, <2>2, <2>3 DEF McpInv
<1>3. CASE McpNext
  BY <1>1, <1>3, ConnectedKeeps, ConnectFailsKeeps, TestFailsKeeps,
      TestPassesKeeps, StoppedKeeps, StopTimesOutKeeps, AddKeeps, UpdateKeeps,
      DeleteKeeps, SyncKeeps, TerminateKeeps, ClosedKeeps, BeginStartupKeeps,
      EndStartupKeeps
     DEF McpNext, Work, Request, LifeStep, StartupStep
<1> QED BY <1>2, <1>3

-------------------------------------------------------------------------------
(* The theorems.                                                           *)

LEMMA McpInvariance == McpSpec => []McpInv
  BY McpInitially, McpKept, PTL DEF McpSpec

\* The file, the registries, clients, life-cycle tasks and requests stay of their kind, and
\* every task holds what its step needs.
THEOREM McpTypeCorrect == McpSpec => []McpTypeOK
<1>1. McpInv => McpTypeOK
  BY DEF McpInv
<1> QED BY <1>1, McpInvariance, PTL

\* The tools listed under a name are those of the client registered for it, whatever starts,
\* stops, time-outs and requests overlap, but for the names the start-up popped
\* (_init_mcp_client, _terminate_mcp_client, init_mcp_clients).
THEOREM ToolsRegistered == McpSpec => []ListedIsRegistered
<1>1. McpInv => ListedIsRegistered
  BY DEF McpInv
<1> QED BY <1>1, McpInvariance, PTL

\* A name is marked as starting exactly while one task connects for it (_start_mcp_server),
\* with the same exception.
THEOREM StartedOnce == McpSpec => []OneStart
<1>1. ASSUME McpInv PROVE OneStart
  <2> SUFFICES ASSUME NEW n \in Server \ forgotten
               PROVE  Cardinality({ w \in Worker : Is(w, "connect") /\ request[w].name = n })
                        = IF n \in starting THEN 1 ELSE 0
    BY DEF OneStart
  <2> DEFINE S == { w \in Worker : Is(w, "connect") /\ request[w].name = n }
  <2>1. \A w \in Worker : w \in S <=> Connects(w, n)
    BY DEF Connects
  <2>2. CASE n \in starting
    <3>1. PICK w \in Worker : Connects(w, n)
      BY <1>1, <2>2 DEF McpInv, MarkedConnects
    <3>2. S = {w}
      BY <1>1, <2>1, <3>1 DEF McpInv, MarkedConnects
    <3> QED BY <2>2, <3>2, FS_Singleton
  <2>3. CASE n \notin starting
    <3>1. S = {}
      BY <1>1, <2>1, <2>3 DEF McpInv, MarkedConnects
    <3> QED BY <2>3, <3>1, FS_EmptySet
  <2> QED BY <2>2, <2>3
<1> QED BY <1>1, McpInvariance, PTL
-------------------------------------------------------------------------------
(* The file and the registry.                                              *)

\* The tasks of the start-up only ever start the server of their name, while it lasts.
BootTasks ==
  /\ \A n \in Server :
       /\ request[n].pc \in {"idle", "begin", "up", "failed", "connect"}
       /\ request[n].pc # "idle" => startup = "gathering" /\ n \in Configured
       /\ request[n].pc = "idle" => startup = "over" \/ n \notin Configured
       /\ Is(n, "connect") => request[n].name = n /\ request[n].kind = "boot"
       /\ Is(n, "failed") => n \in troubled
  /\ \A w \in Admin :
       /\ request[w].pc \in {"idle", "test", "connect", "stop"}
       /\ Is(w, "connect") => request[w].kind \in {"add", "update"}

\* A client that connects is nobody else's; one that is registered, or waited for, has
\* a life-cycle task of that name or one that has ended.
Holds(w, c) == request[w].pc \in {"connect", "stop"} /\ request[w].client = c
OwnClient ==
  /\ \A w \in Worker : Is(w, "connect") =>
       /\ ~Alive(request[w].client)
       /\ \A n \in Server : runtime[n] # request[w].client
       /\ \A v \in Worker : Holds(v, request[w].client) => v = w
  /\ \A n \in Server : Registered(n) /\ Alive(runtime[n]) => life[runtime[n]].name = n
  /\ \A w \in Worker : Is(w, "stop") /\ Alive(request[w].client) =>
       /\ life[request[w].client].name = request[w].name
       /\ life[request[w].client].at # "waiting"

\* What a worker is doing fits what was asked and what the registry holds of a name of its.
Fits(w, n) ==
  CASE Is(w, "test")    -> ~Wanted(n) /\ ~Registered(n)
    [] Is(w, "begin")   -> Wanted(n) /\ ~Registered(n)
    [] Is(w, "connect") -> Wanted(n)
    [] Is(w, "up")      -> Wanted(n) /\ Registered(n)
    [] Is(w, "stop")    -> /\ Wanted(n) <=> request[w].next = n
                           /\ Registered(n) => /\ request[w].name = n
                                               /\ request[w].client = runtime[n]
    [] OTHER            -> FALSE

\* A registered server runs, and is told to stop only by a worker that waits for it.
Runs(n) ==
  Registered(n) =>
    /\ Alive(runtime[n])
    /\ \/ life[runtime[n]].at = "waiting"
       \/ \E w \in Worker : Is(w, "stop") /\ request[w].name = n

\* Only a name of the file has parted.
PartedInFile(n) == n \in parted => file[n] # "absent"

Agrees(n) ==
  /\ \A v, w \in Worker : n \in NamesOf(v) \cap NamesOf(w) => v = w
  /\ \A w \in Worker : n \in NamesOf(w) => Fits(w, n)
  /\ ~Busy(n) => (Wanted(n) <=> Registered(n))
  /\ Runs(n)
  /\ PartedInFile(n)

FInv ==
  /\ BootTasks /\ OwnClient /\ forgotten \subseteq troubled
  /\ \A n \in Server \ troubled : Agrees(n)

\* The other workers do not move.
Others(w) == startup' = startup /\ \A v \in Worker : v # w => request'[v] = request[v]

LEMMA NameFacts ==
  ASSUME McpTypeOK, BootTasks, NEW w \in Worker
  PROVE  /\ NamesOf(w) \subseteq Server
         /\ Is(w, "test") \/ Is(w, "connect") => NamesOf(w) = {request[w].name}
         /\ Is(w, "stop") => NamesOf(w) = {request[w].name, request[w].next} \ {NoServer}
         /\ Is(w, "test") \/ Is(w, "stop") => w \in Admin
         /\ w \in Server => (NamesOf(w) = IF Is(w, "idle") THEN {} ELSE {w})
<1>1. CASE w \in Server
  BY <1>1 DEF BootTasks, NamesOf, Is
<1>2. CASE w \in Admin /\ w \notin Server
  BY <1>2, TaskFacts DEF BootTasks, NamesOf, Is
<1> QED BY <1>1, <1>2 DEF Worker

LEMMA OtherNames ==
  ASSUME NEW w \in Worker, Others(w)
  PROVE  \A v \in Worker : v # w => NamesOf(v)' = NamesOf(v)
BY DEF Others, NamesOf

LEMMA BootStep ==
  ASSUME BootTasks, NEW w \in Worker, Others(w), troubled \subseteq troubled',
         w \in Server => /\ startup = "gathering" /\ w \in Configured
                         /\ \/ request'[w].pc = "up"
                            \/ request'[w].pc = "failed" /\ w \in troubled'
                            \/ /\ request'[w].pc = "connect"
                               /\ request'[w].name = w /\ request'[w].kind = "boot",
         w \notin Server => /\ request'[w].pc \in {"idle", "test", "connect", "stop"}
                            /\ request'[w].pc = "connect" => request'[w].kind \in {"add", "update"}
  PROVE  BootTasks'
BY McpAssumption DEF BootTasks, Others, Worker, Is

\* A step that neither connects nor waits leaves every client with its owner.
LEMMA OwnClientStep ==
  ASSUME McpTypeOK, OwnClient, NEW w \in Worker, Others(w),
         request'[w].pc \notin {"connect", "stop"}, UNCHANGED runtime,
         \A c \in Client : Alive(c)' =>
           /\ Alive(c) /\ life'[c].name = life[c].name
           /\ life'[c].at = "waiting" => life[c].at = "waiting"
  PROVE  OwnClient'
<1>1. \A v \in Worker : \A c : Holds(v, c)' => Holds(v, c) /\ v # w
  BY DEF Others, Holds
<1>2. \A v \in Worker : (Is(v, "connect") \/ Is(v, "stop"))' =>
        v # w /\ request'[v] = request[v] /\ (Is(v, "connect") \/ Is(v, "stop"))
  BY DEF Others, Is
<1>3. \A v \in Worker : Is(v, "connect") \/ Is(v, "stop") => request[v].client \in Client
  BY TaskFacts
<1>4. \A n \in Server : Registered(n) => runtime[n] \in Client
  BY DEF McpTypeOK, Registered
<1>5. ASSUME NEW v \in Worker, Is(v, "connect")'
      PROVE  /\ ~Alive(request[v].client)'
             /\ \A n \in Server : runtime'[n] # request'[v].client
             /\ \A u \in Worker : Holds(u, request[v].client)' => u = v
  <2> DEFINE c == request[v].client
  <2>1. v # w /\ request'[v] = request[v] /\ Is(v, "connect") /\ c \in Client
    BY <1>2, <1>3, <1>5 DEF Is
  <2>2. ~Alive(c) /\ \A n \in Server : runtime[n] # c
    BY <2>1 DEF OwnClient
  <2>3. \A u \in Worker : Holds(u, c) => u = v
    BY <2>1 DEF OwnClient
  <2>4. ~Alive(c)'
    BY <2>1, <2>2 DEF Alive
  <2> QED BY <1>1, <2>1, <2>2, <2>3, <2>4
<1>6. \A n \in Server : (Registered(n) /\ Alive(runtime[n]))' => life'[runtime'[n]].name = n
  BY <1>4 DEF OwnClient, Registered, Alive
<1>7. ASSUME NEW v \in Worker, Is(v, "stop")', Alive(request[v].client)'
      PROVE  /\ life'[request'[v].client].name = request'[v].name
             /\ life'[request'[v].client].at # "waiting"
  <2>1. request'[v] = request[v] /\ Is(v, "stop") /\ request[v].client \in Client
    BY <1>2, <1>3, <1>7 DEF Is
  <2>2. Alive(request[v].client)
    BY <1>7, <2>1 DEF Alive
  <2> QED BY <1>7, <2>1, <2>2 DEF OwnClient, Alive
<1> QED BY <1>5, <1>6, <1>7 DEF OwnClient

\* What a start leads to.
LEMMA StartCases ==
  ASSUME McpTypeOK, NEW w \in Worker, NEW n \in Server, NEW kind \in Kind, Start(w, n, kind),
         UNCHANGED startup
  PROVE  /\ Others(w)
         /\ \/ /\ Registered(n) \/ n \in starting
               /\ request'[w].pc = IF w \in Server THEN "up" ELSE "idle"
            \/ /\ ~Registered(n) /\ n \notin starting
               /\ \E c \in Client : Unused(c) /\ request'[w] =
                    [pc |-> "connect", name |-> n, client |-> c, kind |-> kind]
<1>1. CASE Registered(n) \/ n \in starting
  BY <1>1 DEF Start, Outcome, Others, McpTypeOK, Idle
<1>2. CASE ~(Registered(n) \/ n \in starting)
  <2> DEFINE c == CHOOSE c \in Client : Unused(c)
  <2>1. /\ \E d \in Client : Unused(d)
        /\ request' = [request EXCEPT ![w] =
             [pc |-> "connect", name |-> n, client |-> c, kind |-> kind]]
    BY <1>2 DEF Start
  <2>2. c \in Client /\ Unused(c)
    BY <2>1
  <2> HIDE DEF c
  <2> QED BY <1>2, <2>1, <2>2 DEF Others, McpTypeOK
<1> QED BY <1>1, <1>2

LEMMA StartOwn ==
  ASSUME McpTypeOK, OwnClient, NEW w \in Worker, NEW n \in Server, NEW kind \in Kind,
         Start(w, n, kind), UNCHANGED <<runtime, life, startup>>
  PROVE  OwnClient'
<1>1. CASE request'[w].pc \in {"idle", "up"}
  <2>1. Others(w)
    BY StartCases
  <2> QED BY <1>1, <2>1, OwnClientStep DEF Alive
<1>2. CASE request'[w].pc \notin {"idle", "up"}
  <2>1. PICK c \in Client : Unused(c) /\ request'[w] =
          [pc |-> "connect", name |-> n, client |-> c, kind |-> kind]
    BY <1>2, StartCases
  <2>2. Others(w)
    BY StartCases
  <2>3. /\ ~Alive(c) /\ \A m \in Server : runtime[m] # c
        /\ \A v \in Worker : ~Holds(v, c)
    BY <2>1 DEF Unused, Alive, Holds
  <2>4. \A v \in Worker : \A d : Holds(v, d)' => (v = w /\ d = c) \/ (v # w /\ Holds(v, d))
    BY <2>1, <2>2 DEF Others, Holds
  <2>5. \A v \in Worker : (Is(v, "connect") \/ Is(v, "stop"))' =>
          \/ v = w /\ Is(w, "connect")' /\ ~Is(w, "stop")' /\ request'[w].client = c
          \/ v # w /\ request'[v] = request[v] /\ Holds(v, request[v].client)
    BY <2>1, <2>2 DEF Others, Is, Holds
  <2>6. ASSUME NEW v \in Worker, Is(v, "connect")'
        PROVE  /\ ~Alive(request[v].client)'
               /\ \A m \in Server : runtime'[m] # request'[v].client
               /\ \A u \in Worker : Holds(u, request[v].client)' => u = v
    <3>1. CASE v = w
      BY <2>3, <2>4, <2>5, <2>6, <3>1 DEF Alive
    <3>2. CASE v # w
      <4>1. request'[v] = request[v] /\ Is(v, "connect")
        BY <2>5, <2>6, <3>2 DEF Is
      <4>2. ~Alive(request[v].client) /\ \A m \in Server : runtime[m] # request[v].client
        BY <4>1 DEF OwnClient
      <4>3. \A u \in Worker : Holds(u, request[v].client) => u = v
        BY <4>1 DEF OwnClient
      <4>4. request[v].client # c
        BY <2>3, <2>5, <2>6, <3>2
      <4> QED BY <2>4, <4>1, <4>2, <4>3, <4>4 DEF Alive
    <3> QED BY <3>1, <3>2
  <2>7. \A m \in Server : (Registered(m) /\ Alive(runtime[m]))' => life'[runtime'[m]].name = m
    BY DEF OwnClient, Registered, Alive
  <2>8. ASSUME NEW v \in Worker, Is(v, "stop")', Alive(request[v].client)'
        PROVE  /\ life'[request'[v].client].name = request'[v].name
               /\ life'[request'[v].client].at # "waiting"
    <3>1. request'[v] = request[v] /\ Is(v, "stop")
      BY <2>5, <2>8 DEF Is
    <3>2. Alive(request[v].client)
      BY <2>8, <3>1 DEF Alive
    <3> QED BY <3>1, <3>2 DEF OwnClient
  <2> QED BY <2>6, <2>7, <2>8 DEF OwnClient
<1> QED BY <1>1, <1>2

-------------------------------------------------------------------------------
(* How a step of one worker bears on a name.                               *)

\* What was asked of a name is as the file and the flags have it.
LEMMA WantedKept ==
  ASSUME NEW n \in Server, Agrees(n), file'[n] = file[n], n \in parted' <=> n \in parted
  PROVE  (Wanted(n)' <=> Wanted(n)) /\ PartedInFile(n)'
BY DEF Agrees, Wanted, PartedInFile

\* The name is not the worker's.
LEMMA Untouched ==
  ASSUME McpTypeOK, BootTasks, NEW n \in Server, Agrees(n), NEW w \in Worker, Others(w),
         n \notin NamesOf(w), n \notin NamesOf(w)', runtime'[n] = runtime[n],
         Wanted(n)' <=> Wanted(n), PartedInFile(n)',
         Registered(n) => life'[runtime[n]] = life[runtime[n]]
  PROVE  Agrees(n)'
<1>1. \A v \in Worker : n \in NamesOf(v)' <=> n \in NamesOf(v)
  BY OtherNames
<1>2. \A v \in Worker : n \in NamesOf(v) => v # w /\ request'[v] = request[v]
  BY DEF Others
<1>3. ASSUME NEW v \in Worker, n \in NamesOf(v) PROVE Fits(v, n)'
  <2>1. Fits(v, n) /\ request'[v] = request[v]
    BY <1>2, <1>3 DEF Agrees
  <2> QED BY <2>1 DEF Fits, Is, Registered
<1>4. Busy(n)' <=> Busy(n)
  BY <1>1 DEF Busy
<1>5. Runs(n)'
  <2>1. \A v \in Worker : Is(v, "stop") /\ request[v].name = n => n \in NamesOf(v)
    BY NameFacts, McpAssumption
  <2> QED BY <1>2, <2>1 DEF Agrees, Runs, Registered, Alive, Is
<1> QED BY <1>1, <1>3, <1>4, <1>5 DEF Agrees, Registered

\* The name may be the worker's, and is nobody else's.
LEMMA Touched ==
  ASSUME NEW n \in Server, NEW w \in Worker, Others(w),
         \A v \in Worker : v # w => n \notin NamesOf(v), Runs(n)', PartedInFile(n)',
         n \in NamesOf(w)' => Fits(w, n)',
         n \notin NamesOf(w)' => (Wanted(n)' <=> Registered(n)')
  PROVE  Agrees(n)'
<1>1. \A v \in Worker : n \in NamesOf(v)' => v = w
  BY OtherNames
<1> QED BY <1>1 DEF Agrees, Busy

\* The worker starts the server.
LEMMA StartAgrees ==
  ASSUME McpInv, McpTypeOK', BootTasks, BootTasks', NEW n \in Server \ forgotten, NEW w \in Worker,
         w \in Server => w = n /\ ~Registered(n), NEW kind \in Kind, ~Is(w, "connect"),
         Start(w, n, kind), \A v \in Worker : v # w => n \notin NamesOf(v),
         Wanted(n)', PartedInFile(n)', Registered(n) => life[runtime[n]].at = "waiting",
         UNCHANGED <<runtime, life, startup>>
  PROVE  Agrees(n)'
<1>0. McpTypeOK /\ Others(w)
  BY StartCases DEF McpInv
<1>1. n \notin starting
  <2>1. ASSUME NEW v \in Worker, Connects(v, n) PROVE FALSE
    <3>1. n \in NamesOf(v) /\ v # w
      BY <1>0, <2>1, NameFacts DEF Connects
    <3> QED BY <3>1
  <2> QED BY <2>1 DEF McpInv, MarkedConnects
<1>2. Runs(n)'
  BY DEF Runs, Registered, Alive
<1>3. CASE Registered(n)
  <2>1. w \notin Server /\ request'[w].pc = "idle"
    BY <1>0, <1>3, StartCases
  <2>2. NamesOf(w)' = {}
    BY <2>1 DEF NamesOf
  <2> QED BY <1>0, <1>2, <1>3, <2>2, Touched DEF Registered
<1>4. CASE ~Registered(n)
  <2>0. PICK c \in Client : request'[w] =
          [pc |-> "connect", name |-> n, client |-> c, kind |-> kind]
    BY <1>0, <1>1, <1>4, StartCases
  <2>1. Is(w, "connect")'
    BY <2>0 DEF Is
  <2>2. Fits(w, n)'
    BY <2>1 DEF Fits, Is
  <2>3. n \in NamesOf(w)'
    <3>1. request'[w].pc = "connect" /\ request'[w].name = n
      BY <2>0
    <3>2. CASE w \in Server
      BY <3>1, <3>2 DEF NamesOf, BootTasks
    <3>3. CASE w \notin Server
      BY <3>1, <3>3 DEF NamesOf
    <3> QED BY <3>2, <3>3
  <2> QED BY <1>0, <1>2, <2>2, <2>3, Touched
<1> QED BY <1>3, <1>4

\* The worker goes on: to the next server, or to nothing.
LEMMA GoOnOwn ==
  ASSUME McpTypeOK, OwnClient, NEW w \in Worker, NEW next \in Server \cup {NoServer},
         GoOnTo(w, next), UNCHANGED <<runtime, life, startup>>
  PROVE  OwnClient' /\ Others(w)
<1>1. CASE next = NoServer
  <2>1. Finish(w)
    BY <1>1 DEF GoOnTo
  <2>2. Others(w) /\ request'[w].pc = "idle"
    BY <2>1, FinishStep DEF Others
  <2> QED BY <2>2, OwnClientStep DEF Alive
<1>2. CASE next # NoServer
  <2>1. Start(w, next, "update") /\ next \in Server /\ "update" \in Kind
    BY <1>2 DEF GoOnTo, Kind
  <2> QED BY <2>1, StartOwn, StartCases
<1> QED BY <1>1, <1>2

LEMMA GoOnTask ==
  ASSUME McpTypeOK, NEW w \in Admin, NEW next \in Server \cup {NoServer}, GoOnTo(w, next),
         UNCHANGED startup
  PROVE  /\ request'[w].pc \in {"idle", "connect"}
         /\ request'[w].pc = "connect" => request'[w].name = next /\ request'[w].kind = "update"
         /\ NamesOf(w)' \subseteq {next} \ {NoServer}
<1>0. w \in Worker /\ w \notin Server
  BY McpAssumption DEF Worker
<1>1. CASE next = NoServer
  <2>1. Finish(w)
    BY <1>1 DEF GoOnTo
  <2>2. request'[w].pc = "idle"
    BY <1>0, <2>1, FinishStep
  <2> QED BY <1>0, <2>2 DEF NamesOf
<1>2. CASE next # NoServer
  <2>1. Start(w, next, "update") /\ next \in Server /\ "update" \in Kind
    BY <1>2 DEF GoOnTo, Kind
  <2>2. CASE request'[w].pc = "idle"
    BY <1>0, <2>2 DEF NamesOf
  <2>3. CASE request'[w].pc # "idle"
    <3>1. PICK c \in Client : request'[w] =
            [pc |-> "connect", name |-> next, client |-> c, kind |-> "update"]
      BY <1>0, <2>1, <2>3, StartCases
    <3>2. /\ request'[w].pc = "connect" /\ request'[w].name = next
          /\ request'[w].kind = "update"
      BY <3>1
    <3> QED BY <1>0, <1>2, <3>2 DEF NamesOf
  <2> QED BY <2>2, <2>3
<1> QED BY <1>1, <1>2

LEMMA GoOnAgrees ==
  ASSUME McpInv, McpTypeOK', BootTasks, BootTasks', NEW n \in Server \ forgotten, NEW w \in Admin,
         NEW next \in Server \cup {NoServer}, ~Is(w, "connect"), GoOnTo(w, next),
         \A v \in Worker : v # w => n \notin NamesOf(v), ~Registered(n),
         Wanted(n)' <=> next = n, PartedInFile(n)', UNCHANGED <<runtime, life, startup>>
  PROVE  Agrees(n)'
<1>0. w \in Worker /\ w \notin Server /\ n # NoServer
  BY McpAssumption DEF Worker
<1>1. CASE next = n
  <2>1. Start(w, next, "update") /\ "update" \in Kind
    BY <1>0, <1>1 DEF GoOnTo, Kind
  <2> QED BY <1>0, <1>1, <2>1, StartAgrees
<1>2. CASE next # n
  <2>1. Others(w)
    <3>1. CASE next = NoServer
      BY <1>0, <3>1, FinishStep DEF McpInv, GoOnTo, Others
    <3>2. CASE next # NoServer
      BY <1>0, <3>2, StartCases DEF McpInv, GoOnTo, Kind
    <3> QED BY <3>1, <3>2
  <2>2. n \notin NamesOf(w)'
    BY <1>2, GoOnTask DEF McpInv
  <2>3. Runs(n)'
    BY DEF Runs, Registered
  <2> QED BY <1>0, <1>2, <2>1, <2>2, <2>3, Touched DEF Registered
<1> QED BY <1>1, <1>2

\* The worker, idle before, stops a server.
LEMMA StopOwn ==
  ASSUME McpTypeOK, OwnClient, NEW w \in Admin, ~Is(w, "connect"), NEW a \in Server,
         NEW next \in Server \cup {NoServer}, Stop(w, a, next), UNCHANGED <<runtime, startup>>
  PROVE  /\ OwnClient' /\ Others(w)
         /\ \A c \in Client : (Alive(c)' <=> Alive(c)) /\ (Alive(c) => life'[c].name = life[c].name)
         /\ \A c \in Client : life'[c] # life[c] => c = runtime[a]
<1>0. w \in Worker
  BY DEF Worker
<1> DEFINE c == runtime[a]
<1>1. CASE ~Registered(a) \/ life[c].at = "done"
  <2>1. GoOnTo(w, next) /\ UNCHANGED life
    BY <1>1 DEF Stop
  <2> QED BY <1>0, <2>1, GoOnOwn DEF Alive
<1>2. CASE ~(~Registered(a) \/ life[c].at = "done")
  <2> DEFINE y == IF life[c].at = "waiting" THEN [life[c] EXCEPT !.at = "told"] ELSE life[c]
             x == [pc |-> "stop", name |-> a, client |-> c, next |-> next]
  <2>1. /\ life' = [life EXCEPT ![c] = y] /\ request' = [request EXCEPT ![w] = x]
    BY <1>2 DEF Stop
  <2>2. c \in Client
    BY <1>2 DEF Registered, McpTypeOK
  <2>3. (y.at \in {"waiting", "told", "closing"} <=> Alive(c))
        /\ (Alive(c) => y.name = life[c].name) /\ y.at # "waiting"
    <3>1. CASE life[c].at = "waiting"
      <4>1. life[c] \in [at : {"waiting", "told"}, name : Server]
        BY <2>2, <3>1, LifeFacts
      <4>2. /\ [life[c] EXCEPT !.at = "told"].name = life[c].name
            /\ [life[c] EXCEPT !.at = "told"].at = "told"
        BY <4>1
      <4> QED BY <3>1, <4>2 DEF Alive
    <3>2. CASE life[c].at # "waiting"
      BY <3>2 DEF Alive
    <3> QED BY <3>1, <3>2
  <2>4. x.pc = "stop" /\ x.name = a /\ x.client = c
    OBVIOUS
  <2> HIDE DEF x, y
  <2>5. Others(w) /\ request'[w] = x
    BY <1>0, <2>1 DEF Others, McpTypeOK
  <2>6. life'[c] = y /\ \A d \in Client : d # c => life'[d] = life[d]
    BY <2>1, <2>2 DEF McpTypeOK
  <2>7. \A d \in Client : (Alive(d)' <=> Alive(d)) /\ (Alive(d) => life'[d].name = life[d].name)
                          /\ (life'[d].at = "waiting" => life[d].at = "waiting")
    BY <2>3, <2>6 DEF Alive
  <2>8. \A v \in Worker : Is(v, "connect") \/ Is(v, "stop") => request[v].client \in Client
    BY TaskFacts
  <2>9. ASSUME NEW v \in Worker, Is(v, "connect")'
        PROVE  /\ ~Alive(request[v].client)'
               /\ \A m \in Server : runtime'[m] # request'[v].client
               /\ \A u \in Worker : Holds(u, request[v].client)' => u = v
    <3> DEFINE d == request[v].client
    <3>1. v # w /\ request'[v] = request[v] /\ Is(v, "connect") /\ d \in Client
      BY <2>4, <2>5, <2>8, <2>9 DEF Is, Others
    <3>2. ~Alive(d) /\ \A m \in Server : runtime[m] # d
      BY <3>1 DEF OwnClient
    <3>3. \A u \in Worker : Holds(u, d) => u = v
      BY <3>1 DEF OwnClient
    <3>4. ~Alive(d)'
      BY <3>1, <3>2, <2>7 DEF Alive
    <3>5. \A u \in Worker : Holds(u, d)' => Holds(u, d) \/ d = c
      BY <2>4, <2>5, <3>1 DEF Others, Holds
    <3> QED BY <3>1, <3>2, <3>3, <3>4, <3>5
  <2>10. \A m \in Server : (Registered(m) /\ Alive(runtime[m]))' => life'[runtime'[m]].name = m
    <3>1. \A m \in Server : Registered(m) => runtime[m] \in Client
      BY DEF McpTypeOK, Registered
    <3>2. ASSUME NEW m \in Server, Registered(m), Alive(runtime[m]) PROVE life[runtime[m]].name = m
      BY <3>2 DEF OwnClient
    <3>3. ASSUME NEW m \in Server, Registered(m)', Alive(runtime[m])' PROVE life'[runtime'[m]].name = m
      <4>1. Registered(m) /\ runtime'[m] = runtime[m]
        BY <3>3 DEF Registered
      <4>2. Alive(runtime[m])
        BY <2>7, <3>1, <3>3, <4>1 DEF Alive
      <4> QED BY <2>7, <3>1, <3>2, <4>1, <4>2
    <3> QED BY <3>3
  <2>11. ASSUME NEW v \in Worker, Is(v, "stop")', Alive(request[v].client)'
         PROVE  /\ life'[request'[v].client].name = request'[v].name
                /\ life'[request'[v].client].at # "waiting"
    <3>1. CASE v = w
      <4>1. request'[v].client = c /\ request'[v].name = a
        BY <2>4, <2>5, <3>1
      <4>2. Alive(c)
        BY <2>2, <2>7, <2>11, <4>1 DEF Alive
      <4>3. life[c].name = a
        BY <1>2, <4>2 DEF OwnClient
      <4> QED BY <2>3, <2>6, <4>1, <4>2, <4>3
    <3>2. CASE v # w
      <4>1. request'[v] = request[v] /\ Is(v, "stop")
        BY <2>5, <2>11, <3>2 DEF Others, Is
      <4>2. request[v].client \in Client
        BY <2>8, <4>1
      <4>3. Alive(request[v].client)
        BY <2>7, <2>11, <4>1, <4>2 DEF Alive
      <4> QED BY <2>7, <4>1, <4>2, <4>3 DEF OwnClient
    <3> QED BY <3>1, <3>2
  <2>12. OwnClient'
    BY <2>9, <2>10, <2>11 DEF OwnClient
  <2> QED BY <2>5, <2>6, <2>7, <2>12
<1> QED BY <1>1, <1>2

LEMMA StopTask ==
  ASSUME McpTypeOK, NEW w \in Admin, NEW a \in Server,
         NEW next \in Server \cup {NoServer}, Stop(w, a, next), UNCHANGED startup
  PROVE  /\ request'[w].pc \in {"idle", "connect", "stop"}
         /\ request'[w].pc = "connect" => request'[w].kind = "update"
         /\ NamesOf(w)' \subseteq {a, next} \ {NoServer}
<1>0. w \in Worker /\ w \notin Server /\ a # NoServer
  BY McpAssumption DEF Worker
<1>1. CASE ~Registered(a) \/ life[runtime[a]].at = "done"
  BY <1>1, GoOnTask DEF Stop
<1>2. CASE ~(~Registered(a) \/ life[runtime[a]].at = "done")
  <2>1. request' = [request EXCEPT ![w] =
            [pc |-> "stop", name |-> a, client |-> runtime[a], next |-> next]]
    BY <1>2 DEF Stop
  <2>2. request'[w].pc = "stop" /\ request'[w].name = a /\ request'[w].next = next
    BY <1>0, <2>1 DEF McpTypeOK
  <2> QED BY <1>0, <2>2 DEF NamesOf
<1> QED BY <1>1, <1>2

\* A name nobody was busy with, after the worker began to stop a server.
LEMMA StopAgrees ==
  ASSUME McpInv, McpTypeOK', BootTasks, BootTasks', OwnClient, NEW n \in Server \ forgotten,
         Agrees(n), ~Busy(n), NEW w \in Admin, Is(w, "idle"), NEW a \in Server,
         NEW next \in Server \cup {NoServer}, Stop(w, a, next), UNCHANGED <<runtime, startup>>,
         n \in {a, next} => /\ Wanted(n)' <=> next = n
                            /\ n # a => ~Registered(n),
         n \notin {a, next} => (Wanted(n)' <=> Wanted(n)), PartedInFile(n)'
  PROVE  Agrees(n)'
<1>0. /\ w \in Worker /\ w \notin Server /\ McpTypeOK /\ ~Is(w, "connect")
      /\ \A v \in Worker : n \notin NamesOf(v)
  BY McpAssumption DEF Worker, McpInv, Busy, Is
<1>1. /\ Others(w)
      /\ \A c \in Client : (Alive(c)' <=> Alive(c)) /\ (Alive(c) => life'[c].name = life[c].name)
      /\ \A c \in Client : life'[c] # life[c] => c = runtime[a]
  BY <1>0, StopOwn
<1>2. CASE n \notin {a, next}
  <2>1. n \notin NamesOf(w)'
    BY <1>0, <1>2, StopTask
  <2>2. ASSUME Registered(n) PROVE life'[runtime[n]] = life[runtime[n]]
    <3>1. Alive(runtime[n]) /\ runtime[n] \in Client
      BY <1>0, <2>2 DEF Agrees, Runs, McpTypeOK, Registered
    <3>2. life[runtime[n]].name = n
      BY <2>2, <3>1 DEF OwnClient
    <3>3. runtime[n] # runtime[a]
      BY <1>2, <2>2, <3>1, <3>2 DEF OwnClient, Registered
    <3> QED BY <1>1, <3>1, <3>3
  <2> QED BY <1>0, <1>1, <1>2, <2>1, <2>2, Untouched
<1>3. CASE n \in {a, next}
  <2>1. CASE ~Registered(a) \/ life[runtime[a]].at = "done"
    <3>1. GoOnTo(w, next) /\ UNCHANGED life
      BY <2>1 DEF Stop
    <3>2. ~Registered(n)
      <4>1. CASE n = a
        BY <2>1, <4>1 DEF Agrees, Runs, Alive
      <4>2. CASE n # a
        BY <1>3, <4>2
      <4> QED BY <4>1, <4>2
    <3> QED BY <1>0, <1>3, <3>1, <3>2, GoOnAgrees
  <2>2. CASE ~(~Registered(a) \/ life[runtime[a]].at = "done")
    <3>1. request' = [request EXCEPT ![w] =
              [pc |-> "stop", name |-> a, client |-> runtime[a], next |-> next]]
      BY <2>2 DEF Stop
    <3>2. /\ request'[w].pc = "stop" /\ request'[w].name = a
          /\ request'[w].client = runtime[a] /\ request'[w].next = next
      BY <1>0, <3>1 DEF McpTypeOK
    <3>3. n \in NamesOf(w)'
      BY <1>0, <1>3, <3>2, McpAssumption DEF NamesOf
    <3>4. Fits(w, n)'
      BY <1>3, <3>2 DEF Fits, Is, Registered
    <3>5. Runs(n)'
      <4> SUFFICES ASSUME Registered(n)'
                   PROVE  Alive(runtime[n])' /\ Is(w, "stop")' /\ request'[w].name = n
        BY <1>0 DEF Runs
      <4>1. Registered(n) /\ runtime'[n] = runtime[n] /\ runtime[n] \in Client
        BY <1>0 DEF Registered, McpTypeOK
      <4>2. Alive(runtime[n]) /\ n = a
        BY <1>3, <4>1 DEF Agrees, Runs
      <4>3. Alive(runtime[n])'
        BY <1>1, <4>1, <4>2 DEF Alive
      <4> QED BY <3>2, <4>2, <4>3 DEF Is
    <3> QED BY <1>0, <1>1, <3>3, <3>4, <3>5, Touched
  <2> QED BY <2>1, <2>2
<1> QED BY <1>2, <1>3

-------------------------------------------------------------------------------
(* One lemma per action.                                                   *)

\* What every action may use, and what it is to show.
Given == McpInv /\ McpTypeOK' /\ FInv

LEMMA Untroubled ==
  ASSUME Given, troubled \subseteq troubled', NEW n \in Server \ troubled'
  PROVE  /\ n \in Server \ troubled /\ n \in Server \ forgotten /\ Agrees(n)
BY DEF Given, FInv

LEMMA ConnectedAgrees ==
  ASSUME Given, NEW w \in Worker, Connected(w)
  PROVE  FInv'
<1> DEFINE a == request[w].name
           c == request[w].client
<1>0. McpTypeOK /\ BootTasks /\ OwnClient /\ forgotten \subseteq troubled /\ Is(w, "connect")
  BY DEF Given, McpInv, FInv, Connected
<1>1. /\ a \in Server /\ c \in Client /\ NamesOf(w) = {a}
      /\ ~Alive(c) /\ \A n \in Server : runtime[n] # c
      /\ \A v \in Worker : Holds(v, c) => v = w
  BY <1>0, TaskFacts, NameFacts DEF OwnClient
<1>2. /\ UNCHANGED <<file, startup, parted, forgotten, troubled>>
      /\ runtime' = [runtime EXCEPT ![a] = c]
      /\ life' = [life EXCEPT ![c] = [at |-> "waiting", name |-> a]]
  BY DEF Connected, mcpHistory
<1>3. Others(w) /\ request'[w].pc = IF w \in Server THEN "up" ELSE "idle"
  BY <1>0, <1>2 DEF Connected, Outcome, Others, McpTypeOK, Idle
<1>4. BootTasks'
  <2>1. w \in Server => startup = "gathering" /\ w \in Configured
    BY <1>0 DEF BootTasks, Is
  <2> QED BY <1>0, <1>2, <1>3, <2>1, BootStep
<1>5. /\ life'[c].at = "waiting" /\ life'[c].name = a /\ runtime'[a] = c
      /\ \A d \in Client : d # c => life'[d] = life[d]
      /\ \A n \in Server : n # a => runtime'[n] = runtime[n]
  BY <1>0, <1>1, <1>2 DEF McpTypeOK
<1> HIDE DEF a, c
<1>6. OwnClient'
  <2>1. \A v \in Worker : \A d : Holds(v, d)' => Holds(v, d) /\ v # w
    BY <1>3 DEF Others, Holds
  <2>2. \A v \in Worker : (Is(v, "connect") \/ Is(v, "stop"))' =>
          /\ v # w /\ request'[v] = request[v] /\ Holds(v, request[v].client)
          /\ Is(v, "connect") \/ Is(v, "stop")
          /\ request[v].client \in Client
    BY <1>0, <1>3, TaskFacts DEF Others, Is, Holds
  <2>3. ASSUME NEW v \in Worker, Is(v, "connect")'
        PROVE  /\ ~Alive(request[v].client)'
               /\ \A m \in Server : runtime'[m] # request'[v].client
               /\ \A u \in Worker : Holds(u, request[v].client)' => u = v
    <3> DEFINE d == request[v].client
    <3>1. v # w /\ request'[v] = request[v] /\ Is(v, "connect") /\ d \in Client /\ d # c
      BY <1>0, <1>1, <2>2, <2>3, TaskFacts DEF Is
    <3>2. ~Alive(d) /\ \A m \in Server : runtime[m] # d
      BY <1>0, <3>1 DEF OwnClient
    <3>3. \A u \in Worker : Holds(u, d) => u = v
      BY <1>0, <3>1 DEF OwnClient
    <3>4. ~Alive(d)'
      BY <1>5, <3>1, <3>2 DEF Alive
    <3>5. \A m \in Server : runtime'[m] # d
      BY <1>5, <3>1, <3>2
    <3> QED BY <2>1, <3>1, <3>3, <3>4, <3>5
  <2>4. ASSUME NEW m \in Server, Registered(m)', Alive(runtime[m])' PROVE life'[runtime'[m]].name = m
    <3>1. CASE m = a
      BY <1>5, <3>1
    <3>2. CASE m # a
      <4>1. Registered(m) /\ runtime'[m] = runtime[m] /\ runtime[m] # c /\ runtime[m] \in Client
        BY <1>0, <1>1, <1>5, <2>4, <3>2 DEF Registered, McpTypeOK
      <4>2. life'[runtime[m]] = life[runtime[m]] /\ Alive(runtime[m])
        BY <1>5, <2>4, <4>1 DEF Alive
      <4> QED BY <1>0, <4>1, <4>2 DEF OwnClient
    <3> QED BY <3>1, <3>2
  <2>5. ASSUME NEW v \in Worker, Is(v, "stop")', Alive(request[v].client)'
        PROVE  /\ life'[request'[v].client].name = request'[v].name
               /\ life'[request'[v].client].at # "waiting"
    <3>1. v # w /\ request'[v] = request[v] /\ Is(v, "stop") /\ request[v].client \in Client
          /\ request[v].client # c
      BY <1>0, <1>1, <2>2, <2>5, TaskFacts DEF Is
    <3>2. Alive(request[v].client) /\ life'[request[v].client] = life[request[v].client]
      BY <1>5, <2>5, <3>1 DEF Alive
    <3> QED BY <1>0, <3>1, <3>2 DEF OwnClient
  <2> QED BY <2>3, <2>4, <2>5 DEF OwnClient
<1>7. ASSUME NEW n \in Server \ troubled' PROVE Agrees(n)'
  <2>1. n \in Server /\ Agrees(n) /\ (Wanted(n)' <=> Wanted(n)) /\ PartedInFile(n)'
    BY <1>2, <1>7, Untroubled, WantedKept
  <2>2. CASE n = a
    <3>1. \A v \in Worker : v # w => n \notin NamesOf(v)
      BY <1>1, <2>1, <2>2 DEF Agrees
    <3>2. Wanted(n)'
      BY <1>0, <1>1, <1>2, <2>1, <2>2 DEF Agrees, Fits, Is
    <3>3. Registered(n)' /\ Runs(n)'
      BY <1>1, <1>5, <2>2, McpAssumption DEF Registered, Runs, Alive
    <3>4. n \in NamesOf(w)' => Fits(w, n)'
      <4>1. w \notin Server => NamesOf(w)' = {}
        BY <1>3 DEF NamesOf
      <4>2. w \in Server => Is(w, "up")'
        BY <1>3 DEF Is
      <4> QED BY <3>2, <3>3, <4>1, <4>2 DEF Fits, Is
    <3> QED BY <1>3, <2>1, <3>1, <3>2, <3>3, <3>4, Touched
  <2>3. CASE n # a
    <3>1. n \notin NamesOf(w) /\ n \notin NamesOf(w)'
      <4>1. w \in Server => NamesOf(w)' = NamesOf(w)
        BY <1>2 DEF NamesOf
      <4>2. w \notin Server => NamesOf(w)' = {}
        BY <1>3 DEF NamesOf
      <4> QED BY <1>1, <2>3, <4>1, <4>2
    <3>2. Registered(n) => life'[runtime[n]] = life[runtime[n]]
      BY <1>0, <1>1, <1>5, <2>1 DEF Registered, McpTypeOK
    <3> QED BY <1>0, <1>2, <1>3, <1>5, <2>1, <2>3, <3>1, <3>2, Untouched
  <2> QED BY <2>2, <2>3
<1> QED BY <1>0, <1>2, <1>4, <1>6, <1>7 DEF FInv

LEMMA ConnectFailsAgrees ==
  ASSUME Given, NEW w \in Worker, ConnectFails(w)
  PROVE  FInv'
<1> DEFINE a == request[w].name
<1>0. McpTypeOK /\ BootTasks /\ OwnClient /\ forgotten \subseteq troubled /\ Is(w, "connect")
  BY DEF Given, McpInv, FInv, ConnectFails
<1>1. a \in Server /\ NamesOf(w) = {a}
  BY <1>0, TaskFacts, NameFacts
<1>2. /\ UNCHANGED <<runtime, life, startup, forgotten>> /\ troubled \subseteq troubled'
      /\ request[w].kind # "add" => a \in troubled'
      /\ request[w].kind = "add" => /\ file' = [file EXCEPT ![a] = "absent"]
                                    /\ parted' = parted \ {a}
      /\ request[w].kind # "add" => UNCHANGED <<file, parted>>
  BY DEF ConnectFails
<1>3. Others(w) /\ request'[w].pc = IF w \in Server THEN "failed" ELSE "idle"
  BY <1>0, <1>2 DEF ConnectFails, Outcome, Others, McpTypeOK, Idle
<1> HIDE DEF a
<1>4. BootTasks'
  <2>1. w \in Server => startup = "gathering" /\ w \in Configured /\ w \in troubled'
    BY <1>0, <1>2 DEF BootTasks, Is, a
  <2> QED BY <1>0, <1>2, <1>3, <2>1, BootStep
<1>5. OwnClient'
  BY <1>0, <1>2, <1>3, OwnClientStep DEF Alive
<1>6. ASSUME NEW n \in Server \ troubled' PROVE Agrees(n)'
  <2>1. n \in Server \ forgotten /\ Agrees(n)
    BY <1>2, <1>6, Untroubled
  <2>2. CASE n = a
    <3>1. request[w].kind = "add" /\ w \notin Server
      BY <1>0, <1>2, <1>6, <2>2 DEF BootTasks
    <3>2. \A v \in Worker : v # w => n \notin NamesOf(v)
      BY <1>1, <2>1, <2>2 DEF Agrees
    <3>3. n \notin NamesOf(w)'
      BY <1>3, <3>1 DEF NamesOf
    <3>4. ~Registered(n)
      BY <1>0, <2>1, <2>2 DEF Given, McpInv, MarkedConnects, NotBoth, Connects, a
    <3>5. ~Registered(n)' /\ Runs(n)'
      BY <1>2, <3>4 DEF Registered, Runs
    <3>6. ~Wanted(n)' /\ PartedInFile(n)'
      BY <1>0, <1>1, <1>2, <2>2, <3>1 DEF McpTypeOK, Wanted, PartedInFile
    <3> QED BY <1>3, <2>1, <3>2, <3>3, <3>5, <3>6, Touched
  <2>3. CASE n # a
    <3>1. n \notin NamesOf(w) /\ n \notin NamesOf(w)'
      <4>1. w \in Server => NamesOf(w)' = NamesOf(w)
        BY <1>2 DEF NamesOf
      <4>2. w \notin Server => NamesOf(w)' = {}
        BY <1>3 DEF NamesOf
      <4> QED BY <1>1, <2>3, <4>1, <4>2
    <3>2. file'[n] = file[n] /\ (n \in parted' <=> n \in parted)
      BY <1>0, <1>1, <1>2, <2>1, <2>3 DEF McpTypeOK
    <3>3. (Wanted(n)' <=> Wanted(n)) /\ PartedInFile(n)'
      BY <2>1, <3>2, WantedKept
    <3> QED BY <1>0, <1>2, <1>3, <2>1, <3>1, <3>3, Untouched
  <2> QED BY <2>2, <2>3
<1> QED BY <1>0, <1>2, <1>4, <1>5, <1>6 DEF FInv

LEMMA TestFailsAgrees ==
  ASSUME Given, NEW w \in Worker, TestFails(w)
  PROVE  FInv'
<1>0. McpTypeOK /\ BootTasks /\ OwnClient /\ forgotten \subseteq troubled /\ Is(w, "test")
  BY DEF Given, McpInv, FInv, TestFails
<1>1. /\ w \in Admin /\ w \notin Server /\ NamesOf(w) = {request[w].name}
      /\ request[w].name \in Server
  BY <1>0, TaskFacts, NameFacts, McpAssumption
<1>2. UNCHANGED <<file, runtime, life, startup, parted, forgotten, troubled>>
  BY DEF TestFails, mcpHistory
<1>3. Others(w) /\ request'[w].pc = "idle"
  BY <1>0, <1>2, FinishStep DEF TestFails, Others
<1>4. BootTasks' /\ OwnClient'
  BY <1>0, <1>1, <1>2, <1>3, BootStep, OwnClientStep DEF Alive
<1>5. ASSUME NEW n \in Server \ troubled' PROVE Agrees(n)'
  <2>1. n \in Server /\ Agrees(n) /\ (Wanted(n)' <=> Wanted(n)) /\ PartedInFile(n)'
    BY <1>2, <1>5, Untroubled, WantedKept
  <2>2. n \notin NamesOf(w)'
    BY <1>1, <1>3 DEF NamesOf
  <2>3. CASE n \in NamesOf(w)
    <3>1. \A v \in Worker : v # w => n \notin NamesOf(v)
      BY <2>1, <2>3 DEF Agrees
    <3>2. ~Wanted(n) /\ ~Registered(n)
      BY <1>0, <2>1, <2>3 DEF Agrees, Fits, Is
    <3>3. ~Wanted(n)' /\ ~Registered(n)' /\ Runs(n)'
      BY <1>2, <2>1, <3>2 DEF Registered, Runs
    <3> QED BY <1>3, <2>1, <2>2, <3>1, <3>3, Touched
  <2>4. CASE n \notin NamesOf(w)
    BY <1>0, <1>2, <1>3, <2>1, <2>2, <2>4, Untouched
  <2> QED BY <2>3, <2>4
<1> QED BY <1>0, <1>2, <1>4, <1>5 DEF FInv

LEMMA TestPassesAgrees ==
  ASSUME Given, NEW w \in Worker, TestPasses(w)
  PROVE  FInv'
<1> DEFINE a == request[w].name
           r == request[w]
<1>0. McpTypeOK /\ BootTasks /\ OwnClient /\ forgotten \subseteq troubled /\ Is(w, "test")
  BY DEF Given, McpInv, FInv, TestPasses
<1>1. /\ w \in Admin /\ w \notin Server /\ NamesOf(w) = {a} /\ a \in Server
      /\ r.seen \in [Server -> {"absent", "active", "inactive"}]
      /\ "add" \in Kind /\ ~Is(w, "connect")
  BY <1>0, TaskFacts, NameFacts, McpAssumption DEF Kind, Is
<1>2. /\ UNCHANGED <<runtime, life, startup, forgotten>> /\ troubled \subseteq troubled'
      /\ file' = [r.seen EXCEPT ![a] = r.active]
      /\ \A n \in Server : r.seen[n] # file[n] => n \in troubled'
      /\ parted' = (parted \ {a}) \cup PartedBy(a, r.active, "active")
      /\ r.active \in {"active", "inactive"}
      /\ Start(w, a, "add")
  BY <1>0, TaskFacts DEF TestPasses
<1>3. Others(w)
  BY <1>0, <1>1, <1>2, StartCases
<1>4. /\ request'[w].pc \in {"idle", "connect"}
      /\ request'[w].pc = "connect" => request'[w].name = a /\ request'[w].kind = "add"
  <2>1. CASE request'[w].pc = "idle"
    BY <2>1
  <2>2. CASE request'[w].pc # "idle"
    <3>1. PICK c \in Client :
            Unused(c) /\ request'[w] =
              [pc |-> "connect", name |-> a, client |-> c, kind |-> "add"]
      <4> HIDE DEF a
      <4> QED BY <1>0, <1>1, <1>2, <2>2, StartCases
    <3> QED BY <3>1
  <2> QED BY <2>1, <2>2
<1> HIDE DEF a, r
<1>5. BootTasks' /\ OwnClient'
  BY <1>0, <1>1, <1>2, <1>3, <1>4, BootStep, StartOwn
<1>6. ASSUME NEW n \in Server \ troubled' PROVE Agrees(n)'
  <2>1. n \in Server \ forgotten /\ Agrees(n)
    BY <1>2, <1>6, Untroubled
  <2>2. CASE n = a
    <3>1. \A v \in Worker : v # w => n \notin NamesOf(v)
      BY <1>1, <2>1, <2>2 DEF Agrees
    <3>2. ~Registered(n)
      BY <1>0, <1>1, <2>1, <2>2 DEF Agrees, Fits, Is
    <3>3. Wanted(n)' /\ PartedInFile(n)'
      BY <1>1, <1>2, <2>2 DEF Wanted, PartedBy, PartedInFile
    <3> QED BY <1>0, <1>1, <1>2, <1>5, <2>1, <2>2, <3>1, <3>2, <3>3, StartAgrees DEF Given
  <2>3. CASE n # a
    <3>1. n \notin NamesOf(w) /\ n \notin NamesOf(w)'
      BY <1>1, <1>4, <2>3 DEF NamesOf
    <3>2. file'[n] = file[n] /\ (n \in parted' <=> n \in parted)
      BY <1>1, <1>2, <1>6, <2>1, <2>3 DEF PartedBy
    <3>3. (Wanted(n)' <=> Wanted(n)) /\ PartedInFile(n)'
      BY <2>1, <3>2, WantedKept
    <3> QED BY <1>0, <1>2, <1>3, <2>1, <3>1, <3>3, Untouched
  <2> QED BY <2>2, <2>3
<1> QED BY <1>0, <1>2, <1>5, <1>6 DEF FInv

LEMMA StoppedAgrees ==
  ASSUME Given, NEW w \in Worker, Stopped(w)
  PROVE  FInv'
<1> DEFINE a == request[w].name
           next == request[w].next
<1>0. /\ McpTypeOK /\ BootTasks /\ OwnClient /\ forgotten \subseteq troubled
      /\ Is(w, "stop") /\ ~Is(w, "connect")
  BY DEF Given, McpInv, FInv, Stopped, Is
<1>1. /\ w \in Admin /\ w \notin Server /\ NamesOf(w) = {a, next} \ {NoServer}
      /\ a \in Server /\ next \in Server \cup {NoServer}
  BY <1>0, TaskFacts, NameFacts, McpAssumption
<1>2. /\ UNCHANGED <<file, runtime, life, startup, parted, forgotten, troubled>>
      /\ GoOnTo(w, next) /\ life[request[w].client].at = "done"
  BY DEF Stopped, mcpHistory
<1>3. OwnClient' /\ Others(w)
  BY <1>0, <1>1, <1>2, GoOnOwn
<1>4. /\ request'[w].pc \in {"idle", "connect"}
      /\ request'[w].pc = "connect" => request'[w].kind = "update"
      /\ NamesOf(w)' \subseteq {next} \ {NoServer}
  BY <1>0, <1>1, <1>2, GoOnTask
<1> HIDE DEF a, next
<1>5. BootTasks'
  BY <1>0, <1>1, <1>2, <1>3, <1>4, BootStep
<1>6. ASSUME NEW n \in Server \ troubled' PROVE Agrees(n)'
  <2>1. /\ n \in Server \ forgotten /\ Agrees(n)
        /\ (Wanted(n)' <=> Wanted(n)) /\ PartedInFile(n)'
    BY <1>2, <1>6, Untroubled, WantedKept
  <2>2. CASE n \in NamesOf(w)
    <3>1. \A v \in Worker : v # w => n \notin NamesOf(v)
      BY <2>1, <2>2 DEF Agrees
    <3>2. /\ Wanted(n) <=> next = n
          /\ Registered(n) => request[w].client = runtime[n]
      BY <1>0, <2>1, <2>2 DEF Agrees, Fits, Is, next
    <3>3. ~Registered(n)
      BY <1>2, <2>1, <3>2 DEF Agrees, Runs, Alive
    <3> QED BY <1>0, <1>1, <1>2, <1>5, <2>1, <3>1, <3>2, <3>3, GoOnAgrees DEF Given
  <2>3. CASE n \notin NamesOf(w)
    <3>1. n \notin NamesOf(w)'
      BY <1>1, <1>4, <2>3
    <3> QED BY <1>0, <1>2, <1>3, <2>1, <2>3, <3>1, Untouched
  <2> QED BY <2>2, <2>3
<1> QED BY <1>0, <1>2, <1>3, <1>5, <1>6 DEF FInv

LEMMA StopTimesOutAgrees ==
  ASSUME Given, NEW w \in Worker, StopTimesOut(w)
  PROVE  FInv'
<1> DEFINE c == request[w].client
<1>0. /\ McpTypeOK /\ BootTasks /\ OwnClient /\ forgotten \subseteq troubled
      /\ Is(w, "stop")
  BY DEF Given, McpInv, FInv, StopTimesOut
<1>1. /\ w \in Admin /\ w \notin Server /\ c \in Client /\ request[w].name \in Server
      /\ NamesOf(w) = {request[w].name, request[w].next} \ {NoServer}
  BY <1>0, TaskFacts, NameFacts, McpAssumption
<1>2. /\ UNCHANGED <<file, runtime, startup, parted, forgotten>>
      /\ troubled' = troubled \cup NamesOf(w)
      /\ life' = [life EXCEPT ![c] = [at |-> "done"]] /\ life[c].at = "closing"
  BY <1>1 DEF StopTimesOut
<1>3. Others(w) /\ request'[w].pc = "idle"
  BY <1>0, <1>2, FinishStep DEF StopTimesOut, Others
<1>4. /\ life'[c].at = "done" /\ \A d \in Client : d # c => life'[d] = life[d]
      /\ Alive(c) /\ life[c].name = request[w].name
  BY <1>0, <1>1, <1>2 DEF McpTypeOK, OwnClient, Alive
<1> HIDE DEF c
<1>5. BootTasks' /\ OwnClient'
  BY <1>0, <1>1, <1>2, <1>3, <1>4, BootStep, OwnClientStep DEF Alive
<1>6. ASSUME NEW n \in Server \ troubled' PROVE Agrees(n)'
  <2>1. /\ n \in Server /\ Agrees(n) /\ n \notin NamesOf(w)
        /\ (Wanted(n)' <=> Wanted(n)) /\ PartedInFile(n)'
    BY <1>2, <1>6, Untroubled, WantedKept
  <2>2. n \notin NamesOf(w)'
    BY <1>1, <1>3 DEF NamesOf
  <2>3. ASSUME Registered(n) PROVE life'[runtime[n]] = life[runtime[n]]
    <3>1. runtime[n] \in Client /\ (runtime[n] = c => life[c].name = n)
      BY <1>0, <1>4, <2>1, <2>3 DEF Registered, McpTypeOK, OwnClient
    <3>2. request[w].name # n
      BY <1>1, <2>1, McpAssumption
    <3> QED BY <1>4, <3>1, <3>2
  <2> QED BY <1>0, <1>2, <1>3, <2>1, <2>2, <2>3, Untouched
<1> QED BY <1>0, <1>2, <1>5, <1>6 DEF FInv

\* A request that begins finds its worker idle, and a name it finds busy is troubled.
LEMMA AskFacts ==
  ASSUME Given, NEW w \in Admin, NEW names \in SUBSET Server, Ask(w, names)
  PROVE  /\ McpTypeOK /\ BootTasks /\ OwnClient /\ forgotten \subseteq troubled
         /\ w \in Worker /\ w \notin Server /\ Is(w, "idle") /\ ~Is(w, "connect")
         /\ NamesOf(w) = {} /\ troubled \subseteq troubled'
         /\ \A n \in names \ troubled' : ~Busy(n)
<1>1. w \in Worker /\ w \notin Server /\ Is(w, "idle")
  BY McpAssumption DEF Worker, Ask
<1>2. ~Is(w, "connect") /\ NamesOf(w) = {}
  BY <1>1 DEF Is, NamesOf
<1> QED BY <1>1, <1>2 DEF Given, McpInv, FInv, Ask

LEMMA AddAgrees ==
  ASSUME Given, NEW w \in Admin, NEW a \in Server, NEW active \in {"active", "inactive"},
         Add(w, a, active)
  PROVE  FInv'
<1>0. /\ McpTypeOK /\ BootTasks /\ OwnClient /\ forgotten \subseteq troubled
      /\ w \in Worker /\ w \notin Server /\ NamesOf(w) = {} /\ troubled \subseteq troubled'
      /\ a \notin troubled' => ~Busy(a)
  BY AskFacts DEF Add
<1>1. /\ UNCHANGED <<file, runtime, life, startup, parted, forgotten>> /\ file[a] = "absent"
      /\ request' = [request EXCEPT ![w] =
           [pc |-> "test", name |-> a, active |-> active, seen |-> file]]
  BY DEF Add
<1>2. Others(w) /\ request'[w].pc = "test" /\ request'[w].name = a
  BY <1>0, <1>1 DEF Others, McpTypeOK
<1>3. BootTasks' /\ OwnClient' /\ NamesOf(w)' = {a}
  BY <1>0, <1>1, <1>2, BootStep, OwnClientStep DEF Alive, NamesOf
<1>4. ASSUME NEW n \in Server \ troubled' PROVE Agrees(n)'
  <2>1. n \in Server /\ Agrees(n) /\ (Wanted(n)' <=> Wanted(n)) /\ PartedInFile(n)'
    BY <1>0, <1>1, <1>4, Untroubled, WantedKept
  <2>2. CASE n = a
    <3>1. (\A v \in Worker : n \notin NamesOf(v)) /\ ~Wanted(n) /\ ~Registered(n)
      BY <1>0, <1>1, <1>4, <2>1, <2>2 DEF Busy, Agrees, Wanted, PartedInFile
    <3>2. Fits(w, n)' /\ Runs(n)'
      BY <1>1, <1>2, <2>1, <3>1 DEF Fits, Is, Runs, Registered
    <3> QED BY <1>0, <1>2, <1>3, <2>1, <2>2, <3>1, <3>2, Touched
  <2>3. CASE n # a
    BY <1>0, <1>1, <1>2, <1>3, <2>1, <2>3, Untouched
  <2> QED BY <2>2, <2>3
<1> QED BY <1>0, <1>1, <1>3, <1>4 DEF FInv

LEMMA UpdateAgrees ==
  ASSUME Given, NEW w \in Admin, NEW old \in Server, NEW a \in Server,
         NEW flag \in {"active", "inactive"}, NEW active \in {"active", "inactive"},
         Update(w, old, a, flag, active)
  PROVE  FInv'
<1> DEFINE next == IF active = "active" THEN a ELSE NoServer
<1>0. /\ McpTypeOK /\ BootTasks /\ OwnClient /\ forgotten \subseteq troubled
      /\ w \in Worker /\ w \notin Server /\ Is(w, "idle") /\ ~Is(w, "connect")
      /\ NamesOf(w) = {} /\ troubled \subseteq troubled'
      /\ \A n \in {old, a} : n \notin troubled' => ~Busy(n)
  <2>1. Ask(w, {old, a}) /\ {old, a} \in SUBSET Server
    BY DEF Update
  <2> QED BY <2>1, AskFacts
<1>1. /\ UNCHANGED <<runtime, startup, forgotten>> /\ Stop(w, old, next)
      /\ a # old => file[a] = "absent"
      /\ file' = [file EXCEPT ![old] = "absent", ![a] = flag]
      /\ parted' = (parted \ {old, a}) \cup PartedBy(a, flag, active)
      /\ next \in Server \cup {NoServer} /\ a # NoServer /\ old # NoServer
  BY McpAssumption DEF Update
<1>2. /\ Wanted(a)' <=> active = "active"
      /\ file'[a] # "absent"
      /\ old # a => file'[old] = "absent" /\ old \notin parted'
      /\ \A n \in Server : n \notin {old, a} => /\ file'[n] = file[n]
                                                /\ n \in parted' <=> n \in parted
  BY <1>0, <1>1 DEF McpTypeOK, Wanted, PartedBy
<1>3. next = a \/ (next = NoServer /\ active # "active")
  OBVIOUS
<1>4. active = "active" <=> next = a
  BY <1>1
<1> HIDE DEF next
<1>5. OwnClient' /\ Others(w)
  BY <1>0, <1>1, StopOwn
<1>6. /\ request'[w].pc \in {"idle", "connect", "stop"}
      /\ request'[w].pc = "connect" => request'[w].kind = "update"
      /\ NamesOf(w)' \subseteq {old, next} \ {NoServer}
  BY <1>0, <1>1, StopTask
<1>7. BootTasks'
  BY <1>0, <1>5, <1>6, BootStep
<1>8. ASSUME NEW n \in Server \ troubled' PROVE Agrees(n)'
  <2>1. n \in Server \ forgotten /\ Agrees(n)
    BY <1>0, <1>8, Untroubled
  <2>2. CASE n \in {old, a}
    <3>1. ~Busy(n)
      BY <1>0, <1>8, <2>2
    <3>2. n # old => ~Registered(n) /\ ~Wanted(n)
      BY <1>1, <2>1, <2>2, <3>1 DEF Agrees, Wanted, PartedInFile
    <3>5. PartedInFile(n)' /\ (n # a => ~Wanted(n)')
      BY <1>2, <2>2 DEF PartedInFile, Wanted
    <3>3. n \in {old, next} => (Wanted(n)' <=> next = n)
      BY <1>1, <1>2, <1>3, <1>4, <2>2, <3>5
    <3>4. n \notin {old, next} => (Wanted(n)' <=> Wanted(n))
      BY <1>2, <1>3, <1>4, <2>2, <3>2
    <3> QED BY <1>0, <1>1, <1>7, <2>1, <3>1, <3>2, <3>3, <3>4, <3>5, StopAgrees DEF Given
  <2>3. CASE n \notin {old, a}
    <3>1. n \notin NamesOf(w) /\ n \notin NamesOf(w)'
      BY <1>0, <1>3, <1>6, <2>3
    <3>2. Registered(n) => life'[runtime[n]] = life[runtime[n]]
      <4> SUFFICES ASSUME Registered(n) PROVE life'[runtime[n]] = life[runtime[n]]
        OBVIOUS
      <4>1. runtime[n] \in Client /\ Alive(runtime[n]) /\ life[runtime[n]].name = n
        BY <1>0, <2>1 DEF Agrees, Runs, Registered, McpTypeOK, OwnClient
      <4>2. runtime[n] # runtime[old]
        BY <1>0, <2>3, <4>1 DEF OwnClient, Registered
      <4> QED BY <1>0, <1>1, <4>1, <4>2, StopOwn
    <3>3. (Wanted(n)' <=> Wanted(n)) /\ PartedInFile(n)'
      BY <1>2, <2>1, <2>3, WantedKept
    <3> QED BY <1>0, <1>1, <1>5, <2>1, <3>1, <3>2, <3>3, Untouched
  <2> QED BY <2>2, <2>3
<1> QED BY <1>0, <1>1, <1>5, <1>7, <1>8 DEF FInv

LEMMA DeleteAgrees ==
  ASSUME Given, NEW w \in Admin, NEW a \in Server, Delete(w, a)
  PROVE  FInv'
<1>0. /\ McpTypeOK /\ BootTasks /\ OwnClient /\ forgotten \subseteq troubled
      /\ w \in Worker /\ w \notin Server /\ Is(w, "idle") /\ ~Is(w, "connect")
      /\ NamesOf(w) = {} /\ troubled \subseteq troubled'
      /\ a \notin troubled' => ~Busy(a)
  BY AskFacts DEF Delete
<1>1. /\ UNCHANGED <<runtime, startup, forgotten>> /\ Stop(w, a, NoServer)
      /\ file' = [file EXCEPT ![a] = "absent"] /\ parted' = parted \ {a} /\ a # NoServer
  BY McpAssumption DEF Delete
<1>2. /\ ~Wanted(a)' /\ PartedInFile(a)'
      /\ \A n \in Server : n # a => file'[n] = file[n] /\ (n \in parted' <=> n \in parted)
  BY <1>0, <1>1 DEF McpTypeOK, Wanted, PartedInFile
<1>3. OwnClient' /\ Others(w)
  BY <1>0, <1>1, StopOwn
<1>4. /\ request'[w].pc \in {"idle", "connect", "stop"}
      /\ request'[w].pc = "connect" => request'[w].kind = "update"
      /\ NamesOf(w)' \subseteq {a}
  BY <1>0, <1>1, StopTask
<1>5. BootTasks'
  BY <1>0, <1>3, <1>4, <1>1, BootStep
<1>6. ASSUME NEW n \in Server \ troubled' PROVE Agrees(n)'
  <2>1. n \in Server \ forgotten /\ Agrees(n) /\ n # NoServer
    BY <1>0, <1>6, Untroubled, McpAssumption
  <2>2. CASE n = a
    <3>1. ~Busy(n)
      BY <1>0, <1>6, <2>2
    <3> QED BY <1>0, <1>1, <1>2, <1>5, <2>1, <2>2, <3>1, StopAgrees DEF Given
  <2>3. CASE n # a
    <3>1. Registered(n) => life'[runtime[n]] = life[runtime[n]]
      <4> SUFFICES ASSUME Registered(n) PROVE life'[runtime[n]] = life[runtime[n]]
        OBVIOUS
      <4>1. runtime[n] \in Client /\ Alive(runtime[n]) /\ life[runtime[n]].name = n
        BY <1>0, <2>1 DEF Agrees, Runs, Registered, McpTypeOK, OwnClient
      <4>2. runtime[n] # runtime[a]
        BY <1>0, <2>3, <4>1 DEF OwnClient, Registered
      <4> QED BY <1>0, <1>1, <4>1, <4>2, StopOwn
    <3>2. (Wanted(n)' <=> Wanted(n)) /\ PartedInFile(n)'
      BY <1>2, <2>1, <2>3, WantedKept
    <3> QED BY <1>0, <1>1, <1>3, <1>4, <2>1, <2>3, <3>1, <3>2, Untouched
  <2> QED BY <2>2, <2>3
<1> QED BY <1>0, <1>1, <1>3, <1>5, <1>6 DEF FInv

LEMMA SyncAgrees ==
  ASSUME Given, NEW w \in Admin, NEW a \in Server, Sync(w, a)
  PROVE  FInv'
<1>0. /\ McpTypeOK /\ BootTasks /\ OwnClient /\ forgotten \subseteq troubled
      /\ w \in Worker /\ w \notin Server /\ Is(w, "idle") /\ ~Is(w, "connect")
      /\ NamesOf(w) = {} /\ troubled \subseteq troubled'
      /\ a \notin troubled' => ~Busy(a)
  BY AskFacts DEF Sync
<1>1. /\ UNCHANGED <<runtime, life, startup, forgotten>> /\ Start(w, a, "update")
      /\ file' = [file EXCEPT ![a] = "active"] /\ parted' = parted \ {a} /\ "update" \in Kind
  BY DEF Sync, Kind
<1>2. /\ Wanted(a)' /\ PartedInFile(a)'
      /\ \A n \in Server : n # a => file'[n] = file[n] /\ (n \in parted' <=> n \in parted)
  BY <1>0, <1>1 DEF McpTypeOK, Wanted, PartedInFile
<1>3. OwnClient' /\ Others(w)
  BY <1>0, <1>1, StartOwn, StartCases
<1>4. /\ request'[w].pc \in {"idle", "connect"}
      /\ request'[w].pc = "connect" => request'[w].kind = "update" /\ request'[w].name = a
  <2>1. CASE request'[w].pc = "idle"
    BY <2>1
  <2>2. CASE request'[w].pc # "idle"
    <3>1. PICK c \in Client : Unused(c) /\ request'[w] =
            [pc |-> "connect", name |-> a, client |-> c, kind |-> "update"]
      BY <1>0, <1>1, <2>2, StartCases
    <3> QED BY <3>1
  <2> QED BY <2>1, <2>2
<1>5. BootTasks' /\ NamesOf(w)' \subseteq {a}
  BY <1>0, <1>3, <1>4, BootStep DEF NamesOf
<1>6. ASSUME NEW n \in Server \ troubled' PROVE Agrees(n)'
  <2>1. n \in Server \ forgotten /\ Agrees(n)
    BY <1>0, <1>6, Untroubled
  <2>2. CASE n = a
    <3>1. \A v \in Worker : n \notin NamesOf(v)
      BY <1>0, <1>6, <2>2 DEF Busy
    <3>2. \A v \in Worker : Is(v, "stop") => request[v].name # n
      BY <1>0, <2>1, <3>1, NameFacts, McpAssumption
    <3>3. Registered(n) => life[runtime[n]].at = "waiting"
      BY <2>1, <3>2 DEF Agrees, Runs
    <3> QED BY <1>0, <1>1, <1>2, <1>5, <2>1, <2>2, <3>1, <3>3, StartAgrees DEF Given
  <2>3. CASE n # a
    <3>1. (Wanted(n)' <=> Wanted(n)) /\ PartedInFile(n)'
      BY <1>2, <2>1, <2>3, WantedKept
    <3> QED BY <1>0, <1>1, <1>3, <1>5, <2>1, <2>3, <3>1, Untouched
  <2> QED BY <2>2, <2>3
<1> QED BY <1>0, <1>1, <1>3, <1>5, <1>6 DEF FInv

\* A life-cycle task moves, and no worker: the clients of other names are left alone.
LEMMA LifeStepOwn ==
  ASSUME McpTypeOK, OwnClient, NEW c \in Client, Alive(c), UNCHANGED request,
         \A d \in Client : d # c => life'[d] = life[d],
         Alive(c)' => life'[c].name = life[c].name /\ life'[c].at # "waiting",
         \A n \in Server : runtime'[n] \in {runtime[n], NoClient}
  PROVE  OwnClient'
<1>1. \A v \in Worker : Is(v, "connect") \/ Is(v, "stop") => request[v].client \in Client
  BY TaskFacts
<1>2. \A n \in Server : Registered(n)' => runtime'[n] = runtime[n] /\ Registered(n) /\ runtime[n] \in Client
  BY DEF Registered, McpTypeOK
<1>3. \A d \in Client : Alive(d)' => Alive(d) /\ life'[d].name = life[d].name
                          /\ (life'[d].at = "waiting" => life[d].at = "waiting")
  BY DEF Alive
<1>4. ASSUME NEW v \in Worker, Is(v, "connect")'
      PROVE  /\ ~Alive(request[v].client)'
             /\ \A m \in Server : runtime'[m] # request'[v].client
             /\ \A u \in Worker : Holds(u, request[v].client)' => u = v
  <2> DEFINE d == request[v].client
  <2>1. Is(v, "connect") /\ d \in Client /\ d # NoClient
    BY <1>1, <1>4, McpAssumption DEF Is
  <2>2. ~Alive(d) /\ \A m \in Server : runtime[m] # d
    BY <2>1 DEF OwnClient
  <2>3. \A u \in Worker : Holds(u, d) => u = v
    BY <2>1 DEF OwnClient
  <2>4. ~Alive(d)'
    BY <1>3, <2>1, <2>2 DEF Alive
  <2>5. \A u \in Worker : Holds(u, d)' => Holds(u, d)
    BY DEF Holds
  <2> QED BY <2>1, <2>2, <2>3, <2>4, <2>5
<1>5. ASSUME NEW m \in Server, Registered(m)', Alive(runtime[m])' PROVE life'[runtime'[m]].name = m
  <2>1. runtime'[m] = runtime[m] /\ Registered(m) /\ runtime[m] \in Client
    BY <1>2, <1>5
  <2>2. Alive(runtime[m])
    BY <1>3, <1>5, <2>1 DEF Alive
  <2> QED BY <1>3, <1>5, <2>1, <2>2 DEF OwnClient, Alive
<1>6. ASSUME NEW v \in Worker, Is(v, "stop")', Alive(request[v].client)'
      PROVE  /\ life'[request'[v].client].name = request'[v].name
             /\ life'[request'[v].client].at # "waiting"
  <2>1. Is(v, "stop") /\ request[v].client \in Client
    BY <1>1, <1>6 DEF Is
  <2>2. Alive(request[v].client)
    BY <1>3, <1>6, <2>1 DEF Alive
  <2> QED BY <1>3, <1>6, <2>1, <2>2 DEF OwnClient, Alive
<1> QED BY <1>4, <1>5, <1>6 DEF OwnClient

LEMMA LifeStepAgrees ==
  ASSUME Given, NEW c \in Client, life[c].at \in {"told", "closing"},
         UNCHANGED <<file, request, startup, parted, forgotten, troubled>>,
         \A d \in Client : d # c => life'[d] = life[d],
         Alive(c)' => life'[c].name = life[c].name /\ life'[c].at # "waiting",
         \A n \in Server : n # life[c].name => runtime'[n] = runtime[n],
         \/ runtime'[life[c].name] = NoClient
         \/ runtime'[life[c].name] = runtime[life[c].name] /\
              (runtime[life[c].name] = c => Alive(c)')
  PROVE  FInv'
<1> DEFINE a == life[c].name
<1>0. /\ McpTypeOK /\ BootTasks /\ OwnClient /\ forgotten \subseteq troubled /\ OwnRuntime
      /\ Alive(c) /\ a \in Server /\ c # NoClient
  BY LifeFacts, McpAssumption DEF Given, McpInv, FInv, Alive
<1>1. BootTasks'
  BY <1>0 DEF BootTasks, Is
<1>2. OwnClient'
  BY <1>0, LifeStepOwn
<1>3. \A v \in Worker : NamesOf(v)' = NamesOf(v)
  BY DEF NamesOf
<1>4. ASSUME NEW n \in Server \ troubled' PROVE Agrees(n)'
  <2>1. /\ n \in Server \ troubled /\ n \in Server \ forgotten /\ Agrees(n)
        /\ (Wanted(n)' <=> Wanted(n)) /\ PartedInFile(n)'
    BY <1>4, Untroubled, WantedKept
  <2>2. CASE n = a
    <3>1. runtime[n] = c /\ Registered(n)
      BY <1>0, <2>1, <2>2 DEF OwnRuntime, Registered
    <3>2. PICK w \in Worker : Is(w, "stop") /\ request[w].name = n
      BY <2>1, <3>1 DEF Agrees, Runs
    <3>3. n \in NamesOf(w)
      BY <1>0, <2>1, <3>2, NameFacts, McpAssumption
    <3>4. Registered(n)' => runtime'[n] = c /\ Alive(c)'
      BY <2>2, <3>1 DEF Registered
    <3>5. ASSUME NEW v \in Worker, n \in NamesOf(v)' PROVE Fits(v, n)'
      <4>1. v = w
        BY <1>3, <2>1, <3>3, <3>5 DEF Agrees
      <4>2. Fits(w, n)
        BY <2>1, <3>3 DEF Agrees
      <4> QED BY <2>1, <3>1, <3>2, <3>4, <4>1, <4>2 DEF Fits, Is
    <3>6. Runs(n)'
      BY <3>2, <3>4 DEF Runs, Alive, Is
    <3>7. Busy(n)'
      BY <1>3, <3>3 DEF Busy
    <3> QED BY <1>3, <2>1, <3>5, <3>6, <3>7 DEF Agrees
  <2>3. CASE n # a
    <3>1. runtime'[n] = runtime[n]
      BY <2>1, <2>3
    <3>2. Registered(n) => runtime[n] # c /\ runtime[n] \in Client
      BY <1>0, <2>1, <2>3 DEF OwnClient, Registered, McpTypeOK
    <3>3. Registered(n) => life'[runtime[n]] = life[runtime[n]]
      BY <3>2
    <3>4. \A v \in Worker : Fits(v, n)' <=> Fits(v, n)
      BY <2>1, <3>1 DEF Fits, Is, Registered
    <3>5. Runs(n)'
      BY <2>1, <3>1, <3>3 DEF Agrees, Runs, Registered, Alive, Is
    <3>6. Busy(n)' <=> Busy(n)
      BY <1>3 DEF Busy
    <3> QED BY <1>3, <2>1, <3>1, <3>4, <3>5, <3>6 DEF Agrees, Registered
  <2> QED BY <2>2, <2>3
<1> QED BY <1>0, <1>1, <1>2, <1>4 DEF FInv

LEMMA TerminateAgrees ==
  ASSUME Given, NEW c \in Client, Terminate(c)
  PROVE  FInv'
<1> DEFINE a == life[c].name
<1>0. McpTypeOK /\ life[c].at = "told" /\ UNCHANGED <<file, runtime, request, startup, parted, forgotten, troubled>>
  BY DEF Given, McpInv, Terminate, mcpHistory
<1>1. CASE Registered(a)
  <2>1. life' = [life EXCEPT ![c] = [at |-> "closing", name |-> a, closes |-> runtime[a]]]
    BY <1>1 DEF Terminate
  <2>2. /\ life'[c].at = "closing" /\ life'[c].name = a
        /\ \A d \in Client : d # c => life'[d] = life[d]
    BY <1>0, <2>1 DEF McpTypeOK
  <2> QED BY <1>0, <2>2, LifeStepAgrees DEF Alive
<1>2. CASE ~Registered(a)
  <2>1. life' = [life EXCEPT ![c] = [at |-> "done"]]
    BY <1>2 DEF Terminate
  <2>2. life'[c].at = "done" /\ \A d \in Client : d # c => life'[d] = life[d]
    BY <1>0, <2>1 DEF McpTypeOK
  <2> QED BY <1>0, <1>2, <2>2, LifeStepAgrees DEF Alive, Registered
<1> QED BY <1>1, <1>2

LEMMA ClosedAgrees ==
  ASSUME Given, NEW c \in Client, Closed(c)
  PROVE  FInv'
<1>0. /\ McpTypeOK /\ life[c].at = "closing" /\ life[c].name \in Server
      /\ UNCHANGED <<file, request, startup, parted, forgotten, troubled>>
      /\ life' = [life EXCEPT ![c] = [at |-> "done"]]
      /\ runtime' = [runtime EXCEPT ![life[c].name] = NoClient]
  BY LifeFacts DEF Given, McpInv, Closed, mcpHistory, Alive
<1>1. life'[c].at = "done" /\ \A d \in Client : d # c => life'[d] = life[d]
  BY <1>0 DEF McpTypeOK
<1>2. /\ runtime'[life[c].name] = NoClient
      /\ \A n \in Server : n # life[c].name => runtime'[n] = runtime[n]
  BY <1>0 DEF McpTypeOK
<1> QED BY <1>0, <1>1, <1>2, LifeStepAgrees DEF Alive

LEMMA BeginStartupAgrees ==
  ASSUME Given, NEW a \in Server, BeginStartup(a)
  PROVE  FInv'
<1>0. /\ McpTypeOK /\ BootTasks /\ OwnClient /\ forgotten \subseteq troubled
      /\ a \in Worker /\ Is(a, "begin") /\ ~Is(a, "connect")
  BY Workers DEF Given, McpInv, FInv, BeginStartup, Is
<1>1. /\ UNCHANGED <<file, runtime, life, startup, parted, forgotten, troubled>>
      /\ Start(a, a, "boot") /\ "boot" \in Kind
  BY DEF BeginStartup, mcpHistory, Kind
<1>2. OwnClient' /\ Others(a)
  BY <1>0, <1>1, StartOwn, StartCases
<1>3. \/ request'[a].pc = "up"
      \/ request'[a].pc = "connect" /\ request'[a].name = a /\ request'[a].kind = "boot"
  <2>1. CASE request'[a].pc = "up"
    BY <2>1
  <2>2. CASE request'[a].pc # "up"
    <3>1. PICK c \in Client : Unused(c) /\ request'[a] =
            [pc |-> "connect", name |-> a, client |-> c, kind |-> "boot"]
      BY <1>0, <1>1, <2>2, StartCases
    <3> QED BY <3>1
  <2> QED BY <2>1, <2>2
<1>4. startup = "gathering" /\ a \in Configured
  BY <1>0 DEF BootTasks, Is
<1>5. BootTasks' /\ NamesOf(a) = {a} /\ NamesOf(a)' = {a}
  BY <1>0, <1>1, <1>2, <1>3, <1>4, BootStep DEF NamesOf
<1>6. ASSUME NEW n \in Server \ troubled' PROVE Agrees(n)'
  <2>1. /\ n \in Server \ forgotten /\ Agrees(n)
        /\ (Wanted(n)' <=> Wanted(n)) /\ PartedInFile(n)'
    BY <1>1, <1>6, Untroubled, WantedKept
  <2>2. CASE n = a
    <3>1. \A v \in Worker : v # a => n \notin NamesOf(v)
      BY <1>0, <1>5, <2>1, <2>2 DEF Agrees
    <3>2. Wanted(n)' /\ ~Registered(n)
      BY <1>0, <1>1, <1>5, <2>1, <2>2 DEF Agrees, Fits, Is
    <3> QED BY <1>0, <1>1, <1>5, <2>1, <2>2, <3>1, <3>2, StartAgrees DEF Given
  <2>3. CASE n # a
    BY <1>0, <1>1, <1>2, <1>5, <2>1, <2>3, Untouched
  <2> QED BY <2>2, <2>3
<1> QED BY <1>0, <1>1, <1>2, <1>5, <1>6 DEF FInv

LEMMA EndStartupAgrees ==
  ASSUME Given, EndStartup
  PROVE  FInv'
<1>0. /\ McpTypeOK /\ BootTasks /\ OwnClient /\ forgotten \subseteq troubled
      /\ Configured \subseteq Worker /\ Configured \subseteq Server
  BY McpAssumption DEF Given, McpInv, FInv, Worker
<1>1. /\ startup = "gathering" /\ startup' = "over"
      /\ \A n \in Configured : request[n].pc \in {"up", "failed"}
      /\ \A n \in Server : runtime'[n] = IF n \in Configured /\ Is(n, "failed")
                                           THEN NoClient ELSE runtime[n]
      /\ \A w \in Worker : request'[w] = IF w \in Configured THEN Idle ELSE request[w]
      /\ forgotten' = forgotten \cup { n \in { m \in Configured : Is(m, "failed") } : Registered(n) }
      /\ UNCHANGED <<file, life, parted, troubled>>
  BY DEF EndStartup
<1>2. Idle.pc = "idle" /\ \A w \in Admin : w \in Worker /\ w \notin Configured
  BY McpAssumption DEF Idle, Worker
<1>3. BootTasks'
  BY <1>0, <1>1, <1>2, Workers DEF BootTasks, Is
<1>4. forgotten' \subseteq troubled'
  BY <1>0, <1>1 DEF BootTasks
<1>5. OwnClient'
  <2>1. \A v \in Worker : request'[v].pc \in {"connect", "stop"} => request'[v] = request[v]
    BY <1>1, <1>2
  <2>2. \A v \in Worker : \A d : Holds(v, d)' => Holds(v, d)
    BY <2>1 DEF Holds
  <2>3. \A n \in Server : Registered(n)' => runtime'[n] = runtime[n] /\ Registered(n)
    BY <1>1 DEF Registered
  <2>4. ASSUME NEW v \in Worker, Is(v, "connect")'
        PROVE  /\ ~Alive(request[v].client)'
               /\ \A m \in Server : runtime'[m] # request'[v].client
               /\ \A u \in Worker : Holds(u, request[v].client)' => u = v
    <3> DEFINE d == request[v].client
    <3>1. request'[v] = request[v] /\ Is(v, "connect") /\ d \in Client /\ d # NoClient
      BY <1>0, <2>1, <2>4, TaskFacts, McpAssumption DEF Is
    <3>2. ~Alive(d) /\ \A m \in Server : runtime[m] # d
      BY <1>0, <3>1 DEF OwnClient
    <3>3. \A u \in Worker : Holds(u, d) => u = v
      BY <1>0, <3>1 DEF OwnClient
    <3>4. ~Alive(d)'
      BY <1>1, <3>1, <3>2 DEF Alive
    <3>5. \A m \in Server : runtime'[m] # d
      BY <1>1, <3>1, <3>2
    <3> QED BY <2>2, <3>1, <3>3, <3>4, <3>5
  <2>5. ASSUME NEW m \in Server, Registered(m)', Alive(runtime[m])'
        PROVE  life'[runtime'[m]].name = m
    BY <1>0, <1>1, <2>3, <2>5 DEF OwnClient, Alive
  <2>6. ASSUME NEW v \in Worker, Is(v, "stop")', Alive(request[v].client)'
        PROVE  /\ life'[request'[v].client].name = request'[v].name
               /\ life'[request'[v].client].at # "waiting"
    <3>1. request'[v] = request[v] /\ Is(v, "stop")
      BY <2>1, <2>6 DEF Is
    <3> QED BY <1>0, <1>1, <2>6, <3>1 DEF OwnClient, Alive
  <2> QED BY <2>4, <2>5, <2>6 DEF OwnClient
<1>6. \A w \in Admin : request'[w] = request[w] /\ NamesOf(w)' = NamesOf(w)
  BY <1>1, <1>2, McpAssumption DEF NamesOf
<1>7. \A w \in Server : NamesOf(w)' = {}
  BY <1>1 DEF NamesOf
<1>8. ASSUME NEW n \in Server \ troubled' PROVE Agrees(n)'
  <2>1. /\ n \in Server \ troubled /\ Agrees(n)
        /\ (Wanted(n)' <=> Wanted(n)) /\ PartedInFile(n)'
    BY <1>1, <1>8, Untroubled, WantedKept
  <2>2. runtime'[n] = runtime[n] /\ ~Is(n, "failed")
    BY <1>0, <1>1, <2>1 DEF BootTasks
  <2>3. \A v \in Worker : n \in NamesOf(v)' => v \in Admin /\ n \in NamesOf(v) /\ request'[v] = request[v]
    BY <1>6, <1>7 DEF Worker
  <2>4. ASSUME NEW v \in Worker, n \in NamesOf(v)' PROVE Fits(v, n)'
    <3>1. Fits(v, n) /\ request'[v] = request[v]
      BY <2>1, <2>3, <2>4 DEF Agrees
    <3> QED BY <2>1, <2>2, <3>1 DEF Fits, Is, Registered
  <2>5. ASSUME ~Busy(n)' PROVE Wanted(n)' <=> Registered(n)'
    <3>1. CASE n \in Configured
      <4>1. n \in Worker /\ n \in NamesOf(n) /\ Is(n, "up")
        BY <1>0, <1>1, <2>2, <3>1 DEF NamesOf, Is
      <4>2. Fits(n, n)
        BY <2>1, <4>1 DEF Agrees
      <4> QED BY <2>1, <2>2, <4>1, <4>2 DEF Fits, Is, Registered
    <3>2. CASE n \notin Configured
      <4>1. \A v \in Worker : n \notin NamesOf(v)
        BY <1>6, <2>5, <3>2 DEF Busy, NamesOf, Worker
      <4> QED BY <1>1, <2>1, <2>2, <4>1 DEF Agrees, Busy, Registered
    <3> QED BY <3>1, <3>2
  <2>6. Runs(n)'
    <3>1. \A v \in Worker : Is(v, "stop") => request'[v] = request[v]
      BY <1>0, <1>1 DEF Is
    <3> QED BY <1>1, <2>1, <2>2, <3>1 DEF Agrees, Runs, Registered, Alive, Is
  <2> QED BY <2>1, <2>3, <2>4, <2>5, <2>6 DEF Agrees
<1> QED BY <1>3, <1>4, <1>5, <1>8 DEF FInv

LEMMA InitAgrees == McpInit => FInv
<1> SUFFICES ASSUME McpInit PROVE FInv
  OBVIOUS
<1>1. /\ Idle.pc = "idle" /\ \A w \in Admin : w \notin Configured
      /\ \A w \in Worker : request[w] = IF w \in Configured THEN [pc |-> "begin"] ELSE Idle
  BY McpAssumption DEF Idle, McpInit
<1>2. BootTasks
  BY <1>1, Workers DEF McpInit, BootTasks, Is
<1>3. OwnClient
  BY <1>1 DEF McpInit, OwnClient, Is, Alive, Registered
<1>4. \A w \in Worker : NamesOf(w) = IF w \in Configured THEN {w} ELSE {}
  BY <1>1, McpAssumption DEF McpInit, NamesOf, Worker
<1>5. ASSUME NEW n \in Server PROVE Agrees(n)
  <2>1. \A w \in Worker : n \in NamesOf(w) => w = n /\ n \in Configured
    BY <1>4
  <2>2. ~Registered(n) /\ (Wanted(n) <=> n \in Configured) /\ PartedInFile(n)
    BY DEF McpInit, Registered, Wanted, PartedInFile
  <2>3. n \in Configured => Busy(n) /\ Fits(n, n)
    BY <1>1, <1>4, <2>2, Workers DEF Busy, Fits, Is
  <2> QED BY <2>1, <2>2, <2>3 DEF Agrees, Runs
<1> QED BY <1>2, <1>3, <1>5 DEF McpInit, FInv

LEMMA StepAgrees == McpInv /\ McpTypeOK' /\ FInv /\ [McpNext]_mcpVars => FInv'
<1> SUFFICES ASSUME Given, [McpNext]_mcpVars PROVE FInv'
  BY DEF Given
<1>1. CASE UNCHANGED mcpVars
  <2>1. \A n : (Registered(n)' <=> Registered(n)) /\ (Runs(n)' <=> Runs(n))
    BY <1>1 DEF mcpVars, Registered, Runs, Alive, Is
  <2>6. \A n : (Wanted(n)' <=> Wanted(n)) /\ (PartedInFile(n)' <=> PartedInFile(n))
    BY <1>1 DEF mcpVars, Wanted, PartedInFile
  <2>2. \A w, n : (Fits(w, n)' <=> Fits(w, n)) /\ NamesOf(w)' = NamesOf(w)
    BY <1>1, <2>6 DEF mcpVars, Fits, Is, Registered, NamesOf
  <2>3. \A n : Agrees(n)' <=> Agrees(n)
    BY <1>1, <2>1, <2>2, <2>6 DEF mcpVars, Agrees, Busy
  <2>4. BootTasks' <=> BootTasks
    BY <1>1 DEF mcpVars, BootTasks, Is
  <2>5. OwnClient' <=> OwnClient
    BY <1>1 DEF mcpVars, OwnClient, Is, Alive, Holds, Registered
  <2> QED BY <1>1, <2>3, <2>4, <2>5 DEF Given, FInv, mcpVars
<1>2. CASE McpNext
  BY <1>2, ConnectedAgrees, ConnectFailsAgrees, TestFailsAgrees, TestPassesAgrees,
     StoppedAgrees, StopTimesOutAgrees, AddAgrees, UpdateAgrees, DeleteAgrees, SyncAgrees,
     TerminateAgrees, ClosedAgrees, BeginStartupAgrees, EndStartupAgrees
     DEF McpNext, Work, Request, LifeStep, StartupStep
<1> QED BY <1>1, <1>2

\* What the file says is active is what runs, for every name that no request is about and none
\* failed on, and the opposite runs where the last request wrote another flag than it obeyed
\* (update_mcp_server, add_mcp_server, save_mcp_config and _mcp_server_runtime).
THEOREM FileAgrees == McpSpec => []FileAndRegistryAgree
<1>1. McpInv => McpTypeOK
  BY DEF McpInv
<1>2. FInv => FileAndRegistryAgree
  BY DEF FInv, Agrees, FileAndRegistryAgree
<1> QED BY <1>1, <1>2, McpInvariance, InitAgrees, StepAgrees, PTL DEF McpSpec
===============================================================================
