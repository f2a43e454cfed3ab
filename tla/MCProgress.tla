------------------------------ MODULE MCProgress -------------------------------
(* Three components of the orchestrator whose tasks wait for one another: captured
   messages, tool servers and the web chat.  They share no state, so each initial
   state picks one, and the others rest: the run checks them one after the other.

   Follow-ups: three messages, one that runs and two that are captured or compete
   for the session lock.  Tool servers: one that starts with the program and one
   that is absent, and three requests, two at a time; four clients are as many as
   ever exist together.  Web chat: two messages, one removal of the conversation,
   one proactive message, queues that one item fills. *)
EXTENDS FollowUps, McpServers, WebChat

VARIABLE active

progressVars == <<active, vars, mcpVars, webVars>>

ProgressInit ==
  /\ Init /\ McpInit /\ WebInit
  /\ active \in {"follow-ups", "servers", "chat"}

FollowUpsStep == active = "follow-ups" /\ Next /\ UNCHANGED <<mcpVars, webVars>>
ServersStep   == active = "servers" /\ McpNext /\ UNCHANGED <<vars, webVars>>
ChatStep      == active = "chat" /\ WebNext /\ UNCHANGED <<vars, mcpVars>>

ProgressNext == UNCHANGED active /\ (FollowUpsStep \/ ServersStep \/ ChatStep)

\* The fairness of the three, each for its own initial state.
ProgressSpec ==
  /\ ProgressInit /\ [][ProgressNext]_progressVars
  /\ \A e \in Event : WF_vars(active = "follow-ups" /\ Proceed(e))
  /\ WF_vars(active = "follow-ups" /\ Run)
  /\ \A w \in Worker : WF_mcpVars(active = "servers" /\ Work(w))
  /\ \A c \in Client : WF_mcpVars(active = "servers" /\ LifeStep(c))
  /\ WF_mcpVars(active = "servers" /\ StartupStep)
  /\ WF_webVars(active = "chat" /\ AdapterStarts)
  /\ \A q \in QueueNo : WF_webVars(active = "chat" /\ Listen(q))
  /\ \A m \in Message : /\ WF_webVars(active = "chat" /\ Follow(m))
                        /\ WF_webVars(active = "chat" /\ Pipeline(m))

\* The type invariant of the component that moves; the others rest.
ProgressTypeOK ==
  /\ active = "follow-ups" => TypeOK
  /\ active = "servers" => McpTypeOK
  /\ active = "chat" => WebTypeOK
===============================================================================
