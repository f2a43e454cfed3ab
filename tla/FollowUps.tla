------------------------------- MODULE FollowUps -------------------------------
(***************************************************************************)
(* Messages that arrive while an agent is answering an earlier message of  *)
(* the same session (core/pipeline/process_stage/follow_up.py and its use  *)
(* in internal.py).  A message of the same sender is captured: it hands a  *)
(* ticket to the running agent and waits.  The agent consumes the tickets  *)
(* with its next tool result, or resolves them when it ends; a message     *)
(* whose ticket was not consumed then takes a turn of its own, in the      *)
(* order in which the messages were captured (tool_loop_agent_runner.py).  *)
(*                                                                         *)
(* One session.  The session lock appears as what it promises: SessionTurns.*)
(* A step is what a task does between two suspensions.                     *)
(***************************************************************************)
EXTENDS Naturals, Sequences, SequencesExt, FiniteSetsExt

CONSTANTS
  Event,     \* the messages
  Umo,       \* the session
  MaxSteps   \* max_step: how often an agent calls the model

ASSUME FollowUpsAssumption == MaxSteps \in Nat \ {0}

VARIABLES
  line, inside,  \* the session lock
  pc,            \* where the task of each message is
  phase,         \* what the registered runner is doing; "none" without one
  steps,         \* how often it has called the model
  pending,       \* its _pending_follow_ups
  stop,          \* messages on which the agent was requested to stop
  ticket,        \* the ticket of each message
  slots,         \* the order state: the slots from next_turn on, by message
  slot,          \* statuses: the status of each message's slot
  captured,      \* history: the messages captured, in order of arrival
  noticed,       \* history: those whose text went into a tool result
  orphans        \* history: tickets that a runner left unresolved when it ended

runner  == <<phase, steps, pending>>
order   == <<ticket, slots, slot>>
history == <<captured, noticed, orphans>>
vars    == <<line, inside, pc, runner, stop, order, history>>

Lock == INSTANCE SessionTurns WITH Task <- Event, Session <- {Umo}

Captured == ToSet(captured)
Handled  == {"consumed", "finished"}

TypeOK ==
  /\ line[Umo] \in Seq(Event)
  /\ inside \subseteq Event
  /\ pc \in [Event -> {"new", "ticket", "turn", "ready", "line", "build", "run",
                       "final", "done"}]
  /\ phase \in {"none", "model", "tool", "closing", "over", "broken"}
  /\ steps \in 0..(MaxSteps + 1)
  /\ pending \subseteq Captured
  /\ stop \subseteq Event
  /\ ticket \in [Event -> {"none", "pending", "resolved", "consumed"}]
  /\ slots \in Seq(Event)
  /\ slot \in [Event -> {"none", "pending", "active"} \cup Handled]
  /\ captured \in Seq(Event)
  /\ {noticed, orphans} \subseteq SUBSET Captured

Init ==
  /\ Lock!Init
  /\ pc = [e \in Event |-> "new"]
  /\ phase = "none"
  /\ steps = 0
  /\ pending = {}
  /\ stop = {}
  /\ ticket = [e \in Event |-> "none"]
  /\ slots = <<>>
  /\ slot = [e \in Event |-> "none"]
  /\ captured = <<>>
  /\ noticed = {}
  /\ orphans = {}

Running == { e \in Event : pc[e] = "run" }

\* next_turn moves past the slots that are handled, up to the first that is not.
Advance(handledSlot) ==
  LET open == { i \in 1..Len(slots) : handledSlot[slots[i]] \notin Handled }
  IN  slots' = IF open = {} THEN <<>> ELSE SubSeq(slots, Min(open), Len(slots))

MarkSlot(e, status) ==
  /\ slot' = [slot EXCEPT ![e] = status]
  /\ Advance([slot EXCEPT ![e] = status])

-------------------------------------------------------------------------------
(* A message arrives: try_capture_follow_up.                               *)

\* There is a registered runner, neither done nor asked to stop, and it answers
\* the same sender.  A message's sender is compared with one runner's only, so it
\* need not be kept: either answer is possible.
Capture(e) ==
  /\ pc[e] = "new"
  /\ phase \in {"model", "tool", "broken"}
  /\ Running \cap stop = {}
  /\ pc' = [pc EXCEPT ![e] = "ticket"]
  /\ ticket' = [ticket EXCEPT ![e] = "pending"]
  /\ pending' = pending \cup {e}
  /\ slots' = Append(slots, e)
  /\ slot' = [slot EXCEPT ![e] = "pending"]
  /\ captured' = Append(captured, e)
  /\ UNCHANGED <<line, inside, phase, steps, stop, noticed, orphans>>

\* Any other message, of another sender or at another time, goes on by itself.
PassBy(e) ==
  /\ pc[e] = "new"
  /\ pc' = [pc EXCEPT ![e] = "ready"]
  /\ UNCHANGED <<line, inside, runner, stop, order, history>>

-------------------------------------------------------------------------------
(* A captured message: prepare_follow_up_capture.                          *)

\* Mutant: the slot is marked and next_turn left where it was.
ConsumedInPlace(e) ==
  /\ pc[e] = "ticket"
  /\ ticket[e] = "consumed"
  /\ slot' = [slot EXCEPT ![e] = "consumed"]
  /\ pc' = [pc EXCEPT ![e] = "done"]
  /\ UNCHANGED <<line, inside, runner, stop, ticket, slots, history>>

\* Its ticket was consumed: the slot is marked (by the monitor task, or by this
\* one) and the message is done.
Consumed(e) ==
  /\ pc[e] = "ticket"
  /\ ticket[e] = "consumed"
  /\ MarkSlot(e, "consumed")
  /\ pc' = [pc EXCEPT ![e] = "done"]
  /\ UNCHANGED <<line, inside, runner, stop, ticket, history>>

\* It was not: the message waits for its turn.
Activate(e) ==
  /\ pc[e] = "ticket"
  /\ ticket[e] = "resolved"
  /\ slot' = [slot EXCEPT ![e] = "active"]
  /\ pc' = [pc EXCEPT ![e] = "turn"]
  /\ UNCHANGED <<line, inside, runner, stop, ticket, slots, history>>

\* Mutant: the turn comes as soon as the slot is active.
TakeTurnAtOnce(e) ==
  /\ pc[e] = "turn"
  /\ pc' = [pc EXCEPT ![e] = "ready"]
  /\ UNCHANGED <<line, inside, runner, stop, order, history>>

TakeTurn(e) ==
  /\ pc[e] = "turn"
  /\ slots # <<>> /\ Head(slots) = e
  /\ pc' = [pc EXCEPT ![e] = "ready"]
  /\ UNCHANGED <<line, inside, runner, stop, order, history>>

-------------------------------------------------------------------------------
(* A turn of one's own: the session lock, the runner, the end.             *)

EnterLine(e) ==
  /\ pc[e] = "ready"
  /\ Lock!Arrive(e, Umo)
  /\ pc' = [pc EXCEPT ![e] = IF e \in inside' THEN "build" ELSE "line"]
  /\ UNCHANGED <<runner, stop, order, history>>

BeginTurn(e) ==
  /\ pc[e] = "line"
  /\ Head(line[Umo]) = e
  /\ Lock!Begin(Umo)
  /\ pc' = [pc EXCEPT ![e] = "build"]
  /\ UNCHANGED <<runner, stop, order, history>>

\* build_main_agent gives nothing, raises, or a hook ends the event.
BuildFails(e) ==
  /\ pc[e] = "build"
  /\ Lock!Finish(Umo)
  /\ pc' = [pc EXCEPT ![e] = "final"]
  /\ UNCHANGED <<runner, stop, order, history>>

\* register_active_runner; the first call of the model is under way.
Register(e) ==
  /\ pc[e] = "build"
  /\ pc' = [pc EXCEPT ![e] = "run"]
  /\ phase' = "model"
  /\ steps' = 1
  /\ UNCHANGED <<line, inside, pending, stop, order, history>>

\* unregister_active_runner and the end of the lock, in a finally: what is left
\* in the runner's list is left for ever.
EndTurn(e) ==
  /\ pc[e] = "run"
  /\ phase \in {"over", "broken"}
  /\ Lock!Finish(Umo)
  /\ pc' = [pc EXCEPT ![e] = "final"]
  /\ phase' = "none" /\ steps' = 0 /\ pending' = {}
  /\ orphans' = orphans \cup pending
  /\ UNCHANGED <<stop, order, captured, noticed>>

\* finalize_follow_up_capture, for a captured message.
Finalize(e) ==
  /\ pc[e] = "final"
  /\ pc' = [pc EXCEPT ![e] = "done"]
  /\ IF e \in Captured THEN MarkSlot(e, "finished") ELSE UNCHANGED <<slots, slot>>
  /\ UNCHANGED <<line, inside, runner, stop, ticket, history>>

\* /stop: request_agent_stop_all, for the messages under way.
RequestStop ==
  /\ stop' = { e \in Event : pc[e] \notin {"new", "done"} }
  /\ UNCHANGED <<line, inside, pc, runner, order, history>>

-------------------------------------------------------------------------------
(* The runner: step, as run_agent repeats it.                              *)

InStep == UNCHANGED <<line, inside, pc, stop, slots, slot, captured, orphans>>

\* Mutant: one step too many.
NextCallTooMany == phase' = "model" /\ steps' = steps + 1

\* Another step, or max_step + 1 of them were taken and run_agent returns.
NextCall == IF steps <= MaxSteps THEN phase' = "model" /\ steps' = steps + 1
                                 ELSE phase' = "broken" /\ UNCHANGED steps

\* Mutant: the tickets get no consumed flag.
ConsumeUnmarked ==
  /\ ticket' = [e \in Event |-> IF e \in pending THEN "resolved" ELSE ticket[e]]
  /\ noticed' = noticed \cup pending
  /\ pending' = {}

\* _consume_follow_up_notice, with every tool result.
Consume ==
  /\ ticket' = [e \in Event |-> IF e \in pending THEN "consumed" ELSE ticket[e]]
  /\ noticed' = noticed \cup pending
  /\ pending' = {}

\* _resolve_unconsumed_follow_ups
Resolve ==
  /\ ticket' = [e \in Event |-> IF e \in pending THEN "resolved" ELSE ticket[e]]
  /\ pending' = {}
  /\ UNCHANGED noticed

\* The model calls a tool.
CallTool ==
  /\ phase = "model"
  /\ phase' = "tool"
  /\ UNCHANGED <<steps, pending, ticket, noticed>> /\ InStep

ToolResult ==
  /\ phase = "tool"
  /\ Consume
  /\ NextCall
  /\ InStep

\* The tool returns None: the runner is done.
ToolEndsRun ==
  /\ phase = "tool"
  /\ Consume
  /\ phase' = "over"
  /\ UNCHANGED steps /\ InStep

\* The model returns nothing at all: the step just ends.
EmptyReply ==
  /\ phase = "model"
  /\ NextCall
  /\ UNCHANGED <<pending, ticket, noticed>> /\ InStep

\* The model answers, or the run is aborted after /stop: the runner is done and
\* awaits its hook.
Reply ==
  /\ \/ phase = "model"
     \/ phase = "tool" /\ Running \subseteq stop
  /\ phase' = "closing"
  /\ UNCHANGED <<steps, pending, ticket, noticed>> /\ InStep

Close ==
  /\ phase = "closing"
  /\ Resolve
  /\ phase' = "over"
  /\ UNCHANGED steps /\ InStep

\* The provider answers with an error.
ModelError ==
  /\ phase = "model"
  /\ Resolve
  /\ phase' = "over"
  /\ UNCHANGED steps /\ InStep

\* Something in the step or in the sending of its results raises: run_agent
\* catches it and returns, the runner's state stays RUNNING.
StepRaises ==
  /\ phase \in {"model", "tool"}
  /\ phase' = "broken"
  /\ UNCHANGED <<steps, pending, ticket, noticed>> /\ InStep

Run == \/ CallTool \/ ToolResult \/ ToolEndsRun \/ EmptyReply
       \/ Reply \/ Close \/ ModelError \/ StepRaises

Proceed(e) == \/ Consumed(e) \/ Activate(e) \/ TakeTurn(e)
              \/ EnterLine(e) \/ BeginTurn(e) \/ BuildFails(e) \/ Register(e)
              \/ EndTurn(e) \/ Finalize(e)

Next == \/ \E e \in Event : Capture(e) \/ PassBy(e) \/ Proceed(e)
        \/ RequestStop
        \/ Run

Spec == Init /\ [][Next]_vars

\* A task that can go on does; a call of the model or of a tool returns or raises.
FairSpec ==
  /\ Spec
  /\ \A e \in Event : WF_vars(Proceed(e))
  /\ WF_vars(Run)

-------------------------------------------------------------------------------
(* Properties.                                                             *)

\* A captured message runs a turn of its own only when every message captured
\* before it was consumed or has finished: wake-ups, the session lock and runs
\* of later messages in between do not change the order of arrival.
ServedInOrder ==
  \A i, j \in 1..Len(captured) :
    i < j /\ pc[captured[j]] \in {"ready", "line", "build", "run", "final"}
      => ticket[captured[i]] = "consumed" \/ pc[captured[i]] = "done"

\* A message whose text an agent was given with a tool result does not run a turn
\* of its own as well.
AnsweredOnce == \A e \in noticed : pc[e] \in {"ticket", "done"}

\* Captured no later than e is a message whose runner ended without resolving it.
BehindOrphan(e) ==
  \E i, j \in 1..Len(captured) : i <= j /\ captured[i] \in orphans /\ captured[j] = e

\* Every message that arrives is dealt with: nothing in the slots, the tickets,
\* the turn and the session lock waits for ever, but for the messages behind one
\* that its runner abandoned: after any state comes one in which no other waits.
Unanswered(e) == pc[e] \notin {"new", "done"} /\ ~BehindOrphan(e)

MessageEnds == []<>(\A e \in Event : ~Unanswered(e))

\* "assert ticket.resolved.is_set() is True" (test_tool_loop_agent_runner.py:1282):
\* when its run has ended, a captured message is resolved, consumed or not.
TicketResolved == \A e \in Event : ticket[e] = "pending" ~> ticket[e] # "pending"
===============================================================================
