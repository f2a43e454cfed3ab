----------------------------- MODULE SessionTurns -----------------------------
(***************************************************************************)
(* What session_lock_manager promises to the agent pipeline: the turns of  *)
(* one session run one at a time, in the order in which they asked.        *)
(*                                                                         *)
(* line[s] is the line of tasks that hold or await the turn of session s.  *)
(* Only the first of a line may be inside; a task may give up its place    *)
(* (its asyncio task was cancelled) only while it is still waiting.        *)
(***************************************************************************)
EXTENDS Naturals, Sequences, SequencesExt

CONSTANTS Task, Session

VARIABLES
  line,     \* [Session -> Seq(Task)], in order of arrival
  inside    \* the tasks whose turn is running

vars == <<line, inside>>

InLine == UNION { ToSet(line[s]) : s \in Session }

Init == /\ line = [s \in Session |-> <<>>]
        /\ inside = {}

\* A task asks for a turn; it may start at once when nobody is before it.
Arrive(t, s) ==
  /\ t \notin InLine
  /\ line' = [line EXCEPT ![s] = Append(@, t)]
  /\ \/ inside' = inside
     \/ line[s] = <<>> /\ inside' = inside \cup {t}

\* The turn of the first in line begins.
Begin(s) ==
  /\ line[s] # <<>>
  /\ Head(line[s]) \notin inside
  /\ inside' = inside \cup {Head(line[s])}
  /\ UNCHANGED line

\* The running turn ends and its place goes to the next in line.
Finish(s) ==
  /\ line[s] # <<>>
  /\ Head(line[s]) \in inside
  /\ line' = [line EXCEPT ![s] = Tail(@)]
  /\ inside' = inside \ {Head(line[s])}

\* A task that is still waiting leaves the line, the others keep their order.
GiveUp(t, s) ==
  /\ t \notin inside
  /\ \E i \in 1..Len(line[s]) :
       line[s][i] = t /\ line' = [line EXCEPT ![s] = RemoveAt(@, i)]
  /\ UNCHANGED inside

Next == \E s \in Session :
          \/ Begin(s) \/ Finish(s)
          \/ \E t \in Task : Arrive(t, s) \/ GiveUp(t, s)

Spec == Init /\ [][Next]_vars
===============================================================================
