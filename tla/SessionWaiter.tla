----------------------------- MODULE SessionWaiter -----------------------------
(***************************************************************************)
(* Plugins that wait for a user's next messages                            *)
(* (core/utils/session_waiter.py) and the handler that gives them these    *)
(* messages before any other plugin (handle_session_control_agent of       *)
(* builtin_stars/astrbot/main.py).                                         *)
(*                                                                         *)
(* A waiter is named after the message whose handler registered it.  All   *)
(* filters are default ones, which answer with the session of the message  *)
(* they are asked about, whoever appended them.  A timer may run out at    *)
(* any time, so what keep() resets needs no variable.  A step is what a    *)
(* task does between two suspensions.                                      *)
(***************************************************************************)
EXTENDS Naturals, Sequences, SequencesExt

CONSTANTS
  Input,   \* the messages
  Umos,    \* the sessions
  Of,      \* the session of each message
  Nobody

ASSUME WaiterAssumption == Of \in [Input -> Umos] /\ Nobody \notin Input

VARIABLES
  agent,    \* the task of each message
  entry,    \* USER_SESSIONS
  filters,  \* FILTERS, by waiter
  future,   \* the future of each waiter's controller
  turns,    \* the lock of each waiter: its holder, and those behind it
  heard,    \* history: the waiters whose handler got a message
  twice,    \* history: waiters that got a message twice
  missed,   \* history: messages that passed by a waiter of their session
  crowded,  \* history: waiters that were not the only one in FILTERS
  rivals    \* history: those of them that shared it with one of their session

waiterHistory == <<heard, twice, missed, crowded, rivals>>
waiterVars    == <<agent, entry, filters, future, turns, waiterHistory>>

\* A message triggers a waiter on behalf of the i-th filter, or does not.
Task == [at : {"new", "free", "waiting", "over"}]
          \cup [at : {"queue", "handler"}, i : Nat \ {0}, waiter : Input]

WaiterTypeOK ==
  /\ agent \in [Input -> Task]
  /\ entry \in [Umos -> Input \cup {Nobody}]
  /\ filters \in Seq(Input)
  /\ future \in [Input -> {"none", "pending", "ended"}]
  /\ turns \in [Input -> Seq(Input)]
  /\ heard \in [Input -> SUBSET Input]
  /\ missed \subseteq Input
  /\ twice \subseteq Input
  /\ rivals \subseteq crowded /\ crowded \subseteq Input

WaiterInit ==
  /\ agent = [e \in Input |-> [at |-> "new"]]
  /\ entry = [s \in Umos |-> Nobody]
  /\ filters = <<>>
  /\ future = [w \in Input |-> "none"]
  /\ turns = [w \in Input |-> <<>>]
  /\ heard = [e \in Input |-> {}]
  /\ twice = {} /\ missed = {} /\ crowded = {} /\ rivals = {}

Pending(w) == future[w] = "pending"

\* FILTERS without a waiter's filter, if it is there.
WithoutFilter(w) ==
  IF w \in ToSet(filters)
  THEN RemoveAt(filters, CHOOSE i \in 1..Len(filters) : filters[i] = w)
  ELSE filters

Becomes(e, t)  == agent' = [agent EXCEPT ![e] = t]

-------------------------------------------------------------------------------
(* A message and the waiters: handle_session_control_agent, trigger.       *)

\* The waiter's handler is called with the message.
Hear(e, w) ==
  /\ heard' = [heard EXCEPT ![e] = @ \cup {w}]
  /\ twice' = IF w \in heard[e] THEN twice \cup {w} ELSE twice

\* The loop over FILTERS goes on from the i-th, with the locks as in t and the
\* futures as in f.  Every filter names the message's own session; a waiter there
\* that is pending is triggered once its lock is free.  Without one the loop ends,
\* and the message is stopped if an entry was found for it.
Visit(e, i, t, f) ==
  LET w     == entry[Of[e]]
      found == i <= Len(filters) /\ w # Nobody
  IN  IF found /\ f[w] = "pending"
      THEN /\ turns' = [t EXCEPT ![w] = Append(@, e)]
           /\ Becomes(e, [at |-> IF t[w] = <<>> THEN "handler" ELSE "queue",
                      i |-> i, waiter |-> w])
           /\ IF t[w] = <<>> THEN Hear(e, w) ELSE UNCHANGED <<heard, twice>>
      ELSE /\ Becomes(e, [at |-> IF found \/ i > 1 THEN "over" ELSE "free"])
           /\ turns' = t
           /\ UNCHANGED <<heard, twice>>

Arrives(e) ==
  /\ agent[e].at = "new"
  /\ Visit(e, 1, turns, future)
  /\ missed' = IF agent'[e].at = "free" /\ \E w \in Input : Pending(w) /\ Of[w] = Of[e]
               THEN missed \cup {e} ELSE missed
  /\ UNCHANGED <<entry, filters, future, crowded, rivals>>

\* Mutant: the loop stays at its filter.
NextFilterAgain(e, f) ==
  LET w == agent[e].waiter
  IN  Visit(e, agent[e].i, [turns EXCEPT ![w] = Tail(@)], f)

\* The trigger returns: its lock is released and the loop goes on.
NextFilter(e, f) ==
  LET w == agent[e].waiter
  IN  Visit(e, agent[e].i + 1, [turns EXCEPT ![w] = Tail(@)], f)

\* The lock is the message's: if the waiter is pending still, its handler runs.
Enters(e) ==
  LET w == agent[e].waiter IN
  /\ agent[e].at = "queue"
  /\ Head(turns[w]) = e
  /\ IF Pending(w)
     THEN Becomes(e, [agent[e] EXCEPT !.at = "handler"]) /\ Hear(e, w) /\ UNCHANGED turns
     ELSE NextFilter(e, future)
  /\ UNCHANGED <<entry, filters, future, missed, crowded, rivals>>

\* Mutant: stop() takes the waiter's filter away at once.
HandlerStopsCleaning(e) ==
  LET w == agent[e].waiter IN
  /\ agent[e].at = "handler"
  /\ Pending(w)
  /\ future' = [future EXCEPT ![w] = "ended"]
  /\ filters' = WithoutFilter(w)
  /\ UNCHANGED <<agent, entry, turns, waiterHistory>>

\* The handler calls stop(), or keep() with nothing left, and may go on.
HandlerStops(e) ==
  LET w == agent[e].waiter IN
  /\ agent[e].at = "handler"
  /\ Pending(w)
  /\ future' = [future EXCEPT ![w] = "ended"]
  /\ UNCHANGED <<agent, entry, filters, turns, waiterHistory>>

HandlerReturns(e) ==
  /\ agent[e].at = "handler"
  /\ NextFilter(e, future)
  /\ UNCHANGED <<entry, filters, future, missed, crowded, rivals>>

\* It raises: the waiter is stopped with the error.
HandlerRaises(e) ==
  LET f == [future EXCEPT ![agent[e].waiter] = "ended"] IN
  /\ agent[e].at = "handler"
  /\ Pending(agent[e].waiter)
  /\ future' = f
  /\ NextFilter(e, f)
  /\ UNCHANGED <<entry, filters, missed, crowded, rivals>>

-------------------------------------------------------------------------------
(* A waiter: register_wait, _holding, _cleanup.                            *)

\* A plugin that got the message waits for the next ones; its waiter replaces any
\* other of the session.
Waits(e) ==
  LET there == ToSet(filters)
      same  == { w \in there : Of[w] = Of[e] }
  IN  /\ agent[e].at = "free"
      /\ filters' = Append(filters, e)
      /\ entry' = [entry EXCEPT ![Of[e]] = e]
      /\ future' = [future EXCEPT ![e] = "pending"]
      /\ Becomes(e, [at |-> "waiting"])
      /\ crowded' = IF there = {} THEN crowded ELSE crowded \cup there \cup {e}
      /\ rivals' = IF same = {} THEN rivals ELSE rivals \cup same \cup {e}
      /\ UNCHANGED <<turns, heard, twice, missed>>

\* The time is over, whether or not a handler runs.
TimesOut(w) ==
  /\ Pending(w)
  /\ future' = [future EXCEPT ![w] = "ended"]
  /\ UNCHANGED <<agent, entry, filters, turns, waiterHistory>>

\* The waiting plugin goes on: _cleanup pops the session's entry, whoever's it is,
\* and removes the waiter's own filter.
Resumes(w) ==
  /\ agent[w].at = "waiting"
  /\ future[w] = "ended"
  /\ entry' = [entry EXCEPT ![Of[w]] = Nobody]
  /\ filters' = WithoutFilter(w)
  /\ Becomes(w, [at |-> "over"])
  /\ UNCHANGED <<future, turns, waiterHistory>>

WaiterNext ==
  \E e \in Input :
    \/ Arrives(e) \/ Enters(e)
    \/ HandlerStops(e) \/ HandlerReturns(e) \/ HandlerRaises(e)
    \/ Waits(e) \/ TimesOut(e) \/ Resumes(e)

WaiterSpec == WaiterInit /\ [][WaiterNext]_waiterVars

-------------------------------------------------------------------------------
(* Properties.                                                             *)

\* A waiter that is pending is the one its session's messages are given to, from
\* its registration to its end and whatever happens meanwhile to waiters of other
\* sessions and to the handler: but for waiters whose session had another one in
\* FILTERS, one that had ended and not yet resumed included.
WaiterReachable ==
  \A w \in Input \ rivals : Pending(w) => entry[Of[w]] = w

\* A waiter gets a message once, though the loop asks every filter, handlers run
\* long and filters come and go below it: unless, sometime, other waiters, of
\* whatever session, were in FILTERS with it.
HandledOnce == twice \subseteq crowded

\* "Once the session controller is activated, messages subsequently sent by that
\* sender will first be processed by the `empty_mention_waiter` function you defined
\* above, until the session controller is stopped or times out."
\* (docs/en/dev/star/guides/session-control.md): no message passes by a waiter
\* of its session that is neither stopped nor timed out.
SessionHears == missed = {}
===============================================================================
