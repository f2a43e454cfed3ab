------------------------------- MODULE MCSafety --------------------------------
(* Four components whose handlers interleave: the bot's edit cards, and the
   orchestrator's session waiters, cron jobs and rate limit.  They share no state,
   so each initial state picks one, and the others rest: the run checks them one
   after the other.

   Edit cards: one vacancy and two texts, which are symmetric, the three kinds of
   field (two columns, picked or typed, asked without a read), and two handlers that
   overlap: so two prompts may be on their way although MaxPrompts is 1.  Waiters: as
   in MCSessionWaiter.  Cron jobs: two requests and two executions of a job with two
   versions, and one restart.  Rate limit: six messages, two of which may pass in a
   window of two ticks, under either strategy. *)
EXTENDS EditCards, MCSessionWaiter, CronJobs, RateLimit, TLC

Texts == Permutations(Text)

VARIABLE active

safetyVars == <<active, vars, waiterVars, cronVars, rateVars>>

SafetyInit ==
  /\ active \in {"cards", "waiters", "cron jobs", "rate limit"}
  /\ Init /\ WaiterInit /\ CronInit /\ RateInit
  /\ active # "rate limit" => strategy = "stall"

\* Bound: when SalaryWhole and SavedWasShown both except a vacancy, in torn and strayed,
\* it is followed no further.
Promised == Vacancy \ (torn \cap strayed) # {}

CardsStep  == active = "cards" /\ Promised /\ Next /\ UNCHANGED <<waiterVars, cronVars, rateVars>>
\* Bound: executions, and requests, are alike, so the chosen one begins first.
FirstOf(S) == CHOOSE x \in S : TRUE
Begins(job, x) == job[x].pc = "rest" /\ job'[x].pc # "rest"
ChosenFirst(job) ==
  \A x \in DOMAIN job :
    Begins(job, x) => x = FirstOf(DOMAIN job) \/ job[FirstOf(DOMAIN job)].pc # "rest"

WaiterStep == active = "waiters" /\ WaiterNext /\ UNCHANGED <<vars, cronVars, rateVars>>
CronStep   == active = "cron jobs" /\ CronNext /\ ChosenFirst(execution) /\ ChosenFirst(caller) /\ UNCHANGED <<vars, waiterVars, rateVars>>
RateStep   == active = "rate limit" /\ RateNext /\ UNCHANGED <<vars, waiterVars, cronVars>>

SafetyNext == UNCHANGED active /\ (CardsStep \/ WaiterStep \/ CronStep \/ RateStep)

SafetySpec == SafetyInit /\ [][SafetyNext]_safetyVars

\* The type invariant of the component that moves; the others rest.
SafetyTypeOK ==
  /\ active = "cards" => TypeOK
  /\ active = "waiters" => WaiterTypeOK
  /\ active = "cron jobs" => CronTypeOK
  /\ active = "rate limit" => RateTypeOK
===============================================================================
