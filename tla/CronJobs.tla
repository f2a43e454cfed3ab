------------------------------- MODULE CronJobs --------------------------------
(***************************************************************************)
(* One scheduled job of the orchestrator: its row in the database, its     *)
(* trigger in the scheduler and the executions of it                       *)
(* (core/cron/manager.py), under the requests of the dashboard and of the  *)
(* agent's tool (dashboard/services/cron_service.py,                       *)
(* core/tools/cron_tools.py), failing calls of the database, and restarts. *)
(*                                                                         *)
(* The job is an active one, which persists.  Jobs are independent: all    *)
(* that one does to another is that scheduling it starts the scheduler.    *)
(* A version of the job is what one request made of it.  Status, last run  *)
(* and next run time are only shown to users and left out.  A step is what *)
(* a task does between two suspensions.                                    *)
(***************************************************************************)
EXTENDS Naturals, FiniteSets

CONSTANTS
  Caller,       \* requests that may be under way together
  Execution,    \* executions that may be under way together
  MaxVersions,  \* bound: versions of the job
  MaxOutages    \* bound: restarts of the process

ASSUME CronAssumption == {MaxVersions, MaxOutages} \subseteq Nat /\ MaxVersions > 0

VARIABLES
  jobRow,        \* the job's row
  versions,   \* counter of the bound
  trigger,    \* the scheduler's job: its version, and whether it fires once
  started,    \* _started
  restore,    \* start and sync_from_db; listing with the row it read
  caller,     \* what each request is doing
  execution,  \* what each execution is doing
  outages,    \* counter of the bound
  fired,      \* history: versions of one run that the scheduler has executed
  again,      \* history: those it has executed a second time
  cut,        \* history: those whose execution was cut before it removed the job
  skipped,    \* history: versions whose only firing came to nothing
  crossed     \* history: tasks that change the schedule overlapped, or one broke

cronHistory == <<fired, again, cut, skipped, crossed>>
cronTasks   == <<caller, execution>>
cronVars    == <<jobRow, versions, trigger, started, restore, cronTasks, outages, cronHistory>>

Version  == 1..MaxVersions
\* once: run_once; ok: the time given can be scheduled.
Row      == [v : Version, enabled : BOOLEAN, once : BOOLEAN, ok : BOOLEAN]
NoRow    == [v |-> 0]
Trigger  == [v : Version, once : BOOLEAN]
Untimed  == [v |-> 0]
Resting  == [pc |-> "rest"]

CronTypeOK ==
  /\ jobRow \in Row \cup {NoRow}
  /\ versions \in 0..MaxVersions
  /\ trigger \in Trigger \cup {Untimed}
  /\ started \in BOOLEAN
  /\ restore \in [at : {"due", "starting", "over"}] \cup [at : {"listing"}, seen : Row \cup {NoRow}]
  /\ caller \in [Caller -> {Resting} \cup [pc : {"erase"}]
                             \cup [pc : {"schedule"}, seen : Row]]
  /\ execution \in [Execution -> {Resting} \cup [pc : {"erase"}, v : Version]
                      \cup [pc : {"read"}, timed : BOOLEAN]
                      \cup [pc : {"run"}, timed : BOOLEAN, once : BOOLEAN, v : Version]]
  /\ outages \in 0..MaxOutages
  /\ again \subseteq fired /\ {fired, cut, skipped} \subseteq SUBSET Version
  /\ crossed \in BOOLEAN

CronInit ==
  /\ jobRow = NoRow
  /\ versions = 0
  /\ trigger = Untimed
  /\ started = FALSE
  /\ restore = [at |-> "due"]
  /\ caller = [c \in Caller |-> Resting]
  /\ execution = [x \in Execution |-> Resting]
  /\ outages = 0
  /\ fired = {} /\ again = {} /\ cut = {} /\ skipped = {}
  /\ crossed = FALSE

Call(c, r)    == caller' = [caller EXCEPT ![c] = r]
Execute(x, r) == execution' = [execution EXCEPT ![x] = r]

\* The tasks that are about to change the row or the trigger.
Changing ==
  { c \in Caller : caller[c].pc # "rest" } \cup { x \in Execution : execution[x].pc = "erase" }
    \cup (IF restore.at \in {"starting", "listing"} THEN {"start"} ELSE {})
Crosses == crossed' = (crossed \/ Changing # {})

\* The one execution that the scheduler lets run at a time (max_instances).
Timed == { x \in Execution : \/ execution[x].pc = "erase"
                             \/ execution[x].pc \in {"read", "run"} /\ execution[x].timed }

-------------------------------------------------------------------------------
(* Scheduling: _schedule_job, _remove_scheduled, start, sync_from_db.      *)

\* What the scheduler holds once it was told of a row; a time that cannot be
\* scheduled raises and leaves it alone.
Scheduled(r, held) == IF r.ok THEN [v |-> r.v, once |-> r.once] ELSE held

\* start returns at once if some job was scheduled before, and never syncs then;
\* that is so from the first plugin that adds a job of its own.
StartsLate ==
  /\ restore.at = "due"
  /\ started
  /\ restore' = [at |-> "over"]
  /\ crossed' = (crossed \/ jobRow # NoRow)
  /\ UNCHANGED <<jobRow, versions, trigger, started, cronTasks, outages, fired, again, cut, skipped>>

OtherJobScheduled ==
  /\ restore.at = "due"
  /\ ~started
  /\ started' = TRUE
  /\ UNCHANGED <<jobRow, versions, trigger, restore, cronTasks, outages, cronHistory>>

\* Otherwise it starts the scheduler ...
Starts ==
  /\ restore.at = "due"
  /\ ~started
  /\ started' = TRUE
  /\ restore' = [at |-> "starting"]
  /\ Crosses
  /\ UNCHANGED <<jobRow, versions, trigger, cronTasks, outages, fired, again, cut, skipped>>

\* ... lists the rows ...
Lists ==
  /\ restore.at = "starting"
  /\ restore' = [at |-> "listing", seen |-> jobRow]
  /\ UNCHANGED <<jobRow, versions, trigger, started, cronTasks, outages, cronHistory>>

\* ... and schedules those that are enabled.
Syncs ==
  /\ restore.at = "listing"
  /\ restore' = [at |-> "over"]
  /\ trigger' = IF restore.seen # NoRow /\ restore.seen.enabled
                THEN Scheduled(restore.seen, trigger) ELSE trigger
  /\ UNCHANGED <<jobRow, versions, started, cronTasks, outages, cronHistory>>

-------------------------------------------------------------------------------
(* Requests: add_active_job, update_job, delete_job, run_job_now.          *)

\* The row is written: the first version, or the next one of a row that is there ...
Write(c) ==
  /\ caller[c].pc = "rest"
  /\ versions = 0 \/ jobRow # NoRow
  /\ versions < MaxVersions
  /\ versions' = versions + 1
  /\ \E enabled, once, ok \in BOOLEAN :
       jobRow' = [v |-> versions', enabled |-> enabled, once |-> once, ok |-> ok]
  /\ Call(c, [pc |-> "schedule", seen |-> jobRow'])
  /\ Crosses
  /\ UNCHANGED <<trigger, started, restore, execution, outages, fired, again, cut, skipped>>

\* Mutant: a job that is disabled keeps its trigger.
ScheduleKeeping(c) ==
  LET r == caller[c].seen IN
  /\ caller[c].pc = "schedule"
  /\ trigger' = IF r.enabled THEN Scheduled(r, Untimed) ELSE trigger
  /\ started' = (started \/ r.enabled)
  /\ Call(c, Resting)
  /\ UNCHANGED <<jobRow, versions, restore, execution, outages, cronHistory>>

\* ... and the job unscheduled and, if the row is enabled, scheduled anew, as the
\* request wrote it.  The scheduler is started even if that raises.
Schedule(c) ==
  LET r == caller[c].seen IN
  /\ caller[c].pc = "schedule"
  /\ trigger' = IF r.enabled THEN Scheduled(r, Untimed) ELSE Untimed
  /\ started' = (started \/ r.enabled)
  /\ Call(c, Resting)
  /\ UNCHANGED <<jobRow, versions, restore, execution, outages, cronHistory>>

\* delete_job unschedules the job, whether there is one or not ...
Unschedule(c) ==
  /\ caller[c].pc = "rest"
  /\ versions > 0
  /\ trigger' = Untimed
  /\ Call(c, [pc |-> "erase"])
  /\ Crosses
  /\ UNCHANGED <<jobRow, versions, started, restore, execution, outages, fired, again, cut, skipped>>

\* ... and deletes the row.
Erase(c) ==
  /\ caller[c].pc = "erase"
  /\ jobRow' = NoRow
  /\ Call(c, Resting)
  /\ UNCHANGED <<versions, trigger, started, restore, execution, outages, cronHistory>>

EraseFails(c) ==
  /\ caller[c].pc = "erase"
  /\ crossed' = TRUE
  /\ Call(c, Resting)
  /\ UNCHANGED <<jobRow, versions, trigger, started, restore, execution, outages,
                 fired, again, cut, skipped>>

\* run_job_now of a job that exists: an execution by the side of the scheduler's.
RunNow(x) ==
  /\ execution[x].pc = "rest"
  /\ jobRow # NoRow
  /\ Execute(x, [pc |-> "read", timed |-> FALSE])
  /\ UNCHANGED <<jobRow, versions, trigger, started, restore, caller, outages, cronHistory>>

-------------------------------------------------------------------------------
(* Executions: the scheduler and _run_job.                                 *)

\* The trigger fires; one that fires once leaves the scheduler.
Spent == trigger' = IF trigger.once THEN Untimed ELSE trigger

Fires(x) ==
  /\ started
  /\ trigger # Untimed
  /\ Timed = {}
  /\ execution[x].pc = "rest"
  /\ Execute(x, [pc |-> "read", timed |-> TRUE])
  /\ Spent
  /\ UNCHANGED <<jobRow, versions, started, restore, caller, outages, cronHistory>>

\* It comes more than misfire_grace_time late, or finds the last execution running.
FiresInVain ==
  /\ started
  /\ trigger # Untimed /\ trigger.once
  /\ Spent
  /\ skipped' = skipped \cup {trigger.v}
  /\ UNCHANGED <<jobRow, versions, started, restore, cronTasks, outages, fired, again, cut, crossed>>

\* _run_job reads the row, and returns if there is none or, unless it was asked to
\* run now, it is disabled.  Then the job runs, as it was read.
ReadsJob(x) ==
  LET timed == execution[x].timed IN
  /\ execution[x].pc = "read"
  /\ IF jobRow = NoRow \/ ~(jobRow.enabled \/ ~timed)
     THEN Execute(x, Resting) /\ UNCHANGED <<fired, again>>
     ELSE /\ Execute(x, [pc |-> "run", timed |-> timed, once |-> jobRow.once, v |-> jobRow.v])
          /\ IF timed /\ jobRow.once
             THEN /\ fired' = fired \cup {jobRow.v}
                  /\ again' = IF jobRow.v \in fired THEN again \cup {jobRow.v} ELSE again
             ELSE UNCHANGED <<fired, again>>
  /\ UNCHANGED <<jobRow, versions, trigger, started, restore, caller, outages,
                 cut, skipped, crossed>>

\* Mutant: a job that failed is not removed.
EndsKeeping(x) ==
  LET r == execution[x] IN
  /\ r.pc = "run"
  /\ \/ /\ Execute(x, Resting)
        /\ UNCHANGED <<trigger, crossed>>
     \/ /\ r.once /\ r.timed
        /\ trigger' = Untimed
        /\ Execute(x, [pc |-> "erase", v |-> r.v])
        /\ Crosses
  /\ UNCHANGED <<jobRow, versions, started, restore, caller, outages, fired, again, cut, skipped>>

\* It completes or fails.  If it was to run once and the scheduler fired it, the job
\* is unscheduled, whatever schedule it has by now ...
Ends(x) ==
  LET r == execution[x] IN
  /\ r.pc = "run"
  /\ IF r.once /\ r.timed
     THEN /\ trigger' = Untimed
          /\ Execute(x, [pc |-> "erase", v |-> r.v])
          /\ Crosses
     ELSE Execute(x, Resting) /\ UNCHANGED <<trigger, crossed>>
  /\ UNCHANGED <<jobRow, versions, started, restore, caller, outages, fired, again, cut, skipped>>

\* ... and its row deleted.
Removes(x) ==
  /\ execution[x].pc = "erase"
  /\ jobRow' = NoRow
  /\ Execute(x, Resting)
  /\ UNCHANGED <<versions, trigger, started, restore, caller, outages, cronHistory>>

\* A call of the database raises in an execution: nothing after it is done.
Breaks(x) ==
  LET r == execution[x] IN
  /\ r.pc # "rest"
  /\ Execute(x, Resting)
  /\ cut' = IF x \in Timed /\ r.pc # "read" THEN cut \cup {r.v} ELSE cut
  /\ crossed' = (crossed \/ x \in Timed)
  /\ UNCHANGED <<jobRow, versions, trigger, started, restore, caller, outages, fired, again, skipped>>

\* The process ends and begins anew, with nothing but the row.
Outage ==
  /\ outages < MaxOutages
  /\ outages' = outages + 1
  /\ trigger' = Untimed
  /\ started' = FALSE
  /\ restore' = [at |-> "due"]
  /\ caller' = [c \in Caller |-> Resting]
  /\ execution' = [x \in Execution |-> Resting]
  /\ cut' = cut \cup { execution[x].v : x \in { y \in Timed : execution[y].pc # "read" } }
  /\ skipped' = {}
  /\ crossed' = FALSE
  /\ UNCHANGED <<jobRow, versions, fired, again>>

CronNext ==
  \/ OtherJobScheduled \/ StartsLate \/ Starts \/ Lists \/ Syncs
  \/ \E c \in Caller : Write(c) \/ Schedule(c) \/ Unschedule(c) \/ Erase(c) \/ EraseFails(c)
  \/ \E x \in Execution :
       \/ RunNow(x) \/ Fires(x) \/ ReadsJob(x)
       \/ Ends(x) \/ Removes(x) \/ Breaks(x)
  \/ FiresInVain
  \/ Outage

CronSpec == CronInit /\ [][CronNext]_cronVars

-------------------------------------------------------------------------------
(* Properties.                                                             *)

\* When no task is changing them, the scheduler holds the trigger of the row's
\* version if the row is enabled, and none otherwise, also after a restart in the
\* middle of anything: unless since the last restart two changes overlapped, one
\* broke or start returned early; a trigger that fires once is gone while its
\* execution runs and once it fired in vain.
ScheduleMatchesRow ==
  Changing = {} /\ ~crossed /\ restore.at = "over" =>
    IF jobRow # NoRow /\ jobRow.enabled /\ jobRow.ok
    THEN \/ trigger = [v |-> jobRow.v, once |-> jobRow.once]
         \/ jobRow.once /\ trigger = Untimed /\ (jobRow.v \in skipped \/ Timed # {})
    ELSE trigger = Untimed

\* "Run only once and delete after execution" (core/tools/cron_tools.py:83): the
\* scheduler executes a version that is to run once a single time, whatever updates,
\* deletions and restarts come between, unless the execution was cut before it had
\* removed the job.
RunsOnce == again \subseteq cut
===============================================================================
