# LISAKOVSK-HUB: specifications

TLA+ models of the parts of this repository whose correctness depends on the
order in which things happen, the TLC runs that check them, and TLAPS proofs.
Paths below are relative to the repository's root (`src/` here).

## 1. The system

Three programs live in the repository.

**The job bot** (`modules/job-bot`, aiogram 3, Supabase, APScheduler). Employers
and seekers fill forms in a Telegram chat, moderators approve vacancies,
administrators confirm payments by hand. aiogram gives an update to the first
handler, in order of registration, whose filters accept it and runs the
handlers of different updates concurrently on one event loop. Every database
call is sent to a thread (`db.py:29-30`) and every Telegram call is a request:
at each of them the handler suspends and other handlers run. Reading and
writing the FSM context (`MemoryStorage`, `main.py:21`) does not suspend.
Nothing orders the handlers of one user, and nothing is a transaction.

| part | state it keeps | operations | talks to |
|---|---|---|---|
| forms (`handlers/job.py` 353-1697, 2187-2994) | FSM state and data of each user; `job_vacancies`, `companies`, `job_seekers` | questions, menu buttons and commands, last answer | moderators' chat |
| editing (`handlers/job.py` 3026-4174) | FSM state and data; columns of `job_vacancies` | card, field, new value, prompt, save, cancel | - |
| paid pins (`handlers/job.py` 303-350, 1883-2184; `scheduler.py` 25-32) | `payments`, `scheduled_unpins`, pinned posts, FSM data | start, "I have paid", receipt, confirm, reject, pin, unpin job | administrator's chat, channel |
| moderation and reactions (`handlers/job.py` 272-300, 1699-1838) | vacancy status, `job_notifications` | approve, reject, like, dislike, complain, close | channel, seekers, employer |
| usage and referrals (`services/limits.py`, `db.py` 375-445, 580-626) | `usage_limits`, `referrals` | count, reset by date and by cron | forms, notifications |
| settings (`handlers/job.py` 4186-4395) | `bot_settings` | set a price, a limit, a phone | paid features |

**The orchestrator** (`services/orchestrator`, a copy of AstrBot). An event bus
starts one asyncio task per incoming message; a chain of stages decides whether
and how an agent answers it. The parts with state that several tasks share:

| part | state | what must hold |
|---|---|---|
| session lock (`core/utils/session_lock.py`) | lock objects and reference counts by session | one turn per session at a time, in order of arrival; no lock left behind |
| follow-ups (`core/pipeline/process_stage/follow_up.py`) | order slots by session, tickets of a running agent | a captured message is consumed or served, in order, and never waits for ever |
| session waiter (`core/utils/session_waiter.py`) | the waiter of each session, the list of filters, a lock and a timer per waiter | a pending waiter gets its session's messages, each of them once |
| rate limit (`core/pipeline/rate_limit_check/stage.py`) | time stamps and a lock by session | no more than n messages in a window |
| web chat (`core/platform/sources/webchat/`, `dashboard/services/chat_service.py`) | input queue and listener of a conversation, back queue of a request | every input queue has a listener, every back queue a stream that removes it, every exchange ends |
| cron jobs (`core/cron/manager.py`) | jobs in the database and in the scheduler | the two agree, also after a restart; a run-once job runs once |
| MCP tool servers (`core/provider/func_tool_manager.py`, `dashboard/services/tools_service.py`) | configuration file, running servers, their listed tools, starts under way | tools listed are those of the running client; a server is started once; file and registry agree; every request ends |

Providers, other tools, plugins, platform adapters, storage, knowledge base and the
dashboard are adapters, loaders or sequential storage.

**The launcher** (`services/sygen/main.py`) has no state.

The hard behaviours: a state that is set or cleared after an await, by a handler
of an earlier update; several database calls that belong together; old messages
whose buttons still work; a restart, which loses the FSM data and the handlers
and keeps the rows and the buttons; cancellation of a task that was just woken.
`PROJECT.json` lists each at its line under "hazards".

## 2. Modules

| module | models | code |
|---|---|---|
| `SessionTurns` | what the session lock promises: a line per session | `SessionLockManager.acquire_lock` as seen by its caller |
| `SessionLock` | the reference-counted dictionary of asyncio locks | `session_lock.py`, and asyncio.Lock from how it is used |
| `Forms` | the vacancy, company and seeker forms | `handlers/job.py` |
| `EditCards` | editing a vacancy | `handlers/job.py` from `edit_vacancy` on |
| `PaidPins` | manual payment, receipt, pin, unpin job | `handlers/job.py`, `scheduler.py` |
| `Moderation` | approval, rejection, closing, notifications and their limit, reactions | `handlers/job.py`, `services/limits.py`, `db.py`, `scheduler.py` |
| `FollowUps` | messages captured by a running agent, with `SessionTurns` as the lock | `follow_up.py`, `tool_loop_agent_runner.py`, `internal.py`, `astr_agent_run_util.py` |
| `SessionWaiter` | plugins that wait for a user's next messages | `session_waiter.py`, `builtin_stars/astrbot/main.py` |
| `RateLimit` | the rate limit of one session | `rate_limit_check/stage.py` |
| `CronJobs` | one scheduled job: row, trigger, executions | `core/cron/manager.py`, `cron_service.py`, `cron_tools.py` |
| `McpServers` | tool servers: file, registry, life-cycle tasks, requests | `func_tool_manager.py`, `tools_service.py`, `provider/manager.py` |
| `WebChat` | one conversation: queues, listener, streams, pipeline | `webchat_queue_mgr.py`, `webchat_event.py`, `webchat_adapter.py`, `chat_service.py` |
| `SessionLockProofs`, `FormsProofs`, `PaidPinsProofs`, `ModerationProofs`, `McpServersProofs` | theorems about the module each is named after | |
| `SafetyProofs` | theorems about `EditCards`, `SessionWaiter`, `CronJobs`, `RateLimit` and the run that holds them | |
| `ProgressProofs` | theorems about `FollowUps`, `WebChat` and the run that holds them and `McpServers` | |
| `QueueLemmas` | queues without repetitions, removals, suffixes, the least element of a set of naturals | |

The `MC...` modules fix the instance TLC checks. `MCSafety` and `MCProgress` put
several components into one run. These share no variable, so nothing is
composed: the variable `active` is chosen by the initial state and never
changes, and only that component moves. `side` in `MCModeration` does the same
for two instances of one module. What components do share is composed in the
modules: `FollowUps` runs its turns under an instance of `SessionTurns`, which
`SessionLock` is proved to implement.

### SessionLock

A step is what a task does between two suspensions. `_access_lock` is held
across no suspension, so no task ever finds it taken and acquiring it never
suspends: it has no variable. `locks` and `count` are the two dictionaries;
`locked` and `waiters` are the fields of each `asyncio.Lock`; `fut` is the
future of a queued task (sleeping, woken, cancelled, or woken and then
cancelled); `ref` and `sess` are the local variables of `acquire_lock`. A lock
object has an identity, because the hazard is a task that keeps an object which
the dictionary has dropped. `EnterNew`, `EnterFree` and `EnterQueue` are the
three ways through the first lines of `acquire_lock`; `Exit` and `Unwind` are
the `finally` after the body and after a cancellation. `SessionTurns` is
refined under the mapping `LineOf`: the holder, then the queued tasks that have
not been cancelled.

Which of several per-loop managers serves a call is left out: the pipeline runs
on one event loop.

### Forms

Of an answer only its key in the FSM data is kept. The questions are a table
(state, keys filled, next state); one action `Answer` follows it. The handlers
that call the database are split there: `PressPublish`/`CompanyRead`,
`SendVacancy`/`CreateVacancy`/`Finish`/`Announce`, and the same for the company
and the seeker. `Swallows` is the set of states whose handler accepts any text
and stands before the menu's handlers: a menu button pressed there is an answer.
An answer that a question refuses changes nothing and is no step. `abandoned` is
a history variable: vacancies whose handler died.

### EditCards

A draft remembers the text it came from, and `row` the text each column came
from, so "the two columns of a salary belong together" and "this text was shown"
can be said. A save writes its columns one update at a time (`todo`). A handler
that was given a value reads the vacancy, stores draft and state (`StoreDraft`), and
only then sends the prompt (`ShowPrompt`), which may come late or, after an error
or a restart, never. `shown` is the set of prompts in the chat, whose buttons work
for ever; `unsent` remembers the prompts whose draft was stored and that have not
arrived, `strayed` the vacancies whose card was opened over a draft given under another
card, or got one late, `torn` those on which two saves overlapped or one died.

### PaidPins

`Confirm` starts a handler that pins (`Pin`) and then schedules the end
(`ScheduleUnpin`); the job lists due rows in any order and does one call at a
time. A call may raise (`Break`, `UnpinFails`, `MarkFails`) and the process may
restart. A second press of "confirm" is possible, as in the code: the button
stays and the update is unconditional. `stuck` remembers the posts that an error
left without an end, `clicked` the payment whose button was pressed last.
It is assumed that the key `price_pin` was put into the settings by hand:
`/set_price` writes `price_pin_per_day` (`job.py:4246`), which nothing that sells
a pin reads.

### Moderation

`task` holds the handlers under way, whatever they are: an approval (`Post`,
`MarkApproved`, `TellApproved`, `ListSeekers`, then a round of notifications), a
rejection (`MarkRejected`, `TellRejected`, `ClearReason`), a broadcast (a round
without limit) and a like (`CheckReacted`, `SetLike`, `TellLike`). A step is one
call and what the handler does until the next. A round visits the matching
seekers in any order; for each it reads today's usage, sends, records the row,
and increments the count by a read (`Get`) and a write (`Put`). `get_or_create_usage`
resets a row of an earlier day by a call of its own (`Roll`), which writes the day on
which the row was read. Whoever else reads the row does the same: a user who created
a vacancy, paid for a broadcast or pressed a buy button may be a seeker too. These
handlers are in the model as far as they touch the row: `LookUp` finds it stale and
`Reset` writes zero, although a round may have counted meanwhile. A call inside the
loop's `try` that raises loses one seeker (`VisitFails`); any other loses the
handler (`Break`).

Matching is a constant, `Fits`: the query compares columns that no handler of the
model changes. `DailyReset` may come at any time after midnight, which also covers
that the job runs by the server's clock and `get_or_create_usage` uses its own
date. `Close` is one update. What a post or a card says is left out.
`contested` remembers the vacancies on which two decisions overlapped or one
died, `unheard` the likes whose handler died before the employer was told,
`blurred` the seekers on whom today two rounds overlapped or a call failed, or whose
row another reader reset while a round had them in hand or after it had sent. The
properties except exactly these: each exception is a behaviour of the code (no
decision asks for the earlier status; nothing retries; the count is a read and a
write), so what remains says that nothing else goes wrong.

### FollowUps

One session. `pc` is where the task of each message is; `phase`, `steps` and
`pending` are the registered runner; `slots` and `slot` the order state, kept as
the slots from `next_turn` on, so dropping an empty state is no change. The
session lock is an instance of `SessionTurns`, which `SessionLock` implements.

The order state's condition is never held across a suspension, so its notification is
the guard of `TakeTurn`. The task that watches a ticket and the task that waits
for it mark a consumed slot alike, and are one step (`Consumed`). A message's
sender is compared with one runner's, so either answer is possible: `PassBy` is
always enabled. A reply of the model calls one tool. `run_agent` leaves its loop after
`max_step + 1` steps. A step that raises leaves the runner `RUNNING`
(`StepRaises`), and `EndTurn` unregisters it with what is still pending
(`orphans`). Cancellation of a message's task is left out here; `SessionLock`
has it for the lock.

### SessionWaiter

A waiter is named after the message whose handler registered it. `agent` is the
task of each message: it is offered to the waiters (`Arrives`, which is the loop
of `handle_session_control_agent` up to its first suspension), stands at a
waiter's lock (`Enters`), is in its handler (`HandlerStops`, `HandlerReturns`,
`HandlerRaises`), or passed by and runs a plugin that may wait itself (`Waits`,
`Resumes`). `Visit` is the loop from its i-th filter on: `FILTERS` is read again
at each index, as a Python `for` over a list that changes does, and every default
filter answers with the session of the message it is asked about, so the waiter
that is triggered is the one of that session whoever's filter it was. A timer may
run out at any time (`TimesOut`), so what `keep` resets is no variable.

`crowded` remembers the waiters that were in `FILTERS` with any other, `rivals`
those that were there with one of their own session. The two properties except
exactly these, and each exception is a behaviour of the code: `_cleanup` pops the
session's entry whoever's it is (`session_waiter.py:146`), and the loop triggers
the session's waiter once for every filter (`main.py:45-49`).

### RateLimit

`Try` is the body of the stage's loop under the session's lock; `Enter`,
`GetsLock` and `Wakes` are the three ways to it, with the `now` each has: taken
before the lock is awaited, and anew after a sleep. Stamps are dropped from the
oldest entry on and only up to the first that has not expired, which matters
because early stamps are appended late. The clock counts ticks of at least the
0.3 s by which a sleep is prolonged. Both strategies are initial states.

### CronJobs

One active, persistent job. Its row and its trigger carry the version, the number
of the request that wrote them, so "the trigger of this row" can be said. A request
writes the row and then schedules (`Write`, `Schedule`), or unschedules and then
erases the row (`Unschedule`, `Erase`); an execution reads the row, runs and, if
the job is to run once, removes it (`Fires` or `RunNow`, `ReadsJob`, `Ends`,
`Removes`). `start` returns early when some other job was scheduled before
(`StartsLate`), and otherwise starts, lists and schedules (`Starts`, `Lists`,
`Syncs`). The scheduler lets one execution of a job run at a time, drops a firing
that comes too late (`FiresInVain`), and forgets a trigger that fires once.
A call of the database may raise (`EraseFails`, `Breaks`), a time may be one that
cannot be scheduled (`ok`), and the process may end at any point (`Outage`), which
keeps the row alone.

`crossed` says that since the last restart two changes of the schedule overlapped
or one broke; `cut` holds the versions whose execution ended before it had
removed the job, `skipped` those whose only firing came to nothing. Status, last
run and next run are shown to users only and left out, as are the basic jobs of
plugins but for starting the scheduler.

### McpServers

`file` is `mcp_server.json`, `runtime` the registered client of a name, `listed`
the client whose tools are in `func_list`, `starting` the names in
`_mcp_starting`, `life` the life-cycle task of each client and `request` what each
dashboard request, and each task of the start-up, is doing. `Start` is
`_start_mcp_server` up to its first suspension, `Stop` the same of
`_shutdown_runtimes`; `Connected` and `ConnectFails`, `Terminate` and `Closed`,
`Stopped` and `StopTimesOut` are what follows. `Add` reads the file and tests the
connection, `TestPasses` writes back what `Add` read; `Update`, `Delete` and
`Sync` write first. A connection, a test and a cleanup may fail or time out; a
time-out cancels the life-cycle task in its cleanup, so the runtime stays.

A request writes one flag and may obey another. An `mcpServers` payload replaces the
whole entry, so the saved flag is the payload's own or missing (which counts as
active), while the runtime follows the request's flag; and an added server is started
whatever flag is saved. `Update` has both flags, and `parted` remembers the names
that were last written so. `Wanted` is what the requests asked of the runtime: the
file's flag, or its opposite for these.

`forgotten` are the names whose runtime the end of the start-up popped although it
was registered (`func_tool_manager.py:618`); `troubled` those for which two
requests overlapped or one failed. The file is written whole, so an `Add` that overwrites a
change to another name troubles that name too.

### WebChat

`content`, `closed` and `listener` are by number of the input queue, for a
conversation that is deleted and written to again gets a new one, while the old
listener still runs; `known` is the entry of `_listener_tasks`, kept as the number
of the queue whose listener it is, which the old listener's done-callback pops
whichever it is. The back queues made for a request are numbered: `items` holds
what is in each, its stream reads the first, `back` is the registered one, and a
put waits on the object it got (`blocked`, `waits`), registered or not. `Post`
registers the back queue and puts the message; `Opens` or `NeverOpens`, `Reads`,
`Disconnects` and `Closes` are the stream. Its `finally` awaits a save and catches
only `Exception`: `SaveCancelled` leaves before the queue is removed. `Sends`, `GoesOn`
and `Raises` are the pipeline, whose put waits when a queue is full. A proactive
message lists the registered requests (`Announces`) and goes to one after the other
(`Notifies`), waiting at each for its file and for room, so that it may make a queue
that was removed meanwhile anew. `DeleteConversation` is `remove_queues`.

`dropped` are messages that get no answer or whose queue was taken away, `leaked`
those whose back queue is registered and has no stream to remove it: the stream never
began, its save was cancelled, or a put came after its end. `BackQueueReleased` says that
nothing else leaves a queue behind, and that deletion mends all of these.

## 3. Runs

| run | instance | result |
|---|---|---|
| `SessionLock` | 4 tasks, 2 sessions, 2 lock objects | passes, about 25 000 states |
| `Forms` | 1 user, 2 handlers, 2 vacancies, 1 company | passes, about 540 000 states |
| `PaidPins` | 1 post, 1 payment, 2 ends, 2 handlers, 1 restart | passes, about 105 000 states |
| `Moderation` | decisions: 2 vacancies, 3 decisions; or notices: 1 vacancy, 1 seeker, limit 1, 2 rounds, 1 midnight; 2 handlers, 1 restart | passes, about 1 530 000 states |
| `Safety` | edit cards: 1 vacancy, 3 kinds of field, 2 texts, 2 handlers, 1 prompt, symmetric texts; waiters: 4 messages, 2 sessions; cron jobs: 2 requests, 2 executions, 2 versions, 1 restart; rate limit: 6 messages, 2 in a window of 2 ticks, both strategies | passes, about 2 240 000 states |
| `Progress` | follow-ups: 3 messages, at most 3 calls of the model in a run; tool servers: 1 at start-up, 1 absent, 2 requests at a time, 3 in all; web chat: 2 messages, 1 deletion, 1 proactive message, back queues of one item | passes, about 795 000 states |
| `CompanyCard` | 1 user, 1 handler | violation, see below |
| `Prompts` | 2 vacancies, 1 handler | violation |
| `PinTerm`, `ReceiptAwaited` | 1 post, 2 payments | violations |
| `SessionHears` | 4 messages, 2 sessions | violation |
| `TicketResolved` | 2 messages | violation |

What the properties say is written above each in its module. The deep ones:

- `MutualExclusion`, `DictionaryExact`, `WakeupNotLost`, `TurnsInOrder` and
  `EveryWaiterMoves` for the session lock, under cancellation at any point.
- `FormInOrder`: although handlers set and clear the state late, a question is
  asked only when all before it in its form are answered.
- `VacancyReachesModerators`, `VacancyDecided`: a created vacancy is shown to the
  moderators, or its handler died; in the end one or the other.
- `StateHasItsData`: the "not found" branches of `save_vacancy_*` are never taken.
- `SalaryWhole`, `SavedWasShown`: what an edit may do to a row: a salary is one
  text's, and what a column takes was shown as what this vacancy becomes, but where
  the text's own prompt was late or lost, or another card's draft was met.
- `PinnedHasEnd`, `EveryPinEnds`: a pin ends, unless an error forgot it.
- `VerdictTold`: once no decision is under way, the employer was told last what
  the row says, also when the moderator pressed another button before giving the
  reason.
- `ResponseHeard`, `ReactionKept`: a like is announced, and a card sent or
  recorded later does not wipe out an answer.
- `CountExact`, `WithinLimit`: today's count is what was sent today, across the
  lazy resets of rounds and of other readers and the scheduler's; a limited round sends nothing beyond the limit.
- `ServedInOrder`, `AnsweredOnce`, `MessageEnds` for follow-ups: order of arrival
  among the captured, no message both consumed and run, none waits for ever.
- `WaiterReachable`, `HandledOnce`: while a waiter is pending its session's
  messages find it, and each reaches its handler once, whatever time-outs, late
  handlers and messages at its lock do.
- `WithinRate`: the window holds although stamps are early and out of order.
- `ScheduleMatchesRow`, `RunsOnce`: the scheduler holds what the row says whenever
  nobody is changing it, and a run-once version is executed a single time, across
  updates, deletions, failed calls and restarts.
- `ListedIsRegistered`, `OneStart`, `FileAndRegistryAgree`, `EveryRequestEnds` for
  tool servers, under requests that overlap with one another and the start-up.
- `QueueServed`, `BackQueueReleased`, `ExchangeEnds` for the web chat, where queues
  are removed and made again while listeners, streams and puts are under way.

Several of these except what a history variable remembers. Each exception is
a behaviour of the code that no caller prevents, named where the variable is
declared; what remains says that nothing else goes wrong.

Bounds. Four tasks give a holder, a queue of two behind it and a newcomer, and
let a lock be popped and made again; the theorems cover any number. Lock objects
are reused when nobody refers to them, so two are enough for two sessions. Users
of the bot share no FSM state and no row the models read, so one user is enough;
two handlers of that user overlap, which is what every hazard needs. Two
vacancies, prompts or pins let the second be begun while the first is under way
(`MaxPrompts` is tested before a prompt is on its way, so two may be). Limit 1
makes the second round of notifications meet it; on that side the process restarts only
while a round has the seeker in hand (`RestartHere`), for at other times errors end the
handlers just as well. A vacancy that both `SalaryWhole` and `SavedWasShown` except is
followed no further (`Promised`), and the two texts are interchangeable. The clock of `PaidPins` stops a
term after the last confirmation, when every end is due. Three follow-ups are one
that runs and two that are captured, or one captured and one of another sender
that competes for the lock. Three messages of a session are two that may leave a
waiter and one that finds them; the fourth brings a waiter of another session into
`FILTERS`. Two requests and two executions overlap in every pair, two versions let
one be replaced while the other runs, and one restart may fall into anything. Six
messages in windows of two fill the window again after a sleep, with several
standing behind the sleeper. One tool server of the file and one that is absent let
requests meet the start-up, add, rename and delete; four client objects are as many as
are in use together (a fifth adds no state). Two messages let one be put while
the queue of the other is removed, and a deletion makes a second queue; a back
queue of one item makes puts wait, those of the proactive message too; messages are
numbered as they come, so none is exchanged for another.

`SessionLock`, `Forms`, `PaidPins` and `Moderation` also check for deadlock. The
others switch that off because their systems stop when the bounded messages,
requests or ticks are used up; in `Progress` the liveness properties say that
nothing is left waiting when that happens.

Fairness. `SessionLock`: a task that is ready runs and a turn ends (the event
loop is fair, and a turn that never ends is outside the lock's responsibility);
nothing is assumed of arrivals and cancellations. `Forms`: a database or
Telegram call that a handler awaits returns or raises. `PaidPins`: time passes, a
call returns or raises, the job is started again and again (APScheduler's
interval of ten minutes), and marking a row is not refused for ever, which is
strong fairness because each failure puts the job back. `FollowUps`: a task that
can go on does, and a call of the model or of a tool returns or raises; nothing is
assumed of arrivals and of /stop. `McpServers`: a task that can go on does, and
connecting, testing and cleaning up return, raise or time out (the code puts a
time-out on the connection and on the wait for a life-cycle task). `WebChat`: the
adapter is started and every task that can go on does; a client may disconnect
and need not. `MCProgress` states the three for its initial states. `Moderation`,
`EditCards`, `SessionWaiter`, `CronJobs` and `RateLimit` state no liveness: a
handler may die at any call and nothing takes up its work, a timer ends a waiter, a
plugin's handler may run as long as it likes, and whether a message passes the
limit depends on what others do. No fairness is assumed of users, moderators or
administrators.

## 4. Where the code and its texts disagree

Each of these has a run in which TLC shows the disagreement.

1. `CompanyCardOptional`: "the company card is not required" (`job.py:2818-2819`),
   but without one `vacancy_description` fails on `data["company_name"]`
   (`job.py:1636`) after the employer has answered everything.
2. `PromptHonoured`: a prompt says which vacancy becomes what (`job.py:3578-3589`);
   its button writes the vacancy and draft of the FSM data (`job.py:3988-4015`).
3. `PinTerm`: "pinned for 3 days" (`job.py:335`); the first of two pins of a post
   ends the second (`scheduler.py:25-32`).
4. `ReceiptAwaited`: "press the button and send the receipt" (`job.py:1947`); the
   receipt's handler resets the pending payment after an await (`job.py:2098`) and
   so forgets the next payment.
5. `TicketResolved`: when a run has ended "assert ticket.resolved.is_set() is True"
   (`tests/test_tool_loop_agent_runner.py:1282`). Where the runner becomes done
   that holds; where `run_agent` returns after an exception
   (`astr_agent_run_util.py:304-340`) or after `max_step + 1` steps, the runner
   is unregistered with its tickets unresolved: the captured message waits for
   ever, and so do the session's later captured messages behind its slot.
   `MessageEnds` excepts exactly these.
6. `SessionHears`: "messages subsequently sent by that sender will first be processed
   by" the waiter's handler "until the session controller is stopped or times out"
   (`docs/en/dev/star/guides/session-control.md:77`). A waiter that has ended and
   resumes after another of its session registered pops the other's entry
   (`session_waiter.py:146`): the session's next message passes by a waiter that is
   neither stopped nor timed out.

## 5. Proofs

Every safety property that a passing run checks is a theorem: the invariants as
`Spec => []Inv`, `ReactionKept` as `Spec => [][A]_vars`, and `TurnsInOrder`, that one
specification implements another; for every value of the constants, from the named
assumption of the module alone. The assumptions give the constants their
types, say that names for "none" are not names of things, and, in `SessionLock`,
that the tasks are finitely many and, in `EditCards`, that the salary is among the
fields. None of the invariants is inductive but the type invariants. For every
component there is an inductive invariant in named parts, a lemma for the initial
states, one per action, and an argument of its own:

- `SessionLock` (`TypeOK`, `MutualExclusion`, `DictionaryExact`,
  `WakeupNotLost`). Mutual exclusion needs that two users of a session have the
  same lock object, which needs that the entry is not popped while the count says
  someone uses it, which needs that the count is the number of users; and it
  needs that at most one user of a lock is neither queued nor gone, which needs
  that nobody is given a lock while another was woken for it. A queue holds,
  once each, exactly the users that wait; a lock is `locked` exactly while one user
  holds it; a woken task is the first of its queue and its lock is free; the first
  of a free lock's queue does not sleep. The count uses the library's theorems on
  cardinality.
- `Forms` (`TypeOK`, `FormInOrder`, `VacancyReachesModerators`). Every question leads
  to the next place of its own form (`QuestionFacts`), so what is filled at a place is
  what was filled at the place before and its answer: `Filled` is characterised place
  by place without induction. A vacancy without a row at the moderators' has a handler
  under way that will announce it, or lost it (`AnswersComplete` and the parts beside it).
- `EditCards` (`TypeOK`, `StateHasItsData`, `SalaryWhole`, `SavedWasShown`). A
  vacancy that is not torn has one save under way (`OneSaves`), which has
  written none, one or both columns of one text (`SavesWhole`); the draft's columns
  agree (`DraftWhole`). The draft of the card that is open was shown as this card's, or its
  prompt is under way or lost, or the card is known to have met another's draft
  (`DraftWasShown`); so is what a save has in hand (`SavingWasShown`), and no step takes
  back what was shown, is unsent or has strayed (`PromptsKept`).
- `PaidPins` (`TypeOK`, `PinnedHasEnd`). A row about to be marked done is no longer
  needed: its post was taken down or has another end (`DoneNotNeeded`).
- `Moderation` (`TypeOK`, `ApprovedIsPublished`, `VerdictTold`, `ResponseHeard`,
  `CountExact`, `WithinLimit`, `ReactionKept`). A row about to be marked approved has
  its post (`MarkedHasPost`); where decisions do not overlap there is one, and
  between its mark and its message the row says what the employer will be told,
  unless it was closed (`OneDecides`, `VerdictDue`). Where rounds do not overlap on a
  seeker one handler has the seeker in hand (`OneVisits`), resets only a row of an
  earlier day (`RollsStale`), writes back the count it read (`PutsWhatIs`,
  `CarriesNone`), another reader's reset finds it neither in hand nor counted, or the
  seeker is excepted (`ResetKeeps`), and what was sent today is what is counted and at most the one in
  hand (`SentCounted`), below the limit before a send (`SendsBelow`).
- `FollowUps` (`TypeOK`, `ServedInOrder`, `AnsweredOnce`). The slots are a suffix of
  the captured messages and all before them were handled (`Remaining`): the order state
  pops only the first, and `next_turn` passes only slots already handled. A
  captured message that goes on by itself has only handled ones before it
  (`HandledBefore`). A ticket that a runner holds is pending and its task waits for it,
  and a message whose text was used has a consumed ticket (`Tickets`), so it never
  gets a run of its own.
- `SessionWaiter` (`WaiterTypeOK`, `WaiterReachable`, `HandledOnce`). An entry
  names a waiter of its session that waits still (`EntryWaits`), so the pop of a
  waiter that resumes hits another's entry only if two of the session waited
  together (`TogetherRivals`). A message is offered to a waiter twice only when the
  loop goes on and finds a further filter; `FILTERS` holds the filters of the plugins
  that wait, once each (`FiltersWait`), so a further one is another's
  (`TogetherCrowded`). A waiter's line holds exactly the messages that trigger it.
- `RateLimit` (`RateTypeOK`, `WithinRate`). The stamps are not the times at which
  messages passed, so the invariant speaks of the messages that passed, in the order
  in which they did: there is a sequence of them (`Ordered`) of which the stamps are
  those of the last (`Stamped`); each that has lost its stamp passed more than a window
  ago; an early stamp stands behind a right one of the same tick, because only who
  waited for the lock has an early one and who held it passed in that tick
  (`JustPassed`); messages `Limit` places apart are more than a window apart
  (`Spaced`). Dropping stamps up to the first that has not expired keeps this
  (`DropKeeps`), and so does a message that passes with fewer than `Limit` left
  (`OnePasses`). That more than `Limit` messages in a window would include two that
  are `Limit` places apart is a counting argument over the sequence.
- `CronJobs` (`CronTypeOK`, `ScheduleMatchesRow`, `RunsOnce`). As long as no two
  changes overlapped there is at most one (`OneChange`); it knows the row as it is
  and has emptied the scheduler if it will (`ChangeKnowsRow`); with none the trigger
  is the row's (`QuietMatches`). A version that ran is gone from the row, about to be
  removed by its execution, or was cut (`RanIsLeaving`).
- `McpServers` (`McpTypeOK`, `ListedIsRegistered`, `OneStart`, `FileAndRegistryAgree`).
  A start is marked exactly while one task connects (`MarkedConnects`), a registered
  name is not being started (`NotBoth`), and a life-cycle task that has not ended looks
  after the client that is registered for its name (`OwnRuntime`), so that what it
  drops by name is its own. File and registry: as long as nothing went wrong with a
  name, at most one worker has it in hand, what that worker does fits what the file
  and the registry hold of it (`Fits`), with none they agree, and what is registered
  runs (`Agrees`); a name whose flags parted is in the file (`PartedInFile`), so what
  is asked of it is not lost with the entry; a client has one worker or one life-cycle task (`OwnClient`).
- `WebChat` (`WebTypeOK`, `QueueServed`, `BackQueueReleased`). The conversation's queue
  is the last that was made and a listener's entry is its own or empty (`LastQueue`),
  so no removal or registration touches another queue's listener. Who refers to a back
  queue refers to one that was made (`Holders`), so a new one has its own number;
  `BackQueueReleased` is inductive beside that.
- The compositions (`SafetyTypeOK`, `ProgressTypeOK`): a step of one component keeps
  the others' variables, and so their invariants.

Recurring facts about queues are in `QueueLemmas`. The library's induction rules take
an operator as a parameter, which the provers cannot instantiate; where a proof
needs an induction over numbers it takes the least member of the set of
counterexamples, which exists because the order of the naturals is well-founded
(`LeastOf`).

`SessionLockProofs` ends with the refinement `Refines`: `Spec => TurnsInOrder`, the
counted locks implement `SessionTurns`. The line of a session is its holder and what
`Within` selects from the queue of its lock, so the proof first says of that
recursive function what it does to a queue of any length: there is one selection
for every place (`SelectionExists`, `SelectionUnique`, by least counterexample), and
it is kept, extended, or loses one place when a newcomer joins, the first leaves, one
who was not selected leaves, or a member is no longer selected (`WithinAppend`,
`WithinFirst`, `WithinWithout`, `WithinFewer`, by `BuiltByAppending`: a set of
sequences closed under appending is all of them). Then each action takes its turn:
the three `Enter` actions arrive, `Resume` begins, `Exit` finishes, `Cancel` gives
up, and `Unwind` is no step, also where the dictionary drops the lock with the last
user. That nobody overtakes rests on the inductive invariant: who takes a free lock at
once finds nobody that stays in its queue, and who is woken is the first of it.

Only model-checked is liveness: `EveryWaiterMoves`, `VacancyDecided`, `EveryPinEnds`,
`MessageEnds`, `EveryRequestEnds` and `ExchangeEnds`. They need fairness and ENABLED,
which are beyond the provers.

## 6. Not modelled

The models cover the parts of the two programs in which steps of several tasks
meet over shared state. They are a small share of the repository: most of its
135 000 lines are adapters to messengers and language models, configuration
defaults, dashboard routes, storage and text, in which an operation reads or
writes rows of its own and no order of steps changes what a user is promised.

- Texts, keyboards, statistics, prices: formatting, reads, and key-value writes.
- Editing a company, the price and phone dialogues, `found_work`: single updates.
- Monthly counters, referral bonuses, unlimited and VIP: no keyboard offers them.
- The event bus and the pipeline's stages: one task per event; what a stage shares
  with other events is in `SessionLock`, `FollowUps`, `RateLimit` and `WebChat`.
- Providers, plugins, knowledge base, backup, platform adapters, the launcher.
- Of modelled parts: cancellation of a captured message's task, the shutdown of
  the web chat's queue manager and of the tool servers, the reconnection of an MCP
  client, the subscriptions of the chat's websocket, basic cron jobs, custom
  session filters, a second proactive message beside the first, whose components count
  as one item.

Known hazards that no property covers:

- `job.py:1630`: the state stays `VacancyForm:description` until the row is written, so
  a second message creates a second vacancy of the same answers. `Forms` does it;
  nothing in the code or its texts forbids it.
- `db.py:134`: `create_company` does not look for a company of the owner, and
  `get_company_by_owner` takes any one.
- `job.py:1958`: "I have paid" stores the FSM data inside itself as
  `pending_vacancy_data`, so they grow with every press.
- `job.py:4246`: `/set_price` writes `price_pin_per_day`, which nothing that sells a
  pin reads.
- `db.py:290`: seekers are matched by a sphere that their form never asks for.
- `db.py:502`: a payment can be fulfilled twice, for the update is unconditional. Its
  effect on a pin is in `PinTerm`.
- `tool_loop_agent_runner.py:1173`: a tool without a return value ends the run after
  its result has taken the pending follow-ups along.

What would come next: the pipeline's scheduler over the stages that are modelled,
custom session filters, and an abstract queue of a session's messages that
`FollowUps` implements.
