-------------------------------- MODULE PaidPins -------------------------------
(***************************************************************************)
(* The paid pin of the job bot: a payment by bank transfer                 *)
(* (modules/job-bot/handlers/job.py, manual_payment_start on), its receipt *)
(* forwarded to the administrator, the administrator's buttons, the pin    *)
(* (fulfill_paid_feature), and the job that takes due pins down            *)
(* (scheduler.py: unpin_due_messages).                                     *)
(*                                                                         *)
(* One employer: users share no FSM state.  The price of the pin has been  *)
(* put into the settings by hand (/set_price writes another key).  Time is *)
(* counted in units of which a pin lasts Term.                             *)
(***************************************************************************)
EXTENDS Naturals, Sequences, FiniteSets

CONSTANTS
  Post,         \* published vacancies of the employer, by their channel post
  Term,         \* how long a pin is paid for
  MaxPayments,  \* bound: rows of payments
  MaxUnpins,    \* bound: rows of scheduled_unpins
  MaxTime,      \* bound: the time at which the administrator stops confirming
  MaxHandlers,  \* bound: suspended handlers at any time
  MaxRestarts   \* bound: restarts of the process

ASSUME PaidPinsAssumption ==
  /\ {Term, MaxPayments, MaxUnpins, MaxTime, MaxHandlers} \subseteq Nat \ {0}
  /\ MaxRestarts \in Nat

VARIABLES
  payments,  \* payments: [post, status]
  awaiting,  \* the FSM state is waiting_payment_check
  pending,   \* pending_payment_id of the FSM data, 0 for None
  clicked,   \* history: the payment whose "I have paid" was pressed last
  inbox,     \* payments whose receipt, with its buttons, is in the admin's chat
  pinned,    \* posts pinned in the channel
  unpins,    \* scheduled_unpins: [post, due, status]
  stuck,     \* history: posts left pinned by an error or a restart
  job,       \* the unpin job: its rows still to do and its next call
  task,      \* the handlers under way, by slot
  now,       \* the clock
  restarts   \* how often the process has been restarted

shop    == <<payments, awaiting, pending, clicked, inbox>>
channel == <<pinned, unpins, stuck, job>>
vars    == <<shop, channel, task, now, restarts>>

Slot    == 1..MaxHandlers
Payment == 1..MaxPayments
Unpin   == 1..MaxUnpins
NoTask  == [kind |-> "none"]
NoJob   == [todo |-> <<>>, call |-> "none"]

PaymentRow == [post : Post, status : {"pending", "paid", "rejected"}]
UnpinRow   == [post : Post, due : Nat, status : {"scheduled", "done", "failed"}]

Handler == {NoTask} \cup [kind : {"forward", "settle", "pin", "schedule"},
                          payment : 1..Len(payments)]

TypeOK ==
  /\ payments \in Seq(PaymentRow)
  /\ Len(payments) <= MaxPayments
  /\ awaiting \in BOOLEAN
  /\ {pending, clicked} \subseteq 0..Len(payments)
  /\ inbox \subseteq 1..Len(payments)
  /\ pinned \subseteq Post
  /\ unpins \in Seq(UnpinRow)
  /\ stuck \subseteq Post
  /\ job \in [todo : Seq(1..Len(unpins)),
              call : {"none", "unpin", "markDone", "markFailed"}]
  /\ (job.call = "none") <=> (job.todo = <<>>)
  /\ task \in [Slot -> Handler]
  /\ now \in 0..(MaxTime + Term)
  /\ restarts \in 0..MaxRestarts

Init ==
  /\ payments = <<>>
  /\ awaiting = FALSE
  /\ pending = 0
  /\ clicked = 0
  /\ inbox = {}
  /\ pinned = {}
  /\ unpins = <<>>
  /\ stuck = {}
  /\ job = NoJob
  /\ task = [k \in Slot |-> NoTask]
  /\ now = 0
  /\ restarts = 0

Begin(k, kind, p) == /\ task[k] = NoTask
                     /\ \A j \in Slot : j < k => task[j] # NoTask
                     /\ task' = [task EXCEPT ![k] = [kind |-> kind, payment |-> p]]

GoOn(k, kind) == task' = [task EXCEPT ![k].kind = kind]
Done(k)       == task' = [task EXCEPT ![k] = NoTask]

PostOf(k) == payments[task[k].payment].post

\* Scheduled rows of a post.
Scheduled(p) == { i \in 1..Len(unpins) : unpins[i].post = p /\ unpins[i].status = "scheduled" }

Fulfilling == { k \in Slot : task[k].kind \in {"pin", "schedule"} }

\* The posts whose pin a handler has set but not yet scheduled to end.
BeingScheduled == { PostOf(k) : k \in { j \in Slot : task[j].kind = "schedule" } }

-------------------------------------------------------------------------------
(* Buying a pin.                                                           *)

\* manual_payment_start: price and phone are set, a pending row is inserted.
StartPayment(p) ==
  /\ Len(payments) < MaxPayments
  /\ payments' = Append(payments, [post |-> p, status |-> "pending"])
  /\ UNCHANGED <<awaiting, pending, clicked, inbox, channel, task, now, restarts>>

\* "I have paid", under any payment's message: manual_payment_paid.
ClickPaid(p) ==
  /\ p \in 1..Len(payments)
  /\ pending' = p
  /\ awaiting' = TRUE
  /\ clicked' = p
  /\ UNCHANGED <<payments, inbox, channel, task, now, restarts>>

\* A photo while the receipt is awaited: handle_payment_check reads the FSM data
\* (no payment there: the photo is ignored), then the payment's row.
SendPhoto(k) ==
  /\ awaiting
  /\ pending # 0
  /\ Begin(k, "forward", pending)
  /\ UNCHANGED <<shop, channel, now, restarts>>

\* The receipt reaches the administrator's chat.
Forward(k) ==
  /\ task[k].kind = "forward"
  /\ inbox' = inbox \cup {task[k].payment}
  /\ GoOn(k, "settle")
  /\ UNCHANGED <<payments, awaiting, pending, clicked, channel, now, restarts>>

\* update_data(pending_payment_id=None): whichever payment is pending by now.
Settle(k) ==
  /\ task[k].kind = "settle"
  /\ pending' = 0
  /\ Done(k)
  /\ UNCHANGED <<payments, awaiting, clicked, inbox, channel, now, restarts>>

\* Any button of the menu: state.clear().
Leave ==
  /\ awaiting
  /\ awaiting' = FALSE
  /\ pending' = 0
  /\ clicked' = 0
  /\ UNCHANGED <<payments, inbox, channel, task, now, restarts>>

-------------------------------------------------------------------------------
(* The administrator's buttons.  A rejected receipt is a photo, whose text  *)
(* cannot be edited: both buttons stay under it.                            *)

\* manual_payment_confirm: the row is marked paid whatever its status was.
Confirm(p, k) ==
  /\ p \in inbox
  /\ Len(unpins) + Cardinality(Fulfilling) < MaxUnpins
  /\ now < MaxTime
  /\ payments' = [payments EXCEPT ![p].status = "paid"]
  /\ Begin(k, "pin", p)
  /\ UNCHANGED <<awaiting, pending, clicked, inbox, channel, now, restarts>>

\* manual_payment_reject
Reject(p) ==
  /\ p \in inbox
  /\ payments' = [payments EXCEPT ![p].status = "rejected"]
  /\ UNCHANGED <<awaiting, pending, clicked, inbox, channel, task, now, restarts>>

\* fulfill_paid_feature: the vacancy is read and its post is pinned ...
Pin(k) ==
  /\ task[k].kind = "pin"
  /\ pinned' = pinned \cup {PostOf(k)}
  /\ GoOn(k, "schedule")
  /\ UNCHANGED <<shop, unpins, stuck, job, now, restarts>>

\* ... then the end of the pin is scheduled.
ScheduleUnpin(k) ==
  /\ task[k].kind = "schedule"
  /\ unpins' = Append(unpins, [post |-> PostOf(k), due |-> now + Term, status |-> "scheduled"])
  /\ Done(k)
  /\ UNCHANGED <<shop, pinned, stuck, job, now, restarts>>

\* A database or Telegram call of a handler raises.
Break(k) ==
  /\ task[k] # NoTask
  /\ stuck' = IF task[k].kind = "schedule" THEN stuck \cup {PostOf(k)} ELSE stuck
  /\ Done(k)
  /\ UNCHANGED <<shop, pinned, unpins, job, now, restarts>>

-------------------------------------------------------------------------------
(* The unpin job: one run at a time, every ten minutes.                    *)

\* Mutant: only the rows due at this very time are listed.
DueRowsNow == { i \in 1..Len(unpins) : unpins[i].status = "scheduled" /\ unpins[i].due = now }

DueRows == { i \in 1..Len(unpins) : unpins[i].status = "scheduled" /\ unpins[i].due <= now }

\* Mutant: the loop's first call is made although nothing is due.
StartJobAnyway ==
  /\ job = NoJob
  /\ job' = [todo |-> <<>>, call |-> "unpin"]
  /\ UNCHANGED <<shop, pinned, unpins, stuck, task, now, restarts>>

\* list_due_unpins; the database may return its rows in any order.
StartJob ==
  /\ job = NoJob
  /\ DueRows # {}
  /\ \E order \in [1..Cardinality(DueRows) -> DueRows] :
       /\ { order[i] : i \in DOMAIN order } = DueRows
       /\ job' = [todo |-> order, call |-> "unpin"]
  /\ UNCHANGED <<shop, pinned, unpins, stuck, task, now, restarts>>

JobPost == unpins[Head(job.todo)].post

UnpinPost ==
  /\ job.call = "unpin"
  /\ pinned' = pinned \ {JobPost}
  /\ job' = [job EXCEPT !.call = "markDone"]
  /\ UNCHANGED <<shop, unpins, stuck, task, now, restarts>>

\* Mutant: the exception is swallowed and the row marked done.
UnpinFailsQuietly ==
  /\ job.call = "unpin"
  /\ job' = [job EXCEPT !.call = "markDone"]
  /\ UNCHANGED <<shop, pinned, unpins, stuck, task, now, restarts>>

\* unpin_chat_message raises.
UnpinFails ==
  /\ job.call = "unpin"
  /\ job' = [job EXCEPT !.call = "markFailed"]
  /\ UNCHANGED <<shop, pinned, unpins, stuck, task, now, restarts>>

\* mark_unpin_done: a failed row is never tried again.
MarkRow ==
  LET failed == job.call = "markFailed" IN
  /\ job.call \in {"markDone", "markFailed"}
  /\ unpins' = [unpins EXCEPT ![Head(job.todo)].status = IF failed THEN "failed" ELSE "done"]
  /\ stuck' = IF failed THEN stuck \cup ({JobPost} \cap pinned) ELSE stuck
  /\ job' = IF Tail(job.todo) = <<>> THEN NoJob ELSE [todo |-> Tail(job.todo), call |-> "unpin"]
  /\ UNCHANGED <<shop, pinned, task, now, restarts>>

\* mark_unpin_done raises: inside the try the row is marked failed instead,
\* inside the except the run ends and leaves its rows scheduled.
MarkFails ==
  /\ job.call \in {"markDone", "markFailed"}
  /\ job' = IF job.call = "markDone" THEN [job EXCEPT !.call = "markFailed"] ELSE NoJob
  /\ UNCHANGED <<shop, pinned, unpins, stuck, task, now, restarts>>

\* The process restarts: FSM data, handlers and the job's run are gone.
Restart ==
  /\ restarts < MaxRestarts
  /\ restarts' = restarts + 1
  /\ awaiting' = FALSE
  /\ pending' = 0
  /\ clicked' = 0
  /\ task' = [k \in Slot |-> NoTask]
  /\ stuck' = stuck \cup BeingScheduled
  /\ job' = NoJob
  /\ UNCHANGED <<payments, inbox, pinned, unpins, now>>

\* Pins are sold before MaxTime; the clock goes on until the last has ended.
Tick ==
  /\ now < MaxTime + Term
  /\ Fulfilling # {} => now < MaxTime
  /\ now' = now + 1
  /\ UNCHANGED <<shop, channel, task, restarts>>

Work(k) == Forward(k) \/ Settle(k) \/ Pin(k) \/ ScheduleUnpin(k) \/ Break(k)
JobStep == StartJob \/ UnpinPost \/ UnpinFails \/ MarkRow \/ MarkFails

Next ==
  \/ \E p \in Post : StartPayment(p)
  \/ \E p \in Payment : ClickPaid(p) \/ Reject(p) \/ \E k \in Slot : Confirm(p, k)
  \/ \E k \in Slot : SendPhoto(k) \/ Work(k)
  \/ Leave
  \/ JobStep
  \/ Restart
  \/ Tick

Spec == Init /\ [][Next]_vars

\* Time passes; a call returns or raises; the job is started again and again,
\* and the database does not refuse its updates for ever.
FairSpec ==
  /\ Spec
  /\ WF_vars(Tick)
  /\ \A k \in Slot : WF_vars(Work(k))
  /\ WF_vars(JobStep)
  /\ SF_vars(MarkRow)

-------------------------------------------------------------------------------
(* Properties.                                                             *)

\* A pinned post has a scheduled end, or its handler is about to schedule it:
\* only an error or a restart in between, or an unpin that failed, forgets it.
PinnedHasEnd ==
  \A p \in pinned : p \in stuck \cup BeingScheduled \/ Scheduled(p) # {}

\* ... and the job takes it down.
EveryPinEnds == \A p \in Post : p \in pinned ~> p \notin pinned \/ p \in stuck

\* "The vacancy is pinned in the channel for 3 days" (job.py:335): while the end
\* of a pin lies ahead, the post is pinned.
PinTerm ==
  \A i \in 1..Len(unpins) :
    unpins[i].status = "scheduled" /\ now < unpins[i].due => unpins[i].post \in pinned

\* "After the payment press the button and send the receipt" (job.py:1947): the
\* payment whose button was pressed last is the one a photo will be taken for,
\* until its receipt is on its way.
ReceiptAwaited ==
  awaiting /\ clicked # 0 =>
    \/ pending = clicked
    \/ clicked \in inbox
    \/ \E k \in Slot : task[k] # NoTask /\ task[k].payment = clicked
===============================================================================
