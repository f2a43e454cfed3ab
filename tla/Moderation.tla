------------------------------- MODULE Moderation ------------------------------
(***************************************************************************)
(* What happens to a vacancy once it is in the moderators' chat            *)
(* (modules/job-bot/handlers/job.py): approval with its post, rejection    *)
(* with a reason, closing, the round of notifications that an approval or  *)
(* a paid urgent broadcast starts (send_vacancy_notifications) under a     *)
(* daily limit (services/limits.py, db.py), and the seekers' answers.      *)
(*                                                                         *)
(* Handlers of different updates overlap at every call to the database or  *)
(* to Telegram; task holds those under way.  Every seeker has filled the   *)
(* form and has a row of usage_limits.                                     *)
(***************************************************************************)
EXTENDS Naturals, FiniteSets

CONSTANTS
  Vacancy,
  Seeker,
  Fits,            \* pairs <<v, s>> whose sphere and schedule agree
  Referrals,       \* of each seeker, those whom the seeker has brought
  FreeLimit,       \* FREE_NOTIFICATIONS_PER_DAY
  BonusThreshold,  \* REFERRAL_NOTIFICATION_BONUS_THRESHOLD
  BonusLimit,      \* REFERRAL_NOTIFICATION_BONUS_LIMIT
  Nothing,         \* no vacancy: the moderator is not asked for a reason
  MaxDecisions,    \* bound: approvals, rejections and broadcasts begun
  MaxDays,         \* bound: midnights
  MaxTold,         \* bound: answers of one seeker to one vacancy sent on
  MaxHandlers,     \* bound: suspended handlers at any time
  MaxRestarts      \* bound: restarts of the process

ASSUME ModerationAssumption ==
  /\ Fits \subseteq Vacancy \X Seeker
  /\ Referrals \in [Seeker -> Nat]
  /\ {FreeLimit, BonusThreshold, BonusLimit, MaxHandlers} \subseteq Nat \ {0}
  /\ {MaxDecisions, MaxDays, MaxTold, MaxRestarts} \subseteq Nat
  /\ Nothing \notin Vacancy

VARIABLES
  status,     \* job_vacancies.status
  published,  \* vacancies with a post in the channel
  buttons,    \* vacancies whose moderation message still has its buttons
  asked,      \* reject_vacancy_id of the moderator's FSM data
  told,       \* the verdict that the employer was told last
  contested,  \* history: vacancies on which two decisions overlapped or one died
  row,        \* job_notifications, by vacancy and seeker: absent, or reacted
  cards,      \* pairs whose card, with the answer's buttons, the seeker has had
  heard,      \* how often the employer was told of a seeker's response
  unheard,    \* history: pairs whose response died with its handler
  count,      \* usage_limits.notifications_today
  stale,      \* seekers whose last_reset_day is not today
  sent,       \* history: notifications sent to the seeker today
  blurred,    \* history: seekers on whom two rounds overlapped today or one failed,
              \* or whose row was reset in the middle of a round or after one
  resetDue,   \* the scheduler's daily job has not run today
  task,       \* the handlers under way, by slot
  begun, days, restarts  \* counters of the bounds

verdicts  == <<status, published, buttons, asked, told, contested>>
reactions == <<row, cards, heard, unheard>>
usage     == <<count, stale, sent, blurred, resetDue>>
bounds    == <<begun, days, restarts>>
vars      == <<verdicts, reactions, usage, task, bounds>>

Pair   == Vacancy \X Seeker
Slot   == 1..MaxHandlers
NoTask == [pc |-> "none"]

\* The phases of a round at which it has a seeker in hand.
AfterSend == {"record", "get", "rollGet", "put"}
InHand    == {"rollRead", "send"} \cup AfterSend

Decision == [pc : {"post", "markApproved", "tellApproved", "list"}, v : Vacancy]
Refusal  == [pc : {"markRejected", "tellRejected", "clear"}, v : Vacancy]
Round    == [pc : {"next"}, v : Vacancy, limited : BOOLEAN, todo : SUBSET Seeker]
Visit    == [pc : {"read"} \cup InHand, v : Vacancy, limited : BOOLEAN,
             todo : SUBSET Seeker, to : Seeker, val : Nat, day : Nat]
Resetter == [pc : {"reset"}, s : Seeker, day : Nat]
Response == [pc : {"check", "set", "tellLike"}, v : Vacancy, s : Seeker]
Handler  == {NoTask} \cup Decision \cup Refusal \cup Round \cup Visit \cup Resetter \cup Response

TypeOK ==
  /\ status \in [Vacancy -> {"pending", "approved", "rejected", "closed"}]
  /\ published \subseteq Vacancy /\ buttons \subseteq Vacancy /\ contested \subseteq Vacancy
  /\ asked \in Vacancy \cup {Nothing}
  /\ told \in [Vacancy -> {"none", "approved", "rejected"}]
  /\ row \in [Pair -> {"absent", "none", "like", "dislike", "complaint"}]
  /\ cards \subseteq Pair /\ unheard \subseteq Pair
  /\ heard \in [Pair -> Nat]
  /\ count \in [Seeker -> Nat]
  /\ stale \subseteq Seeker /\ blurred \subseteq Seeker
  /\ sent \in [Seeker -> Nat]
  /\ resetDue \in BOOLEAN
  /\ task \in [Slot -> Handler]
  /\ begun \in 0..MaxDecisions /\ days \in 0..MaxDays /\ restarts \in 0..MaxRestarts

Init ==
  /\ status = [v \in Vacancy |-> "pending"]
  /\ published = {}
  /\ buttons = Vacancy
  /\ asked = Nothing
  /\ told = [v \in Vacancy |-> "none"]
  /\ contested = {}
  /\ row = [p \in Pair |-> "absent"]
  /\ cards = {}
  /\ heard = [p \in Pair |-> 0]
  /\ unheard = {}
  /\ count = [s \in Seeker |-> 0]
  /\ stale = {}
  /\ sent = [s \in Seeker |-> 0]
  /\ blurred = {}
  /\ resetDue = FALSE
  /\ task = [k \in Slot |-> NoTask]
  /\ begun = 0 /\ days = 0 /\ restarts = 0

\* A handler starts and reaches its first call.
Begin(k, handler) ==
  /\ task[k] = NoTask
  /\ \A j \in Slot : j < k => task[j] # NoTask
  /\ task' = [task EXCEPT ![k] = handler]

GoOn(k, pc) == task' = [task EXCEPT ![k].pc = pc]
Done(k)     == task' = [task EXCEPT ![k] = NoTask]
At(k, pc)   == task[k].pc = pc

\* One more decision, within the bound.
OneMoreDecision == begun < MaxDecisions /\ begun' = begun + 1 /\ UNCHANGED <<days, restarts>>

\* The handlers that are deciding on a vacancy, and those that have a seeker in hand.
Deciding(v) ==
  { k \in Slot : /\ task[k].pc \in {"post", "markApproved", "tellApproved",
                                    "markRejected", "tellRejected"}
                 /\ task[k].v = v }
Visiting(s) == { k \in Slot : task[k].pc \in InHand /\ task[k].to = s }

-------------------------------------------------------------------------------
(* Approval: approve_vacancy.                                              *)

\* The button, whatever the status is by now; the vacancy is read.
PressApprove(v, k) ==
  /\ v \in buttons
  /\ OneMoreDecision
  /\ Begin(k, [pc |-> "post", v |-> v])
  /\ contested' = IF Deciding(v) # {} THEN contested \cup {v} ELSE contested
  /\ UNCHANGED <<status, published, buttons, asked, told, reactions, usage>>

\* Mutant: the row is marked before the post is sent.
MarkFirst(k) ==
  /\ At(k, "post")
  /\ status' = [status EXCEPT ![task[k].v] = "approved"]
  /\ GoOn(k, "markApproved")
  /\ UNCHANGED <<published, buttons, asked, told, contested, reactions, usage, bounds>>

\* The post in the channel ...
Post(k) ==
  /\ At(k, "post")
  /\ published' = published \cup {task[k].v}
  /\ GoOn(k, "markApproved")
  /\ UNCHANGED <<status, buttons, asked, told, contested, reactions, usage, bounds>>

\* ... then the row (with the post's number) ...
MarkApproved(k) ==
  /\ At(k, "markApproved")
  /\ status' = [status EXCEPT ![task[k].v] = "approved"]
  /\ GoOn(k, "tellApproved")
  /\ UNCHANGED <<published, buttons, asked, told, contested, reactions, usage, bounds>>

\* ... then the employer ...
TellApproved(k) ==
  /\ At(k, "tellApproved")
  /\ told' = [told EXCEPT ![task[k].v] = "approved"]
  /\ GoOn(k, "list")
  /\ UNCHANGED <<status, published, buttons, asked, contested, reactions, usage, bounds>>

\* ... then the seekers: find_matching_seekers.
ListSeekers(k) ==
  /\ At(k, "list")
  /\ task' = [task EXCEPT ![k] = [pc |-> "next", v |-> task[k].v, limited |-> TRUE,
                                  todo |-> { s \in Seeker : <<task[k].v, s>> \in Fits }]]
  /\ UNCHANGED <<verdicts, reactions, usage, bounds>>

-------------------------------------------------------------------------------
(* Rejection and closing.                                                  *)

\* reject_vacancy: the moderator is asked for a reason; nothing suspends.
PressReject(v) ==
  /\ v \in buttons
  /\ asked' = v
  /\ UNCHANGED <<status, published, buttons, told, contested, reactions, usage, task, bounds>>

\* Mutant: the handler is registered without its state.
GiveReasonUnasked(k) ==
  /\ OneMoreDecision
  /\ Begin(k, [pc |-> "markRejected", v |-> asked])
  /\ UNCHANGED <<verdicts, reactions, usage>>

\* reject_vacancy_reason: the vacancy is taken from the FSM data.
GiveReason(k) ==
  /\ asked # Nothing
  /\ OneMoreDecision
  /\ Begin(k, [pc |-> "markRejected", v |-> asked])
  /\ contested' = IF Deciding(asked) # {} THEN contested \cup {asked} ELSE contested
  /\ UNCHANGED <<status, published, buttons, asked, told, reactions, usage>>

\* Mutant: the FSM data are read again when the row is written.
MarkAsked(k) ==
  /\ At(k, "markRejected")
  /\ status' = [status EXCEPT ![IF asked = Nothing THEN task[k].v ELSE asked] = "rejected"]
  /\ GoOn(k, "tellRejected")
  /\ UNCHANGED <<published, buttons, asked, told, contested, reactions, usage, bounds>>

MarkRejected(k) ==
  /\ At(k, "markRejected")
  /\ status' = [status EXCEPT ![task[k].v] = "rejected"]
  /\ GoOn(k, "tellRejected")
  /\ UNCHANGED <<published, buttons, asked, told, contested, reactions, usage, bounds>>

TellRejected(k) ==
  /\ At(k, "tellRejected")
  /\ told' = [told EXCEPT ![task[k].v] = "rejected"]
  /\ GoOn(k, "clear")
  /\ UNCHANGED <<status, published, buttons, asked, contested, reactions, usage, bounds>>

\* state.clear() after the answer: whatever the moderator is asked by now.
ClearReason(k) ==
  /\ At(k, "clear")
  /\ asked' = Nothing
  /\ Done(k)
  /\ UNCHANGED <<status, published, buttons, told, contested, reactions, usage, bounds>>

\* close_vacancy, from the owner's cards of the vacancy.
Close(v) ==
  /\ status' = [status EXCEPT ![v] = "closed"]
  /\ UNCHANGED <<published, buttons, asked, told, contested, reactions, usage, task, bounds>>

-------------------------------------------------------------------------------
(* A round of notifications: send_vacancy_notifications.                   *)

\* fulfill_paid_feature: an urgent broadcast, to every seeker and without limit.
StartBroadcast(v, k) ==
  /\ OneMoreDecision
  /\ Begin(k, [pc |-> "next", v |-> v, limited |-> FALSE, todo |-> Seeker])
  /\ UNCHANGED <<verdicts, reactions, usage>>

\* The next seeker of the list, which comes in any order.
Pick(k, s) ==
  /\ At(k, "next")
  /\ s \in task[k].todo
  /\ task' = [task EXCEPT ![k] =
       [pc |-> IF task[k].limited THEN "read" ELSE "send", v |-> task[k].v,
        limited |-> task[k].limited, todo |-> task[k].todo \ {s}, to |-> s, val |-> 0, day |-> 0]]
  /\ blurred' = IF ~task[k].limited /\ Visiting(s) # {} THEN blurred \cup {s} ELSE blurred
  /\ UNCHANGED <<verdicts, reactions, count, stale, sent, resetDue, bounds>>

\* The round is over; an approval then takes the buttons off its message.
EndRound(k) ==
  /\ At(k, "next")
  /\ task[k].todo = {}
  /\ buttons' = IF task[k].limited THEN buttons \ {task[k].v} ELSE buttons
  /\ Done(k)
  /\ UNCHANGED <<status, published, asked, told, contested, reactions, usage, bounds>>

\* The handler has done with the seeker in hand.
Leave(k) == task' = [task EXCEPT ![k] = [pc |-> "next", v |-> task[k].v,
                                         limited |-> task[k].limited, todo |-> task[k].todo]]

NotificationLimit(s) == IF Referrals[s] >= BonusThreshold THEN BonusLimit ELSE FreeLimit

\* Mutant: the limit itself is still allowed.
MayNotifyOneMore(s, used) == used <= NotificationLimit(s)

\* can_send_notification
MayNotify(s, used) == used < NotificationLimit(s)

\* A row of an earlier day is to be reset, by a call of its own.
GoReset(k, pc) == task' = [task EXCEPT ![k].pc = pc, ![k].day = days]

\* The reset writes the day on which the row was read, over whatever the row is by now.
ResetTo(s, day) ==
  /\ count' = [count EXCEPT ![s] = 0]
  /\ stale' = IF day = days THEN stale \ {s} ELSE stale \cup {s}

\* get_or_create_usage before a notification: today's count, or a row to reset.
ReadUsage(k) ==
  LET s == task[k].to IN
  /\ At(k, "read")
  /\ CASE s \in stale            -> GoReset(k, "rollRead")
       [] s \notin stale /\ MayNotify(s, count[s])  -> GoOn(k, "send")
       [] s \notin stale /\ ~MayNotify(s, count[s]) -> Leave(k)
  /\ blurred' = IF Visiting(s) # {} THEN blurred \cup {s} ELSE blurred
  /\ UNCHANGED <<verdicts, reactions, count, stale, sent, resetDue, bounds>>

\* The reset of a row of an earlier day, before a notification or before the count.
Roll(k) ==
  LET s == task[k].to IN
  /\ task[k].pc \in {"rollRead", "rollGet"}
  /\ ResetTo(s, task[k].day)
  /\ IF At(k, "rollGet") THEN GoOn(k, "put")
     ELSE IF MayNotify(s, 0) THEN GoOn(k, "send") ELSE Leave(k)
  /\ UNCHANGED <<verdicts, reactions, sent, blurred, resetDue, bounds>>

Send(k) ==
  LET s == task[k].to IN
  /\ At(k, "send")
  /\ sent' = [sent EXCEPT ![s] = @ + 1]
  /\ cards' = cards \cup {<<task[k].v, s>>}
  /\ GoOn(k, "record")
  /\ UNCHANGED <<verdicts, row, heard, unheard, count, stale, blurred, resetDue, bounds>>

\* Mutant: the upsert writes all columns of the row.
RecordAnew(k) ==
  /\ At(k, "record")
  /\ row' = [row EXCEPT ![<<task[k].v, task[k].to>>] = "none"]
  /\ GoOn(k, "get")
  /\ UNCHANGED <<verdicts, cards, heard, unheard, usage, bounds>>

\* record_notification: an upsert of the key alone, which keeps the reaction.
Record(k) ==
  /\ At(k, "record")
  /\ row' = [row EXCEPT ![<<task[k].v, task[k].to>>] = IF @ = "absent" THEN "none" ELSE @]
  /\ GoOn(k, "get")
  /\ UNCHANGED <<verdicts, cards, heard, unheard, usage, bounds>>

\* Mutant: the increment reads the row without resetting one of an earlier day.
GetYesterday(k) ==
  /\ At(k, "get")
  /\ task' = [task EXCEPT ![k].pc = "put", ![k].val = count[task[k].to]]
  /\ UNCHANGED <<verdicts, reactions, usage, bounds>>

\* increment_notifications_today reads ...
Get(k) ==
  LET s == task[k].to IN
  /\ At(k, "get")
  /\ IF s \in stale THEN GoReset(k, "rollGet")
     ELSE task' = [task EXCEPT ![k].pc = "put", ![k].val = count[s]]
  /\ UNCHANGED <<verdicts, reactions, usage, bounds>>

\* ... and writes.
Put(k) ==
  /\ At(k, "put")
  /\ count' = [count EXCEPT ![task[k].to] = task[k].val + 1]
  /\ Leave(k)
  /\ UNCHANGED <<verdicts, reactions, stale, sent, blurred, resetDue, bounds>>

\* A call inside the loop's try raises: the loop goes on with the next seeker.
VisitFails(k) ==
  /\ task[k].pc \in {"send"} \cup AfterSend
  /\ blurred' = IF At(k, "send") THEN blurred ELSE blurred \cup {task[k].to}
  /\ Leave(k)
  /\ UNCHANGED <<verdicts, reactions, count, stale, sent, resetDue, bounds>>

-------------------------------------------------------------------------------
(* Other readers of a usage row, and days.                                 *)

\* A handler that is no round calls get_or_create_usage for a user who is a seeker
\* too: after the user's vacancy was created, after the user's broadcast, or at a
\* buy button.  A row of today stays as it is; one of an earlier day ...
LookUp(s, k) ==
  /\ s \in stale
  /\ Begin(k, [pc |-> "reset", s |-> s, day |-> days])
  /\ UNCHANGED <<verdicts, reactions, usage, bounds>>

\* ... is reset by the next call, although a round may have counted by then.
Reset(k) ==
  LET s == task[k].s IN
  /\ At(k, "reset")
  /\ ResetTo(s, task[k].day)
  /\ blurred' = IF Visiting(s) # {} \/ sent[s] > 0 THEN blurred \cup {s} ELSE blurred
  /\ Done(k)
  /\ UNCHANGED <<verdicts, reactions, sent, resetDue, bounds>>

InHandNow == { s \in Seeker : Visiting(s) # {} }

Midnight ==
  /\ days < MaxDays
  /\ days' = days + 1
  /\ stale' = Seeker
  /\ sent' = [s \in Seeker |-> 0]
  /\ blurred' = InHandNow
  /\ resetDue' = TRUE
  /\ UNCHANGED <<verdicts, reactions, count, task, begun, restarts>>

\* reset_daily_usage, some time after midnight.
DailyReset ==
  /\ resetDue
  /\ resetDue' = FALSE
  /\ count' = [s \in Seeker |-> 0]
  /\ stale' = {}
  /\ blurred' = blurred \cup InHandNow \cup { s \in Seeker : sent[s] > 0 }
  /\ UNCHANGED <<verdicts, reactions, sent, task, bounds>>

-------------------------------------------------------------------------------
(* The seekers' answers, from any card they have had.                      *)

\* apply_vacancy_start: the link under the channel's post brings a card.
OpenCard(v, s) ==
  /\ status[v] = "approved"
  /\ cards' = cards \cup {<<v, s>>}
  /\ UNCHANGED <<verdicts, row, heard, unheard, usage, task, bounds>>

\* The handlers of a like that are under way.
Liking(p) == { k \in Slot : task[k].pc \in {"check", "set", "tellLike"}
                            /\ <<task[k].v, task[k].s>> = p }

\* vacancy_like: vacancy and seeker are read ...
PressLike(v, s, k) ==
  /\ <<v, s>> \in cards
  /\ heard[<<v, s>>] + Cardinality(Liking(<<v, s>>)) < MaxTold
  /\ Begin(k, [pc |-> "check", v |-> v, s |-> s])
  /\ UNCHANGED <<verdicts, reactions, usage, bounds>>

\* ... then the row: has_reacted asks for a like ...
CheckReacted(k) ==
  /\ At(k, "check")
  /\ IF row[<<task[k].v, task[k].s>>] = "like" THEN Done(k) ELSE GoOn(k, "set")
  /\ UNCHANGED <<verdicts, reactions, usage, bounds>>

\* Mutant: the handler returns after the upsert.
SetLikeQuietly(k) ==
  /\ At(k, "set")
  /\ row' = [row EXCEPT ![<<task[k].v, task[k].s>>] = "like"]
  /\ Done(k)
  /\ UNCHANGED <<verdicts, cards, heard, unheard, usage, bounds>>

\* ... then set_reaction ...
SetLike(k) ==
  /\ At(k, "set")
  /\ row' = [row EXCEPT ![<<task[k].v, task[k].s>>] = "like"]
  /\ GoOn(k, "tellLike")
  /\ UNCHANGED <<verdicts, cards, heard, unheard, usage, bounds>>

\* ... then the employer is told.
TellLike(k) ==
  LET p == <<task[k].v, task[k].s>> IN
  /\ At(k, "tellLike")
  /\ heard' = [heard EXCEPT ![p] = @ + 1]
  /\ unheard' = unheard \ {p}
  /\ Done(k)
  /\ UNCHANGED <<verdicts, row, cards, usage, bounds>>

\* vacancy_dislike, vacancy_complain: one upsert.
Answer(v, s, reaction) ==
  /\ <<v, s>> \in cards
  /\ row' = [row EXCEPT ![<<v, s>>] = reaction]
  /\ UNCHANGED <<verdicts, cards, heard, unheard, usage, task, bounds>>

-------------------------------------------------------------------------------
(* Failures.                                                               *)

Unfinished == { v \in Vacancy : Deciding(v) # {} }
Untold(p)  == \E k \in Liking(p) : At(k, "tellLike")

\* A call raises and nothing catches the exception: the handler is gone.
Break(k) ==
  /\ task[k].pc \notin {"none", "send"} \cup AfterSend
  /\ At(k, "next") => task[k].todo = {}
  /\ contested' = contested \cup { v \in Vacancy : k \in Deciding(v) }
  /\ unheard' = unheard \cup { p \in Pair : k \in Liking(p) /\ At(k, "tellLike") }
  /\ Done(k)
  /\ UNCHANGED <<status, published, buttons, asked, told, row, cards, heard, usage, bounds>>

\* The process restarts: handlers and FSM data are gone, rows and messages stay.
Restart ==
  /\ restarts < MaxRestarts
  /\ restarts' = restarts + 1
  /\ asked' = Nothing
  /\ contested' = contested \cup Unfinished
  /\ unheard' = unheard \cup { p \in Pair : Untold(p) }
  /\ blurred' = blurred \cup InHandNow
  /\ task' = [k \in Slot |-> NoTask]
  /\ UNCHANGED <<status, published, buttons, told, row, cards, heard,
                 count, stale, sent, resetDue, begun, days>>

Decide(k) == \/ Post(k) \/ MarkApproved(k) \/ TellApproved(k) \/ ListSeekers(k)
             \/ MarkRejected(k) \/ TellRejected(k) \/ ClearReason(k)
Notify(k) == \/ \E s \in Seeker : Pick(k, s)
             \/ EndRound(k) \/ ReadUsage(k) \/ Roll(k)
             \/ Send(k) \/ Record(k) \/ Get(k) \/ Put(k) \/ VisitFails(k)
Respond(k) == CheckReacted(k) \/ SetLike(k) \/ TellLike(k)

Next ==
  \/ \E v \in Vacancy, k \in Slot : PressApprove(v, k) \/ StartBroadcast(v, k)
  \/ \E v \in Vacancy : PressReject(v) \/ Close(v)
  \/ \E v \in Vacancy, s \in Seeker :
       \/ OpenCard(v, s)
       \/ \E k \in Slot : PressLike(v, s, k)
       \/ \E reaction \in {"dislike", "complaint"} : Answer(v, s, reaction)
  \/ \E k \in Slot : GiveReason(k) \/ Decide(k) \/ Notify(k) \/ Respond(k) \/ Break(k)
  \/ \E k \in Slot : Reset(k) \/ \E s \in Seeker : LookUp(s, k)
  \/ Midnight
  \/ DailyReset
  \/ Restart

Spec == Init /\ [][Next]_vars

-------------------------------------------------------------------------------
(* Properties.                                                             *)

\* An approved vacancy is in the channel: the row is marked after the post, and
\* neither a second decision nor an error nor a restart takes the post away.
ApprovedIsPublished ==
  \A v \in Vacancy : status[v] = "approved" => v \in published

\* What the employer was told last is what the row says, once no decision on the
\* vacancy is under way: a reason goes to the vacancy it was read for, also when
\* the moderator has meanwhile pressed another button.  Two decisions that
\* overlap, or one that dies, are the only exceptions (vacancy_approve and
\* reject_vacancy_reason ask for no earlier status).
VerdictTold ==
  \A v \in Vacancy \ contested :
    Deciding(v) = {} /\ status[v] \in {"approved", "rejected"} => told[v] = status[v]

\* A response in the employer's list was announced to the employer, is about to
\* be, or its handler has died: set_reaction comes before the message.
ResponseHeard ==
  \A p \in Pair :
    row[p] = "like" => heard[p] > 0 \/ Untold(p) \/ p \in unheard

\* A notification that is recorded late, or sent again, never wipes out what the
\* seeker has answered in between: record_notification leaves reacted alone.
ReactionKept ==
  [][\A p \in Pair : row[p] \in {"like", "dislike", "complaint"}
                       => row'[p] \in {"like", "dislike", "complaint"}]_vars

\* Today's count is the number of notifications sent today, whichever of the
\* rounds, of the other readers of the row (job.py 347, 1657, 1849) or of the
\* scheduler resets it first.  Excepted are seekers on whom two rounds overlapped
\* or one's call failed, and those whose row one of the others reset while a round
\* had them in hand or after it had counted.
CountExact ==
  \A s \in Seeker \ (blurred \cup stale) :
    sent[s] = count[s] + Cardinality({ k \in Visiting(s) : task[k].pc \in AfterSend })

\* ... and then a round that obeys the limit sends nothing beyond it.
WithinLimit ==
  [][\A k \in Slot :
       At(k, "send") /\ task'[k].pc = "record" /\ task[k].limited
         => \/ task[k].to \in blurred
            \/ sent[task[k].to] < NotificationLimit(task[k].to)]_vars
===============================================================================
