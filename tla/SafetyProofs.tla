------------------------------ MODULE SafetyProofs -----------------------------
(***************************************************************************)
(* Proofs about the four components that run Safety checks one after the   *)
(* other: the edit cards (EditCards), the session waiters (SessionWaiter), *)
(* the cron jobs (CronJobs) and the rate limit (RateLimit); in the end     *)
(* about their composition.  Each part has its inductive invariant first,  *)
(* then a lemma per action, then the theorems.                             *)
(***************************************************************************)
EXTENDS MCSafety, QueueLemmas, FiniteSetTheorems

-------------------------------------------------------------------------------
(*****************************************************************************)
(* Edit cards.                                                               *)
(*****************************************************************************)

(* The inductive invariant.                                                *)

Whole(v) == row[v]["salary_min"] = row[v]["salary_max"]

\* Saves that do not overlap: one handler, which writes the two columns of a salary
\* from one text, one after the other.
OneSaves == \A v \in Vacancy \ torn : \A j, k \in Slot : Saving(j, v) /\ Saving(k, v) => j = k
HalfDone(v, t) ==
  IF t.field = "salary"
  THEN /\ t.values["salary_min"] = t.values["salary_max"]
       /\ \/ t.todo = <<"salary_min", "salary_max">> /\ Whole(v)
          \/ t.todo = <<"salary_max">> /\ row[v]["salary_min"] = t.values["salary_min"]
          \/ t.todo = <<>> /\ Whole(v)
  ELSE Whole(v)
SavesWhole == \A v \in Vacancy \ torn : \A k \in Slot : Saving(k, v) => HalfDone(v, task[k])
DraftWhole == draft["salary_min"] = draft["salary_max"]

\* The drafts belong to the vacancy of the open card, and what is saved was a draft:
\* but for a vacancy whose card has met another one's draft, a prompt was sent for it.
WasShown(v, f, x) == x \in Text => v \in strayed \/ <<v, f, x>> \in shown \cup unsent
DraftWasShown     == editId # NoId =>
                       \A f \in Field \ {"schedule"} : \A c \in ColumnSet(f) :
                         WasShown(editId, f, draft[c])
SavingWasShown    == \A k \in Slot : task[k].kind = "save" /\ task[k].field # "schedule" =>
                       \A c \in ColumnSet(task[k].field) :
                         WasShown(task[k].vacancy, task[k].field, task[k].values[c])

CardsInv == /\ TypeOK /\ StateHasItsData
            /\ OneSaves /\ SavesWhole /\ DraftWhole /\ SalaryWhole
            /\ DraftWasShown /\ SavingWasShown /\ SavedWasShown

-------------------------------------------------------------------------------
(* Columns, what a handler holds, and how a step changes the handlers.     *)

LEMMA ColumnFacts ==
  /\ \A f \in Field : ColumnSet(f) = IF f = "salary" THEN {"salary_min", "salary_max"} ELSE {f}
  /\ \A f \in Field : ColumnSet(f) \subseteq Column
  /\ \A f, g \in Field : f # g => ColumnSet(f) \cap ColumnSet(g) = {}
  /\ "salary" \in Field /\ {"salary_min", "salary_max"} \subseteq Column
<1>1. ASSUME NEW f \in Field
      PROVE  ColumnSet(f) = IF f = "salary" THEN {"salary_min", "salary_max"} ELSE {f}
  <2>1. CASE f = "salary"
    <3>1. Columns(f) = <<"salary_min", "salary_max">>
      BY <2>1 DEF Columns
    <3>2. ColumnSet(f) = { Columns(f)[i] : i \in 1..2 }
      BY <3>1 DEF ColumnSet
    <3> QED BY <2>1, <3>1, <3>2
  <2>2. CASE f # "salary"
    <3>1. Columns(f) = <<f>>
      BY <2>2 DEF Columns
    <3>2. ColumnSet(f) = { Columns(f)[i] : i \in 1..1 }
      BY <3>1 DEF ColumnSet
    <3> QED BY <2>2, <3>1, <3>2
  <2> QED BY <2>1, <2>2
<1>2. \A f \in Field : ColumnSet(f) \subseteq Column
  BY DEF Column
<1>3. "salary" \in Field
  BY EditCardsAssumption
<1>4. ASSUME NEW f \in Field, NEW g \in Field, f # g
      PROVE  ColumnSet(f) \cap ColumnSet(g) = {}
  BY <1>1, <1>4, EditCardsAssumption
<1>5. {"salary_min", "salary_max"} \subseteq Column
  BY <1>1, <1>2, <1>3
<1> QED BY <1>1, <1>2, <1>3, <1>4, <1>5

LEMMA NextColumn ==
  ASSUME NEW f \in Field, NEW s \in Rests(f), s # <<>>
  PROVE  /\ Tail(s) \in Rests(f) /\ Head(s) \in ColumnSet(f)
         /\ f = "salary" =>
              \/ s = <<"salary_min", "salary_max">> /\ Head(s) = "salary_min"
                                                   /\ Tail(s) = <<"salary_max">>
              \/ s = <<"salary_max">> /\ Head(s) = "salary_max" /\ Tail(s) = <<>>
<1>1. CASE f = "salary"
  <2>1. s = <<"salary_min", "salary_max">> \/ s = <<"salary_max">>
    BY <1>1 DEF Rests, Columns
  <2>2. ASSUME s = <<"salary_min", "salary_max">>
        PROVE  Tail(s) = <<"salary_max">> /\ Head(s) = "salary_min"
    BY <2>2
  <2>3. ASSUME s = <<"salary_max">>
        PROVE  Tail(s) = <<>> /\ Head(s) = "salary_max"
    BY <2>3
  <2> QED BY <2>1, <2>2, <2>3, <1>1, ColumnFacts DEF Rests
<1>2. CASE f # "salary"
  <2>1. s = <<f>>
    BY <1>2 DEF Rests, Columns
  <2>2. Tail(s) = <<>> /\ Head(s) = f
    BY <2>1
  <2> QED BY <2>2, <1>2, ColumnFacts DEF Rests
<1> QED BY <1>1, <1>2

LEMMA Shapes ==
  ASSUME NEW x \in Handler
  PROVE  /\ x.kind = "ask" => x \in Asking
         /\ x.kind \in {"prompt", "send"} => x \in Prompting
         /\ x.kind = "save" => x.field \in Field /\ x \in SavingOf(x.field)
<1>1. CASE x = NoTask
  BY <1>1 DEF NoTask
<1>2. CASE x \in Asking
  BY <1>2 DEF Asking
<1>3. CASE x \in Prompting
  BY <1>3 DEF Prompting
<1>4. ASSUME NEW f \in Field, x \in SavingOf(f)
      PROVE  x.kind = "save" /\ x.field = f
  BY <1>4 DEF SavingOf
<1> QED BY <1>1, <1>2, <1>3, <1>4 DEF Handler

LEMMA SaveShape ==
  ASSUME TypeOK, NEW k \in Slot, task[k].kind = "save"
  PROVE  /\ task[k] \in SavingOf(task[k].field) /\ task[k].field \in Field
         /\ task[k].vacancy \in Vacancy
         /\ task[k].values \in [ColumnSet(task[k].field) -> Text \cup {Null}]
         /\ task[k].todo \in Rests(task[k].field)
<1>1. task[k].field \in Field /\ task[k] \in SavingOf(task[k].field)
  BY Shapes DEF TypeOK
<1> QED BY <1>1 DEF SavingOf

LEMMA BeginStep ==
  ASSUME TypeOK, NEW k \in Slot, NEW h \in Handler, Begin(k, h)
  PROVE  /\ task' \in [Slot -> Handler]
         /\ task[k].kind = "none" /\ task'[k] = h
         /\ \A j \in Slot : j # k => task'[j] = task[j]
  BY DEF TypeOK, Begin, NoTask

LEMMA DoneStep ==
  ASSUME TypeOK, NEW k \in Slot, Done(k)
  PROVE  /\ task' \in [Slot -> Handler]
         /\ task'[k].kind = "none"
         /\ \A j \in Slot : j # k => task'[j] = task[j]
<1>1. NoTask \in Handler /\ NoTask.kind = "none"
  BY DEF Handler, NoTask
<1> QED BY <1>1 DEF TypeOK, Done

\* A save begins with the whole of its field's columns to write.
LEMMA SaveStep ==
  ASSUME TypeOK, NEW v \in Vacancy, NEW f \in Field,
         NEW x \in [ColumnSet(f) -> Text \cup {Null}]
  PROVE  Save(v, f, x) \in Handler
<1>1. Save(v, f, x) \in SavingOf(f)
  BY DEF Save, SavingOf, Rests
<1> QED BY <1>1 DEF Handler

\* What WriteColumn does: one column of one vacancy, and a column less to write.
LEMMA WriteStep ==
  ASSUME TypeOK, NEW k \in Slot, WriteColumn(k)
  PROVE  LET v == task[k].vacancy
             f == task[k].field
             c == Head(task[k].todo) IN
         /\ task[k].kind = "save" /\ v \in Vacancy /\ f \in Field /\ c \in ColumnSet(f)
         /\ task[k].todo # <<>>
         /\ task[k].values \in [ColumnSet(f) -> Text \cup {Null}]
         /\ task' \in [Slot -> Handler]
         /\ task'[k].kind = "save" /\ task'[k].vacancy = v /\ task'[k].field = f
         /\ task'[k].values = task[k].values /\ task'[k].todo = Tail(task[k].todo)
         /\ \A j \in Slot : j # k => task'[j] = task[j]
         /\ row' \in [Vacancy -> [Column -> Text \cup {Before, Null}]]
         /\ row'[v][c] = task[k].values[c]
         /\ \A d \in Column : d # c => row'[v][d] = row[v][d]
         /\ \A w \in Vacancy : w # v => row'[w] = row[w]
<1> DEFINE v == task[k].vacancy
           f == task[k].field
           c == Head(task[k].todo)
           t == [task[k] EXCEPT !.todo = Tail(@)]
<1>1. task[k].kind = "save" /\ task[k].todo # <<>>
  BY DEF WriteColumn
<1>2. /\ task[k] \in SavingOf(f) /\ f \in Field /\ v \in Vacancy
      /\ task[k].values \in [ColumnSet(f) -> Text \cup {Null}] /\ task[k].todo \in Rests(f)
  BY <1>1, SaveShape
<1>3. Tail(task[k].todo) \in Rests(f) /\ c \in ColumnSet(f)
  BY <1>1, <1>2, NextColumn
<1>4. /\ t \in SavingOf(f) /\ t.kind = "save" /\ t.vacancy = v /\ t.field = f
      /\ t.values = task[k].values /\ t.todo = Tail(task[k].todo)
  BY <1>2, <1>3 DEF SavingOf
<1>5. t \in Handler
  BY <1>2, <1>4 DEF Handler
<1>6. task' = [task EXCEPT ![k] = t] /\ task \in [Slot -> Handler]
  BY DEF WriteColumn, TypeOK
<1>7. c \in Column
  BY <1>2, <1>3, ColumnFacts
<1>8. /\ row' = [row EXCEPT ![v][c] = task[k].values[c]]
      /\ row \in [Vacancy -> [Column -> Text \cup {Before, Null}]]
  BY DEF WriteColumn, TypeOK
<1>9. task[k].values[c] \in Text \cup {Before, Null}
  BY <1>2, <1>3
<1> HIDE DEF t, c, v, f
<1>10. /\ row' \in [Vacancy -> [Column -> Text \cup {Before, Null}]]
       /\ row'[v][c] = task[k].values[c]
       /\ \A d \in Column : d # c => row'[v][d] = row[v][d]
       /\ \A w \in Vacancy : w # v => row'[w] = row[w]
  BY <1>2, <1>7, <1>8, <1>9
<1>11. /\ task' \in [Slot -> Handler] /\ task'[k] = t
       /\ \A j \in Slot : j # k => task'[j] = task[j]
  BY <1>5, <1>6
<1> QED BY <1>1, <1>2, <1>3, <1>4, <1>10, <1>11 DEF v, f, c

LEMMA FsmFacts ==
  /\ \A f \in Field : <<"waiting", f>> \in FsmState /\ <<"confirm", f>> \in FsmState
  /\ \A s \in FsmState : s[1] \in {"waiting", "confirm"} => s[2] \in Field
  /\ Idle \in FsmState /\ Idle[1] = "none"
  BY DEF FsmState, Idle

\* What state.clear() leaves satisfies every part of the invariant about FSM data.
LEMMA ClearStep ==
  ASSUME Clear
  PROVE  /\ state' \in FsmState /\ editId' \in Vacancy \cup {NoId}
         /\ draft' \in [Column -> Text \cup {Null}]
         /\ StateHasItsData' /\ DraftWhole' /\ DraftWasShown'
<1>1. state' = Idle /\ editId' = NoId /\ draft' = [c \in Column |-> Null]
  BY DEF Clear
<1>2. Null \notin Text
  BY EditCardsAssumption DEF Null
<1>3. StateHasItsData'
  BY <1>1, FsmFacts DEF StateHasItsData
<1>4. DraftWhole'
  BY <1>1, ColumnFacts DEF DraftWhole
<1>5. DraftWasShown'
  BY <1>1 DEF DraftWasShown
<1> QED BY <1>1, <1>3, <1>4, <1>5, FsmFacts

\* A save that begins is the only one of its vacancy, or the vacancy is torn from then on.
LEMMA SaveBegun ==
  ASSUME TypeOK, NEW k \in Slot, NEW f \in Field,
         NEW x \in [ColumnSet(f) -> Text \cup {Null}], editId # NoId,
         Begin(k, Save(editId, f, x)), torn' = torn \cup Overlap(editId), UNCHANGED row
  PROVE  /\ editId \in Vacancy /\ task' \in [Slot -> Handler] /\ torn' \subseteq Vacancy
         /\ task[k].kind = "none" /\ task'[k] = Save(editId, f, x)
         /\ \A j \in Slot : j # k => task'[j] = task[j]
         /\ OneSaves => OneSaves'
         /\ SalaryWhole => SalaryWhole'
         /\ SavesWhole /\ SalaryWhole /\ (f = "salary" => x["salary_min"] = x["salary_max"])
              => SavesWhole'
<1> DEFINE h == Save(editId, f, x)
<1>1. editId \in Vacancy
  BY DEF TypeOK
<1>2. h \in Handler
  BY <1>1, SaveStep
<1>3. /\ h.kind = "save" /\ h.vacancy = editId /\ h.field = f /\ h.values = x
      /\ h.todo = Columns(f)
  BY DEF Save
<1> HIDE DEF h
<1>4. /\ task' \in [Slot -> Handler] /\ task[k].kind = "none" /\ task'[k] = h
      /\ \A j \in Slot : j # k => task'[j] = task[j]
  BY <1>2, BeginStep DEF h
<1>5. torn' \subseteq Vacancy /\ torn \subseteq torn'
  BY <1>1 DEF TypeOK, Overlap
<1>6. editId \notin torn' => \A j \in Slot : ~Saving(j, editId)
  BY DEF Overlap
<1>7. ASSUME NEW v, NEW j \in Slot
      PROVE  Saving(j, v)' <=> (j # k /\ Saving(j, v)) \/ (j = k /\ v = editId)
  BY <1>3, <1>4 DEF Saving
<1>8. ASSUME OneSaves PROVE OneSaves'
  BY <1>5, <1>6, <1>7, <1>8 DEF OneSaves
<1>9. ASSUME SalaryWhole PROVE SalaryWhole'
  <2>1. ASSUME NEW v \in Vacancy, NEW j \in Slot, Saving(j, v) PROVE Saving(j, v)'
    BY <1>4, <2>1 DEF Saving
  <2> QED BY <1>5, <1>9, <2>1 DEF SalaryWhole
<1>10. ASSUME SavesWhole, SalaryWhole, f = "salary" => x["salary_min"] = x["salary_max"]
       PROVE  SavesWhole'
  <2> SUFFICES ASSUME NEW v \in Vacancy \ torn', NEW j \in Slot, Saving(j, v)'
               PROVE  HalfDone(v, task[j])'
    BY DEF SavesWhole
  <2>1. CASE j # k
    <3>1. HalfDone(v, task[j])
      BY <1>5, <1>7, <1>10, <2>1 DEF SavesWhole
    <3> QED BY <1>4, <2>1, <3>1 DEF HalfDone, Whole
  <2>2. CASE j = k
    <3>1. v = editId /\ Whole(v)
      BY <1>5, <1>6, <1>7, <1>10, <2>2 DEF SalaryWhole, Whole
    <3>2. f = "salary" => Columns(f) = <<"salary_min", "salary_max">>
      BY DEF Columns
    <3> QED BY <1>3, <1>4, <1>10, <2>2, <3>1, <3>2 DEF HalfDone, Whole
  <2> QED BY <2>1, <2>2
<1> QED BY <1>1, <1>4, <1>5, <1>8, <1>9, <1>10 DEF h

LEMMA ScheduleBegun ==
  ASSUME TypeOK, NEW x \in Text, NEW k \in Slot, TypeSchedule(x, k)
  PROVE  /\ "schedule" \in Field /\ editId # NoId
         /\ [c \in ColumnSet("schedule") |-> x] \in [ColumnSet("schedule") -> Text \cup {Null}]
<1>1. state \in FsmState /\ state = <<"waiting", "schedule">>
  BY DEF TypeSchedule, TypeOK
<1>2. state[1] = "waiting" /\ state[2] = "schedule"
  BY <1>1
<1> QED BY <1>1, <1>2, FsmFacts DEF TypeSchedule

LEMMA ConfirmBegun ==
  ASSUME TypeOK, NEW f \in Field
  PROVE  /\ DraftOf(f) \in [ColumnSet(f) -> Text \cup {Null}]
         /\ \A c \in ColumnSet(f) : DraftOf(f)[c] = draft[c]
  BY ColumnFacts DEF TypeOK, DraftOf

\* What StoreDraft does: the text of one field is the draft of its columns.
LEMMA StoreStep ==
  ASSUME TypeOK, NEW k \in Slot, StoreDraft(k)
  PROVE  LET v == task[k].vacancy
             f == task[k].field
             x == task[k].text IN
         /\ task[k].kind = "prompt" /\ v \in Vacancy /\ f \in Field /\ x \in Text
         /\ task' \in [Slot -> Handler] /\ task'[k].kind = "send"
         /\ \A j \in Slot : j # k => task'[j] = task[j]
         /\ state' = <<"confirm", f>> /\ unsent' = unsent \cup {<<v, f, x>>}
         /\ strayed' = strayed \cup ({editId} \ {v, NoId})
         /\ draft' \in [Column -> Text \cup {Null}]
         /\ \A c \in ColumnSet(f) : draft'[c] = x
         /\ \A g \in Field : g # f => \A c \in ColumnSet(g) : draft'[c] = draft[c]
<1> DEFINE v == task[k].vacancy
           f == task[k].field
           x == task[k].text
           t == [task[k] EXCEPT !.kind = "send"]
<1>1. task[k].kind = "prompt"
  BY DEF StoreDraft
<1>2. task[k] \in Prompting
  BY <1>1, Shapes DEF TypeOK
<1>3. v \in Vacancy /\ f \in Field /\ x \in Text
  BY <1>2 DEF Prompting
<1>4. /\ draft' = [c \in Column |-> IF c \in ColumnSet(f) THEN x ELSE draft[c]]
      /\ state' = <<"confirm", f>> /\ unsent' = unsent \cup {<<v, f, x>>}
      /\ strayed' = strayed \cup ({editId} \ {v, NoId})
      /\ task' = [task EXCEPT ![k] = t]
  BY DEF StoreDraft
<1>5. t \in Prompting /\ t.kind = "send"
  BY <1>2 DEF Prompting
<1>6. t \in Handler
  BY <1>5 DEF Handler
<1> HIDE DEF f, x, v, t
<1>7. /\ task' \in [Slot -> Handler] /\ task'[k].kind = "send"
      /\ \A j \in Slot : j # k => task'[j] = task[j]
  BY <1>4, <1>5, <1>6 DEF TypeOK
<1>8. draft' \in [Column -> Text \cup {Null}] /\ \A c \in ColumnSet(f) : draft'[c] = x
  BY <1>3, <1>4, ColumnFacts DEF TypeOK
<1>9. ASSUME NEW g \in Field, g # f, NEW c \in ColumnSet(g) PROVE draft'[c] = draft[c]
  BY <1>3, <1>4, <1>9, ColumnFacts
<1> QED BY <1>1, <1>3, <1>4, <1>7, <1>8, <1>9 DEF f, x, v

\* What ShowPrompt does: a prompt moves from those not sent to those seen.
LEMMA ShowStep ==
  ASSUME TypeOK, NEW k \in Slot, ShowPrompt(k)
  PROVE  LET p == <<task[k].vacancy, task[k].field, task[k].text>> IN
         /\ task[k].kind = "send" /\ p \in Vacancy \X Field \X Text
         /\ task' \in [Slot -> Handler] /\ task'[k].kind = "none"
         /\ \A j \in Slot : j # k => task'[j] = task[j]
         /\ shown' = shown \cup {p} /\ unsent' = unsent \ {p}
<1>1. task[k].kind = "send"
  BY DEF ShowPrompt
<1>2. task[k] \in Prompting
  BY <1>1, Shapes DEF TypeOK
<1>3. task[k].vacancy \in Vacancy /\ task[k].field \in Field /\ task[k].text \in Text
  BY <1>2 DEF Prompting
<1>4. /\ shown' = shown \cup {<<task[k].vacancy, task[k].field, task[k].text>>}
      /\ unsent' = unsent \ {<<task[k].vacancy, task[k].field, task[k].text>>}
      /\ Done(k)
  BY DEF ShowPrompt
<1> QED BY <1>1, <1>3, <1>4, DoneStep

LEMMA AskStep ==
  ASSUME TypeOK, NEW k \in Slot, AskField(k)
  PROVE  /\ task[k].kind = "ask" /\ task[k].vacancy \in Vacancy /\ task[k].field \in Field
         /\ editId' = task[k].vacancy /\ state' = <<"waiting", task[k].field>>
         /\ task' \in [Slot -> Handler] /\ task'[k].kind = "none"
         /\ \A j \in Slot : j # k => task'[j] = task[j]
<1>1. task[k] \in Asking
  BY Shapes DEF TypeOK, AskField
<1> QED BY <1>1, DoneStep DEF AskField, Asking

\* No action takes back a prompt, or the meeting of a card with another one's draft.
PromptsKept == strayed \subseteq strayed' /\ shown \cup unsent \subseteq shown' \cup unsent'

\* A card that opens keeps the drafts of its own vacancy, or strays.
LEMMA CardOpened ==
  ASSUME TypeOK, DraftWasShown, NEW v \in Vacancy, editId' = v,
         strayed' = strayed \cup Strays(v), UNCHANGED <<draft, shown, unsent>>
  PROVE  DraftWasShown' /\ PromptsKept /\ strayed' \subseteq Vacancy
<1>1. strayed' \subseteq Vacancy /\ PromptsKept
  BY DEF TypeOK, Strays, PromptsKept
<1>2. CASE v = editId
  BY <1>1, <1>2, EditCardsAssumption DEF DraftWasShown, WasShown, NoId
<1>3. CASE v # editId
  <2>1. ASSUME NEW f \in Field \ {"schedule"}, NEW c \in ColumnSet(f), draft[c] \in Text
        PROVE  v \in strayed'
    <3>1. c \in Column /\ draft[c] # Null
      BY <2>1, ColumnFacts, EditCardsAssumption DEF Null
    <3> QED BY <1>3, <3>1 DEF Strays
  <2> QED BY <1>1, <2>1 DEF DraftWasShown, WasShown
<1> QED BY <1>1, <1>2, <1>3

\* A handler that ends, dies or saves nothing has no save any more.
LEMMA SavesLeft ==
  ASSUME TypeOK, NEW k \in Slot, task'[k].kind # "save", UNCHANGED row, torn \subseteq torn',
         \A j \in Slot : j # k => task'[j] = task[j]
  PROVE  /\ OneSaves => OneSaves'
         /\ SavesWhole => SavesWhole'
         /\ SavingWasShown /\ PromptsKept => SavingWasShown'
         /\ SavedWasShown /\ PromptsKept => SavedWasShown'
         /\ SalaryWhole /\ (\A v \in Vacancy \ torn' : Saving(k, v) => Whole(v)) => SalaryWhole'
<1>1. ASSUME NEW v, NEW j \in Slot PROVE Saving(j, v)' <=> j # k /\ Saving(j, v)
  BY DEF Saving
<1>2. OneSaves => OneSaves'
  BY <1>1 DEF OneSaves
<1>3. ASSUME SavesWhole PROVE SavesWhole'
  <2> SUFFICES ASSUME NEW v \in Vacancy \ torn', NEW j \in Slot, Saving(j, v)'
               PROVE  HalfDone(v, task[j])'
    BY DEF SavesWhole
  <2>1. j # k /\ HalfDone(v, task[j])
    BY <1>1, <1>3 DEF SavesWhole
  <2> QED BY <2>1 DEF HalfDone, Whole
<1>4. ASSUME SavingWasShown, PromptsKept PROVE SavingWasShown'
  BY <1>4 DEF SavingWasShown, WasShown, PromptsKept
<1>5. ASSUME SalaryWhole, \A v \in Vacancy \ torn' : Saving(k, v) => Whole(v)
      PROVE  SalaryWhole'
  BY <1>1, <1>5 DEF SalaryWhole, Whole
<1>6. ASSUME SavedWasShown, PromptsKept PROVE SavedWasShown'
  BY <1>6 DEF SavedWasShown, PromptsKept
<1> QED BY <1>2, <1>3, <1>4, <1>5, <1>6

LEMMA FinishedWhole ==
  ASSUME TypeOK, SavesWhole, NEW k \in Slot, task[k].kind = "save", task[k].todo = <<>>,
         NEW v \in Vacancy \ torn, Saving(k, v)
  PROVE  Whole(v)
<1>1. HalfDone(v, task[k])
  BY DEF SavesWhole
<1>2. <<>> # <<"salary_min", "salary_max">> /\ <<>> # <<"salary_max">>
  OBVIOUS
<1> QED BY <1>1, <1>2 DEF HalfDone

-------------------------------------------------------------------------------
(* Types are kept.                                                         *)

LEMMA CardsTypeInit == Init => TypeOK
<1> SUFFICES ASSUME Init PROVE TypeOK
  OBVIOUS
<1>1. task \in [Slot -> Handler]
  BY DEF Init, Handler
<1> QED BY <1>1, FsmFacts DEF Init, TypeOK

LEMMA CardsTypeStep == TypeOK /\ [Next]_vars => TypeOK'
<1> SUFFICES ASSUME TypeOK, [Next]_vars PROVE TypeOK'
  OBVIOUS
<1>1. ASSUME NEW v \in Vacancy, OpenCard(v) PROVE TypeOK'
  BY <1>1 DEF TypeOK, OpenCard, prompts, Strays
<1>2. ASSUME NEW v \in Vacancy, AskContacts(v) PROVE TypeOK'
  BY <1>2, FsmFacts DEF TypeOK, AskContacts, prompts, Strays
<1>3. ASSUME NEW v \in Vacancy, NEW f \in Field, NEW k \in Slot, PressField(v, f, k) PROVE TypeOK'
  <2>1. [kind |-> "ask", vacancy |-> v, field |-> f] \in Handler
    BY DEF Handler, Asking
  <2>2. task' \in [Slot -> Handler]
    BY <1>3, <2>1, BeginStep DEF PressField
  <2> QED BY <1>3, <2>2 DEF PressField, TypeOK, context, prompts
<1>4. ASSUME NEW k \in Slot, AskField(k) PROVE TypeOK'
  BY <1>4, AskStep, FsmFacts DEF TypeOK, AskField, prompts, Strays
<1>5. ASSUME NEW f \in Field, NEW x \in Text, NEW k \in Slot, GiveValue(f, x, k) PROVE TypeOK'
  <2>1. editId \in Vacancy
    BY <1>5 DEF TypeOK, GiveValue
  <2>2. [kind |-> "prompt", vacancy |-> editId, field |-> f, text |-> x] \in Handler
    BY <2>1 DEF Handler, Prompting
  <2>3. task' \in [Slot -> Handler]
    BY <1>5, <2>2, BeginStep DEF GiveValue
  <2> QED BY <1>5, <2>3 DEF GiveValue, TypeOK, context, prompts
<1>6. ASSUME NEW k \in Slot, StoreDraft(k) PROVE TypeOK'
  <2>1. <<task[k].vacancy, task[k].field, task[k].text>> \in Vacancy \X Field \X Text
    BY <1>6, StoreStep
  <2>2. /\ state' \in FsmState /\ draft' \in [Column -> Text \cup {Null}]
        /\ task' \in [Slot -> Handler]
    BY <1>6, StoreStep, FsmFacts
  <2>3. unsent' \subseteq Vacancy \X Field \X Text /\ strayed' \subseteq Vacancy
    BY <1>6, <2>1, StoreStep DEF TypeOK
  <2> QED BY <1>6, <2>2, <2>3 DEF TypeOK, StoreDraft
<1>15. ASSUME NEW k \in Slot, ShowPrompt(k) PROVE TypeOK'
  <2>1. shown' \subseteq Vacancy \X Field \X Text /\ unsent' \subseteq Vacancy \X Field \X Text
    BY <1>15, ShowStep DEF TypeOK
  <2> QED BY <1>15, <2>1, ShowStep DEF TypeOK, ShowPrompt, context
<1>7. ASSUME NEW x \in Text, NEW k \in Slot, TypeSchedule(x, k) PROVE TypeOK'
  BY <1>7, ScheduleBegun, SaveBegun DEF TypeOK, TypeSchedule, context, prompts
<1>8. ASSUME NEW f \in Field, NEW k \in Slot, Confirm(f, k) PROVE TypeOK'
  BY <1>8, ConfirmBegun, SaveBegun DEF TypeOK, Confirm, context, prompts
<1>9. CASE Leave
  BY <1>9, ClearStep DEF TypeOK, Leave, prompts
<1>10. ASSUME NEW k \in Slot, WriteColumn(k) PROVE TypeOK'
  BY <1>10, WriteStep DEF TypeOK, WriteColumn, context, prompts
<1>11. ASSUME NEW k \in Slot, FinishSave(k) PROVE TypeOK'
  BY <1>11, ClearStep, DoneStep DEF TypeOK, FinishSave, prompts
<1>12. ASSUME NEW k \in Slot, Break(k) PROVE TypeOK'
  <2>1. task[k].kind = "save" => task[k].vacancy \in Vacancy
    BY SaveShape
  <2> QED BY <1>12, <2>1, DoneStep DEF TypeOK, Break, context, prompts
<1>13. CASE Restart
  <2>1. task' \in [Slot -> Handler]
    BY <1>13 DEF Restart, Handler
  <2> QED BY <1>13, <2>1, ClearStep DEF TypeOK, Restart, prompts
<1>14. CASE UNCHANGED vars
  BY <1>14 DEF TypeOK, vars, context, prompts
<1> QED
  BY <1>1, <1>2, <1>3, <1>4, <1>5, <1>6, <1>7, <1>8, <1>9, <1>10, <1>11, <1>12,
      <1>13, <1>14, <1>15 DEF Next

-------------------------------------------------------------------------------
(* The invariant holds at first, and every action keeps it.                *)

LEMMA CardsInitially == Init => CardsInv
<1> SUFFICES ASSUME Init PROVE CardsInv
  OBVIOUS
<1>1. Before \notin Text /\ Null \notin Text
  BY EditCardsAssumption DEF Before, Null
<1>2. \A k \in Slot : task[k].kind = "none"
  BY DEF Init, NoTask
<1>3. OneSaves /\ SavesWhole /\ SavingWasShown
  BY <1>2 DEF OneSaves, SavesWhole, SavingWasShown, Saving
<1>4. StateHasItsData
  BY FsmFacts DEF Init, StateHasItsData
<1>5. DraftWhole /\ SalaryWhole
  BY ColumnFacts DEF Init, DraftWhole, SalaryWhole
<1>6. DraftWasShown /\ SavedWasShown
  BY <1>1, ColumnFacts DEF Init, DraftWasShown, SavedWasShown
<1> QED BY <1>3, <1>4, <1>5, <1>6, CardsTypeInit DEF CardsInv

LEMMA OpenCardKeeps ==
  ASSUME CardsInv, TypeOK', NEW v \in Vacancy, OpenCard(v)
  PROVE  CardsInv'
<1>1. OneSaves' /\ SavesWhole' /\ DraftWhole' /\ SalaryWhole'
  BY DEF CardsInv, OneSaves, SavesWhole, DraftWhole, SalaryWhole, OpenCard, Saving,
      HalfDone, Whole
<1>3. DraftWasShown' /\ PromptsKept
  BY CardOpened DEF CardsInv, OpenCard, prompts
<1>4. SavingWasShown' /\ SavedWasShown'
  BY <1>3 DEF CardsInv, SavingWasShown, SavedWasShown, WasShown, PromptsKept, OpenCard
<1>2. StateHasItsData'
  BY EditCardsAssumption DEF CardsInv, StateHasItsData, OpenCard, NoId
<1> QED BY <1>1, <1>2, <1>3, <1>4 DEF CardsInv

LEMMA AskContactsKeeps ==
  ASSUME CardsInv, TypeOK', NEW v \in Vacancy, AskContacts(v)
  PROVE  CardsInv'
<1>1. OneSaves' /\ SavesWhole' /\ DraftWhole' /\ SalaryWhole'
  BY DEF CardsInv, OneSaves, SavesWhole, DraftWhole, SalaryWhole, AskContacts, Saving,
      HalfDone, Whole
<1>3. DraftWasShown' /\ PromptsKept
  BY CardOpened DEF CardsInv, AskContacts, prompts
<1>4. SavingWasShown' /\ SavedWasShown'
  BY <1>3 DEF CardsInv, SavingWasShown, SavedWasShown, WasShown, PromptsKept, AskContacts
<1>2. StateHasItsData'
  <2>1. state' = <<"waiting", "contacts">> /\ editId' # NoId
    BY EditCardsAssumption DEF AskContacts, NoId
  <2> QED BY <2>1 DEF StateHasItsData
<1> QED BY <1>1, <1>2, <1>3, <1>4 DEF CardsInv

LEMMA PressFieldKeeps ==
  ASSUME CardsInv, TypeOK', NEW v \in Vacancy, NEW f \in Field, NEW k \in Slot, PressField(v, f, k)
  PROVE  CardsInv'
<1>1. StateHasItsData' /\ DraftWhole' /\ DraftWasShown' /\ SavedWasShown'
  BY DEF CardsInv, StateHasItsData, DraftWhole, DraftWasShown, SavedWasShown,
      PressField, NoId, ColumnSet, Columns, Null, WasShown, Begin, context, prompts
<1>2. OneSaves'
  BY DEF CardsInv, OneSaves, PressField, Begin, NoTask, Slot, context, prompts, Saving
<1>3. SavesWhole'
  BY DEF CardsInv, SavesWhole, PressField, Begin, NoTask, Slot, context, prompts, Saving,
      HalfDone, Whole
<1>4. SalaryWhole'
  BY DEF CardsInv, SalaryWhole, PressField, Begin, NoTask, Slot, context, prompts, Saving
<1>5. SavingWasShown'
  BY DEF CardsInv, SavingWasShown, PressField, Begin, NoTask, Slot, context, prompts,
      ColumnSet, Columns, WasShown
<1> QED BY <1>1, <1>2, <1>3, <1>4, <1>5 DEF CardsInv

LEMMA AskFieldKeeps ==
  ASSUME CardsInv, TypeOK', NEW k \in Slot, AskField(k)
  PROVE  CardsInv'
<1>1. DraftWhole' /\ DraftWasShown' /\ PromptsKept
  BY AskStep, CardOpened DEF CardsInv, DraftWhole, AskField, prompts
<1>2. StateHasItsData'
  <2>1. state' = <<"waiting", task[k].field>> /\ editId' # NoId
    BY AskStep, EditCardsAssumption DEF CardsInv, NoId
  <2> QED BY <2>1 DEF StateHasItsData
<1>3. OneSaves'
  BY AskStep, SavesLeft DEF CardsInv, AskField
<1>4. SavesWhole'
  BY AskStep, SavesLeft DEF CardsInv, AskField
<1>5. SalaryWhole'
  BY AskStep, SavesLeft DEF CardsInv, AskField, Saving
<1>6. SavingWasShown' /\ SavedWasShown'
  BY <1>1, AskStep, SavesLeft DEF CardsInv, AskField
<1> QED BY <1>1, <1>2, <1>3, <1>4, <1>5, <1>6 DEF CardsInv

LEMMA GiveValueKeeps ==
  ASSUME CardsInv, TypeOK', NEW f \in Field, NEW x \in Text, NEW k \in Slot, GiveValue(f, x, k)
  PROVE  CardsInv'
<1>1. StateHasItsData' /\ DraftWhole' /\ DraftWasShown' /\ SavedWasShown'
  BY DEF CardsInv, StateHasItsData, DraftWhole, DraftWasShown, SavedWasShown,
      GiveValue, NoId, ColumnSet, Columns, Null, WasShown, Begin, context, prompts
<1>2. OneSaves'
  BY DEF CardsInv, OneSaves, GiveValue, NoId, Begin, NoTask, Slot, context, prompts, Saving
<1>3. SavesWhole'
  BY DEF CardsInv, SavesWhole, GiveValue, NoId, Begin, NoTask, Slot, context, prompts,
      Saving, HalfDone, Whole
<1>4. SalaryWhole'
  BY DEF CardsInv, SalaryWhole, GiveValue, NoId, Begin, NoTask, Slot, context, prompts,
      Saving
<1>5. SavingWasShown'
  BY DEF CardsInv, SavingWasShown, GiveValue, NoId, Begin, NoTask, Slot, context, prompts,
      ColumnSet, Columns, WasShown
<1> QED BY <1>1, <1>2, <1>3, <1>4, <1>5 DEF CardsInv

LEMMA StoreDraftKeeps ==
  ASSUME CardsInv, TypeOK', NEW k \in Slot, StoreDraft(k)
  PROVE  CardsInv'
<1>1. StateHasItsData'
  <2>1. state'[1] = "confirm" /\ state'[2] = task[k].field
    BY StoreStep DEF CardsInv
  <2>2. \A c \in ColumnSet(state'[2]) : draft'[c] # Null
    BY <2>1, StoreStep, EditCardsAssumption DEF CardsInv, Null
  <2> QED BY <2>1, <2>2 DEF StateHasItsData
<1>2. PromptsKept
  BY StoreStep DEF CardsInv, PromptsKept, StoreDraft
<1>3. OneSaves'
  BY StoreStep, SavesLeft DEF CardsInv, StoreDraft
<1>4. SavesWhole'
  BY StoreStep, SavesLeft DEF CardsInv, StoreDraft
<1>5. DraftWhole'
  <2>1. CASE task[k].field = "salary"
    BY <2>1, StoreStep, ColumnFacts DEF CardsInv, DraftWhole
  <2>2. CASE task[k].field # "salary"
    BY <2>2, StoreStep, ColumnFacts DEF CardsInv, DraftWhole
  <2> QED BY <2>1, <2>2
<1>6. SalaryWhole'
  BY StoreStep, SavesLeft DEF CardsInv, StoreDraft, Saving
<1>7. DraftWasShown'
  <2> SUFFICES ASSUME editId # NoId, NEW f \in Field \ {"schedule"}, NEW c \in ColumnSet(f),
                      draft'[c] \in Text
               PROVE  editId \in strayed' \/ <<editId, f, draft'[c]>> \in shown' \cup unsent'
    BY DEF DraftWasShown, WasShown, StoreDraft
  <2>1. CASE f = task[k].field /\ editId = task[k].vacancy
    BY <2>1, StoreStep DEF CardsInv
  <2>2. CASE f = task[k].field /\ editId # task[k].vacancy
    BY <2>2, StoreStep DEF CardsInv
  <2>3. CASE f # task[k].field
    BY <1>2, <2>3, StoreStep DEF CardsInv, DraftWasShown, WasShown, PromptsKept
  <2> QED BY <2>1, <2>2, <2>3
<1>8. SavingWasShown' /\ SavedWasShown'
  BY <1>2, StoreStep, SavesLeft DEF CardsInv, StoreDraft
<1> QED BY <1>1, <1>3, <1>4, <1>5, <1>6, <1>7, <1>8 DEF CardsInv

LEMMA ShowPromptKeeps ==
  ASSUME CardsInv, TypeOK', NEW k \in Slot, ShowPrompt(k)
  PROVE  CardsInv'
<1>1. StateHasItsData' /\ DraftWhole'
  BY DEF CardsInv, StateHasItsData, DraftWhole, ShowPrompt, context
<1>2. PromptsKept
  BY ShowStep DEF CardsInv, PromptsKept, ShowPrompt
<1>3. OneSaves'
  BY ShowStep, SavesLeft DEF CardsInv, ShowPrompt
<1>4. SavesWhole'
  BY ShowStep, SavesLeft DEF CardsInv, ShowPrompt
<1>5. SalaryWhole'
  BY ShowStep, SavesLeft DEF CardsInv, ShowPrompt, Saving
<1>6. DraftWasShown'
  BY <1>2 DEF CardsInv, DraftWasShown, WasShown, PromptsKept, ShowPrompt, context
<1>7. SavingWasShown' /\ SavedWasShown'
  BY <1>2, ShowStep, SavesLeft DEF CardsInv, ShowPrompt
<1> QED BY <1>1, <1>3, <1>4, <1>5, <1>6, <1>7 DEF CardsInv

LEMMA TypeScheduleKeeps ==
  ASSUME CardsInv, TypeOK', NEW x \in Text, NEW k \in Slot, TypeSchedule(x, k)
  PROVE  CardsInv'
<1>1. StateHasItsData' /\ DraftWhole' /\ DraftWasShown' /\ SavedWasShown'
  BY DEF CardsInv, StateHasItsData, DraftWhole, DraftWasShown, SavedWasShown,
      TypeSchedule, NoId, ColumnSet, Columns, Null, WasShown, Begin, context, prompts
<1>2. OneSaves'
  BY ScheduleBegun, SaveBegun DEF CardsInv, TypeSchedule
<1>3. SavesWhole'
  BY ScheduleBegun, SaveBegun DEF CardsInv, TypeSchedule
<1>4. SalaryWhole'
  BY ScheduleBegun, SaveBegun DEF CardsInv, TypeSchedule
<1>5. SavingWasShown'
  <2> DEFINE x0 == [c \in ColumnSet("schedule") |-> x]
  <2>1. /\ task'[k] = Save(editId, "schedule", x0)
        /\ \A j \in Slot : j # k => task'[j] = task[j]
    <3>1. /\ editId # NoId /\ Begin(k, Save(editId, "schedule", x0))
          /\ torn' = torn \cup Overlap(editId) /\ UNCHANGED row
      BY DEF TypeSchedule
    <3>2. "schedule" \in Field /\ x0 \in [ColumnSet("schedule") -> Text \cup {Null}]
      BY ScheduleBegun DEF CardsInv
    <3> HIDE DEF x0
    <3> QED BY <3>1, <3>2, SaveBegun DEF CardsInv
  <2>2. task'[k].field = "schedule"
    BY <2>1 DEF Save
  <2> QED BY <2>1, <2>2 DEF CardsInv, SavingWasShown, WasShown, TypeSchedule, prompts
<1> QED BY <1>1, <1>2, <1>3, <1>4, <1>5 DEF CardsInv

LEMMA ConfirmKeeps ==
  ASSUME CardsInv, TypeOK', NEW f \in Field, NEW k \in Slot, Confirm(f, k)
  PROVE  CardsInv'
<1>1. StateHasItsData' /\ DraftWhole' /\ DraftWasShown' /\ SavedWasShown'
  BY DEF CardsInv, StateHasItsData, DraftWhole, DraftWasShown, SavedWasShown,
      Confirm, NoId, ColumnSet, Columns, Null, WasShown, Begin, context, prompts
<1>2. OneSaves'
  BY ConfirmBegun, SaveBegun DEF CardsInv, Confirm
<1>3. SavesWhole'
  <2>1. f = "salary" => DraftOf(f)["salary_min"] = DraftOf(f)["salary_max"]
    BY ConfirmBegun, ColumnFacts DEF CardsInv, DraftWhole
  <2> QED BY <2>1, ConfirmBegun, SaveBegun DEF CardsInv, Confirm
<1>4. SalaryWhole'
  BY ConfirmBegun, SaveBegun DEF CardsInv, Confirm
<1>5. SavingWasShown'
  <2>1. /\ task'[k].field = f /\ task'[k].values = DraftOf(f) /\ task'[k].vacancy = editId
        /\ \A j \in Slot : j # k => task'[j] = task[j]
    BY ConfirmBegun, SaveBegun DEF CardsInv, Confirm, Save
  <2>2. f # "schedule" => \A c \in ColumnSet(f) : WasShown(editId, f, DraftOf(f)[c])
    BY ConfirmBegun DEF CardsInv, DraftWasShown, Confirm
  <2> QED BY <2>1, <2>2 DEF CardsInv, SavingWasShown, WasShown, Confirm, prompts
<1> QED BY <1>1, <1>2, <1>3, <1>4, <1>5 DEF CardsInv

LEMMA LeaveKeeps ==
  ASSUME CardsInv, TypeOK', Leave
  PROVE  CardsInv'
<1>1. OneSaves' /\ SavesWhole' /\ SalaryWhole' /\ SavingWasShown' /\ SavedWasShown'
  BY DEF CardsInv, OneSaves, SavesWhole, SalaryWhole, SavingWasShown, SavedWasShown,
      Leave, Saving, HalfDone, Whole, WasShown, prompts
<1>2. StateHasItsData'
  BY ClearStep DEF Leave
<1>3. DraftWhole'
  BY ClearStep DEF Leave
<1>4. DraftWasShown'
  BY ClearStep DEF Leave
<1> QED BY <1>1, <1>2, <1>3, <1>4 DEF CardsInv

LEMMA WriteColumnKeeps ==
  ASSUME CardsInv, TypeOK', NEW k \in Slot, WriteColumn(k)
  PROVE  CardsInv'
<1>1. StateHasItsData' /\ DraftWhole' /\ DraftWasShown'
  BY DEF CardsInv, StateHasItsData, DraftWhole, DraftWasShown, WriteColumn, NoId,
      ColumnSet, Columns, Null, WasShown, context, prompts
<1>2. OneSaves'
  <2>1. \A j \in Slot, v \in Vacancy : Saving(j, v)' <=> Saving(j, v)
    BY WriteStep DEF CardsInv, Saving
  <2> QED BY <2>1 DEF CardsInv, OneSaves, WriteColumn
<1>3. SavesWhole'
  <2>1. \A j \in Slot, v \in Vacancy : Saving(j, v)' <=> Saving(j, v)
    BY WriteStep DEF CardsInv, Saving
  <2>2. torn' = torn
    BY DEF WriteColumn
  <2> SUFFICES ASSUME NEW v \in Vacancy \ torn, NEW j \in Slot, Saving(j, v)
               PROVE  HalfDone(v, task[j])'
    BY <2>1, <2>2 DEF SavesWhole
  <2>3. HalfDone(v, task[j])
    BY DEF CardsInv, SavesWhole
  <2>4. CASE v # task[k].vacancy
    <3>1. j # k
      BY <2>4 DEF Saving
    <3> QED BY <2>3, <2>4, <3>1, WriteStep DEF CardsInv, HalfDone, Whole
  <2>5. CASE v = task[k].vacancy
    <3>1. Saving(k, v)
      BY <2>5, WriteStep DEF CardsInv, Saving
    <3>2. j = k
      BY <3>1 DEF CardsInv, OneSaves
    <3> DEFINE f == task[k].field
               c == Head(task[k].todo)
    <3>3. f \in Field /\ task[k].todo \in Rests(f) /\ task[k].todo # <<>>
      BY <3>1, SaveShape, WriteStep DEF CardsInv, Saving
    <3>4. CASE f # "salary"
      <4>1. c \notin {"salary_min", "salary_max"}
        BY <3>3, <3>4, NextColumn, ColumnFacts
      <4>2. Whole(v)'
        BY <2>3, <2>5, <3>2, <3>4, <4>1, WriteStep, ColumnFacts DEF CardsInv, HalfDone, Whole
      <4> QED BY <3>2, <3>4, <4>2, WriteStep DEF CardsInv, HalfDone
    <3>5. CASE f = "salary"
      <4>1. /\ task'[k].field = "salary" /\ task'[k].values = task[k].values
            /\ task'[k].todo = Tail(task[k].todo) /\ row'[v][c] = task[k].values[c]
            /\ \A d \in {"salary_min", "salary_max"} : d # c => row'[v][d] = row[v][d]
        BY <2>5, <3>5, WriteStep, ColumnFacts DEF CardsInv
      <4>2. task[k].values["salary_min"] = task[k].values["salary_max"]
        BY <2>3, <3>2, <3>5 DEF HalfDone
      <4>3. CASE task[k].todo = <<"salary_min", "salary_max">>
        <5>1. c = "salary_min" /\ task'[k].todo = <<"salary_max">>
          BY <4>1, <4>3
        <5> QED BY <3>2, <4>1, <4>2, <5>1 DEF HalfDone
      <4>4. CASE task[k].todo = <<"salary_max">>
        <5>1. c = "salary_max" /\ task'[k].todo = <<>>
          BY <4>1, <4>4
        <5>2. <<"salary_max">> # <<"salary_min", "salary_max">> /\ <<"salary_max">> # <<>>
          OBVIOUS
        <5>3. row[v]["salary_min"] = task[k].values["salary_min"]
          BY <2>3, <3>2, <3>5, <4>4, <5>2 DEF HalfDone
        <5> QED BY <3>2, <4>1, <4>2, <5>1, <5>3 DEF HalfDone, Whole
      <4> QED BY <3>3, <3>5, <4>3, <4>4, NextColumn
    <3> QED BY <3>4, <3>5
  <2> QED BY <2>4, <2>5
<1>4. SalaryWhole'
  <2>1. \A j \in Slot, v \in Vacancy : Saving(j, v)' <=> Saving(j, v)
    BY WriteStep DEF CardsInv, Saving
  <2>2. \A v \in Vacancy : v # task[k].vacancy => row'[v] = row[v]
    BY WriteStep DEF CardsInv
  <2>3. task[k].vacancy \in Vacancy /\ Saving(k, task[k].vacancy)
    BY WriteStep DEF CardsInv, Saving
  <2>4. Saving(k, task[k].vacancy)' /\ torn' = torn
    BY <2>1, <2>3, WriteStep DEF CardsInv, Saving, WriteColumn
  <2> SUFFICES ASSUME NEW v \in Vacancy \ torn, \A j \in Slot : ~Saving(j, v)
               PROVE  row'[v]["salary_min"] = row'[v]["salary_max"]
    BY <2>1, <2>4 DEF SalaryWhole
  <2> QED BY <2>2, <2>3 DEF CardsInv, SalaryWhole
<1>5. SavingWasShown'
  <2>1. /\ \A j \in Slot : /\ task'[j].kind = task[j].kind
                           /\ task'[j].vacancy = task[j].vacancy
                           /\ task'[j].field = task[j].field
                           /\ task'[j].values = task[j].values
        /\ UNCHANGED <<shown, unsent, strayed>>
    BY WriteStep DEF CardsInv, WriteColumn, prompts
  <2> QED BY <2>1 DEF CardsInv, SavingWasShown, WasShown
<1>6. SavedWasShown'
  <2> DEFINE w == task[k].vacancy
             g == task[k].field
             d == Head(task[k].todo)
  <2> SUFFICES ASSUME NEW v \in Vacancy, NEW f \in Field \ {"schedule"},
                      NEW c \in ColumnSet(f), row'[v][c] \in Text
               PROVE  v \in strayed \/ <<v, f, row'[v][c]>> \in shown \cup unsent
    BY DEF SavedWasShown, WriteColumn, prompts
  <2>1. CASE v = w /\ c = d
    <3>1. f = g
      BY <2>1, WriteStep, ColumnFacts DEF CardsInv
    <3>2. row'[v][c] = task[k].values[c] /\ task[k].kind = "save"
      BY <2>1, WriteStep DEF CardsInv
    <3> QED BY <2>1, <3>1, <3>2 DEF CardsInv, SavingWasShown, WasShown
  <2>2. CASE ~(v = w /\ c = d)
    <3>1. row'[v][c] = row[v][c]
      BY <2>2, WriteStep, ColumnFacts DEF CardsInv
    <3> QED BY <3>1 DEF CardsInv, SavedWasShown
  <2> QED BY <2>1, <2>2
<1> QED BY <1>1, <1>2, <1>3, <1>4, <1>5, <1>6 DEF CardsInv

LEMMA FinishSaveKeeps ==
  ASSUME CardsInv, TypeOK', NEW k \in Slot, FinishSave(k)
  PROVE  CardsInv'
<1>1. SavedWasShown'
  BY DEF CardsInv, SavedWasShown, FinishSave, prompts
<1>2. StateHasItsData'
  BY ClearStep DEF FinishSave
<1>3. OneSaves'
  BY DoneStep, SavesLeft DEF CardsInv, FinishSave
<1>4. SavesWhole'
  BY DoneStep, SavesLeft DEF CardsInv, FinishSave
<1>5. DraftWhole'
  BY ClearStep DEF FinishSave
<1>6. SalaryWhole'
  BY DoneStep, SavesLeft, FinishedWhole DEF CardsInv, FinishSave
<1>7. DraftWasShown'
  BY ClearStep DEF FinishSave
<1>8. SavingWasShown'
  BY DoneStep, SavesLeft DEF CardsInv, FinishSave, PromptsKept, prompts
<1> QED BY <1>1, <1>2, <1>3, <1>4, <1>5, <1>6, <1>7, <1>8 DEF CardsInv

LEMMA BreakKeeps ==
  ASSUME CardsInv, TypeOK', NEW k \in Slot, Break(k)
  PROVE  CardsInv'
<1>1. StateHasItsData' /\ DraftWhole' /\ DraftWasShown' /\ SavedWasShown'
  BY DEF CardsInv, StateHasItsData, DraftWhole, DraftWasShown, SavedWasShown, Break,
      NoId, ColumnSet, Columns, Null, WasShown, Done, context, prompts
<1>2. OneSaves'
  BY DoneStep, SavesLeft DEF CardsInv, Break
<1>3. SavesWhole'
  BY DoneStep, SavesLeft DEF CardsInv, Break
<1>4. SalaryWhole'
  <2>1. \A v \in Vacancy \ torn' : ~Saving(k, v)
    BY DEF Break, Saving
  <2> QED BY <2>1, DoneStep, SavesLeft DEF CardsInv, Break
<1>5. SavingWasShown'
  BY DoneStep, SavesLeft DEF CardsInv, Break, PromptsKept, prompts
<1> QED BY <1>1, <1>2, <1>3, <1>4, <1>5 DEF CardsInv

LEMMA RestartKeeps ==
  ASSUME CardsInv, TypeOK', Restart
  PROVE  CardsInv'
<1>1. SavedWasShown'
  BY DEF CardsInv, SavedWasShown, Restart, prompts
<1>2. StateHasItsData'
  BY ClearStep DEF Restart
<1>3. OneSaves'
  <2>1. \A j \in Slot, v \in Vacancy : ~Saving(j, v)'
    BY DEF Restart, Saving, NoTask
  <2> QED BY <2>1 DEF OneSaves
<1>4. SavesWhole'
  <2>1. \A j \in Slot, v \in Vacancy : ~Saving(j, v)'
    BY DEF Restart, Saving, NoTask
  <2> QED BY <2>1 DEF SavesWhole
<1>5. DraftWhole'
  BY ClearStep DEF Restart
<1>6. SalaryWhole'
  BY DEF CardsInv, SalaryWhole, Restart
<1>7. DraftWasShown'
  BY ClearStep DEF Restart
<1>8. SavingWasShown'
  <2>1. \A j \in Slot : task'[j].kind = "none"
    BY DEF Restart, NoTask
  <2> QED BY <2>1 DEF SavingWasShown
<1> QED BY <1>1, <1>2, <1>3, <1>4, <1>5, <1>6, <1>7, <1>8 DEF CardsInv

LEMMA CardsKept == CardsInv /\ [Next]_vars => CardsInv'
<1> SUFFICES ASSUME CardsInv, [Next]_vars PROVE CardsInv'
  OBVIOUS
<1>1. TypeOK'
  BY CardsTypeStep DEF CardsInv
<1>2. CASE UNCHANGED vars
  <2>1. TypeOK'
    BY <1>1
  <2>2. (StateHasItsData /\ DraftWhole)'
    BY <1>2 DEF CardsInv, vars, context, prompts, StateHasItsData, DraftWhole
  <2>3. (OneSaves /\ SalaryWhole)'
    BY <1>2 DEF CardsInv, vars, context, prompts, OneSaves, SalaryWhole, Saving
  <2>4. SavesWhole'
    BY <1>2 DEF CardsInv, vars, context, prompts, SavesWhole, Saving, HalfDone, Whole
  <2>5. (DraftWasShown /\ SavingWasShown /\ SavedWasShown)'
    BY <1>2 DEF CardsInv, vars, context, prompts, DraftWasShown, SavingWasShown, SavedWasShown, WasShown
  <2> QED BY <2>1, <2>2, <2>3, <2>4, <2>5 DEF CardsInv
<1>3. CASE Next
  BY <1>1, <1>3, OpenCardKeeps, AskContactsKeeps, PressFieldKeeps,
      AskFieldKeeps, GiveValueKeeps, StoreDraftKeeps, ShowPromptKeeps, TypeScheduleKeeps,
      ConfirmKeeps, LeaveKeeps, WriteColumnKeeps, FinishSaveKeeps, BreakKeeps,
      RestartKeeps
     DEF Next
<1> QED BY <1>2, <1>3

-------------------------------------------------------------------------------
(* The theorems.                                                           *)

LEMMA CardsInvariance == Spec => []CardsInv
  BY CardsInitially, CardsKept, PTL DEF Spec

\* Every handler holds what its kind of step needs, every draft and column a text or nothing.
THEOREM CardsTypeCorrect == Spec => []TypeOK
<1>1. CardsInv => TypeOK
  BY DEF CardsInv
<1> QED BY <1>1, CardsInvariance, PTL

\* Whatever handlers overlap, a state that awaits a value has its vacancy and a state that
\* awaits a confirmation has its draft: the "not found" branches of save_vacancy_* are dead.
THEOREM DataReady == Spec => []StateHasItsData
<1>1. CardsInv => StateHasItsData
  BY DEF CardsInv
<1> QED BY <1>1, CardsInvariance, PTL

\* The two updates of save_vacancy_salary leave a salary of two texts only where two saves
\* of the vacancy overlapped or one died between them.
THEOREM SalaryKept == Spec => []SalaryWhole
<1>1. CardsInv => SalaryWhole
  BY DEF CardsInv
<1> QED BY <1>1, CardsInvariance, PTL

\* What a vacancy's column takes was shown as what this vacancy becomes, schedules excepted:
\* but where the text's own prompt was late or lost, or the card met another one's draft.
THEOREM ShownFirst == Spec => []SavedWasShown
<1>1. CardsInv => SavedWasShown
  BY DEF CardsInv
<1> QED BY <1>1, CardsInvariance, PTL

-------------------------------------------------------------------------------
(*****************************************************************************)
(* Session waiters.                                                          *)
(*****************************************************************************)

(* The inductive invariant.                                                *)

Engaged(e, w) == agent[e].at \in {"queue", "handler"} /\ agent[e].waiter = w
Waiting(w)    == agent[w].at = "waiting"

\* The line of a waiter's lock holds, once each, the messages that trigger it; the
\* one whose handler runs is the first.
Lines ==
  \A w \in Input : /\ NoRepeat(turns[w])
                   /\ \A e \in Input : InQueue(turns[w], e) <=> Engaged(e, w)
HandlerFirst ==
  \A e \in Input : agent[e].at = "handler" =>
    turns[agent[e].waiter] # <<>> /\ turns[agent[e].waiter][1] = e

\* FILTERS holds, once each, the filters of the plugins that wait.
FiltersWait ==
  /\ NoRepeat(filters)
  /\ \A w \in Input : InQueue(filters, w) <=> Waiting(w)
PendingWaits == \A w \in Input : Pending(w) => Waiting(w)
EntryWaits   == \A s \in Umos : entry[s] # Nobody => Waiting(entry[s]) /\ Of[entry[s]] = s

\* Those that are in FILTERS together are known to be.
TogetherCrowded == \A w, v \in Input : Waiting(w) /\ Waiting(v) /\ w # v => w \in crowded
TogetherRivals  == \A w, v \in Input :
                     Waiting(w) /\ Waiting(v) /\ w # v /\ Of[w] = Of[v] => w \in rivals

\* What has not come yet was not heard; what stands at a lock was not heard by that
\* waiter, or else the waiter was not alone.
NewUnheard    == \A e \in Input : agent[e].at = "new" => heard[e] = {}
QueuedUnheard == \A e \in Input : agent[e].at = "queue" =>
                   agent[e].waiter \notin heard[e] \/ agent[e].waiter \in crowded

WaiterInv == /\ WaiterTypeOK /\ Lines /\ HandlerFirst /\ FiltersWait /\ PendingWaits /\ EntryWaits
             /\ TogetherCrowded /\ TogetherRivals /\ NewUnheard /\ QueuedUnheard
             /\ WaiterReachable /\ HandledOnce

-------------------------------------------------------------------------------
(* Giving a message to the next waiter.                                    *)

Unengaged(e, t) ==
  /\ t \in [Input -> Seq(Input)]
  /\ \A w \in Input : NoRepeat(t[w]) /\ ~InQueue(t[w], e)

\* The loop leaves the other messages where they are, and the message behind the lock
\* of the waiter that its session has, or at none.
LEMMA VisitSettles ==
  ASSUME WaiterTypeOK, NEW e \in Input, NEW i \in Nat \ {0}, NEW t, NEW f,
         Unengaged(e, t), Visit(e, i, t, f)
  PROVE  /\ agent' \in [Input -> Task]
         /\ \A d \in Input : d # e => agent'[d] = agent[d]
         /\ agent'[e].at \in {"free", "over", "queue", "handler"}
         /\ agent'[e].at \in {"queue", "handler"} =>
              /\ agent'[e].waiter = entry[Of[e]] /\ entry[Of[e]] \in Input
              /\ i <= Len(filters) /\ f[entry[Of[e]]] = "pending"
         /\ turns' \in [Input -> Seq(Input)]
         /\ \A w \in Input : NoRepeat(turns'[w])
         /\ \A w \in Input : InQueue(turns'[w], e) <=> Engaged(e, w)'
         /\ \A w, d \in Input : d # e => (InQueue(turns'[w], d) <=> InQueue(t[w], d))
         /\ \A w \in Input : t[w] # <<>> => turns'[w] # <<>> /\ turns'[w][1] = t[w][1]
         /\ agent'[e].at = "handler" => /\ turns'[agent'[e].waiter] # <<>>
                                        /\ turns'[agent'[e].waiter][1] = e
         /\ IF agent'[e].at = "handler" THEN Hear(e, agent'[e].waiter)
                                        ELSE UNCHANGED <<heard, twice>>
<1> DEFINE w == entry[Of[e]]
           found == i <= Len(filters) /\ w # Nobody
<1>0. Of[e] \in Umos /\ (w # Nobody => w \in Input) /\ Nobody \notin Input
  BY WaiterAssumption DEF WaiterTypeOK
<1>1. CASE found /\ f[w] = "pending"
  <2>1. /\ turns' = [t EXCEPT ![w] = Append(@, e)]
        /\ agent' = [agent EXCEPT ![e] = [at |-> IF t[w] = <<>> THEN "handler" ELSE "queue",
                                          i |-> i, waiter |-> w]]
        /\ IF t[w] = <<>> THEN Hear(e, w) ELSE UNCHANGED <<heard, twice>>
    BY <1>1 DEF Visit, Becomes
  <2> DEFINE r == Append(t[w], e)
  <2>2. w \in Input /\ t[w] \in Seq(Input) /\ ~InQueue(t[w], e) /\ NoRepeat(t[w])
    BY <1>0, <1>1 DEF Unengaged
  <2>3. /\ r \in Seq(Input) /\ NoRepeat(r) /\ InQueue(r, e)
        /\ \A u \in Input : u # e => (InQueue(t[w], u) <=> InQueue(r, u))
        /\ r[1] = IF t[w] = <<>> THEN e ELSE t[w][1]
        /\ r # <<>>
    BY <2>2, AppendProps, AppendProperties
  <2> HIDE DEF r
  <2>4. turns' = [t EXCEPT ![w] = r]
    BY <2>1, <2>2 DEF Unengaged, r
  <2>5. /\ agent'[e] = [at |-> IF t[w] = <<>> THEN "handler" ELSE "queue",
                        i |-> i, waiter |-> w]
        /\ \A d \in Input : d # e => agent'[d] = agent[d]
        /\ agent' \in [Input -> Task]
    BY <2>1, <2>2 DEF WaiterTypeOK, Task
  <2>6. \A v \in Input : turns'[v] = IF v = w THEN r ELSE t[v]
    BY <2>4, <2>2 DEF Unengaged
  <2>7. turns' \in [Input -> Seq(Input)]
    BY <2>4, <2>3 DEF Unengaged
  <2> HIDE DEF w
  <2>8. \A v \in Input : InQueue(turns'[v], e) <=> Engaged(e, v)'
    BY <2>2, <2>3, <2>5, <2>6 DEF Unengaged, Engaged
  <2>9. /\ \A v \in Input : NoRepeat(turns'[v])
        /\ \A v, d \in Input : d # e => (InQueue(turns'[v], d) <=> InQueue(t[v], d))
        /\ \A v \in Input : t[v] # <<>> => turns'[v] # <<>> /\ turns'[v][1] = t[v][1]
    BY <2>2, <2>3, <2>6 DEF Unengaged
  <2>10. agent'[e].at = "handler" <=> t[w] = <<>>
    BY <2>5
  <2>11. /\ agent'[e].at = "handler" => turns'[w] # <<>> /\ turns'[w][1] = e
         /\ agent'[e].waiter = w /\ agent'[e].at \in {"queue", "handler"}
    BY <2>2, <2>3, <2>5, <2>6
  <2> QED BY <1>1, <2>1, <2>2, <2>5, <2>7, <2>8, <2>9, <2>10, <2>11 DEF w
<1>2. CASE ~(found /\ f[w] = "pending")
  <2>1. /\ turns' = t /\ UNCHANGED <<heard, twice>>
        /\ agent' = [agent EXCEPT ![e] = [at |-> IF found \/ i > 1 THEN "over" ELSE "free"]]
    BY <1>2 DEF Visit, Becomes
  <2>2. /\ agent'[e].at \in {"free", "over"} /\ agent' \in [Input -> Task]
        /\ \A d \in Input : d # e => agent'[d] = agent[d]
    BY <2>1 DEF WaiterTypeOK, Task
  <2> QED BY <2>1, <2>2 DEF Unengaged, Engaged
<1> QED BY <1>1, <1>2

\* The message at the head of a line leaves it.
LEMMA HeadLeaves ==
  ASSUME WaiterInv, NEW e \in Input, agent[e].at \in {"queue", "handler"},
         turns[agent[e].waiter] # <<>>, turns[agent[e].waiter][1] = e
  PROVE  LET t == [turns EXCEPT ![agent[e].waiter] = Tail(@)] IN
         /\ agent[e].waiter \in Input /\ agent[e].i \in Nat \ {0}
         /\ Unengaged(e, t)
         /\ \A w, d \in Input : d # e => (InQueue(t[w], d) <=> Engaged(d, w))
         /\ \A d \in Input : d # e /\ agent[d].at = "handler" =>
              t[agent[d].waiter] # <<>> /\ t[agent[d].waiter][1] = d
<1> DEFINE w == agent[e].waiter
           r == Tail(turns[w])
           t == [turns EXCEPT ![agent[e].waiter] = Tail(@)]
<1>1. /\ w \in Input /\ agent[e].i \in Nat \ {0}
      /\ turns \in [Input -> Seq(Input)]
      /\ \A d \in Input : agent[d].at = "handler" => agent[d].waiter \in Input
  BY DEF WaiterInv, WaiterTypeOK, Task
<1>2. /\ r \in Seq(Input) /\ NoRepeat(r)
      /\ \A u \in Input : InQueue(r, u) <=> InQueue(turns[w], u) /\ u # e
  <2>1. NoRepeat(turns[w]) /\ turns[w] \in Seq(Input) /\ turns[w] # <<>> /\ turns[w][1] = e
    BY <1>1 DEF WaiterInv, Lines
  <2> QED BY <2>1, TailProps
<1> HIDE DEF r
<1>3. t \in [Input -> Seq(Input)] /\ \A v \in Input : t[v] = IF v = w THEN r ELSE turns[v]
  BY <1>1, <1>2 DEF r
<1> HIDE DEF t, w
<1>4. \A v \in Input : v # w => ~Engaged(e, v)
  BY DEF Engaged, w
<1>5. Unengaged(e, t)
  BY <1>1, <1>2, <1>3, <1>4 DEF WaiterInv, Lines, Unengaged
<1>6. \A v, d \in Input : d # e => (InQueue(t[v], d) <=> Engaged(d, v))
  BY <1>1, <1>2, <1>3 DEF WaiterInv, Lines
<1>7. ASSUME NEW d \in Input, d # e, agent[d].at = "handler"
      PROVE  t[agent[d].waiter] # <<>> /\ t[agent[d].waiter][1] = d
  <2>1. agent[d].waiter # w
    BY <1>7 DEF WaiterInv, HandlerFirst, w
  <2> QED BY <1>1, <1>3, <1>7, <2>1 DEF WaiterInv, HandlerFirst
<1> QED BY <1>1, <1>5, <1>6, <1>7 DEF t, w

\* Beyond the first filter, a waiter that is found shares FILTERS.
LEMMA FoundIsCrowded ==
  ASSUME WaiterInv, NEW w \in Input, Waiting(w), Len(filters) > 1
  PROVE  w \in crowded
<1>1. /\ 1 \in 1..Len(filters) /\ 2 \in 1..Len(filters)
      /\ filters[1] \in Input /\ filters[2] \in Input /\ filters[1] # filters[2]
  BY DEF WaiterInv, WaiterTypeOK, FiltersWait, NoRepeat
<1>2. Waiting(filters[1]) /\ Waiting(filters[2])
  BY <1>1 DEF WaiterInv, FiltersWait, InQueue
<1> QED BY <1>1, <1>2 DEF WaiterInv, TogetherCrowded

\* A step that gives a message to the next waiter keeps the invariant.
LEMMA VisitKeeps ==
  ASSUME WaiterInv, NEW e \in Input, NEW i \in Nat \ {0}, NEW t, NEW f,
         agent[e].at \in {"new", "queue", "handler"},
         i = 1 => heard[e] = {},
         f \in [Input -> {"none", "pending", "ended"}],
         \A w \in Input : f[w] = "pending" => Pending(w),
         Unengaged(e, t),
         \A w, d \in Input : d # e => (InQueue(t[w], d) <=> Engaged(d, w)),
         \A d \in Input : d # e /\ agent[d].at = "handler" =>
           t[agent[d].waiter] # <<>> /\ t[agent[d].waiter][1] = d,
         Visit(e, i, t, f), future' = f, missed' \subseteq Input,
         UNCHANGED <<entry, filters, crowded, rivals>>
  PROVE  WaiterInv'
<1>0. /\ WaiterTypeOK /\ Lines /\ HandlerFirst /\ FiltersWait /\ PendingWaits /\ EntryWaits
      /\ TogetherCrowded /\ TogetherRivals /\ NewUnheard /\ QueuedUnheard
      /\ WaiterReachable /\ HandledOnce
  BY DEF WaiterInv
<1>1. /\ agent' \in [Input -> Task]
      /\ \A d \in Input : d # e => agent'[d] = agent[d]
      /\ agent'[e].at \in {"free", "over", "queue", "handler"}
      /\ agent'[e].at \in {"queue", "handler"} =>
           /\ agent'[e].waiter = entry[Of[e]] /\ entry[Of[e]] \in Input
           /\ i <= Len(filters) /\ f[entry[Of[e]]] = "pending"
      /\ turns' \in [Input -> Seq(Input)]
      /\ \A w \in Input : NoRepeat(turns'[w])
      /\ \A w \in Input : InQueue(turns'[w], e) <=> Engaged(e, w)'
      /\ \A w, d \in Input : d # e => (InQueue(turns'[w], d) <=> InQueue(t[w], d))
      /\ \A w \in Input : t[w] # <<>> => turns'[w] # <<>> /\ turns'[w][1] = t[w][1]
      /\ agent'[e].at = "handler" => /\ turns'[agent'[e].waiter] # <<>>
                                     /\ turns'[agent'[e].waiter][1] = e
      /\ IF agent'[e].at = "handler" THEN Hear(e, agent'[e].waiter)
                                     ELSE UNCHANGED <<heard, twice>>
  BY <1>0, VisitSettles
<1>2. \A d \in Input : /\ Waiting(d)' <=> Waiting(d)
                       /\ agent'[d].at = "new" => agent[d].at = "new" /\ d # e
  BY <1>1 DEF Waiting
<1>3. \A d \in Input : agent[d].at = "handler" => agent[d].waiter \in Input
  BY <1>0 DEF WaiterTypeOK, Task
<1>4. agent'[e].at \in {"queue", "handler"} =>
        agent'[e].waiter \in Input /\ (agent'[e].waiter \notin heard[e] \/ agent'[e].waiter \in crowded)
  <2> SUFFICES ASSUME agent'[e].at \in {"queue", "handler"}, i # 1
               PROVE  agent'[e].waiter \in crowded
    BY <1>1
  <2>1. Waiting(agent'[e].waiter)
    BY <1>0, <1>1 DEF PendingWaits
  <2>2. Len(filters) > 1
    BY <1>0, <1>1 DEF WaiterTypeOK
  <2> QED BY <1>1, <2>1, <2>2, FoundIsCrowded
<1>5. /\ heard' \in [Input -> SUBSET Input] /\ twice' \subseteq Input
      /\ \A d \in Input : d # e => heard'[d] = heard[d]
      /\ twice' \subseteq crowded
      /\ agent'[e].at = "queue" => heard'[e] = heard[e]
  <2>0. heard \in [Input -> SUBSET Input] /\ twice \subseteq Input /\ twice \subseteq crowded
    BY <1>0 DEF WaiterTypeOK, HandledOnce
  <2>1. CASE agent'[e].at = "handler"
    <3> DEFINE w == agent'[e].waiter
    <3>1. w \in Input /\ (w \notin heard[e] \/ w \in crowded)
      BY <1>4, <2>1
    <3>2. Hear(e, w)
      BY <1>1, <2>1
    <3> HIDE DEF w
    <3>3. /\ heard' = [heard EXCEPT ![e] = @ \cup {w}]
          /\ twice' = IF w \in heard[e] THEN twice \cup {w} ELSE twice
      BY <3>2 DEF Hear
    <3> QED BY <2>0, <2>1, <3>1, <3>3
  <2>2. CASE agent'[e].at # "handler"
    BY <1>1, <2>0, <2>2
  <2> QED BY <2>1, <2>2
<1>6. WaiterTypeOK'
  <2>1. /\ entry \in [Umos -> Input \cup {Nobody}] /\ filters \in Seq(Input)
        /\ rivals \subseteq crowded /\ crowded \subseteq Input
    BY <1>0 DEF WaiterTypeOK
  <2>2. /\ agent' \in [Input -> Task] /\ turns' \in [Input -> Seq(Input)]
    BY <1>1
  <2> QED BY <2>1, <2>2, <1>5 DEF WaiterTypeOK, Task
<1>7. Lines'
  <2>1. \A w, d \in Input : d # e => (Engaged(d, w)' <=> Engaged(d, w))
    BY <1>1 DEF Engaged
  <2>2. \A w, d \in Input : InQueue(turns'[w], d) <=> Engaged(d, w)'
    <3> SUFFICES ASSUME NEW w \in Input, NEW d \in Input
                 PROVE  InQueue(turns'[w], d) <=> Engaged(d, w)'
      OBVIOUS
    <3>1. CASE d = e
      BY <1>1, <3>1
    <3>2. CASE d # e
      <4>1. InQueue(turns'[w], d) <=> InQueue(t[w], d)
        BY <1>1, <3>2
      <4>2. InQueue(t[w], d) <=> Engaged(d, w)
        BY <3>2
      <4> QED BY <2>1, <3>2, <4>1, <4>2
    <3> QED BY <3>1, <3>2
  <2>3. \A w \in Input : NoRepeat(turns'[w])
    BY <1>1
  <2> QED BY <2>2, <2>3 DEF Lines
<1>8. HandlerFirst'
  <2> SUFFICES ASSUME NEW d \in Input, agent'[d].at = "handler"
               PROVE  turns'[agent'[d].waiter] # <<>> /\ turns'[agent'[d].waiter][1] = d
    BY DEF HandlerFirst
  <2>1. CASE d = e
    BY <1>1, <2>1
  <2>2. CASE d # e
    <3>1. agent'[d] = agent[d]
      BY <1>1, <2>2
    <3>2. agent[d].waiter \in Input /\ t[agent[d].waiter] # <<>> /\ t[agent[d].waiter][1] = d
      BY <1>3, <2>2, <3>1
    <3> QED BY <1>1, <3>1, <3>2
  <2> QED BY <2>1, <2>2
<1>9. FiltersWait' /\ PendingWaits'
  BY <1>0, <1>2 DEF FiltersWait, PendingWaits, Pending
<1>10. EntryWaits'
  BY <1>0, <1>2 DEF EntryWaits, WaiterTypeOK
<1>11. TogetherCrowded' /\ TogetherRivals'
  BY <1>0, <1>2 DEF TogetherCrowded, TogetherRivals
<1>12. NewUnheard' /\ QueuedUnheard'
  BY <1>0, <1>1, <1>2, <1>4, <1>5 DEF NewUnheard, QueuedUnheard
<1>13. WaiterReachable' /\ HandledOnce'
  BY <1>0, <1>5 DEF WaiterReachable, HandledOnce, Pending
<1> QED BY <1>6, <1>7, <1>8, <1>9, <1>10, <1>11, <1>12, <1>13 DEF WaiterInv

-------------------------------------------------------------------------------
(* The invariant holds at first, and every action keeps it.                *)

LEMMA WaiterInitially == WaiterInit => WaiterInv
<1> SUFFICES ASSUME WaiterInit PROVE WaiterInv
  OBVIOUS
<1>1. /\ \A e \in Input : agent[e] = [at |-> "new"] /\ turns[e] = <<>> /\ heard[e] = {}
      /\ \A s \in Umos : entry[s] = Nobody
      /\ filters = <<>> /\ Len(<<>>) = 0
  BY DEF WaiterInit
<1>2. WaiterTypeOK
  <2>1. agent \in [Input -> Task] /\ entry \in [Umos -> Input \cup {Nobody}]
    BY DEF WaiterInit, Task
  <2>2. filters \in Seq(Input) /\ turns \in [Input -> Seq(Input)] /\ NoRepeat(<<>>)
    BY DEF WaiterInit, NoRepeat
  <2>3. /\ future \in [Input -> {"none", "pending", "ended"}]
        /\ heard \in [Input -> SUBSET Input]
    BY DEF WaiterInit
  <2> QED BY <1>1, <2>1, <2>2, <2>3 DEF WaiterInit, WaiterTypeOK
<1>3. Lines /\ HandlerFirst /\ FiltersWait
  BY <1>1 DEF Lines, HandlerFirst, FiltersWait, NoRepeat, InQueue, Engaged, Waiting
<1>4. PendingWaits /\ EntryWaits /\ TogetherCrowded /\ TogetherRivals
  BY <1>1 DEF WaiterInit, PendingWaits, Pending, EntryWaits, TogetherCrowded, TogetherRivals,
              Waiting
<1>5. NewUnheard /\ QueuedUnheard /\ WaiterReachable /\ HandledOnce
  BY <1>1 DEF WaiterInit, NewUnheard, QueuedUnheard, WaiterReachable, HandledOnce, Pending
<1> QED BY <1>2, <1>3, <1>4, <1>5 DEF WaiterInv

LEMMA ArrivesKeeps ==
  ASSUME WaiterInv, NEW e \in Input, Arrives(e)
  PROVE  WaiterInv'
<1>1. /\ agent[e].at = "new" /\ Visit(e, 1, turns, future) /\ future' = future
      /\ UNCHANGED <<entry, filters, crowded, rivals>>
      /\ missed' \subseteq Input
  BY DEF Arrives, WaiterInv, WaiterTypeOK
<1>2. /\ heard[e] = {} /\ Unengaged(e, turns)
      /\ \A w, d \in Input : d # e => (InQueue(turns[w], d) <=> Engaged(d, w))
  BY <1>1 DEF WaiterInv, WaiterTypeOK, NewUnheard, Lines, Unengaged, Engaged
<1>3. /\ future \in [Input -> {"none", "pending", "ended"}]
      /\ \A d \in Input : d # e /\ agent[d].at = "handler" =>
           turns[agent[d].waiter] # <<>> /\ turns[agent[d].waiter][1] = d
  BY DEF WaiterInv, WaiterTypeOK, HandlerFirst
<1> QED BY <1>1, <1>2, <1>3, VisitKeeps DEF Pending

\* The loop goes on behind the filter whose trigger returned.
LEMMA NextFilterKeeps ==
  ASSUME WaiterInv, NEW e \in Input, NEW f, agent[e].at \in {"queue", "handler"},
         turns[agent[e].waiter] # <<>>, turns[agent[e].waiter][1] = e,
         f \in [Input -> {"none", "pending", "ended"}],
         \A w \in Input : f[w] = "pending" => Pending(w),
         NextFilter(e, f), future' = f,
         UNCHANGED <<entry, filters, missed, crowded, rivals>>
  PROVE  WaiterInv'
<1> DEFINE t == [turns EXCEPT ![agent[e].waiter] = Tail(@)]
<1>1. /\ agent[e].waiter \in Input /\ agent[e].i \in Nat \ {0}
      /\ Unengaged(e, t)
      /\ \A w, d \in Input : d # e => (InQueue(t[w], d) <=> Engaged(d, w))
      /\ \A d \in Input : d # e /\ agent[d].at = "handler" =>
           t[agent[d].waiter] # <<>> /\ t[agent[d].waiter][1] = d
  BY HeadLeaves
<1>2. Visit(e, agent[e].i + 1, t, f) /\ missed' \subseteq Input
  BY DEF NextFilter, WaiterInv, WaiterTypeOK
<1>3. agent[e].i + 1 \in Nat \ {0} /\ agent[e].i + 1 # 1
  BY <1>1
<1> HIDE DEF t
<1> QED BY <1>1, <1>2, <1>3, VisitKeeps

LEMMA EntersKeeps ==
  ASSUME WaiterInv, NEW e \in Input, Enters(e)
  PROVE  WaiterInv'
<1> DEFINE w == agent[e].waiter
<1>0. /\ WaiterTypeOK /\ Lines /\ HandlerFirst /\ FiltersWait /\ PendingWaits /\ EntryWaits
      /\ TogetherCrowded /\ TogetherRivals /\ NewUnheard /\ QueuedUnheard
      /\ WaiterReachable /\ HandledOnce
  BY DEF WaiterInv
<1>1. /\ agent[e].at = "queue" /\ w \in Input /\ Engaged(e, w)
      /\ UNCHANGED <<entry, filters, future, missed, crowded, rivals>>
  BY <1>0 DEF Enters, WaiterTypeOK, Task, Engaged
<1>2. turns[w] \in Seq(Input) /\ InQueue(turns[w], e)
  BY <1>0, <1>1 DEF Lines, WaiterTypeOK
<1>3. turns[w] # <<>> /\ turns[w][1] = e
  <2>1. turns[w] # <<>>
    BY <1>2, EmptySeq DEF InQueue
  <2> QED BY <1>2, <2>1, HeadTailProperties DEF Enters
<1>4. CASE Pending(w)
  <2>1. /\ agent' = [agent EXCEPT ![e] = [agent[e] EXCEPT !.at = "handler"]]
        /\ Hear(e, w) /\ UNCHANGED turns
    BY <1>4 DEF Enters, Becomes
  <2>2. /\ agent' \in [Input -> Task]
        /\ agent'[e].at = "handler" /\ agent'[e].waiter = w
        /\ \A d \in Input : d # e => agent'[d] = agent[d]
    BY <1>0, <1>1, <2>1 DEF WaiterTypeOK, Task
  <2> HIDE DEF w
  <2>3. /\ heard' \in [Input -> SUBSET Input] /\ twice' \subseteq Input
        /\ twice' \subseteq crowded
        /\ \A d \in Input : d # e => heard'[d] = heard[d]
    <3> w \notin heard[e] \/ w \in crowded
      BY <1>0, <1>1 DEF QueuedUnheard, w
    <3> QED BY <1>0, <1>1, <2>1 DEF Hear, WaiterTypeOK, HandledOnce
  <2>4. \A d \in Input : /\ Waiting(d)' <=> Waiting(d)
                         /\ \A v \in Input : Engaged(d, v)' <=> Engaged(d, v)
    BY <1>1, <2>2 DEF Waiting, Engaged
  <2>5. WaiterTypeOK'
    BY <1>0, <1>1, <2>1, <2>2, <2>3 DEF WaiterTypeOK
  <2>6. Lines'
    BY <1>0, <2>1, <2>4 DEF Lines
  <2>7. HandlerFirst'
    BY <1>0, <1>3, <2>1, <2>2 DEF HandlerFirst
  <2>8. FiltersWait' /\ PendingWaits' /\ TogetherCrowded' /\ TogetherRivals'
    BY <1>0, <1>1, <2>4 DEF FiltersWait, PendingWaits, Pending, TogetherCrowded, TogetherRivals
  <2>9. EntryWaits'
    BY <1>0, <1>1, <2>4 DEF EntryWaits, WaiterTypeOK
  <2>10. NewUnheard' /\ QueuedUnheard'
    BY <1>0, <1>1, <2>2, <2>3 DEF NewUnheard, QueuedUnheard
  <2>11. WaiterReachable' /\ HandledOnce'
    BY <1>0, <1>1, <2>3 DEF WaiterReachable, HandledOnce, Pending
  <2> QED BY <2>5, <2>6, <2>7, <2>8, <2>9, <2>10, <2>11 DEF WaiterInv
<1>5. CASE ~Pending(w)
  <2>1. NextFilter(e, future) /\ future \in [Input -> {"none", "pending", "ended"}]
    BY <1>0, <1>5 DEF Enters, WaiterTypeOK
  <2> QED BY <1>1, <1>3, <2>1, NextFilterKeeps DEF Pending
<1> QED BY <1>4, <1>5

\* A waiter's future ends and nothing else happens.
LEMMA EndingKeeps ==
  ASSUME WaiterInv, NEW w \in Input, future' = [future EXCEPT ![w] = "ended"],
         UNCHANGED <<agent, entry, filters, turns, waiterHistory>>
  PROVE  WaiterInv'
<1>1. future' \in [Input -> {"none", "pending", "ended"}] /\ \A v \in Input : Pending(v)' => Pending(v)
  BY DEF WaiterInv, WaiterTypeOK, Pending
<1>2. WaiterTypeOK' /\ PendingWaits' /\ WaiterReachable' /\ HandledOnce'
  BY <1>1 DEF WaiterInv, WaiterTypeOK, PendingWaits, WaiterReachable, HandledOnce, Waiting, waiterHistory
<1>3. Lines' /\ HandlerFirst' /\ FiltersWait' /\ EntryWaits'
  BY DEF WaiterInv, Lines, HandlerFirst, FiltersWait, EntryWaits, Engaged, Waiting
<1>4. TogetherCrowded' /\ TogetherRivals' /\ NewUnheard' /\ QueuedUnheard'
  BY DEF WaiterInv, TogetherCrowded, TogetherRivals, NewUnheard, QueuedUnheard, Waiting, waiterHistory
<1> QED BY <1>2, <1>3, <1>4 DEF WaiterInv

LEMMA HandlerStopsKeeps ==
  ASSUME WaiterInv, NEW e \in Input, HandlerStops(e)
  PROVE  WaiterInv'
<1> agent[e].waiter \in Input
  BY DEF WaiterInv, WaiterTypeOK, Task, HandlerStops
<1> QED BY EndingKeeps DEF HandlerStops

LEMMA HandlerReturnsKeeps ==
  ASSUME WaiterInv, NEW e \in Input, HandlerReturns(e)
  PROVE  WaiterInv'
<1>1. turns[agent[e].waiter] # <<>> /\ turns[agent[e].waiter][1] = e
  BY DEF WaiterInv, HandlerFirst, HandlerReturns
<1>2. /\ agent[e].at = "handler" /\ NextFilter(e, future) /\ future' = future
      /\ UNCHANGED <<entry, filters, missed, crowded, rivals>>
  BY DEF HandlerReturns
<1>3. /\ future \in [Input -> {"none", "pending", "ended"}]
      /\ \A w \in Input : future[w] = "pending" => Pending(w)
  BY DEF WaiterInv, WaiterTypeOK, Pending
<1> QED BY <1>1, <1>2, <1>3, NextFilterKeeps

LEMMA HandlerRaisesKeeps ==
  ASSUME WaiterInv, NEW e \in Input, HandlerRaises(e)
  PROVE  WaiterInv'
<1> DEFINE f == [future EXCEPT ![agent[e].waiter] = "ended"]
<1>1. turns[agent[e].waiter] # <<>> /\ turns[agent[e].waiter][1] = e
  BY DEF WaiterInv, HandlerFirst, HandlerRaises
<1>2. /\ f \in [Input -> {"none", "pending", "ended"}]
      /\ \A w \in Input : f[w] = "pending" => Pending(w)
  BY DEF WaiterInv, WaiterTypeOK, Pending
<1>3. /\ agent[e].at = "handler" /\ NextFilter(e, f) /\ future' = f
      /\ UNCHANGED <<entry, filters, missed, crowded, rivals>>
  BY DEF HandlerRaises
<1> HIDE DEF f
<1> QED BY <1>1, <1>2, <1>3, NextFilterKeeps

LEMMA WaitsKeeps ==
  ASSUME WaiterInv, NEW e \in Input, Waits(e)
  PROVE  WaiterInv'
<1>0. /\ WaiterTypeOK /\ Lines /\ HandlerFirst /\ FiltersWait /\ PendingWaits /\ EntryWaits
      /\ TogetherCrowded /\ TogetherRivals /\ NewUnheard /\ QueuedUnheard
      /\ WaiterReachable /\ HandledOnce
  BY DEF WaiterInv
<1>1. /\ agent[e].at = "free" /\ filters' = Append(filters, e)
      /\ entry' = [entry EXCEPT ![Of[e]] = e]
      /\ future' = [future EXCEPT ![e] = "pending"]
      /\ agent' = [agent EXCEPT ![e] = [at |-> "waiting"]]
      /\ UNCHANGED <<turns, heard, twice, missed>>
  BY DEF Waits, Becomes
<1>2. /\ agent' \in [Input -> Task] /\ entry' \in [Umos -> Input \cup {Nobody}]
      /\ future' \in [Input -> {"none", "pending", "ended"}]
      /\ Of[e] \in Umos /\ e # Nobody
  BY <1>0, <1>1, WaiterAssumption DEF WaiterTypeOK, Task
<1>3. /\ agent'[e].at = "waiting" /\ \A d \in Input : d # e => agent'[d] = agent[d]
      /\ \A d \in Input : Waiting(d)' <=> Waiting(d) \/ d = e
      /\ ~Waiting(e)
  BY <1>0, <1>1 DEF WaiterTypeOK, Waiting
<1>4. /\ filters' \in Seq(Input) /\ NoRepeat(filters') /\ InQueue(filters', e)
      /\ \A d \in Input : d # e => (InQueue(filters, d) <=> InQueue(filters', d))
  BY <1>0, <1>1, <1>3, AppendProps DEF FiltersWait, WaiterTypeOK
<1>5. \A d \in Input : d \in ToSet(filters) <=> Waiting(d)
  <2>1. \A d \in Input : d \in ToSet(filters) <=> InQueue(filters, d)
    BY DEF InQueue, ToSet
  <2> QED BY <1>0, <2>1 DEF FiltersWait
<1>6. /\ crowded \subseteq crowded' /\ rivals \subseteq rivals'
      /\ rivals' \subseteq crowded' /\ crowded' \subseteq Input
      /\ \A d \in Input : Waiting(d) => d \in crowded' /\ e \in crowded'
      /\ \A d \in Input : Waiting(d) /\ Of[d] = Of[e] => d \in rivals' /\ e \in rivals'
  <2> DEFINE there == ToSet(filters)
             same == { v \in there : Of[v] = Of[e] }
  <2>1. /\ crowded' = IF there = {} THEN crowded ELSE crowded \cup there \cup {e}
        /\ rivals' = IF same = {} THEN rivals ELSE rivals \cup same \cup {e}
    BY DEF Waits
  <2>2. there \subseteq Input /\ same \subseteq there /\ rivals \subseteq crowded /\ crowded \subseteq Input
    BY <1>0 DEF WaiterTypeOK, ToSet
  <2>3. \A d \in Input : (Waiting(d) <=> d \in there) /\ (d \in same <=> Waiting(d) /\ Of[d] = Of[e])
    BY <1>5
  <2> HIDE DEF there, same
  <2> QED BY <2>1, <2>2, <2>3
<1>7. WaiterTypeOK'
  <2>1. turns \in [Input -> Seq(Input)] /\ heard \in [Input -> SUBSET Input]
        /\ missed \subseteq Input /\ twice \subseteq Input
    BY <1>0 DEF WaiterTypeOK
  <2>2. agent' \in [Input -> Task] /\ filters' \in Seq(Input)
    BY <1>2, <1>4
  <2> QED BY <1>1, <1>2, <1>6, <2>1, <2>2 DEF WaiterTypeOK, Task
<1>8. Lines' /\ HandlerFirst'
  BY <1>0, <1>1, <1>3 DEF Lines, HandlerFirst, Engaged
<1>9. FiltersWait'
  BY <1>0, <1>3, <1>4 DEF FiltersWait
<1>10. PendingWaits' /\ EntryWaits'
  BY <1>0, <1>1, <1>2, <1>3 DEF PendingWaits, EntryWaits, Pending, WaiterTypeOK
<1>11. TogetherCrowded' /\ TogetherRivals'
  BY <1>0, <1>3, <1>6 DEF TogetherCrowded, TogetherRivals
<1>12. NewUnheard' /\ QueuedUnheard'
  BY <1>0, <1>1, <1>3, <1>6 DEF NewUnheard, QueuedUnheard
<1>13. HandledOnce'
  BY <1>0, <1>1, <1>6 DEF HandledOnce
<1>14. WaiterReachable'
  <2> SUFFICES ASSUME NEW w \in Input, w \notin rivals', Pending(w)' PROVE entry'[Of[w]] = w
    BY DEF WaiterReachable
  <2>1. CASE w = e
    BY <1>0, <1>1, <1>2, <2>1 DEF WaiterTypeOK
  <2>2. CASE w # e
    <3>1. Pending(w) /\ w \notin rivals
      BY <1>0, <1>1, <1>6, <2>2 DEF Pending, WaiterTypeOK
    <3>2. Waiting(w) /\ Of[w] # Of[e] /\ entry[Of[w]] = w
      BY <1>0, <1>6, <3>1 DEF PendingWaits, WaiterReachable
    <3> QED BY <1>0, <1>1, <3>2 DEF WaiterTypeOK
  <2> QED BY <2>1, <2>2
<1> QED BY <1>7, <1>8, <1>9, <1>10, <1>11, <1>12, <1>13, <1>14 DEF WaiterInv

LEMMA TimesOutKeeps ==
  ASSUME WaiterInv, NEW e \in Input, TimesOut(e)
  PROVE  WaiterInv'
  BY EndingKeeps DEF TimesOut

LEMMA ResumesKeeps ==
  ASSUME WaiterInv, NEW x \in Input, Resumes(x)
  PROVE  WaiterInv'
<1>0. /\ WaiterTypeOK /\ Lines /\ HandlerFirst /\ FiltersWait /\ PendingWaits /\ EntryWaits
      /\ TogetherCrowded /\ TogetherRivals /\ NewUnheard /\ QueuedUnheard
      /\ WaiterReachable /\ HandledOnce
  BY DEF WaiterInv
<1>1. /\ Waiting(x) /\ ~Pending(x)
      /\ entry' = [entry EXCEPT ![Of[x]] = Nobody]
      /\ filters' = WithoutFilter(x)
      /\ agent' = [agent EXCEPT ![x] = [at |-> "over"]]
      /\ UNCHANGED <<future, turns, heard, twice, missed, crowded, rivals>>
  BY DEF Resumes, Becomes, Waiting, Pending, waiterHistory
<1>2. /\ agent' \in [Input -> Task] /\ entry' \in [Umos -> Input \cup {Nobody}]
      /\ Of[x] \in Umos
  BY <1>0, <1>1, WaiterAssumption DEF WaiterTypeOK, Task
<1>3. /\ agent'[x].at = "over" /\ \A d \in Input : d # x => agent'[d] = agent[d]
      /\ \A d \in Input : Waiting(d)' <=> Waiting(d) /\ d # x
  BY <1>0, <1>1 DEF WaiterTypeOK, Waiting
<1>4. /\ filters' \in Seq(Input) /\ NoRepeat(filters') /\ ~InQueue(filters', x)
      /\ \A d \in Input : d # x => (InQueue(filters, d) <=> InQueue(filters', d))
  <2>1. filters \in Seq(Input) /\ NoRepeat(filters) /\ InQueue(filters, x)
    BY <1>0, <1>1 DEF FiltersWait, WaiterTypeOK
  <2>2. x \in ToSet(filters)
    BY <2>1 DEF InQueue, ToSet
  <2> DEFINE r == RemoveAt(filters, CHOOSE k \in 1..Len(filters) : filters[k] = x)
  <2>3. filters' = r
    BY <1>1, <2>2 DEF WithoutFilter
  <2>4. /\ r \in Seq(Input) /\ NoRepeat(r) /\ ~InQueue(r, x)
        /\ \A d \in Input : d # x => (InQueue(filters, d) <=> InQueue(r, d))
    BY <2>1, RemovalProps
  <2> HIDE DEF r
  <2> QED BY <2>3, <2>4
<1>5. WaiterTypeOK'
  <2>1. /\ turns \in [Input -> Seq(Input)] /\ heard \in [Input -> SUBSET Input]
        /\ future \in [Input -> {"none", "pending", "ended"}]
        /\ missed \subseteq Input /\ twice \subseteq Input
        /\ rivals \subseteq crowded /\ crowded \subseteq Input
    BY <1>0 DEF WaiterTypeOK
  <2>2. agent' \in [Input -> Task] /\ filters' \in Seq(Input)
    BY <1>2, <1>4
  <2> QED BY <1>1, <1>2, <2>1, <2>2 DEF WaiterTypeOK, Task
<1>6. Lines' /\ HandlerFirst'
  BY <1>0, <1>1, <1>3 DEF Lines, HandlerFirst, Engaged, Waiting
<1>7. FiltersWait'
  BY <1>0, <1>3, <1>4 DEF FiltersWait
<1>8. PendingWaits'
  BY <1>0, <1>1, <1>3 DEF PendingWaits, Pending
<1>9. EntryWaits'
  <2> SUFFICES ASSUME NEW s \in Umos, entry'[s] # Nobody
               PROVE  agent'[entry'[s]].at = "waiting" /\ Of[entry'[s]] = s
    BY DEF EntryWaits, Waiting
  <2>1. s # Of[x] /\ entry'[s] = entry[s]
    BY <1>0, <1>1 DEF WaiterTypeOK
  <2>2. entry[s] \in Input /\ Waiting(entry[s]) /\ Of[entry[s]] = s
    BY <1>0, <2>1 DEF EntryWaits, WaiterTypeOK
  <2>3. agent[entry[s]].at = "waiting" /\ entry[s] # x
    BY <1>0, <2>1, <2>2 DEF Waiting
  <2> QED BY <1>3, <2>1, <2>2, <2>3
<1>10. TogetherCrowded' /\ TogetherRivals' /\ HandledOnce'
  BY <1>0, <1>1, <1>3 DEF TogetherCrowded, TogetherRivals, HandledOnce
<1>11. NewUnheard' /\ QueuedUnheard'
  BY <1>0, <1>1, <1>3 DEF NewUnheard, QueuedUnheard
<1>12. WaiterReachable'
  <2> SUFFICES ASSUME NEW w \in Input, w \notin rivals, Pending(w) PROVE entry'[Of[w]] = w
    BY <1>1 DEF WaiterReachable, Pending
  <2>1. w # x /\ Waiting(w) /\ entry[Of[w]] = w
    BY <1>0, <1>1 DEF PendingWaits, WaiterReachable
  <2>2. Of[w] # Of[x] /\ Of[w] \in Umos
    BY <1>0, <1>1, <2>1, WaiterAssumption DEF TogetherRivals
  <2> QED BY <1>0, <1>1, <2>1, <2>2 DEF WaiterTypeOK
<1> QED BY <1>5, <1>6, <1>7, <1>8, <1>9, <1>10, <1>11, <1>12 DEF WaiterInv

LEMMA WaiterKept == WaiterInv /\ [WaiterNext]_waiterVars => WaiterInv'
<1> SUFFICES ASSUME WaiterInv, [WaiterNext]_waiterVars PROVE WaiterInv'
  OBVIOUS
<1>1. CASE WaiterNext
  BY <1>1, ArrivesKeeps, EntersKeeps, HandlerStopsKeeps, HandlerReturnsKeeps, HandlerRaisesKeeps,
     WaitsKeeps, TimesOutKeeps, ResumesKeeps
     DEF WaiterNext
<1>2. CASE UNCHANGED waiterVars
  BY <1>2 DEF waiterVars, waiterHistory, WaiterInv, WaiterTypeOK, Lines, HandlerFirst, FiltersWait,
              PendingWaits, EntryWaits, TogetherCrowded, TogetherRivals, NewUnheard,
              QueuedUnheard, WaiterReachable, HandledOnce, Engaged, Waiting, Pending
<1> QED BY <1>1, <1>2

-------------------------------------------------------------------------------
(* Theorems.                                                               *)

LEMMA WaiterInvariance == WaiterSpec => []WaiterInv
<1> QED BY WaiterInitially, WaiterKept, PTL DEF WaiterSpec

\* The type invariant of waiters, filters and messages.
THEOREM WaiterTypeCorrect == WaiterSpec => []WaiterTypeOK
<1>1. WaiterInv => WaiterTypeOK
  BY DEF WaiterInv
<1> QED BY WaiterInvariance, <1>1, PTL

\* A waiter that is pending is its session's entry in USER_SESSIONS, for any number
\* of messages and sessions, unless another waiter of its session was in FILTERS with
\* it (register_wait, _cleanup).
THEOREM Reachable == WaiterSpec => []WaiterReachable
<1>1. WaiterInv => WaiterReachable
  BY DEF WaiterInv
<1> QED BY WaiterInvariance, <1>1, PTL

\* No message is given twice to a waiter that was always alone in FILTERS
\* (handle_session_control_agent, trigger).
THEOREM OnceEach == WaiterSpec => []HandledOnce
<1>1. WaiterInv => HandledOnce
  BY DEF WaiterInv
<1> QED BY WaiterInvariance, <1>1, PTL

-------------------------------------------------------------------------------
(*****************************************************************************)
(* Cron jobs.                                                                *)
(*****************************************************************************)

(* The inductive invariant.                                                *)

CallerAsks(c)   == caller[c].pc # "rest"
Removing(x) == execution[x].pc = "erase"
Restoring   == restore.at \in {"starting", "listing"}
Quiet       == /\ \A c \in Caller : ~CallerAsks(c)
               /\ \A x \in Execution : ~Removing(x)
               /\ ~Restoring

\* A scheduled execution of a job that it will unschedule, or has.
RunsVersion(x, v) ==
  \/ execution[x].pc = "run" /\ execution[x].timed /\ execution[x].once /\ execution[x].v = v
  \/ execution[x].pc = "erase" /\ execution[x].v = v

\* The scheduler lets one execution run at a time.
OneTimed == \A x, y \in Timed : x = y

\* Versions are numbered as they are written.
Numbered == /\ jobRow.v <= versions
            /\ fired \subseteq 1..versions

\* A version that ran is gone from the row, or its execution is about to remove it,
\* or was cut.
RanIsLeaving ==
  \A v \in fired \ cut :
    jobRow.v = v => \E x \in Execution : RunsVersion(x, v)

\* As long as no two changes overlapped, there is at most one ...
OneChange ==
  ~crossed =>
    /\ \A c, d \in Caller : CallerAsks(c) /\ CallerAsks(d) => c = d
    /\ \A c \in Caller : CallerAsks(c) => ~Restoring /\ \A x \in Execution : ~Removing(x)
    /\ Restoring => \A x \in Execution : ~Removing(x)

\* ... which knows the row as it is, and has emptied the scheduler if it will.
ChangeKnowsRow ==
  ~crossed =>
    /\ \A c \in Caller : caller[c].pc = "schedule" => caller[c].seen = jobRow
    /\ (\E c \in Caller : caller[c].pc = "erase") => trigger = Untimed
    /\ (\E x \in Execution : Removing(x)) => trigger = Untimed
    /\ Restoring => trigger = Untimed
    /\ restore.at = "listing" => restore.seen = jobRow

\* The trigger of the row, or none because its one firing is under way or was in vain.
Matches ==
  IF jobRow # NoRow /\ jobRow.enabled /\ jobRow.ok
  THEN \/ trigger = [v |-> jobRow.v, once |-> jobRow.once]
       \/ /\ jobRow.once /\ trigger = Untimed
          /\ \/ jobRow.v \in skipped
             \/ \E x \in Execution : \/ execution[x].pc = "read" /\ execution[x].timed
                                     \/ RunsVersion(x, jobRow.v)
  ELSE trigger = Untimed

QuietMatches ==
  ~crossed /\ Quiet =>
    /\ restore.at = "over" => Matches
    /\ restore.at = "due" /\ trigger # Untimed => Matches
    /\ restore.at = "due" /\ ~started => trigger = Untimed

CronInv == /\ CronTypeOK /\ OneTimed /\ Numbered /\ RanIsLeaving /\ RunsOnce
           /\ OneChange /\ ChangeKnowsRow /\ QuietMatches

LEMMA QuietIsUnchanging == Changing = {} <=> Quiet
  BY DEF Changing, Quiet, CallerAsks, Removing, Restoring

-------------------------------------------------------------------------------
(* Types are kept.                                                         *)

LEMMA CronTypeInit == CronInit => CronTypeOK
<1> SUFFICES ASSUME CronInit PROVE CronTypeOK
  OBVIOUS
<1>1. /\ jobRow \in Row \cup {NoRow} /\ versions \in 0..MaxVersions
      /\ trigger \in Trigger \cup {Untimed} /\ outages \in 0..MaxOutages
  BY CronAssumption DEF CronInit
<1>2. /\ started \in BOOLEAN /\ crossed \in BOOLEAN /\ again \subseteq fired
      /\ {fired, cut, skipped} \subseteq SUBSET Version
  BY DEF CronInit
<1>3. restore \in [at : {"due", "starting", "over"}]
  BY DEF CronInit
<1> QED BY <1>1, <1>2, <1>3 DEF CronInit, CronTypeOK

LEMMA CronTypeStep == CronTypeOK /\ [CronNext]_cronVars => CronTypeOK'
<1> SUFFICES ASSUME CronTypeOK, [CronNext]_cronVars PROVE CronTypeOK'
  OBVIOUS
<1>1. CASE OtherJobScheduled
  BY <1>1 DEF CronTypeOK, OtherJobScheduled, cronTasks, cronHistory
<1>2. CASE StartsLate
  BY <1>2 DEF CronTypeOK, StartsLate, NoRow, cronTasks
<1>3. CASE Starts
  BY <1>3 DEF CronTypeOK, Starts, Crosses, Changing, cronTasks
<1>4. CASE Lists
  BY <1>4 DEF CronTypeOK, Lists, cronTasks, cronHistory
<1>5. CASE Syncs
  BY <1>5 DEF CronTypeOK, Syncs, NoRow, Scheduled, cronTasks, cronHistory, Row,
      Version, Trigger, Untimed, Resting
<1>6. ASSUME NEW c \in Caller, Write(c) PROVE CronTypeOK'
  BY <1>6, CronAssumption DEF CronTypeOK, Write, NoRow, Call, Crosses, Changing,
      Row, Version, Trigger, Untimed, Resting
<1>7. ASSUME NEW c \in Caller, Schedule(c) PROVE CronTypeOK'
  BY <1>7 DEF CronTypeOK, Schedule, Scheduled, Untimed, Call, Resting,
      cronHistory, Row, Version, NoRow, Trigger
<1>8. ASSUME NEW c \in Caller, Unschedule(c) PROVE CronTypeOK'
  BY <1>8 DEF CronTypeOK, Unschedule, Untimed, Call, Crosses, Changing
<1>9. ASSUME NEW c \in Caller, Erase(c) PROVE CronTypeOK'
  BY <1>9 DEF CronTypeOK, Erase, NoRow, Call, Resting, cronHistory
<1>10. ASSUME NEW c \in Caller, EraseFails(c) PROVE CronTypeOK'
  BY <1>10 DEF CronTypeOK, EraseFails, Call, Resting
<1>11. ASSUME NEW x \in Execution, RunNow(x) PROVE CronTypeOK'
  BY <1>11 DEF CronTypeOK, RunNow, NoRow, Execute, cronHistory
<1>12. ASSUME NEW x \in Execution, Fires(x) PROVE CronTypeOK'
  BY <1>12 DEF CronTypeOK, Fires, Untimed, Timed, Execute, Spent, cronHistory
<1>13. ASSUME NEW x \in Execution, ReadsJob(x) PROVE CronTypeOK'
  BY <1>13 DEF CronTypeOK, ReadsJob, NoRow, Execute, Resting, Row, Version,
      Trigger, Untimed
<1>14. ASSUME NEW x \in Execution, Ends(x) PROVE CronTypeOK'
  BY <1>14 DEF CronTypeOK, Ends, Untimed, Execute, Crosses, Changing, Resting
<1>15. ASSUME NEW x \in Execution, Removes(x) PROVE CronTypeOK'
  BY <1>15 DEF CronTypeOK, Removes, NoRow, Execute, Resting, cronHistory
<1>16. ASSUME NEW x \in Execution, Breaks(x) PROVE CronTypeOK'
  BY <1>16 DEF CronTypeOK, Breaks, Execute, Resting, Timed
<1>17. CASE FiresInVain
  BY <1>17 DEF CronTypeOK, FiresInVain, Untimed, Spent, cronTasks, Row, Version,
      NoRow, Trigger, Resting
<1>18. CASE Outage
  <2>1. \A x \in Timed : execution[x].pc # "read" => execution[x].v \in Version
    BY DEF CronTypeOK, Timed, Resting
  <2>2. cut' \subseteq Version
    BY <1>18, <2>1 DEF CronTypeOK, Outage
  <2>3. outages' \in 0..MaxOutages
    BY <1>18, CronAssumption DEF CronTypeOK, Outage
  <2>4. /\ caller' \in [Caller -> {Resting} \cup [pc : {"erase"}]
                                     \cup [pc : {"schedule"}, seen : Row]]
        /\ execution' \in [Execution -> {Resting} \cup [pc : {"erase"}, v : Version]
                              \cup [pc : {"read"}, timed : BOOLEAN]
                              \cup [pc : {"run"}, timed : BOOLEAN, once : BOOLEAN, v : Version]]
    BY <1>18 DEF Outage
  <2>5. restore' \in [at : {"due", "starting", "over"}]
    BY <1>18 DEF Outage
  <2> QED BY <1>18, <2>2, <2>3, <2>4, <2>5 DEF CronTypeOK, Outage
<1>19. CASE UNCHANGED cronVars
  BY <1>19 DEF CronTypeOK, cronVars, cronTasks, cronHistory
<1> QED
  BY <1>1, <1>2, <1>3, <1>4, <1>5, <1>6, <1>7, <1>8, <1>9, <1>10, <1>11, <1>12,
      <1>13, <1>14, <1>15, <1>16, <1>17, <1>18, <1>19 DEF CronNext

-------------------------------------------------------------------------------
(* The invariant holds at first, and every action keeps it.                *)

LEMMA CronInitially == CronInit => CronInv
  BY CronTypeInit DEF CronInv, CronInit, OneTimed, Numbered, RanIsLeaving, RunsOnce,
      OneChange, ChangeKnowsRow, QuietMatches, NoRow, Untimed, Resting, Timed,
      RunsVersion, CallerAsks, Restoring, Removing, Quiet, Matches

LEMMA OtherJobScheduledKeeps ==
  ASSUME CronInv, CronTypeOK', OtherJobScheduled
  PROVE  CronInv'
<1>1. OneTimed' /\ Numbered' /\ RanIsLeaving' /\ RunsOnce' /\ OneChange' /\ ChangeKnowsRow'
  BY DEF CronInv, OneTimed, Numbered, RanIsLeaving, RunsOnce, OneChange,
      ChangeKnowsRow, OtherJobScheduled, Timed, RunsVersion, CallerAsks, Restoring,
      Removing, Untimed, cronTasks, cronHistory
<1>2. QuietMatches'
  BY DEF CronInv, QuietMatches, OtherJobScheduled, cronTasks, cronHistory, Quiet,
      CallerAsks, Removing, Restoring, Matches, NoRow, Untimed, RunsVersion
<1> QED BY <1>1, <1>2 DEF CronInv

LEMMA StartsLateKeeps ==
  ASSUME CronInv, CronTypeOK', StartsLate
  PROVE  CronInv'
<1>1. OneTimed' /\ Numbered' /\ RanIsLeaving' /\ RunsOnce'
  BY DEF CronInv, OneTimed, Numbered, RanIsLeaving, RunsOnce, StartsLate, Timed,
      RunsVersion, cronTasks
<1>2. OneChange'
  BY DEF CronInv, OneChange, StartsLate, NoRow, cronTasks, CallerAsks, Restoring,
      Removing
<1>3. ChangeKnowsRow'
  BY DEF CronInv, ChangeKnowsRow, StartsLate, NoRow, cronTasks, Untimed, Removing,
      Restoring
<1>4. QuietMatches'
  BY DEF CronInv, QuietMatches, StartsLate, NoRow, cronTasks, Quiet, CallerAsks,
      Removing, Restoring, Matches, Untimed, RunsVersion
<1> QED BY <1>1, <1>2, <1>3, <1>4 DEF CronInv

LEMMA StartsKeeps ==
  ASSUME CronInv, CronTypeOK', Starts
  PROVE  CronInv'
<1>1. OneTimed' /\ Numbered' /\ RanIsLeaving' /\ RunsOnce'
  <2>1. OneTimed'
    BY DEF CronInv, OneTimed, Starts, Timed, cronTasks
  <2>2. Numbered'
    BY DEF CronInv, Numbered, Starts, cronTasks
  <2>3. RanIsLeaving' /\ RunsOnce'
    BY DEF CronInv, RanIsLeaving, RunsOnce, Starts, Timed, RunsVersion, Crosses, cronTasks
  <2> QED BY <2>1, <2>2, <2>3
<1>2. OneChange'
  BY DEF CronInv, OneChange, Starts, Crosses, Changing, cronTasks, CallerAsks,
      Restoring, Removing
<1>3. ChangeKnowsRow'
  BY DEF CronInv, ChangeKnowsRow, QuietMatches, CronTypeOK, Starts, Crosses,
      Changing, cronTasks, Untimed, Removing, Restoring, Quiet, CallerAsks, Matches,
      NoRow, RunsVersion
<1>4. QuietMatches'
  BY DEF CronInv, QuietMatches, Starts, Crosses, Changing, cronTasks, Quiet,
      CallerAsks, Removing, Restoring, Matches, NoRow, Untimed, RunsVersion
<1> QED BY <1>1, <1>2, <1>3, <1>4 DEF CronInv

LEMMA ListsKeeps ==
  ASSUME CronInv, CronTypeOK', Lists
  PROVE  CronInv'
<1>1. OneTimed' /\ Numbered' /\ RanIsLeaving' /\ RunsOnce'
  BY DEF CronInv, OneTimed, Numbered, RanIsLeaving, RunsOnce, Lists, Timed,
      RunsVersion, cronTasks, cronHistory
<1>2. OneChange'
  BY DEF CronInv, OneChange, Lists, cronTasks, cronHistory, CallerAsks, Restoring,
      Removing
<1>3. ChangeKnowsRow'
  BY DEF CronInv, ChangeKnowsRow, Lists, cronTasks, cronHistory, Untimed, Removing,
      Restoring
<1>4. QuietMatches'
  BY DEF CronInv, QuietMatches, Lists, cronTasks, cronHistory, Quiet, CallerAsks,
      Removing, Restoring, Matches, NoRow, Untimed, RunsVersion
<1> QED BY <1>1, <1>2, <1>3, <1>4 DEF CronInv

LEMMA SyncsKeeps ==
  ASSUME CronInv, CronTypeOK', Syncs
  PROVE  CronInv'
<1>1. OneTimed'
  BY DEF CronInv, OneTimed, Syncs, Timed, cronTasks, cronHistory
<1>2. Numbered'
  BY DEF CronInv, Numbered, Syncs, cronTasks, cronHistory
<1>3. RanIsLeaving'
  BY DEF CronInv, RanIsLeaving, Syncs, RunsVersion, cronTasks, cronHistory
<1>4. RunsOnce'
  BY DEF CronInv, RunsOnce, Syncs, cronTasks, cronHistory
<1>5. OneChange'
  BY DEF CronInv, OneChange, Syncs, NoRow, Scheduled, cronTasks, cronHistory,
      CallerAsks, Restoring, Removing
<1>6. ChangeKnowsRow'
  BY DEF CronInv, ChangeKnowsRow, OneChange, CronTypeOK, Syncs, NoRow, Scheduled,
      cronTasks, cronHistory, Untimed, Removing, Restoring, CallerAsks
<1>7. QuietMatches'
  BY DEF CronInv, QuietMatches, ChangeKnowsRow, CronTypeOK, Syncs, NoRow,
      Scheduled, cronTasks, cronHistory, Quiet, CallerAsks, Removing, Restoring,
      Matches, Untimed, RunsVersion
<1> QED BY <1>1, <1>2, <1>3, <1>4, <1>5, <1>6, <1>7 DEF CronInv

LEMMA WriteKeeps ==
  ASSUME CronInv, CronTypeOK', NEW c \in Caller, Write(c)
  PROVE  CronInv'
<1>1. OneTimed' /\ RunsOnce'
  BY DEF CronInv, OneTimed, RunsOnce, Write, Timed, Call, Crosses
<1>2. Numbered'
  BY DEF CronInv, Numbered, CronTypeOK, Write, NoRow, Call, Crosses, Changing
<1>3. RanIsLeaving'
  BY DEF CronInv, RanIsLeaving, Numbered, CronTypeOK, Write, NoRow, Call, Crosses,
      Changing, RunsVersion
<1>4. OneChange'
  <2> SUFFICES ASSUME ~crossed' PROVE OneChange'
    BY DEF OneChange
  <2>1. Quiet
    BY QuietIsUnchanging DEF Write, Crosses
  <2>2. /\ UNCHANGED <<execution, restore>>
        /\ \A d \in Caller : d # c => caller'[d] = caller[d]
    BY DEF CronTypeOK, CronInv, Write, Call
  <2> QED BY <2>1, <2>2 DEF OneChange, Quiet, CallerAsks, Removing, Restoring
<1>5. ChangeKnowsRow'
  BY DEF CronInv, ChangeKnowsRow, CronTypeOK, Write, NoRow, Call, Crosses,
      Changing, Untimed, Removing, Restoring
<1>6. QuietMatches'
  BY DEF CronInv, QuietMatches, CronTypeOK, Write, NoRow, Call, Crosses, Changing,
      Quiet, CallerAsks, Removing, Restoring, Matches, Untimed, RunsVersion
<1> QED BY <1>1, <1>2, <1>3, <1>4, <1>5, <1>6 DEF CronInv

LEMMA ScheduleKeeps ==
  ASSUME CronInv, CronTypeOK', NEW c \in Caller, Schedule(c)
  PROVE  CronInv'
<1>1. OneTimed'
  BY DEF CronInv, OneTimed, Schedule, Timed, Call, cronHistory
<1>2. Numbered'
  BY DEF CronInv, Numbered, Schedule, Call, cronHistory
<1>3. RanIsLeaving'
  BY DEF CronInv, RanIsLeaving, Schedule, RunsVersion, Call, cronHistory
<1>4. RunsOnce'
  BY DEF CronInv, RunsOnce, Schedule, Call, cronHistory
<1>5. OneChange'
  BY DEF CronInv, OneChange, Schedule, Scheduled, Untimed, Call, Resting,
      cronHistory, CallerAsks, Restoring, Removing
<1>6. ChangeKnowsRow'
  BY DEF CronInv, ChangeKnowsRow, OneChange, CronTypeOK, Schedule, Scheduled,
      Untimed, Call, Resting, cronHistory, Removing, Restoring, CallerAsks
<1>7. QuietMatches'
  BY CronAssumption DEF CronInv, QuietMatches, ChangeKnowsRow, CronTypeOK,
      Schedule, Row, Version, NoRow, Trigger, Untimed, Resting, Scheduled, Call,
      cronHistory, Quiet, CallerAsks, Removing, Restoring, Matches, RunsVersion
<1> QED BY <1>1, <1>2, <1>3, <1>4, <1>5, <1>6, <1>7 DEF CronInv

LEMMA UnscheduleKeeps ==
  ASSUME CronInv, CronTypeOK', NEW c \in Caller, Unschedule(c)
  PROVE  CronInv'
<1>1. OneTimed' /\ Numbered' /\ RanIsLeaving' /\ RunsOnce'
  BY DEF CronInv, OneTimed, Numbered, RanIsLeaving, RunsOnce, Unschedule, Timed,
      RunsVersion, Call, Crosses
<1>2. OneChange'
  <2> SUFFICES ASSUME ~crossed' PROVE OneChange'
    BY DEF OneChange
  <2>1. Quiet
    BY QuietIsUnchanging DEF Unschedule, Crosses
  <2>2. /\ UNCHANGED <<execution, restore>>
        /\ \A d \in Caller : d # c => caller'[d] = caller[d]
    BY DEF CronTypeOK, CronInv, Unschedule, Call
  <2> QED BY <2>1, <2>2 DEF OneChange, Quiet, CallerAsks, Removing, Restoring
<1>3. ChangeKnowsRow'
  BY DEF CronInv, ChangeKnowsRow, CronTypeOK, Unschedule, Untimed, Call, Crosses,
      Changing, Removing, Restoring
<1>4. QuietMatches'
  BY DEF CronInv, QuietMatches, CronTypeOK, Unschedule, Untimed, Call, Crosses,
      Changing, Quiet, CallerAsks, Removing, Restoring, Matches, NoRow, RunsVersion
<1> QED BY <1>1, <1>2, <1>3, <1>4 DEF CronInv

LEMMA EraseKeeps ==
  ASSUME CronInv, CronTypeOK', NEW c \in Caller, Erase(c)
  PROVE  CronInv'
<1>1. OneTimed' /\ RunsOnce'
  BY DEF CronInv, OneTimed, RunsOnce, Erase, Timed, Call, cronHistory
<1>2. Numbered'
  BY DEF CronInv, Numbered, CronTypeOK, Erase, NoRow, Call, Resting, cronHistory
<1>3. RanIsLeaving'
  BY CronAssumption DEF CronInv, RanIsLeaving, CronTypeOK, Erase, Row, Version,
      NoRow, Trigger, Untimed, Resting, Call, cronHistory, RunsVersion
<1>4. OneChange'
  BY DEF CronInv, OneChange, Erase, NoRow, Call, Resting, cronHistory, CallerAsks,
      Restoring, Removing
<1>5. ChangeKnowsRow'
  BY DEF CronInv, ChangeKnowsRow, OneChange, CronTypeOK, Erase, NoRow, Call,
      Resting, cronHistory, Untimed, Removing, Restoring, CallerAsks
<1>6. QuietMatches'
  BY DEF CronInv, QuietMatches, ChangeKnowsRow, CronTypeOK, Erase, NoRow, Call,
      Resting, cronHistory, Quiet, CallerAsks, Removing, Restoring, Matches,
      Untimed, RunsVersion
<1> QED BY <1>1, <1>2, <1>3, <1>4, <1>5, <1>6 DEF CronInv

LEMMA EraseFailsKeeps ==
  ASSUME CronInv, CronTypeOK', NEW c \in Caller, EraseFails(c)
  PROVE  CronInv'
<1>1. OneTimed' /\ Numbered' /\ RanIsLeaving' /\ RunsOnce'
  BY DEF CronInv, OneTimed, Numbered, RanIsLeaving, RunsOnce, EraseFails, Timed,
      RunsVersion, Call
<1>2. OneChange'
  BY DEF CronInv, OneChange, EraseFails, Call, Resting, CallerAsks, Restoring, Removing
<1>3. ChangeKnowsRow'
  BY DEF CronInv, ChangeKnowsRow, EraseFails, Call, Resting, Untimed, Removing,
      Restoring
<1>4. QuietMatches'
  BY DEF CronInv, QuietMatches, EraseFails, Call, Resting, Quiet, CallerAsks, Removing,
      Restoring, Matches, NoRow, Untimed, RunsVersion
<1> QED BY <1>1, <1>2, <1>3, <1>4 DEF CronInv

LEMMA RunNowKeeps ==
  ASSUME CronInv, CronTypeOK', NEW x \in Execution, RunNow(x)
  PROVE  CronInv'
<1>1. Numbered' /\ RunsOnce'
  BY DEF CronInv, Numbered, RunsOnce, RunNow, Execute, cronHistory
<1>2. OneTimed'
  BY DEF CronInv, OneTimed, RunNow, NoRow, Execute, cronHistory, Timed
<1>3. RanIsLeaving'
  BY DEF CronInv, RanIsLeaving, RunNow, NoRow, Execute, cronHistory, RunsVersion
<1>4. OneChange'
  BY DEF CronInv, OneChange, RunNow, NoRow, Execute, cronHistory, CallerAsks,
      Restoring, Removing
<1>5. ChangeKnowsRow'
  BY DEF CronInv, ChangeKnowsRow, RunNow, NoRow, Execute, cronHistory, Untimed,
      Removing, Restoring
<1>6. QuietMatches'
  BY DEF CronInv, QuietMatches, RunNow, NoRow, Execute, cronHistory, Quiet, CallerAsks,
      Removing, Restoring, Matches, Untimed, RunsVersion
<1> QED BY <1>1, <1>2, <1>3, <1>4, <1>5, <1>6 DEF CronInv

LEMMA FiresKeeps ==
  ASSUME CronInv, CronTypeOK', NEW x \in Execution, Fires(x)
  PROVE  CronInv'
<1>1. Numbered' /\ RunsOnce'
  BY DEF CronInv, Numbered, RunsOnce, Fires, Execute, Spent, cronHistory
<1>2. OneTimed'
  BY DEF CronInv, OneTimed, Fires, Untimed, Timed, Execute, Spent, cronHistory
<1>3. RanIsLeaving'
  BY DEF CronInv, RanIsLeaving, Fires, Untimed, Timed, Execute, Spent, cronHistory,
      RunsVersion
<1>4. OneChange'
  BY DEF CronInv, OneChange, Fires, Untimed, Timed, Execute, Spent, cronHistory,
      CallerAsks, Restoring, Removing
<1>5. ChangeKnowsRow'
  BY DEF CronInv, ChangeKnowsRow, Fires, Untimed, Timed, Execute, Spent,
      cronHistory, Removing, Restoring
<1>6. QuietMatches'
  BY DEF CronInv, QuietMatches, CronTypeOK, Fires, Untimed, Timed, Execute, Spent,
      cronHistory, Quiet, CallerAsks, Removing, Restoring, Matches, NoRow,
      RunsVersion
<1> QED BY <1>1, <1>2, <1>3, <1>4, <1>5, <1>6 DEF CronInv

LEMMA ReadsJobKeeps ==
  ASSUME CronInv, CronTypeOK', NEW x \in Execution, ReadsJob(x)
  PROVE  CronInv'
<1>1. OneTimed'
  BY DEF CronInv, OneTimed, CronTypeOK, ReadsJob, NoRow, Execute, Resting, Timed
<1>2. Numbered'
  BY CronAssumption DEF CronInv, Numbered, CronTypeOK, ReadsJob, Row, Version,
      NoRow, Trigger, Untimed, Resting, Execute
<1>3. RanIsLeaving'
  BY DEF CronInv, RanIsLeaving, CronTypeOK, ReadsJob, NoRow, Execute, Resting,
      RunsVersion
<1>4. RunsOnce'
  BY CronAssumption DEF CronInv, RunsOnce, OneTimed, RanIsLeaving, CronTypeOK,
      ReadsJob, Row, Version, NoRow, Trigger, Untimed, Resting, Execute, Timed,
      RunsVersion
<1>5. OneChange'
  BY DEF CronInv, OneChange, CronTypeOK, ReadsJob, NoRow, Execute, Resting, CallerAsks,
      Restoring, Removing
<1>6. ChangeKnowsRow'
  BY DEF CronInv, ChangeKnowsRow, CronTypeOK, ReadsJob, NoRow, Execute, Resting,
      Untimed, Removing, Restoring
<1>7. QuietMatches'
  BY DEF CronInv, QuietMatches, CronTypeOK, ReadsJob, NoRow, Execute, Resting,
      Quiet, CallerAsks, Removing, Restoring, Matches, Untimed, RunsVersion
<1> QED BY <1>1, <1>2, <1>3, <1>4, <1>5, <1>6, <1>7 DEF CronInv

LEMMA EndsKeeps ==
  ASSUME CronInv, CronTypeOK', NEW x \in Execution, Ends(x)
  PROVE  CronInv'
<1>1. Numbered' /\ RunsOnce'
  BY DEF CronInv, Numbered, RunsOnce, Ends, Execute, Crosses
<1>2. OneTimed'
  BY DEF CronInv, OneTimed, CronTypeOK, Ends, Untimed, Execute, Crosses, Changing,
      Resting, Timed
<1>3. RanIsLeaving'
  BY DEF CronInv, RanIsLeaving, CronTypeOK, Ends, Untimed, Execute, Crosses,
      Changing, Resting, RunsVersion
<1>4. OneChange'
  BY DEF CronInv, OneChange, CronTypeOK, Ends, Untimed, Execute, Crosses, Changing,
      Resting, CallerAsks, Restoring, Removing
<1>5. ChangeKnowsRow'
  BY DEF CronInv, ChangeKnowsRow, CronTypeOK, Ends, Untimed, Execute, Crosses,
      Changing, Resting, Removing, Restoring
<1>6. QuietMatches'
  BY DEF CronInv, QuietMatches, CronTypeOK, Ends, Untimed, Execute, Crosses,
      Changing, Resting, Quiet, CallerAsks, Removing, Restoring, Matches, NoRow,
      RunsVersion
<1> QED BY <1>1, <1>2, <1>3, <1>4, <1>5, <1>6 DEF CronInv

LEMMA RemovesKeeps ==
  ASSUME CronInv, CronTypeOK', NEW x \in Execution, Removes(x)
  PROVE  CronInv'
<1>1. RunsOnce'
  BY DEF CronInv, RunsOnce, Removes, Execute, cronHistory
<1>2. OneTimed'
  BY DEF CronInv, OneTimed, Removes, NoRow, Execute, Resting, cronHistory, Timed
<1>3. Numbered'
  BY DEF CronInv, Numbered, CronTypeOK, Removes, NoRow, Execute, Resting,
      cronHistory
<1>4. RanIsLeaving'
  BY CronAssumption DEF CronInv, RanIsLeaving, CronTypeOK, Removes, Row, Version,
      NoRow, Trigger, Untimed, Resting, Execute, cronHistory, RunsVersion
<1>5. OneChange'
  BY DEF CronInv, OneChange, Removes, NoRow, Execute, Resting, cronHistory, CallerAsks,
      Restoring, Removing
<1>6. ChangeKnowsRow'
  BY DEF CronInv, ChangeKnowsRow, OneChange, CronTypeOK, Removes, NoRow, Execute,
      Resting, cronHistory, Untimed, Removing, Restoring, CallerAsks
<1>7. QuietMatches'
  BY DEF CronInv, QuietMatches, ChangeKnowsRow, CronTypeOK, Removes, NoRow,
      Execute, Resting, cronHistory, Quiet, CallerAsks, Removing, Restoring,
      Matches, Untimed, RunsVersion
<1> QED BY <1>1, <1>2, <1>3, <1>4, <1>5, <1>6, <1>7 DEF CronInv

LEMMA BreaksKeeps ==
  ASSUME CronInv, CronTypeOK', NEW x \in Execution, Breaks(x)
  PROVE  CronInv'
<1>1. Numbered'
  BY DEF CronInv, Numbered, Breaks, Execute
<1>2. OneTimed'
  BY DEF CronInv, OneTimed, Breaks, Execute, Resting, Timed
<1>3. RanIsLeaving'
  BY DEF CronInv, RanIsLeaving, Breaks, Execute, Resting, Timed, RunsVersion
<1>4. RunsOnce'
  BY DEF CronInv, RunsOnce, Breaks, Execute, Resting, Timed
<1>5. OneChange'
  BY DEF CronInv, OneChange, CronTypeOK, Breaks, Execute, Resting, Timed, CallerAsks,
      Restoring, Removing
<1>6. ChangeKnowsRow'
  BY DEF CronInv, ChangeKnowsRow, CronTypeOK, Breaks, Execute, Resting, Timed,
      Untimed, Removing, Restoring
<1>7. QuietMatches'
  BY DEF CronInv, QuietMatches, CronTypeOK, Breaks, Execute, Resting, Timed, Quiet,
      CallerAsks, Removing, Restoring, Matches, NoRow, Untimed, RunsVersion
<1> QED BY <1>1, <1>2, <1>3, <1>4, <1>5, <1>6, <1>7 DEF CronInv

LEMMA FiresInVainKeeps ==
  ASSUME CronInv, CronTypeOK', FiresInVain
  PROVE  CronInv'
<1>1. OneTimed'
  BY DEF CronInv, OneTimed, FiresInVain, Timed, Spent, cronTasks
<1>2. Numbered'
  BY DEF CronInv, Numbered, FiresInVain, Spent, cronTasks
<1>3. RanIsLeaving'
  BY DEF CronInv, RanIsLeaving, FiresInVain, RunsVersion, Spent, cronTasks
<1>4. RunsOnce'
  BY DEF CronInv, RunsOnce, FiresInVain, Spent, cronTasks
<1>5. OneChange'
  BY DEF CronInv, OneChange, FiresInVain, CallerAsks, Restoring, Removing, Spent,
      cronTasks
<1>6. ChangeKnowsRow'
  BY DEF CronInv, ChangeKnowsRow, FiresInVain, Untimed, Spent, cronTasks, Removing,
      Restoring
<1>7. QuietMatches'
  BY DEF CronInv, QuietMatches, FiresInVain, Untimed, Spent, cronTasks, Quiet,
      CallerAsks, Removing, Restoring, Matches, NoRow, RunsVersion
<1> QED BY <1>1, <1>2, <1>3, <1>4, <1>5, <1>6, <1>7 DEF CronInv

LEMMA OutageKeeps ==
  ASSUME CronInv, CronTypeOK', Outage
  PROVE  CronInv'
<1>1. Numbered'
  BY DEF CronInv, Numbered, Outage
<1>2. OneTimed'
  BY DEF CronInv, OneTimed, Outage, Untimed, Resting, Timed
<1>3. RanIsLeaving'
  BY DEF CronInv, RanIsLeaving, Outage, Untimed, Resting, Timed, RunsVersion
<1>4. RunsOnce'
  BY DEF CronInv, RunsOnce, Outage, Untimed, Resting, Timed
<1>5. OneChange'
  BY DEF CronInv, OneChange, Outage, Untimed, Resting, Timed, CallerAsks, Restoring,
      Removing
<1>6. ChangeKnowsRow'
  BY DEF CronInv, ChangeKnowsRow, Outage, Untimed, Resting, Timed, Removing,
      Restoring
<1>7. QuietMatches'
  BY DEF CronInv, QuietMatches, Outage, Untimed, Resting, Timed, Quiet, CallerAsks,
      Removing, Restoring, Matches, NoRow, RunsVersion
<1> QED BY <1>1, <1>2, <1>3, <1>4, <1>5, <1>6, <1>7 DEF CronInv

LEMMA CronKept == CronInv /\ [CronNext]_cronVars => CronInv'
<1> SUFFICES ASSUME CronInv, [CronNext]_cronVars PROVE CronInv'
  OBVIOUS
<1>1. CronTypeOK'
  BY CronTypeStep DEF CronInv
<1>2. CASE UNCHANGED cronVars
  BY <1>2 DEF CronInv, cronVars, cronTasks, cronHistory, OneTimed, Numbered,
      RanIsLeaving, RunsOnce, OneChange, ChangeKnowsRow, QuietMatches, Timed,
      RunsVersion, CallerAsks, Restoring, Removing, Untimed, Quiet, Matches, NoRow,
      CronTypeOK, Row, Version, Trigger, Resting
<1>3. CASE CronNext
  BY <1>1, <1>3, OtherJobScheduledKeeps, StartsLateKeeps, StartsKeeps,
      ListsKeeps, SyncsKeeps, WriteKeeps, ScheduleKeeps, UnscheduleKeeps,
      EraseKeeps, EraseFailsKeeps, RunNowKeeps, FiresKeeps, ReadsJobKeeps,
      EndsKeeps, RemovesKeeps, BreaksKeeps, FiresInVainKeeps, OutageKeeps
     DEF CronNext
<1> QED BY <1>2, <1>3

-------------------------------------------------------------------------------
(* Theorems.                                                               *)

LEMMA CronInvariance == CronSpec => []CronInv
<1> QED BY CronInitially, CronKept, PTL DEF CronSpec

\* The type invariant of the row, the schedule and the tasks.
THEOREM CronTypeCorrect == CronSpec => []CronTypeOK
<1>1. CronInv => CronTypeOK
  BY DEF CronInv
<1> QED BY CronInvariance, <1>1, PTL

\* When no task is changing them, row and schedule agree, with any number of
\* requests, executions, versions and restarts (but for the exceptions that the
\* property names): the code between the awaits of update_job, delete_job, _run_job
\* and start.
THEOREM ScheduleAgrees == CronSpec => []ScheduleMatchesRow
<1>1. ASSUME CronInv PROVE ScheduleMatchesRow
  <2> SUFFICES ASSUME Changing = {}, ~crossed, restore.at = "over" PROVE ScheduleMatchesRow
    BY DEF ScheduleMatchesRow
  <2>1. Matches
    BY <1>1, QuietIsUnchanging DEF CronInv, QuietMatches
  <2>2. \A x \in Execution : \/ execution[x].pc = "read" /\ execution[x].timed
                             \/ RunsVersion(x, jobRow.v)
          => x \in Timed
    BY DEF RunsVersion, Timed
  <2> QED BY <2>1, <2>2 DEF Matches, ScheduleMatchesRow
<1> QED BY CronInvariance, <1>1, PTL

\* The scheduler executes no version of a run-once job twice, unless an execution of
\* it was cut before it removed the job (_run_job's finally).
THEOREM OnceOnly == CronSpec => []RunsOnce
<1>1. CronInv => RunsOnce
  BY DEF CronInv
<1> QED BY CronInvariance, <1>1, PTL

-------------------------------------------------------------------------------
(*****************************************************************************)
(* Rate limit.                                                               *)
(*****************************************************************************)

(* The rate limit: its inductive invariant.                                *)

\* ord holds the messages that passed, in that order.
Ordered(ord) ==
  /\ ord \in Seq(Arrival) /\ NoRepeat(ord)
  /\ \A a \in Arrival : rated[a] = "passed" <=> InQueue(ord, a)
  /\ \A i \in 1..Len(ord) : passes[ord[i]] <= clock /\ seen[ord[i]] <= passes[ord[i]]
  /\ \A i, j \in 1..Len(ord) : i <= j => passes[ord[i]] <= passes[ord[j]]

\* A message whose stamp is the time at which it passed.
Right(ord, i) == seen[ord[i]] = passes[ord[i]]

\* s are the stamps of the last of them.  Those without a stamp passed more than a window
\* ago, and an early stamp stands behind a right one of the same tick.
Stamped(ord, s) ==
  LET gone == Len(ord) - Len(s) IN
  /\ gone \in Nat
  /\ \A i \in 1..Len(s) : s[i] = seen[ord[gone + i]]
  /\ \A i \in 1..gone : passes[ord[i]] + Window < clock
  /\ \A i \in (gone + 1)..Len(ord) :
       \E j \in (gone + 1)..i : Right(ord, j) /\ passes[ord[j]] = passes[ord[i]]

\* A message and the one Limit places behind it are more than a window apart.
Spaced(ord) ==
  \A i, j \in 1..Len(ord) : j = i + Limit => passes[ord[i]] + Window < passes[ord[j]]

\* A message with a right stamp passed in this very tick.
JustPassed(ord) == \E j \in 1..Len(ord) : Right(ord, j) /\ passes[ord[j]] = clock

Passing(ord) == Ordered(ord) /\ Stamped(ord, stamps) /\ Spaced(ord)

\* The line of the lock: only its first can sleep or has slept.  Who had to wait gets the
\* lock in the tick in which another passed.
InLane ==
  /\ NoRepeat(lane)
  /\ \A a \in Arrival : rated[a] \in {"waits", "sleeps"} <=> InQueue(lane, a)
  /\ \A i \in 1..Len(lane) : i # 1 => rated[lane[i]] = "waits"
  /\ strategy = "discard" => lane = <<>>
  /\ \A a \in Arrival : seen[a] <= clock

FirstWaits == lane # <<>> /\ rated[lane[1]] = "waits"

RateInv ==
  /\ RateTypeOK /\ InLane
  /\ \E ord \in Seq(Arrival) : Passing(ord) /\ (FirstWaits => JustPassed(ord))

LEMMA RateNumbers == Limit \in Nat \ {0} /\ Window \in Nat \ {0} /\ Arrivals \in Nat /\ MaxClock \in Nat
  BY RateAssumption

-------------------------------------------------------------------------------
(* Expired stamps are dropped.                                             *)

\* The first of what is left is not expired, and what is left has the same properties.
LEMMA DropKeeps ==
  ASSUME RateTypeOK, NEW ord \in Seq(Arrival), Ordered(ord), Stamped(ord, stamps),
         NEW now \in Nat, now <= clock
  PROVE  LET f == Unexpired(now) IN
         /\ f \in Seq(Nat) /\ Len(f) <= Len(stamps) /\ Stamped(ord, f)
         /\ f # <<>> => f[1] + Window >= now
<1> DEFINE fresh == { i \in 1..Len(stamps) : ~Expired(stamps[i], now) }
           k == CHOOSE i \in fresh : \A j \in fresh : i <= j
           f == Unexpired(now)
           g == Len(ord) - Len(stamps)
<1>1. f = IF fresh = {} THEN <<>> ELSE SubSeq(stamps, k, Len(stamps))
  BY DEF Unexpired
<1>2. /\ stamps \in Seq(Nat) /\ Len(stamps) \in Nat /\ Len(ord) \in Nat /\ g \in Nat
      /\ Window \in Nat /\ clock \in Nat
      /\ \A i \in 1..Len(ord) : ord[i] \in Arrival /\ passes[ord[i]] \in Nat /\ seen[ord[i]] \in Nat
  BY RateNumbers DEF RateTypeOK, Stamped
<1>3. /\ \A i \in 1..Len(stamps) : stamps[i] = seen[ord[g + i]]
      /\ \A i \in 1..g : passes[ord[i]] + Window < clock
      /\ \A i \in (g + 1)..Len(ord) :
           \E j \in (g + 1)..i : Right(ord, j) /\ passes[ord[j]] = passes[ord[i]]
  BY DEF Stamped
<1>4. \A i, j \in 1..Len(ord) : i <= j => passes[ord[i]] <= passes[ord[j]]
  BY DEF Ordered
<1>5. ASSUME NEW i \in 1..Len(stamps) PROVE i \in fresh <=> seen[ord[g + i]] + Window >= now
  BY <1>2, <1>3 DEF Expired
<1>6. \A i \in (g + 1)..Len(ord) : i - g \in 1..Len(stamps) /\ g + (i - g) = i
  BY <1>2
<1> HIDE DEF f, g, fresh
\* all that passed before the place u, where the stamps up to u are expired, are old
<1>7. ASSUME NEW u \in g..Len(ord), \A i \in 1..(u - g) : i \notin fresh
      PROVE  \A i \in 1..u : passes[ord[i]] + Window < clock /\ (i > g => passes[ord[i]] + Window < now)
  <2> SUFFICES ASSUME NEW i \in 1..u, i > g
               PROVE  passes[ord[i]] + Window < now
    BY <1>2, <1>3
  <2>1. i \in (g + 1)..Len(ord)
    BY <1>2
  <2>2. PICK j \in (g + 1)..i : Right(ord, j) /\ passes[ord[j]] = passes[ord[i]]
    BY <1>3, <2>1
  <2>3. j \in (g + 1)..Len(ord) /\ j - g \in 1..(u - g) /\ j \in 1..Len(ord)
    BY <1>2, <2>1, <2>2
  <2>4. j - g \in 1..Len(stamps) /\ g + (j - g) = j
    BY <1>6, <2>3
  <2>5. ~ (seen[ord[j]] + Window >= now)
    BY <1>5, <1>7, <2>3, <2>4
  <2> QED BY <1>2, <2>1, <2>2, <2>3, <2>5 DEF Right
<1>8. CASE fresh = {}
  <2>1. f = <<>> /\ Len(f) = 0 /\ f \in Seq(Nat)
    BY <1>1, <1>8
  <2>2. Len(ord) \in g..Len(ord)
    BY <1>2 DEF g
  <2>3. \A i \in 1..Len(ord) : passes[ord[i]] + Window < clock
    BY <1>7, <1>8, <2>2
  <2>4. Stamped(ord, f)
    BY <1>2, <2>1, <2>3 DEF Stamped
  <2> QED BY <1>2, <2>1, <2>4 DEF f
<1>9. CASE fresh # {}
  <2>1. k \in fresh /\ \A j \in fresh : k <= j
    <3>1. fresh \subseteq Nat
      BY DEF fresh
    <3> QED BY <1>9, <3>1, LeastOf
  <2> HIDE DEF k
  <2>2. k \in 1..Len(stamps)
    BY <2>1 DEF fresh
  <2>3. f \in Seq(Nat) /\ Len(f) = Len(stamps) - k + 1 /\ \A i \in 1..Len(f) : f[i] = stamps[k - 1 + i]
    BY <1>1, <1>2, <1>9, <2>2, SuffixProps
  <2> DEFINE u == Len(ord) - Len(f)
  <2>4. u = g + (k - 1) /\ u \in Nat /\ u \in g..Len(ord) /\ u < Len(ord)
    BY <1>2, <2>2, <2>3 DEF g
  <2> HIDE DEF u
  <2>5. \A i \in 1..u : passes[ord[i]] + Window < clock /\ (i > g => passes[ord[i]] + Window < now)
    <3>1. \A i \in 1..(u - g) : i \notin fresh
      BY <1>2, <2>1, <2>2, <2>4
    <3> QED BY <1>7, <2>4, <3>1
  <2>6. \A i \in 1..Len(f) : f[i] = seen[ord[u + i]]
    <3> SUFFICES ASSUME NEW i \in 1..Len(f) PROVE f[i] = seen[ord[u + i]]
      OBVIOUS
    <3>0. /\ i \in Int /\ 1 <= i /\ i <= Len(stamps) - k + 1 /\ k \in Int /\ 1 <= k
          /\ g \in Int /\ u = g + (k - 1) /\ Len(stamps) \in Int
      BY <1>2, <2>2, <2>3, <2>4
    <3>1. k - 1 + i \in 1..Len(stamps) /\ g + (k - 1 + i) = u + i
      BY <3>0
    <3> QED BY <1>3, <2>3, <3>1
  \* the first that is left passed later than those that were dropped
  <2>7. passes[ord[u + 1]] + Window >= now /\ u + 1 \in 1..Len(ord)
    <3>1. g + k = u + 1 /\ u + 1 \in 1..Len(ord) /\ seen[ord[u + 1]] + Window >= now
      BY <1>2, <1>5, <2>1, <2>2, <2>4
    <3>2. seen[ord[u + 1]] <= passes[ord[u + 1]]
      BY <3>1 DEF Ordered
    <3> QED BY <1>2, <3>1, <3>2
  <2>8. ASSUME NEW i \in (u + 1)..Len(ord)
        PROVE  \E j \in (u + 1)..i : Right(ord, j) /\ passes[ord[j]] = passes[ord[i]]
    <3>1. i \in (g + 1)..Len(ord) /\ i \in 1..Len(ord) /\ u + 1 <= i
      BY <1>2, <2>4
    <3>2. PICK j \in (g + 1)..i : Right(ord, j) /\ passes[ord[j]] = passes[ord[i]]
      BY <1>3, <3>1
    <3>3. passes[ord[u + 1]] <= passes[ord[i]] /\ j \in 1..Len(ord)
      BY <1>2, <1>4, <2>7, <3>1, <3>2
    <3>4. ~ (j <= u)
      <4> SUFFICES ASSUME j <= u PROVE FALSE
        OBVIOUS
      <4>1. j \in 1..u /\ j > g
        BY <1>2, <2>4, <3>2
      <4>2. passes[ord[j]] + Window < now
        BY <2>5, <4>1
      <4> QED BY <1>2, <2>7, <3>1, <3>2, <3>3, <4>2
    <3>5. j \in (u + 1)..i
      BY <1>2, <2>4, <3>1, <3>2, <3>4
    <3> QED BY <3>2, <3>5
  <2>9. Stamped(ord, f)
    BY <2>4, <2>5, <2>6, <2>8 DEF Stamped, u
  <2>10. f[1] + Window >= now
    <3>1. 1 \in 1..Len(f) /\ k - 1 + 1 = k
      BY <1>2, <2>2, <2>3
    <3>2. f[1] = stamps[k]
      BY <2>3, <3>1
    <3> QED BY <1>3, <1>5, <2>1, <2>2, <3>2
  <2> QED BY <1>2, <2>2, <2>3, <2>9, <2>10 DEF f
<1> QED BY <1>8, <1>9

-------------------------------------------------------------------------------
(* A message that has the lock tries.                                      *)

\* What a step that lets nobody pass keeps.
LEMMA NobodyPasses ==
  ASSUME RateTypeOK, NEW ord \in Seq(Arrival), NEW s \in Seq(Nat),
         Ordered(ord), Stamped(ord, s), Spaced(ord),
         clock' \in {clock, clock + 1}, UNCHANGED passes, stamps' = s,
         \A a \in Arrival : rated'[a] = "passed" <=> rated[a] = "passed",
         \A a \in Arrival : rated[a] = "passed" => seen'[a] = seen[a]
  PROVE  /\ Passing(ord)'
         /\ clock' = clock => (JustPassed(ord) => JustPassed(ord)')
<1> DEFINE g == Len(ord) - Len(s)
<1>1. /\ Len(ord) \in Nat /\ clock \in Nat /\ Window \in Nat /\ Len(s) \in Nat
      /\ \A i \in 1..Len(ord) : ord[i] \in Arrival /\ passes[ord[i]] \in Nat
  BY RateNumbers DEF RateTypeOK
<1>2. \A i \in 1..Len(ord) : seen'[ord[i]] = seen[ord[i]] /\ (Right(ord, i)' <=> Right(ord, i))
  BY <1>1 DEF Ordered, InQueue, Right
<1>3. Ordered(ord)'
  <2>1. \A i \in 1..Len(ord) : passes[ord[i]] <= clock' /\ seen'[ord[i]] <= passes[ord[i]]
    BY <1>1, <1>2 DEF Ordered
  <2> QED BY <2>1 DEF Ordered
<1>4. Stamped(ord, stamps)'
  <2>1. /\ g \in Nat /\ g <= Len(ord) /\ \A i \in 1..Len(s) : s[i] = seen[ord[g + i]]
        /\ \A i \in 1..g : passes[ord[i]] + Window < clock
        /\ \A i \in (g + 1)..Len(ord) :
             \E j \in (g + 1)..i : Right(ord, j) /\ passes[ord[j]] = passes[ord[i]]
    BY <1>1 DEF Stamped
  <2>2. \A i \in 1..Len(s) : g + i \in 1..Len(ord)
    BY <1>1, <2>1
  <2> HIDE DEF g
  <2>3. \A i \in 1..g : passes'[ord[i]] + Window < clock'
    BY <1>1, <2>1
  <2>4. \A i \in (g + 1)..Len(ord) :
          \E j \in (g + 1)..i : Right(ord, j)' /\ passes'[ord[j]] = passes'[ord[i]]
    <3> SUFFICES ASSUME NEW i \in (g + 1)..Len(ord)
                 PROVE  \E j \in (g + 1)..i : Right(ord, j)' /\ passes'[ord[j]] = passes'[ord[i]]
      OBVIOUS
    <3>1. PICK j \in (g + 1)..i : Right(ord, j) /\ passes[ord[j]] = passes[ord[i]]
      BY <2>1
    <3>2. j \in 1..Len(ord)
      BY <1>1, <2>1
    <3> QED BY <1>2, <3>1, <3>2
  <2>5. \A i \in 1..Len(s) : s[i] = seen'[ord[g + i]]
    BY <1>2, <2>1, <2>2
  <2> QED BY <2>1, <2>3, <2>4, <2>5 DEF Stamped, g
<1>5. Spaced(ord)'
  BY DEF Spaced
<1>6. clock' = clock => (JustPassed(ord) => JustPassed(ord)')
  BY <1>2 DEF JustPassed
<1> QED BY <1>3, <1>4, <1>5, <1>6 DEF Passing

\* A message passes: its stamp is right, or behind a right one; the message Limit places
\* before it has no stamp any more.
LEMMA OnePasses ==
  ASSUME RateTypeOK, NEW ord \in Seq(Arrival), NEW s \in Seq(Nat),
         Ordered(ord), Stamped(ord, s), Spaced(ord),
         NEW a \in Arrival, NEW now \in Nat, now <= clock, now = clock \/ JustPassed(ord),
         rated[a] # "passed", Len(s) < Limit,
         seen' = [seen EXCEPT ![a] = now], stamps' = Append(s, now),
         rated' = [rated EXCEPT ![a] = "passed"], passes' = [passes EXCEPT ![a] = clock],
         UNCHANGED clock
  PROVE  \E o \in Seq(Arrival) : Passing(o)' /\ JustPassed(o)'
<1> DEFINE n == Len(ord)
           o == Append(ord, a)
           g == n - Len(s)
<1>1. /\ n \in Nat /\ Len(s) \in Nat /\ clock \in Nat /\ Window \in Nat /\ Limit \in Nat
      /\ \A i \in 1..n : ord[i] \in Arrival /\ passes[ord[i]] \in Nat /\ seen[ord[i]] \in Nat
  BY RateNumbers DEF RateTypeOK
<1>2. ~InQueue(ord, a) /\ NoRepeat(ord)
  BY DEF Ordered
<1>3. /\ o \in Seq(Arrival) /\ Len(o) = n + 1 /\ o[n + 1] = a /\ \A i \in 1..n : o[i] = ord[i] /\ ord[i] # a
      /\ NoRepeat(o) /\ InQueue(o, a) /\ \A u \in Arrival : u # a => (InQueue(ord, u) <=> InQueue(o, u))
  BY <1>2, AppendProperties, AppendProps DEF InQueue
<1>4. /\ stamps' \in Seq(Nat) /\ Len(stamps') = Len(s) + 1 /\ stamps'[Len(s) + 1] = now
      /\ \A i \in 1..Len(s) : stamps'[i] = s[i]
  BY AppendProperties
<1>4a. g \in Nat /\ g <= n /\ g = n - Len(s)
  BY <1>1 DEF Stamped
<1>5. /\ g \in Nat /\ g <= n /\ \A i \in 1..Len(s) : s[i] = seen[ord[g + i]]
      /\ \A i \in 1..g : passes[ord[i]] + Window < clock
      /\ \A i \in (g + 1)..n : \E j \in (g + 1)..i : Right(ord, j) /\ passes[ord[j]] = passes[ord[i]]
      /\ g = n - Len(s)
  BY <1>4a DEF Stamped
<1> HIDE DEF n, o, g
<1>6. /\ seen'[a] = now /\ passes'[a] = clock
      /\ \A i \in 1..n : seen'[o[i]] = seen[ord[i]] /\ passes'[o[i]] = passes[ord[i]]
      /\ \A i \in 1..n : Right(ord, i) <=> Right(o, i)'
  BY <1>1, <1>3 DEF RateTypeOK, Right
<1>7. \A i \in 1..Len(o) : i \in 1..n \/ i = n + 1
  BY <1>1, <1>3
<1>8. \A i \in 1..n : passes[ord[i]] <= clock /\ seen[ord[i]] <= passes[ord[i]]
  BY DEF Ordered, n
<1>9. \A i, j \in 1..n : i <= j => passes[ord[i]] <= passes[ord[j]]
  BY DEF Ordered, n
<1>10. Ordered(o)'
  <2>1. \A b \in Arrival : rated'[b] = "passed" <=> InQueue(o, b)
    BY <1>3 DEF Ordered, RateTypeOK
  <2>2. \A i \in 1..Len(o) : passes'[o[i]] <= clock' /\ seen'[o[i]] <= passes'[o[i]]
    BY <1>1, <1>3, <1>6, <1>7, <1>8
  <2>3. ASSUME NEW i \in 1..Len(o), NEW j \in 1..Len(o), i <= j
        PROVE  passes'[o[i]] <= passes'[o[j]]
    <3>1. CASE j \in 1..n
      <4> i \in 1..n
        BY <1>1, <2>3, <3>1
      <4> QED BY <1>6, <1>9, <2>3, <3>1
    <3>2. CASE j = n + 1
      BY <1>1, <1>3, <1>6, <1>7, <1>8, <3>2
    <3> QED BY <1>7, <3>1, <3>2
  <2> QED BY <1>3, <2>1, <2>2, <2>3 DEF Ordered
<1>11. \E j \in 1..(n + 1) : Right(o, j)' /\ passes'[o[j]] = clock /\ j >= g + 1
  <2>1. CASE now = clock
    <3> n + 1 \in 1..(n + 1) /\ n + 1 >= g + 1 /\ Right(o, n + 1)' /\ passes'[o[n + 1]] = clock
      BY <1>1, <1>3, <1>5, <1>6, <2>1 DEF Right
    <3> QED OBVIOUS
  <2>2. CASE JustPassed(ord)
    <3>1. PICK j \in 1..n : Right(ord, j) /\ passes[ord[j]] = clock
      BY <2>2 DEF JustPassed, n
    <3>2. ~ (j \in 1..g)
      BY <1>1, <1>5, <3>1
    <3>3. j >= g + 1 /\ j \in 1..(n + 1)
      BY <1>1, <1>5, <3>2
    <3> QED BY <1>6, <3>1, <3>3
  <2> QED BY <2>1, <2>2
<1>12. Stamped(o, stamps)'
  <2>1. Len(o) - Len(stamps') = g
    BY <1>1, <1>3, <1>4, <1>5
  <2>2. ASSUME NEW i \in 1..Len(stamps') PROVE stamps'[i] = seen'[o[g + i]]
    <3>1. CASE i \in 1..Len(s)
      <4>1. g + i \in 1..n
        BY <1>1, <1>5, <3>1
      <4> QED BY <1>4, <1>5, <1>6, <3>1, <4>1
    <3>2. CASE i = Len(s) + 1
      <4>1. g + i = n + 1
        BY <1>1, <1>5, <3>2
      <4> QED BY <1>3, <1>4, <1>6, <3>2, <4>1
    <3> QED BY <1>1, <1>4, <3>1, <3>2
  <2>3. \A i \in 1..g : passes'[o[i]] + Window < clock'
    <3> \A i \in 1..g : i \in 1..n
      BY <1>1, <1>5
    <3> QED BY <1>5, <1>6
  <2>4. ASSUME NEW i \in (g + 1)..Len(o)
        PROVE  \E j \in (g + 1)..i : Right(o, j)' /\ passes'[o[j]] = passes'[o[i]]
    <3>1. CASE i = n + 1
      BY <1>1, <1>3, <1>5, <1>6, <1>11, <3>1
    <3>2. CASE i # n + 1
      <4>1. i \in (g + 1)..n /\ i \in 1..n
        BY <1>1, <1>3, <1>5, <3>2
      <4>2. PICK j \in (g + 1)..i : Right(ord, j) /\ passes[ord[j]] = passes[ord[i]]
        BY <1>5, <4>1
      <4>3. j \in 1..n
        BY <1>1, <1>5, <4>1
      <4> QED BY <1>6, <4>1, <4>2, <4>3
    <3> QED BY <3>1, <3>2
  <2> QED BY <1>5, <2>1, <2>2, <2>3, <2>4 DEF Stamped
<1>13. Spaced(o)'
  <2> SUFFICES ASSUME NEW i \in 1..Len(o), NEW j \in 1..Len(o), j = i + Limit
               PROVE  passes'[o[i]] + Window < passes'[o[j]]
    BY DEF Spaced
  <2>1. CASE j \in 1..n
    <3>1. i \in 1..n
      BY <1>1, <2>1
    <3> QED BY <1>6, <2>1, <3>1 DEF Spaced, n
  <2>2. CASE j = n + 1
    <3>1. i \in 1..g /\ i \in 1..n
      BY <1>1, <1>3, <1>5, <2>2
    <3>2. passes'[o[i]] = passes[ord[i]] /\ passes[ord[i]] + Window < clock
      BY <1>5, <1>6, <3>1
    <3>3. passes'[o[j]] = clock
      BY <1>3, <1>6, <2>2
    <3> QED BY <3>2, <3>3
  <2> QED BY <1>7, <2>1, <2>2
<1>14. JustPassed(o)'
  BY <1>3, <1>11 DEF JustPassed
<1> QED BY <1>3, <1>10, <1>12, <1>13, <1>14 DEF Passing

\* What a try of the message a with the lock's line t does.
LEMMA TryKeeps ==
  ASSUME RateTypeOK, InLane, NEW ord \in Seq(Arrival), Passing(ord),
         NEW a \in Arrival, NEW now \in Nat, now <= clock, now = clock \/ JustPassed(ord),
         NEW t \in Seq(Arrival), t # <<>>, t[1] = a, NoRepeat(t),
         \A b \in Arrival : InQueue(t, b) <=> InQueue(lane, b) \/ b = a,
         \A i \in 1..Len(t) : i # 1 => rated[t[i]] = "waits",
         rated[a] # "passed", strategy = "discard" => t = <<a>>,
         Try(a, now, t), UNCHANGED <<strategy, clock>>
  PROVE  RateInv'
<1> DEFINE s == Unexpired(now)
<1>1. s \in Seq(Nat) /\ Len(s) <= Len(stamps) /\ Stamped(ord, s) /\ (s # <<>> => s[1] + Window >= now)
  BY DropKeeps DEF Passing
<1>2. Ordered(ord) /\ Spaced(ord) /\ \A b \in Arrival : rated[b] = "passed" <=> InQueue(ord, b)
  BY DEF Passing, Ordered
<1>3. /\ Limit \in Nat \ {0} /\ Window \in Nat /\ clock \in Nat /\ Len(stamps) \in Nat /\ Len(s) \in Nat
      /\ Len(stamps) <= Limit /\ wake \in Nat
  <2>1. Limit \in Nat \ {0} /\ Window \in Nat
    BY RateNumbers
  <2>2. clock \in Nat /\ wake \in Nat /\ stamps \in Seq(Nat) /\ Len(stamps) <= Limit
    BY RateNumbers DEF RateTypeOK
  <2>3. Len(s) \in Nat /\ Len(stamps) \in Nat
    BY <1>1, <2>2
  <2> QED BY <2>1, <2>2, <2>3
<1>4. /\ seen' = [seen EXCEPT ![a] = now] /\ seen' \in [Arrival -> Nat]
      /\ \A b \in Arrival : b # a => seen'[b] = seen[b]
      /\ \A b \in Arrival : seen'[b] <= clock'
  BY DEF Try, RateTypeOK, InLane
<1>5. PICK r \in {"passed", "sleeps", "discarded"} :
        /\ rated' = [rated EXCEPT ![a] = r]
        /\ r = "passed" => /\ Len(s) < Limit /\ stamps' = Append(s, now)
                           /\ passes' = [passes EXCEPT ![a] = clock]
                           /\ lane' = Tail(t) /\ UNCHANGED wake
        /\ r # "passed" => Len(s) >= Limit /\ stamps' = s /\ UNCHANGED passes
        /\ r = "sleeps" => /\ strategy = "stall" /\ lane' = t
                           /\ wake' = clock + (s[1] + Window - now) + 1
        /\ r = "discarded" => strategy = "discard" /\ lane' = Tail(t) /\ UNCHANGED wake
  BY DEF Try
<1> HIDE DEF s
<1>6. /\ rated' \in [Arrival -> {"new", "waits", "sleeps", "passed", "discarded"}]
      /\ rated'[a] = r /\ \A b \in Arrival : b # a => rated'[b] = rated[b]
  BY <1>5 DEF RateTypeOK
<1>7. /\ Tail(t) \in Seq(Arrival) /\ NoRepeat(Tail(t))
      /\ \A b \in Arrival : InQueue(Tail(t), b) <=> InQueue(t, b) /\ b # a
      /\ Len(Tail(t)) = Len(t) - 1 /\ Len(t) \in Nat \ {0} /\ \A i \in 1..Len(Tail(t)) : Tail(t)[i] = t[i + 1]
  BY TailProps, HeadTailProperties, EmptySeq
<1>8. RateTypeOK'
  <2>1. stamps' \in Seq(Nat) /\ Len(stamps') <= Limit
    <3>1. CASE r = "passed"
      <4>1. stamps' = Append(s, now) /\ Len(s) < Limit
        BY <1>5, <3>1
      <4>2. Append(s, now) \in Seq(Nat) /\ Len(Append(s, now)) = Len(s) + 1
        BY <1>1, AppendProperties
      <4> QED BY <1>3, <4>1, <4>2
    <3>2. CASE r # "passed"
      <4>1. stamps' = s
        BY <1>5, <3>2
      <4> QED BY <1>1, <1>3, <4>1
    <3> QED BY <3>1, <3>2
  <2>2. wake' \in Nat
    <3>1. CASE r = "sleeps"
      <4>1. wake' = clock + (s[1] + Window - now) + 1 /\ Len(s) >= Limit
        BY <1>5, <3>1
      <4>2. s # <<>> /\ s[1] \in Nat
        BY <1>1, <1>3, <4>1, EmptySeq
      <4>3. s[1] + Window >= now /\ Window \in Nat /\ clock \in Nat
        BY <1>1, <1>3, <4>2
      <4> QED BY <4>1, <4>2, <4>3
    <3>2. CASE r # "sleeps"
      BY <1>3, <1>5, <3>2
    <3> QED BY <3>1, <3>2
  <2>3. lane' \in Seq(Arrival)
    BY <1>5, <1>7
  <2>4. passes' \in [Arrival -> Nat]
    <3>1. passes' \in {passes, [passes EXCEPT ![a] = clock]}
      BY <1>5
    <3> QED BY <1>3, <3>1 DEF RateTypeOK
  <2>5. strategy' \in {"stall", "discard"} /\ clock' \in Nat
    BY DEF RateTypeOK
  <2> QED BY <1>4, <1>6, <2>1, <2>2, <2>3, <2>4, <2>5 DEF RateTypeOK
<1>9. InLane'
  <2>1. \A b \in Arrival : rated[b] \in {"waits", "sleeps"} <=> InQueue(lane, b)
    BY DEF InLane
  <2>2. CASE r = "sleeps"
    <3>1. \A b \in Arrival : rated'[b] \in {"waits", "sleeps"} <=> InQueue(t, b)
      BY <1>6, <2>1, <2>2
    <3>2. \A i \in 1..Len(t) : i # 1 => rated'[t[i]] = "waits"
      BY <1>6, <1>7 DEF NoRepeat
    <3> QED BY <1>4, <1>5, <2>2, <3>1, <3>2 DEF InLane
  <2>3. CASE r # "sleeps"
    <3>1. lane' = Tail(t)
      BY <1>5, <2>3
    <3>2. \A b \in Arrival : rated'[b] \in {"waits", "sleeps"} <=> InQueue(lane', b)
      BY <1>5, <1>6, <1>7, <2>1, <2>3, <3>1
    <3>3. ASSUME NEW i \in 1..Len(lane') PROVE rated'[lane'[i]] = "waits"
      <4>1. i + 1 \in 1..Len(t) /\ i + 1 # 1 /\ lane'[i] = t[i + 1] /\ t[i + 1] # a /\ t[i + 1] \in Arrival
        BY <1>7, <3>1 DEF NoRepeat
      <4> QED BY <1>6, <4>1
    <3>4. strategy' = "discard" => lane' = <<>>
      BY <3>1
    <3> QED BY <1>4, <1>7, <3>1, <3>2, <3>3, <3>4 DEF InLane
  <2> QED BY <2>2, <2>3
<1>10. CASE r = "passed"
  <2>1. \E o \in Seq(Arrival) : Passing(o)' /\ JustPassed(o)'
    BY <1>1, <1>2, <1>4, <1>5, <1>10, OnePasses
  <2> QED BY <1>8, <1>9, <2>1 DEF RateInv
<1>11. CASE r # "passed"
  <2>1. Passing(ord)'
    <3>1. \A b \in Arrival : rated'[b] = "passed" <=> rated[b] = "passed"
      BY <1>6, <1>11
    <3>2. \A b \in Arrival : rated[b] = "passed" => seen'[b] = seen[b]
      BY <1>4
    <3> QED BY <1>1, <1>2, <1>5, <1>11, <3>1, <3>2, NobodyPasses
  <2>2. ~FirstWaits'
    <3>1. CASE r = "sleeps"
      BY <1>5, <1>6, <3>1 DEF FirstWaits
    <3>2. CASE r = "discarded"
      <4> lane' = <<>>
        BY <1>5, <3>2
      <4> QED BY DEF FirstWaits
    <3> QED BY <1>11, <3>1, <3>2
  <2> QED BY <1>8, <1>9, <2>1, <2>2 DEF RateInv
<1> QED BY <1>10, <1>11

-------------------------------------------------------------------------------
(* One lemma per action.                                                   *)

LEMMA RateInitially == RateInit => RateInv
<1> SUFFICES ASSUME RateInit PROVE RateInv
  OBVIOUS
<1>1. Len(<<>>) = 0 /\ <<>> \in Seq(Arrival) /\ <<>> \in Seq(Nat)
  OBVIOUS
<1>2. RateTypeOK
  BY <1>1, RateNumbers DEF RateInit, RateTypeOK
<1>3. InLane
  BY <1>1 DEF RateInit, InLane, NoRepeat, InQueue
<1>4. Passing(<<>>)
  BY <1>1 DEF RateInit, Passing, Ordered, Stamped, Spaced, NoRepeat, InQueue
<1>5. ~FirstWaits
  BY DEF FirstWaits, RateInit
<1> QED BY <1>1, <1>2, <1>3, <1>4, <1>5 DEF RateInv

LEMMA EnterKeeps ==
  ASSUME RateInv, NEW a \in Arrival, Enter(a)
  PROVE  RateInv'
<1>0. RateTypeOK /\ InLane
  BY DEF RateInv
<1>1. PICK ord \in Seq(Arrival) : Passing(ord) /\ (FirstWaits => JustPassed(ord))
  BY DEF RateInv
<1>2. /\ lane \in Seq(Arrival) /\ NoRepeat(lane) /\ ~InQueue(lane, a) /\ clock \in Nat /\ rated[a] = "new"
      /\ \A b \in Arrival : rated[b] \in {"waits", "sleeps"} <=> InQueue(lane, b)
  BY <1>0 DEF RateTypeOK, InLane, Enter
<1>3. CASE lane = <<>>
  <2>1. /\ <<a>> \in Seq(Arrival) /\ <<a>> # <<>> /\ <<a>>[1] = a /\ Len(<<a>>) = 1 /\ NoRepeat(<<a>>)
        /\ \A b \in Arrival : InQueue(<<a>>, b) <=> b = a
    BY DEF NoRepeat, InQueue
  <2>2. \A b \in Arrival : ~InQueue(lane, b)
    BY <1>3 DEF InQueue
  <2>3. Try(a, clock, <<a>>) /\ UNCHANGED <<strategy, clock>>
    BY <1>3 DEF Enter
  <2>4. /\ \A b \in Arrival : InQueue(<<a>>, b) <=> InQueue(lane, b) \/ b = a
        /\ \A i \in 1..Len(<<a>>) : i # 1 => rated[<<a>>[i]] = "waits"
    BY <2>1, <2>2
  <2>5. rated[a] # "passed" /\ clock <= clock
    BY <1>2
  <2> QED BY <1>0, <1>1, <1>2, <2>1, <2>3, <2>4, <2>5, TryKeeps
<1>4. CASE lane # <<>>
  <2>1. /\ lane' = Append(lane, a) /\ rated' = [rated EXCEPT ![a] = "waits"]
        /\ seen' = [seen EXCEPT ![a] = clock] /\ UNCHANGED <<stamps, wake, passes, strategy, clock>>
    BY <1>4 DEF Enter
  <2>2. /\ lane' \in Seq(Arrival) /\ NoRepeat(lane') /\ InQueue(lane', a) /\ lane'[1] = lane[1]
        /\ \A u \in Arrival : u # a => (InQueue(lane, u) <=> InQueue(lane', u))
        /\ Len(lane') = Len(lane) + 1 /\ Len(lane) \in Nat /\ lane'[Len(lane) + 1] = a
        /\ \A i \in 1..Len(lane) : lane'[i] = lane[i] /\ lane[i] # a /\ lane[i] \in Arrival
    BY <1>2, <1>4, <2>1, AppendProps, AppendProperties DEF InQueue
  <2>3. /\ rated' \in [Arrival -> {"new", "waits", "sleeps", "passed", "discarded"}]
        /\ rated'[a] = "waits" /\ \A b \in Arrival : b # a => rated'[b] = rated[b]
        /\ seen' \in [Arrival -> Nat] /\ seen'[a] = clock /\ \A b \in Arrival : b # a => seen'[b] = seen[b]
    BY <1>0, <2>1 DEF RateTypeOK
  <2>4. RateTypeOK'
    BY <1>0, <2>1, <2>2, <2>3 DEF RateTypeOK
  <2>5. InLane'
    <3>1. \A b \in Arrival : rated'[b] \in {"waits", "sleeps"} <=> InQueue(lane', b)
      BY <1>2, <2>2, <2>3
    <3>2. ASSUME NEW i \in 1..Len(lane'), i # 1 PROVE rated'[lane'[i]] = "waits"
      <4>1. i \in 1..Len(lane) \/ i = Len(lane) + 1
        BY <2>2
      <4>2. CASE i \in 1..Len(lane)
        <5>1. rated[lane[i]] = "waits"
          BY <1>0, <3>2, <4>2 DEF InLane
        <5>2. lane'[i] = lane[i] /\ lane[i] # a /\ lane[i] \in Arrival
          BY <2>2, <4>2
        <5> QED BY <2>3, <5>1, <5>2
      <4>3. CASE i = Len(lane) + 1
        BY <2>2, <2>3, <4>3
      <4> QED BY <4>1, <4>2, <4>3
    <3>3. \A b \in Arrival : seen'[b] <= clock'
      BY <1>0, <1>2, <2>1, <2>3 DEF InLane
    <3>4. strategy' # "discard"
      BY <1>0, <1>4, <2>1 DEF InLane
    <3> QED BY <2>2, <3>1, <3>2, <3>3, <3>4 DEF InLane
  <2>6. Passing(ord)' /\ (JustPassed(ord) => JustPassed(ord)')
    <3>1. \A b \in Arrival : rated'[b] = "passed" <=> rated[b] = "passed"
      BY <1>2, <2>3
    <3>2. \A b \in Arrival : rated[b] = "passed" => seen'[b] = seen[b]
      BY <1>2, <2>3
    <3>3. stamps \in Seq(Nat)
      BY <1>0 DEF RateTypeOK
    <3> QED BY <1>0, <1>1, <2>1, <3>1, <3>2, <3>3, NobodyPasses DEF Passing
  <2>7. FirstWaits' => FirstWaits
    <3>1. 1 \in 1..Len(lane)
      BY <1>2, <1>4, EmptySeq
    <3> QED BY <1>4, <2>2, <2>3, <3>1 DEF FirstWaits
  <2> QED BY <1>1, <2>4, <2>5, <2>6, <2>7 DEF RateInv
<1> QED BY <1>3, <1>4

\* Who is first in the line tries again: with the time of its arrival, or after its sleep
\* with a right one.
LEMMA HolderKeeps ==
  ASSUME RateInv, NEW a \in Arrival, GetsLock(a) \/ Wakes(a)
  PROVE  RateInv'
<1>0. RateTypeOK /\ InLane
  BY DEF RateInv
<1>1. PICK ord \in Seq(Arrival) : Passing(ord) /\ (FirstWaits => JustPassed(ord))
  BY DEF RateInv
<1>2. /\ lane \in Seq(Arrival) /\ NoRepeat(lane) /\ InQueue(lane, a) /\ rated[a] # "passed"
      /\ clock \in Nat /\ seen[a] \in Nat /\ seen[a] <= clock
  BY <1>0 DEF RateTypeOK, InLane, GetsLock, Wakes
<1>3. lane # <<>> /\ Len(lane) \in Nat
  BY <1>2, EmptySeq DEF InQueue
<1>4. lane[1] = a
  <2>1. CASE GetsLock(a)
    BY <1>2, <1>3, <2>1 DEF GetsLock
  <2>2. CASE Wakes(a)
    BY <1>0, <1>2, <2>2 DEF Wakes, InQueue, InLane
  <2> QED BY <2>1, <2>2
<1>5. PICK now \in {seen[a], clock} :
        Try(a, now, lane) /\ (now = clock \/ JustPassed(ord)) /\ UNCHANGED <<strategy, clock>>
  <2>1. CASE GetsLock(a)
    <3>1. FirstWaits
      BY <1>3, <1>4, <2>1 DEF FirstWaits, GetsLock
    <3> QED BY <1>1, <2>1, <3>1 DEF GetsLock
  <2>2. CASE Wakes(a)
    BY <2>2 DEF Wakes
  <2> QED BY <2>1, <2>2
<1>6. strategy # "discard" /\ \A i \in 1..Len(lane) : i # 1 => rated[lane[i]] = "waits"
  BY <1>0, <1>3 DEF InLane
<1>7. now \in Nat /\ now <= clock /\ \A b \in Arrival : InQueue(lane, b) <=> InQueue(lane, b) \/ b = a
  BY <1>2
<1> QED BY <1>0, <1>1, <1>2, <1>3, <1>4, <1>5, <1>6, <1>7, TryKeeps

LEMMA RateTickKeeps ==
  ASSUME RateInv, RateTick
  PROVE  RateInv'
<1>0. RateTypeOK /\ InLane
  BY DEF RateInv
<1>1. PICK ord \in Seq(Arrival) : Passing(ord)
  BY DEF RateInv
<1>2. clock \in Nat /\ clock' = clock + 1 /\ UNCHANGED <<strategy, stamps, lane, rated, seen, wake, passes>>
  BY <1>0 DEF RateTick, RateTypeOK
<1>3. RateTypeOK' /\ InLane'
  BY <1>0, <1>2 DEF RateTypeOK, InLane
<1>4. Passing(ord)'
  <2>1. stamps \in Seq(Nat)
    BY <1>0 DEF RateTypeOK
  <2> QED BY <1>0, <1>1, <1>2, <2>1, NobodyPasses DEF Passing
<1>5. ~FirstWaits
  <2>1. lane # <<>> => lane[1] \in Arrival
    BY <1>0, EmptySeq DEF RateTypeOK
  <2> QED BY <2>1 DEF RateTick, CanRun, FirstWaits
<1> QED BY <1>2, <1>3, <1>4, <1>5 DEF RateInv, FirstWaits

LEMMA RateKept == RateInv /\ [RateNext]_rateVars => RateInv'
<1> SUFFICES ASSUME RateInv, [RateNext]_rateVars PROVE RateInv'
  OBVIOUS
<1>1. CASE UNCHANGED rateVars
  <2>1. RateTypeOK' /\ InLane' /\ (FirstWaits' <=> FirstWaits)
    BY <1>1 DEF RateInv, RateTypeOK, InLane, FirstWaits, rateVars
  <2>2. PICK ord \in Seq(Arrival) : Passing(ord) /\ (FirstWaits => JustPassed(ord))
    BY DEF RateInv
  <2>3. Passing(ord)' /\ (JustPassed(ord) => JustPassed(ord)')
    BY <1>1, <2>2 DEF JustPassed, Right, Passing, Ordered, Stamped, Spaced, rateVars
  <2> QED BY <2>1, <2>2, <2>3 DEF RateInv
<1> QED BY <1>1, EnterKeeps, HolderKeeps, RateTickKeeps DEF RateNext

LEMMA RateInvariance == RateSpec => []RateInv
  BY RateInitially, RateKept, PTL DEF RateSpec

-------------------------------------------------------------------------------
(* The theorems.                                                           *)

\* The stamps never outnumber the limit, and a sleep ends at a time not before now
\* (rate_limit_check/stage.py).
THEOREM RateTypeCorrect == RateSpec => []RateTypeOK
<1>1. RateInv => RateTypeOK
  BY DEF RateInv
<1> QED BY <1>1, RateInvariance, PTL

\* Messages Limit places apart are more than a window apart: so those of one window are
\* among Limit neighbours.
LEMMA RateInvWithin == RateInv => WithinRate
<1> SUFFICES ASSUME RateInv, NEW a \in Arrival, rated[a] = "passed"
             PROVE  Cardinality({ b \in Arrival : rated[b] = "passed"
                                    /\ passes[b] \in passes[a]..(passes[a] + Window) }) <= Limit
  BY DEF WithinRate
<1> DEFINE B == { b \in Arrival : rated[b] = "passed" /\ passes[b] \in passes[a]..(passes[a] + Window) }
<1>1. PICK ord \in Seq(Arrival) : Passing(ord)
  BY DEF RateInv
<1> DEFINE P == { i \in 1..Len(ord) : ord[i] \in B }
<1>2. /\ Len(ord) \in Nat /\ Limit \in Nat \ {0} /\ Window \in Nat
      /\ \A b \in Arrival : passes[b] \in Nat
      /\ \A i \in 1..Len(ord) : ord[i] \in Arrival
  BY RateNumbers DEF RateInv, RateTypeOK
<1>3. \A b \in Arrival : rated[b] = "passed" <=> \E i \in 1..Len(ord) : ord[i] = b
  BY <1>1 DEF Passing, Ordered, InQueue
<1>4. \A b \in B : \E i \in P : ord[i] = b
  BY <1>3
<1>5. a \in B
  BY <1>2
<1>6. P \subseteq Nat /\ P # {} /\ \A i \in P : i \in 1..Len(ord) /\ passes[ord[i]] \in passes[a]..(passes[a] + Window)
  BY <1>4, <1>5
<1> HIDE DEF P
<1>7. PICK lo \in P : \A i \in P : lo <= i
  BY <1>6, LeastOf
<1>8. P \subseteq lo..(lo + (Limit - 1))
  <2> SUFFICES ASSUME NEW i \in P, i > lo + (Limit - 1) PROVE FALSE
    BY <1>2, <1>6, <1>7
  <2>1. lo \in 1..Len(ord) /\ i \in 1..Len(ord) /\ lo + Limit \in 1..Len(ord) /\ lo + Limit <= i
    BY <1>2, <1>6, <1>7
  <2>2. passes[ord[lo]] + Window < passes[ord[lo + Limit]]
    BY <1>1, <2>1 DEF Passing, Spaced
  <2>3. passes[ord[lo + Limit]] <= passes[ord[i]]
    BY <1>1, <2>1 DEF Passing, Ordered
  <2>4. passes[a] <= passes[ord[lo]] /\ passes[ord[i]] <= passes[a] + Window
    BY <1>2, <1>6, <1>7
  <2>5. /\ passes[ord[lo]] \in Nat /\ passes[ord[lo + Limit]] \in Nat /\ passes[ord[i]] \in Nat
        /\ passes[a] \in Nat
    BY <1>2, <2>1
  <2>6. ASSUME NEW p \in Nat, NEW q \in Nat, NEW r \in Nat, NEW n \in Nat,
               p + Window < q, q <= r, n <= p, r <= n + Window
        PROVE  FALSE
    BY <1>2, <2>6
  <2> QED BY <2>2, <2>3, <2>4, <2>5, <2>6
<1>9. IsFiniteSet(P) /\ Cardinality(P) <= Limit
  <2>1. lo \in Int /\ lo + (Limit - 1) \in Int
    BY <1>2, <1>6, <1>7
  <2>2. /\ IsFiniteSet(lo..(lo + (Limit - 1)))
        /\ Cardinality(lo..(lo + (Limit - 1))) = Limit
    BY <1>2, <2>1, FS_Interval
  <2> QED BY <1>8, <2>2, FS_Subset
<1> DEFINE f == [i \in P |-> ord[i]]
<1>10. f \in Surjection(P, B)
  <2>1. \A i \in P : ord[i] \in B
    BY DEF P
  <2> HIDE DEF B
  <2>2. f \in [P -> B]
    BY <2>1
  <2>3. \A b \in B : \E i \in P : f[i] = b
    BY <1>4
  <2> QED BY <2>2, <2>3 DEF Surjection
<1>11. Cardinality(B) <= Cardinality(P)
  BY <1>9, <1>10, FS_Surjection
<1>12. Cardinality(P) \in Nat /\ Cardinality(B) \in Nat
  BY <1>9, <1>10, FS_Surjection, FS_CardinalityType
<1> QED BY <1>2, <1>9, <1>11, <1>12

\* No more than Limit messages pass within a window, although who stood in line is stamped
\* with the time of its arrival (rate_limit_check/stage.py, RateLimitStage.process).
THEOREM Rated == RateSpec => []WithinRate
  BY RateInvariance, RateInvWithin, PTL

-------------------------------------------------------------------------------
(***************************************************************************)
(* The composition.                                                        *)
(***************************************************************************)

\* The components share no state: each keeps its invariant whichever of them moves.
SafetyInv == CardsInv /\ WaiterInv /\ CronInv /\ RateInv

LEMMA SafetyInvariance == SafetySpec => []SafetyInv
<1>1. SafetyInit => SafetyInv
  BY CardsInitially, WaiterInitially, CronInitially, RateInitially DEF SafetyInit, SafetyInv
<1>2. SafetyInv /\ [SafetyNext]_safetyVars => SafetyInv'
  <2> SUFFICES ASSUME SafetyInv, [SafetyNext]_safetyVars PROVE SafetyInv'
    OBVIOUS
  <2>1. [Next]_vars /\ [WaiterNext]_waiterVars /\ [CronNext]_cronVars /\ [RateNext]_rateVars
    BY DEF SafetyNext, CardsStep, WaiterStep, CronStep, RateStep, safetyVars
  <2> QED BY <2>1, CardsKept, WaiterKept, CronKept, RateKept DEF SafetyInv
<1> QED BY <1>1, <1>2, PTL DEF SafetySpec

\* The component that moves keeps its types, and the others theirs.
THEOREM SafetyTypeCorrect == SafetySpec => []SafetyTypeOK
<1>1. SafetyInv => SafetyTypeOK
  BY DEF SafetyInv, SafetyTypeOK, CardsInv, WaiterInv, CronInv, RateInv
<1> QED BY <1>1, SafetyInvariance, PTL

===============================================================================
