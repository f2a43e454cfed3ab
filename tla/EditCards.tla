------------------------------- MODULE EditCards -------------------------------
(***************************************************************************)
(* Editing a vacancy in the job bot (modules/job-bot/handlers/job.py, from *)
(* edit_vacancy on): a card offers the fields, a text becomes a draft in   *)
(* the user's FSM data, a prompt shows it with a button to save it, and    *)
(* the button writes whatever draft and vacancy the FSM data hold by then. *)
(*                                                                         *)
(* One user, who owns the vacancies: users share no state here, and a card *)
(* is only ever sent to the owner.  Handlers suspend at their database     *)
(* calls and overlap.                                                      *)
(***************************************************************************)
EXTENDS Naturals, Sequences, FiniteSets

CONSTANTS
  Vacancy,      \* the user's vacancies
  Field,        \* the fields an edit card offers
  Text,         \* what the user may type or pick
  MaxHandlers,  \* bound: suspended handlers at any time
  MaxPrompts    \* bound: different prompts sent

ASSUME EditCardsAssumption ==
  /\ Field \subseteq {"title", "salary", "schedule", "description", "contacts"}
  /\ "salary" \in Field
  /\ "noId" \notin Vacancy /\ {"NULL", "initial"} \cap Text = {}
  /\ MaxHandlers \in Nat \ {0}
  /\ MaxPrompts \in Nat

VARIABLES
  state,    \* FSM state: <<"none">>, <<"waiting", field>> or <<"confirm", field>>
  editId,   \* edit_vacancy_id of the FSM data
  draft,    \* new_<column> of the FSM data
  row,      \* job_vacancies: the text each column of each vacancy comes from
  shown,    \* the prompts the user has seen: <<vacancy, field, text>>
  unsent,   \* history: prompts whose draft was stored before they arrived, if ever
  strayed,  \* history: vacancies whose card met a draft given under another card
  task,     \* the handlers under way, by slot
  torn      \* history: vacancies two saves overlapped on, or one died in

context == <<state, editId, draft>>
prompts == <<shown, unsent>>
vars    == <<context, row, prompts, strayed, task, torn>>

Slot   == 1..MaxHandlers
Null   == "NULL"      \* Python's None
Before == "initial"   \* what a column holds before the first edit
NoId   == "noId"
Idle   == <<"none">>
NoTask == [kind |-> "none"]

\* The salary fills two columns, each written by an update of its own.
Columns(f) == IF f = "salary" THEN <<"salary_min", "salary_max">> ELSE <<f>>
ColumnSet(f) == { Columns(f)[i] : i \in 1..Len(Columns(f)) }
Column == UNION { ColumnSet(f) : f \in Field }

\* The columns a save has still to write.
Rests(f) == IF f = "salary" THEN {Columns(f), <<"salary_max">>, <<>>} ELSE {Columns(f), <<>>}

Asking      == [kind : {"ask"}, vacancy : Vacancy, field : Field]
Prompting   == [kind : {"prompt", "send"}, vacancy : Vacancy, field : Field, text : Text]
SavingOf(f) == [kind : {"save"}, vacancy : Vacancy, field : {f},
                values : [ColumnSet(f) -> Text \cup {Null}], todo : Rests(f)]
Handler     == {NoTask} \cup Asking \cup Prompting \cup UNION { SavingOf(f) : f \in Field }

FsmState == {Idle} \cup { <<s, f>> : s \in {"waiting", "confirm"}, f \in Field }

TypeOK ==
  /\ state \in FsmState
  /\ editId \in Vacancy \cup {NoId}
  /\ draft \in [Column -> Text \cup {Null}]
  /\ row \in [Vacancy -> [Column -> Text \cup {Before, Null}]]
  /\ shown \subseteq Vacancy \X Field \X Text
  /\ unsent \subseteq Vacancy \X Field \X Text
  /\ strayed \subseteq Vacancy
  /\ torn \subseteq Vacancy
  /\ task \in [Slot -> Handler]

Init ==
  /\ state = Idle
  /\ editId = NoId
  /\ draft = [c \in Column |-> Null]
  /\ row = [v \in Vacancy |-> [c \in Column |-> Before]]
  /\ shown = {} /\ unsent = {} /\ strayed = {}
  /\ task = [k \in Slot |-> NoTask]
  /\ torn = {}

-------------------------------------------------------------------------------

\* Mutant: the data keep the key, with no vacancy in it.
ClearIdToNull == /\ state' = Idle
                 /\ editId' = Null
                 /\ draft' = [c \in Column |-> Null]

\* state.clear()
Clear == /\ state' = Idle
         /\ editId' = NoId
         /\ draft' = [c \in Column |-> Null]

Begin(k, t) == /\ task[k] = NoTask
               /\ \A j \in Slot : j < k => task[j] # NoTask
               /\ task' = [task EXCEPT ![k] = t]

Done(k) == task' = [task EXCEPT ![k] = NoTask]

Saving(k, v) == task[k].kind = "save" /\ task[k].vacancy = v

\* Another save of this vacancy is under way.
Overlap(v) == IF \E k \in Slot : Saving(k, v) THEN {v} ELSE {}

\* Mutant: a confirm handler copied from the schedule's, which reads its key.
DraftOfSchedule(f) == [c \in ColumnSet(f) |-> draft["schedule"]]

\* data.get("new_...") of the columns of a field.
DraftOf(f) == [c \in ColumnSet(f) |-> draft[c]]

Save(v, f, values) ==
  [kind |-> "save", vacancy |-> v, field |-> f, values |-> values, todo |-> Columns(f)]

\* A card of v is opened over a draft that was given under another one.
Strays(v) == IF v # editId /\ \E c \in Column : draft[c] # Null THEN {v} ELSE {}

-------------------------------------------------------------------------------
(* Cards and drafts.                                                       *)

\* "edit_vacancy:<id>": the card is shown; state and drafts are kept.
OpenCard(v) ==
  /\ editId' = v
  /\ strayed' = strayed \cup Strays(v)
  /\ UNCHANGED <<state, draft, row, prompts, task, torn>>

\* "edit_contacts:<id>", the handler registered first: it reads no row.
AskContacts(v) ==
  /\ "contacts" \in Field
  /\ editId' = v
  /\ state' = <<"waiting", "contacts">>
  /\ strayed' = strayed \cup Strays(v)
  /\ UNCHANGED <<draft, row, prompts, task, torn>>

\* "edit_<field>:<id>" of the other fields: the row is read first ...
PressField(v, f, k) ==
  /\ f # "contacts"
  /\ Begin(k, [kind |-> "ask", vacancy |-> v, field |-> f])
  /\ UNCHANGED <<context, row, prompts, strayed, torn>>

\* Mutant: the state is set, the vacancy is not.
AskStateOnly(k) ==
  /\ task[k].kind = "ask"
  /\ state' = <<"waiting", task[k].field>>
  /\ Done(k)
  /\ UNCHANGED <<editId, draft, row, prompts, strayed, torn>>

\* ... then the vacancy and the state are set, whatever they are by now.
AskField(k) ==
  /\ task[k].kind = "ask"
  /\ editId' = task[k].vacancy
  /\ state' = <<"waiting", task[k].field>>
  /\ strayed' = strayed \cup Strays(task[k].vacancy)
  /\ Done(k)
  /\ UNCHANGED <<draft, row, prompts, torn>>

\* The new value is typed, or picked from the schedules: the id is taken from
\* the FSM data, the row is read ...
GiveValue(f, x, k) ==
  /\ state = <<"waiting", f>>
  /\ editId # NoId
  /\ Cardinality(shown \cup unsent) < MaxPrompts
  /\ Begin(k, [kind |-> "prompt", vacancy |-> editId, field |-> f, text |-> x])
  /\ UNCHANGED <<context, row, prompts, strayed, torn>>

\* ... then draft and state are stored, whatever card is open by now, and the
\* prompt "becomes ... save?" is on its way ...
StoreDraft(k) ==
  LET t == task[k] IN
  /\ t.kind = "prompt"
  /\ draft' = [c \in Column |-> IF c \in ColumnSet(t.field) THEN t.text ELSE draft[c]]
  /\ state' = <<"confirm", t.field>>
  /\ unsent' = unsent \cup {<<t.vacancy, t.field, t.text>>}
  /\ strayed' = strayed \cup ({editId} \ {t.vacancy, NoId})
  /\ task' = [task EXCEPT ![k].kind = "send"]
  /\ UNCHANGED <<editId, row, shown, torn>>

\* ... and arrives, with the button that saves.
ShowPrompt(k) ==
  LET p == <<task[k].vacancy, task[k].field, task[k].text>> IN
  /\ task[k].kind = "send"
  /\ shown' = shown \cup {p}
  /\ unsent' = unsent \ {p}
  /\ Done(k)
  /\ UNCHANGED <<context, row, strayed, torn>>

\* A schedule that is typed instead of picked is saved without a prompt.
TypeSchedule(x, k) ==
  /\ state = <<"waiting", "schedule">>
  /\ editId # NoId
  /\ Begin(k, Save(editId, "schedule", [c \in ColumnSet("schedule") |-> x]))
  /\ torn' = torn \cup Overlap(editId)
  /\ UNCHANGED <<context, row, prompts, strayed>>

-------------------------------------------------------------------------------
(* Saving and leaving.                                                     *)

\* "Save" under any prompt of the field that was ever sent: the vacancy and the
\* draft are those of the FSM data, not those of the prompt.
Confirm(f, k) ==
  /\ \E p \in shown : p[2] = f
  /\ editId # NoId
  /\ Begin(k, Save(editId, f, DraftOf(f)))
  /\ torn' = torn \cup Overlap(editId)
  /\ UNCHANGED <<context, row, prompts, strayed>>

\* "Save" when the FSM data hold no vacancy, "cancel" under a prompt, and every
\* menu button, which are registered before the edit states.
Leave ==
  /\ Clear
  /\ UNCHANGED <<row, prompts, strayed, task, torn>>

\* Mutant: the draft is read from the FSM data again before each update.
WriteCurrentDraft(k) ==
  LET t == task[k]
      c == Head(t.todo) IN
  /\ t.kind = "save"
  /\ t.todo # <<>>
  /\ row' = [row EXCEPT ![t.vacancy][c] = draft[c]]
  /\ task' = [task EXCEPT ![k].todo = Tail(@)]
  /\ UNCHANGED <<context, prompts, strayed, torn>>

\* repo.update_vacancy_field: the next column of the save.
WriteColumn(k) ==
  LET t == task[k]
      c == Head(t.todo) IN
  /\ t.kind = "save"
  /\ t.todo # <<>>
  /\ row' = [row EXCEPT ![t.vacancy][c] = t.values[c]]
  /\ task' = [task EXCEPT ![k].todo = Tail(@)]
  /\ UNCHANGED <<context, prompts, strayed, torn>>

\* The row is read for the new card; state.clear(), whatever was begun meanwhile.
FinishSave(k) ==
  /\ task[k].kind = "save"
  /\ task[k].todo = <<>>
  /\ Clear
  /\ Done(k)
  /\ UNCHANGED <<row, prompts, strayed, torn>>

\* A database call or the sending of a prompt raises; nothing is caught or undone.
Break(k) ==
  /\ task[k] # NoTask
  /\ Done(k)
  /\ torn' = IF task[k].kind = "save" THEN torn \cup {task[k].vacancy} ELSE torn
  /\ UNCHANGED <<context, row, prompts, strayed>>

\* The process restarts: FSM data and handlers are gone, prompts and rows stay.
Restart ==
  /\ Clear
  /\ task' = [k \in Slot |-> NoTask]
  /\ torn' = torn \cup { v \in Vacancy : \E k \in Slot : Saving(k, v) }
  /\ UNCHANGED <<row, prompts, strayed>>

Next ==
  \/ \E v \in Vacancy : OpenCard(v) \/ AskContacts(v)
  \/ \E k \in Slot :
       \/ \E v \in Vacancy, f \in Field : PressField(v, f, k)
       \/ \E f \in Field, x \in Text : GiveValue(f, x, k)
       \/ \E x \in Text : TypeSchedule(x, k)
       \/ \E f \in Field : Confirm(f, k)
       \/ AskField(k) \/ StoreDraft(k) \/ ShowPrompt(k)
       \/ WriteColumn(k) \/ FinishSave(k) \/ Break(k)
  \/ Leave
  \/ Restart

Spec == Init /\ [][Next]_vars

-------------------------------------------------------------------------------
(* Properties.                                                             *)

\* The state is never ahead of its data: while a value is awaited its vacancy is
\* known, and while a save is awaited its draft is, although handlers set and
\* clear the context late (so the "not found" branches of save_vacancy_* are
\* dead code).
StateHasItsData ==
  /\ state[1] = "waiting" => editId # NoId
  /\ state[1] = "confirm" => \A c \in ColumnSet(state[2]) : draft[c] # Null

\* The two columns of a salary come from one text: a salary is torn only by two
\* saves of one vacancy that overlapped, or by a save that died half-way.
SalaryWhole ==
  \A v \in Vacancy :
    \/ v \in torn
    \/ \E k \in Slot : Saving(k, v)
    \/ row[v]["salary_min"] = row[v]["salary_max"]

\* Although a save button carries neither vacancy nor text (job.py 3979-4015), a
\* column holds only a text that was shown as what this vacancy becomes, but for
\* two ways: the text's own prompt was not there yet when the button of an older
\* one was pressed (or never came), or the vacancy's card met a draft that was
\* given under another card.  Schedules are excepted, since they can be typed.
SavedWasShown ==
  \A v \in Vacancy, f \in Field \ {"schedule"} : \A c \in ColumnSet(f) :
    row[v][c] \in Text =>
      \/ v \in strayed
      \/ <<v, f, row[v][c]>> \in shown \cup unsent

\* "Was ... Becomes ... Save the changes?" (job.py 3578-3589): what a save writes
\* to a vacancy has been shown as what this vacancy becomes.
PromptHonoured ==
  \A k \in Slot : task[k].kind = "save" /\ task[k].field # "schedule" =>
    \A c \in ColumnSet(task[k].field) :
      <<task[k].vacancy, task[k].field, task[k].values[c]>> \in shown
===============================================================================
