--------------------------------- MODULE Forms ---------------------------------
(***************************************************************************)
(* The forms of the job bot (modules/job-bot/handlers/job.py): the finite- *)
(* state context aiogram keeps for every user (a state and a dictionary,   *)
(* in memory), the vacancy, company and seeker forms that fill it, and the *)
(* rows they write.                                                        *)
(*                                                                         *)
(* aiogram gives an update to the first handler, in order of registration, *)
(* whose filters accept it, and runs the handlers of different updates     *)
(* concurrently.  A question is answered without suspending; the handlers  *)
(* that call the database are split at those calls, and a `task` is one of *)
(* them under way.  Of an answer only its key is kept.                     *)
(***************************************************************************)
EXTENDS Naturals, Sequences

CONSTANTS
  User,          \* Telegram users
  MaxHandlers,   \* bound: suspended handlers at any time
  MaxVacancies,  \* bound: rows of job_vacancies
  MaxCompanies   \* bound: rows of companies, per owner

ASSUME FormsAssumption == {MaxHandlers, MaxVacancies, MaxCompanies} \subseteq Nat \ {0}

VARIABLES
  state,      \* FSM state of each user
  data,       \* the keys of each user's FSM data
  companies,  \* companies: the number of rows of each owner
  seekers,    \* job_seekers: the users that have a row
  vacancies,  \* job_vacancies: the owners of its rows, in order of creation
  moderated,  \* the vacancies the moderators' chat has been shown
  abandoned,  \* history: the vacancies whose handler died half-way
  task        \* the handlers under way, by slot

context == <<state, data>>
rows    == <<companies, seekers, vacancies>>
vars    == <<context, rows, moderated, abandoned, task>>

Slot    == 1..MaxHandlers
NoState == "none"
NoTask  == [kind |-> "none", at |-> "none", row |-> 0]

-------------------------------------------------------------------------------
(* The questions of each form: the state in which one is asked, the keys its
   answer fills, and the state it leads to.                                *)

Question(s, keys, next) == [at |-> s, keys |-> keys, next |-> next]

\* Mutant: the contacts lead to a state of the form that no handler serves.
VacancyQuestionsToBenefits == {
  Question("VacancyForm.title", {"title"}, "VacancyForm.sphere"),
  Question("VacancyForm.contacts", {"contacts"}, "VacancyForm.benefits") }

VacancyQuestions == {
  Question("VacancyForm.title", {"title"}, "VacancyForm.sphere"),
  Question("VacancyForm.sphere", {"sphere"}, "VacancyForm.schedule"),
  Question("VacancyForm.schedule", {"schedule"}, "VacancyForm.salary"),
  Question("VacancyForm.salary", {"salary_min", "salary_max"}, "VacancyForm.location"),
  Question("VacancyForm.location", {"location"}, "VacancyForm.contacts"),
  Question("VacancyForm.contacts", {"contacts"}, "VacancyForm.description") }

CompanyQuestions == {
  Question("CompanyForm.intro", {}, "CompanyForm.name"),
  Question("CompanyForm.name", {"name"}, "CompanyForm.industry"),
  Question("CompanyForm.industry", {"industry"}, "CompanyForm.hiring_keywords"),
  Question("CompanyForm.hiring_keywords", {"hiring_keywords"}, "CompanyForm.city"),
  Question("CompanyForm.city", {"city"}, "CompanyForm.contacts"),
  Question("CompanyForm.contacts", {"contacts"}, "CompanyForm.description") }

\* Who the seeker is.
SeekerQuestions == {
  Question("SeekerForm.intro", {}, "SeekerForm.full_name"),
  Question("SeekerForm.full_name", {"full_name"}, "SeekerForm.age"),
  Question("SeekerForm.age", {"age"}, "SeekerForm.phone"),
  Question("SeekerForm.phone", {"phone"}, "SeekerForm.desired_positions"),
  Question("SeekerForm.desired_positions", {"desired_positions"}, "SeekerForm.skills"),
  Question("SeekerForm.skills", {"skills"}, "SeekerForm.salary") }

\* What the seeker looks for; asked in the order the states lead to each other.
SeekerWishes == {
  Question("SeekerForm.salary", {"salary_min", "salary_max"}, "SeekerForm.schedule"),
  Question("SeekerForm.schedule", {"schedule"}, "SeekerForm.rotation_work"),
  Question("SeekerForm.rotation_work", {"rotation_work"}, "SeekerForm.driver_license"),
  Question("SeekerForm.driver_license", {"driver_license"}, "SeekerForm.city"),
  Question("SeekerForm.city", {"city"}, "SeekerForm.about"),
  Question("SeekerForm.about", {"about"}, "SeekerForm.contacts") }

Questions == VacancyQuestions \cup CompanyQuestions \cup SeekerQuestions \cup SeekerWishes

Asked(questions) == { q.at : q \in questions }
Filled(questions) == UNION { q.keys : q \in questions }

SeekerStates  == Asked(SeekerQuestions \cup SeekerWishes) \cup {"SeekerForm.contacts"}
CompanyStates == Asked(CompanyQuestions) \cup {"CompanyForm.description"}
VacancyStates == Asked(VacancyQuestions) \cup {"VacancyForm.description"}
StateName     == {NoState} \cup SeekerStates \cup CompanyStates \cup VacancyStates

\* The states whose handler takes any text and is registered before the menu's:
\* a menu button pressed there is read as the answer.  SeekerForm.intro accepts
\* one text only; sphere and schedule are answered by inline buttons.
Swallows ==
  (SeekerStates \ {"SeekerForm.intro"}) \cup CompanyStates
    \cup (VacancyStates \ {"VacancyForm.sphere", "VacancyForm.schedule"})

\* The keys vacancy_description reads without a default.
Required == {"company_name"} \cup Filled(VacancyQuestions)

Key == {"company_name", "company_id"} \cup Filled(Questions)

-------------------------------------------------------------------------------
(* The FSM context and the handlers under way.                             *)

Context(u, s, d) == /\ state' = [state EXCEPT ![u] = s]
                    /\ data' = [data EXCEPT ![u] = d]

\* Mutant: the dictionary is cleared and the state is kept.
ClearDataOnly(u) == Context(u, state[u], {})

\* state.clear()
Clear(u) == Context(u, NoState, {})

\* Slots only tell the handlers apart: a new one takes the first that is free.
Begin(k, t) == /\ task[k] = NoTask
               /\ \A j \in Slot : j < k => task[j] # NoTask
               /\ task' = [task EXCEPT ![k] = t]

\* The handler goes on to its next database or Telegram call.
GoOn(k, at) == task' = [task EXCEPT ![k].at = at]

Done(k) == task' = [task EXCEPT ![k] = NoTask]

At(k, kind, at) == task[k].kind = kind /\ task[k].at = at

\* `given` is the data a handler has read and will use, `row` the vacancy it
\* has created, 0 before.
Handler(kind, at, u, given) ==
  [kind |-> kind, at |-> at, user |-> u, given |-> given, row |-> 0]

RowsOf(k) == {task[k].row} \ {0}

Init ==
  /\ state = [u \in User |-> NoState]
  /\ data = [u \in User |-> {}]
  /\ companies \in [User -> {0, 1}]
  /\ seekers = {}
  /\ vacancies = <<>>
  /\ moderated = {}
  /\ abandoned = {}
  /\ task = [k \in Slot |-> NoTask]

-------------------------------------------------------------------------------
(* Handlers that do not suspend.                                           *)

\* A text or a button that the current question accepts (one it refuses is
\* answered with a hint and changes nothing).
Answer(u) ==
  /\ \E q \in Questions :
       q.at = state[u] /\ Context(u, q.next, data[u] \cup q.keys)
  /\ UNCHANGED <<rows, moderated, abandoned, task>>

\* Buttons that leave whatever is under way: the role switch, from any state;
\* the menu, where no question swallows it; four of its buttons while the
\* vacancy's title is asked.
Leave(u) ==
  /\ state[u] # NoState
  /\ Clear(u)
  /\ UNCHANGED <<rows, moderated, abandoned, task>>

\* /vacancy and /start vacancy, from any state: no company is looked up.
CommandVacancy(u) ==
  /\ Context(u, "VacancyForm.title", {})
  /\ UNCHANGED <<rows, moderated, abandoned, task>>

\* /resume, /start resume and the menu's button, from any state.
StartSeeker(u) ==
  /\ Context(u, "SeekerForm.intro", {})
  /\ UNCHANGED <<rows, moderated, abandoned, task>>

\* The button is registered after the seeker form only.
CreateCard(u) ==
  /\ state[u] \notin SeekerStates \ {"SeekerForm.intro"}
  /\ Context(u, "CompanyForm.intro", {})
  /\ UNCHANGED <<rows, moderated, abandoned, task>>

\* "Continue without a card": the data is kept.  While CompanyForm.intro is the
\* state, where the button is offered, company_intro has taken its text.
WithoutCard(u) ==
  /\ state[u] \notin Swallows
  /\ Context(u, "VacancyForm.title", data[u])
  /\ UNCHANGED <<rows, moderated, abandoned, task>>

-------------------------------------------------------------------------------
(* Handlers that suspend.                                                  *)

\* "Publish a vacancy": clears, then looks the company up.
PressPublish(u, k) ==
  /\ state[u] \notin Swallows
  /\ Clear(u)
  /\ Begin(k, Handler("start", "lookup", u, {}))
  /\ UNCHANGED <<rows, moderated, abandoned>>

\* The company's row has been read: the state is set whatever it is by now.
CompanyRead(k) ==
  LET u == task[k].user IN
  /\ At(k, "start", "lookup")
  /\ IF companies[u] > 0
       THEN Context(u, "VacancyForm.title", data[u] \cup {"company_id", "company_name"})
       ELSE Context(u, "CompanyForm.intro", data[u])
  /\ Done(k)
  /\ UNCHANGED <<rows, moderated, abandoned>>

\* The last answer of a form: the data is read, the state stays until the row
\* is written.
SendVacancy(u, k) ==
  /\ state[u] = "VacancyForm.description"
  /\ Begin(k, Handler("vacancy", "create", u, data[u]))
  /\ UNCHANGED <<context, rows, moderated, abandoned>>

SendCompany(u, k) ==
  /\ state[u] = "CompanyForm.description"
  /\ Begin(k, Handler("company", "create", u, {}))
  /\ UNCHANGED <<context, rows, moderated, abandoned>>

SendSeeker(u, k) ==
  /\ state[u] = "SeekerForm.contacts"
  /\ data' = [data EXCEPT ![u] = @ \cup {"contacts"}]
  /\ Begin(k, Handler("seeker", "create", u, {}))
  /\ UNCHANGED <<state, rows, moderated, abandoned>>

\* repo.create_vacancy, after the payload was built without a KeyError.
CreateVacancy(k) ==
  /\ At(k, "vacancy", "create")
  /\ Required \subseteq task[k].given
  /\ Len(vacancies) < MaxVacancies
  /\ vacancies' = Append(vacancies, task[k].user)
  /\ task' = [task EXCEPT ![k].at = "clear", ![k].given = {}, ![k].row = Len(vacancies) + 1]
  /\ UNCHANGED <<context, companies, seekers, moderated, abandoned>>

\* repo.create_company: a plain insert, one more row for an owner who has one.
CreateCompany(k) ==
  /\ At(k, "company", "create")
  /\ companies[task[k].user] < MaxCompanies
  /\ companies' = [companies EXCEPT ![task[k].user] = @ + 1]
  /\ GoOn(k, "clear")
  /\ UNCHANGED <<context, seekers, vacancies, moderated, abandoned>>

\* repo.upsert_seeker
UpsertSeeker(k) ==
  /\ At(k, "seeker", "create")
  /\ seekers' = seekers \cup {task[k].user}
  /\ GoOn(k, "clear")
  /\ UNCHANGED <<context, companies, vacancies, moderated, abandoned>>

\* Mutant: the handler returns once the form is closed.
FinishAtOnce(k) ==
  /\ task[k].at = "clear"
  /\ Clear(task[k].user)
  /\ Done(k)
  /\ UNCHANGED <<rows, moderated, abandoned>>

\* Usage and role are written; state.clear(), whatever the user does by now.
Finish(k) ==
  /\ task[k].at = "clear"
  /\ Clear(task[k].user)
  /\ IF task[k].kind = "vacancy" THEN GoOn(k, "announce") ELSE Done(k)
  /\ UNCHANGED <<rows, moderated, abandoned>>

\* Mutant: the user is told, the moderators are not.
AnnounceToUser(k) ==
  /\ At(k, "vacancy", "announce")
  /\ Done(k)
  /\ UNCHANGED <<context, rows, moderated, abandoned>>

\* The user is told, and the moderators' chat is shown the vacancy.
Announce(k) ==
  /\ At(k, "vacancy", "announce")
  /\ moderated' = moderated \cup {task[k].row}
  /\ Done(k)
  /\ UNCHANGED <<context, rows, abandoned>>

\* A key is missing, or a database or Telegram call raises: the handler ends
\* there (answering with an error, if it catches it) and undoes nothing.
Break(k) ==
  /\ task[k] # NoTask
  /\ abandoned' = abandoned \cup RowsOf(k)
  /\ Done(k)
  /\ UNCHANGED <<context, rows, moderated>>

\* The process restarts: the FSM storage and the handlers are gone.
Restart ==
  /\ state' = [u \in User |-> NoState]
  /\ data' = [u \in User |-> {}]
  /\ abandoned' = abandoned \cup UNION { RowsOf(k) : k \in Slot }
  /\ task' = [k \in Slot |-> NoTask]
  /\ UNCHANGED <<rows, moderated>>

Work(k) == \/ CompanyRead(k)
           \/ CreateVacancy(k) \/ CreateCompany(k) \/ UpsertSeeker(k)
           \/ Finish(k) \/ Announce(k)

Next ==
  \/ \E u \in User : \/ Answer(u) \/ Leave(u)
                      \/ CommandVacancy(u) \/ StartSeeker(u)
                      \/ CreateCard(u) \/ WithoutCard(u)
  \/ \E u \in User, k \in Slot : \/ PressPublish(u, k) \/ SendVacancy(u, k)
                                 \/ SendCompany(u, k) \/ SendSeeker(u, k)
  \/ \E k \in Slot : Work(k) \/ Break(k)
  \/ Restart

Spec == Init /\ [][Next]_vars

\* A database or Telegram call returns or raises.
FairSpec == Spec /\ \A k \in Slot : WF_vars(Work(k) \/ Break(k))

-------------------------------------------------------------------------------
(* Properties.                                                             *)

\* The handlers there may be when there are n vacancies.
Handlers(n) == [kind : {"start", "vacancy", "company", "seeker"},
                at : {"lookup", "create", "clear", "announce"},
                user : User, given : SUBSET Key, row : 0..n]

TypeOK ==
  /\ state \in [User -> StateName]
  /\ data \in [User -> SUBSET Key]
  /\ companies \in [User -> 0..MaxCompanies]
  /\ seekers \subseteq User
  /\ vacancies \in Seq(User)
  /\ moderated \subseteq 1..Len(vacancies)
  /\ abandoned \subseteq 1..Len(vacancies)
  /\ task \in [Slot -> {NoTask} \cup Handlers(Len(vacancies))]

\* The keys of the questions that precede state s in its form.
Before[s \in StateName] ==
  UNION { q.keys \cup Before[q.at] : q \in { p \in Questions : p.next = s } }

\* A question is asked only when all that precede it in its form are answered,
\* although handlers of earlier updates set and clear the state late.  So a
\* form's last handler finds every key it reads, but for the company's.
FormInOrder == \A u \in User : Before[state[u]] \subseteq data[u]

\* A vacancy that exists is shown to the moderators, or its handler is still
\* under way, or that handler died of an error or a restart: job.py 1655-1687.
VacancyReachesModerators ==
  \A v \in 1..Len(vacancies) :
    \/ v \in moderated \cup abandoned
    \/ \E k \in Slot : v \in RowsOf(k)

\* ... and in the end it is one or the other.
VacancyDecided ==
  \A v \in 1..MaxVacancies : Len(vacancies) >= v ~> v \in moderated \cup abandoned

\* "The company card is not required.  You can publish vacancies without it"
\* (job.py 2818-2819): a vacancy that is sent can be created.
CompanyCardOptional ==
  \A k \in Slot : At(k, "vacancy", "create") => Required \subseteq task[k].given
===============================================================================
