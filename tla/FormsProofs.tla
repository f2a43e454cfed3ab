------------------------------ MODULE FormsProofs ------------------------------
(***************************************************************************)
(* Forms are filled in order and no vacancy is lost, for any users,        *)
(* overlapping handlers, errors and restarts.                              *)
(***************************************************************************)
EXTENDS Forms, TLAPS

-------------------------------------------------------------------------------
(* The questions.                                                          *)

\* The place of a state in its form.
Form(s) ==
  IF s \in VacancyStates THEN "vacancy"
  ELSE IF s \in CompanyStates THEN "company"
  ELSE IF s \in SeekerStates THEN "seeker" ELSE "none"

Rank(s) ==
  CASE s = "VacancyForm.sphere" -> 1
    [] s = "VacancyForm.schedule" -> 2
    [] s = "VacancyForm.salary" -> 3
    [] s = "VacancyForm.location" -> 4
    [] s = "VacancyForm.contacts" -> 5
    [] s = "VacancyForm.description" -> 6
    [] s = "CompanyForm.name" -> 1
    [] s = "CompanyForm.industry" -> 2
    [] s = "CompanyForm.hiring_keywords" -> 3
    [] s = "CompanyForm.city" -> 4
    [] s = "CompanyForm.contacts" -> 5
    [] s = "CompanyForm.description" -> 6
    [] s = "SeekerForm.full_name" -> 1
    [] s = "SeekerForm.age" -> 2
    [] s = "SeekerForm.phone" -> 3
    [] s = "SeekerForm.desired_positions" -> 4
    [] s = "SeekerForm.skills" -> 5
    [] s = "SeekerForm.salary" -> 6
    [] s = "SeekerForm.schedule" -> 7
    [] s = "SeekerForm.rotation_work" -> 8
    [] s = "SeekerForm.driver_license" -> 9
    [] s = "SeekerForm.city" -> 10
    [] s = "SeekerForm.about" -> 11
    [] s = "SeekerForm.contacts" -> 12
    [] OTHER -> 0

\* A question leads to the next place of its form ...
LEMMA QuestionFacts ==
  \A q \in Questions :
    /\ q.at \in StateName /\ q.next \in StateName /\ q.keys \subseteq Key
    /\ Rank(q.at) \in Nat /\ Rank(q.next) = Rank(q.at) + 1
    /\ Form(q.next) = Form(q.at)
<1>1. \A q \in Questions : q.at \in StateName /\ q.next \in StateName
  BY DEF VacancyQuestions, CompanyQuestions, SeekerQuestions, SeekerWishes, Question,
         Questions, StateName, Asked, SeekerStates, VacancyStates, CompanyStates
<1>2. \A q \in Questions : q.keys \subseteq Key
  BY DEF Key, Filled
<1>3. \A q \in Questions : Rank(q.at) \in Nat /\ Rank(q.next) = Rank(q.at) + 1
  BY DEF VacancyQuestions, CompanyQuestions, SeekerQuestions, SeekerWishes, Question,
         Questions, Rank
<1>4. \A q \in Questions : Form(q.next) = Form(q.at)
  BY DEF VacancyQuestions, CompanyQuestions, SeekerQuestions, SeekerWishes, Question,
         Questions, Form, Asked, SeekerStates, VacancyStates, CompanyStates
<1> QED BY <1>1, <1>2, <1>3, <1>4

\* ... no two to the same one ...
LEMMA QuestionsDiffer ==
  \A p, q \in Questions :
    p.next = q.next \/ (Form(p.at) = Form(q.at) /\ Rank(p.at) = Rank(q.at)) => p = q
<1>1. \A p, q \in Questions : p.next = q.next => p = q
  BY DEF VacancyQuestions, CompanyQuestions, SeekerQuestions, SeekerWishes, Question, Questions
<1>2. \A q \in Questions :
        /\ Form(q.at) = "vacancy" => q \in VacancyQuestions
        /\ Form(q.at) = "company" => q \in CompanyQuestions
        /\ Form(q.at) = "seeker" => q \in SeekerQuestions \cup SeekerWishes
        /\ Form(q.at) \in {"vacancy", "company", "seeker"}
  BY DEF VacancyQuestions, CompanyQuestions, SeekerQuestions, SeekerWishes, Question,
         Questions, Form, Asked, SeekerStates, VacancyStates, CompanyStates
<1>3. \A p, q \in VacancyQuestions : Rank(p.at) = Rank(q.at) => p = q
  BY DEF VacancyQuestions, Question, Rank
<1>4. \A p, q \in CompanyQuestions : Rank(p.at) = Rank(q.at) => p = q
  BY DEF CompanyQuestions, Question, Rank
<1>5. \A p, q \in SeekerQuestions \cup SeekerWishes : Rank(p.at) = Rank(q.at) => p = q
  BY DEF SeekerQuestions, SeekerWishes, Question, Rank
<1> QED BY <1>1, <1>2, <1>3, <1>4, <1>5

\* ... and a state to which none leads is the first.
LEMMA FirstStates ==
  \A s \in StateName : (\A q \in Questions : q.next # s) => Rank(s) = 0
  BY DEF VacancyQuestions, CompanyQuestions, SeekerQuestions, SeekerWishes, Question,
         Questions, StateName, NoState, Rank, Asked, SeekerStates, VacancyStates, CompanyStates

\* The equation that defines Before has a solution: what the earlier places fill.
Defines(f) ==
  f = [s \in StateName |->
         UNION { q.keys \cup f[q.at] : q \in { p \in Questions : p.next = s } }]

LEMMA BeforeDefined == Defines(Before)
<1> DEFINE Precedes(q, s) == Form(q.at) = Form(s) /\ Rank(q.at) < Rank(s)
           F == [s \in StateName |-> UNION { q.keys : q \in { p \in Questions : Precedes(p, s) } }]
<1>1. ASSUME NEW s \in StateName
      PROVE  F[s] = UNION { q.keys \cup F[q.at] : q \in { p \in Questions : p.next = s } }
  <2>1. CASE \A q \in Questions : q.next # s
    <3>1. Rank(s) = 0
      BY <2>1, FirstStates
    <3>2. \A q \in Questions : ~Precedes(q, s)
      BY <3>1, QuestionFacts
    <3> QED BY <3>2, <2>1
  <2>2. ASSUME NEW q \in Questions, q.next = s
        PROVE  F[s] = UNION { p.keys \cup F[p.at] : p \in { r \in Questions : r.next = s } }
    <3>1. { r \in Questions : r.next = s } = {q}
      BY <2>2, QuestionsDiffer
    <3>2. \A r \in Questions : Precedes(r, s) <=> Precedes(r, q.at) \/ r = q
      BY <2>2, QuestionFacts, QuestionsDiffer
    <3>3. F[q.at] = UNION { r.keys : r \in { p \in Questions : Precedes(p, q.at) } }
      BY QuestionFacts
    <3>4. F[s] = q.keys \cup F[q.at]
      BY <3>2, <3>3
    <3> QED BY <3>1, <3>4
  <2> QED BY <2>1, <2>2
<1>2. Defines(F)
  BY <1>1 DEF Defines
<1> QED BY <1>2 DEF Before, Defines

\* What precedes a question, and the first state of a form, and the last of the
\* vacancy's.
LEMMA BeforeFacts ==
  /\ \A q \in Questions : Before[q.next] = q.keys \cup Before[q.at]
  /\ \A s \in {NoState, "VacancyForm.title", "CompanyForm.intro", "SeekerForm.intro"} :
       s \in StateName /\ Before[s] = {}
  /\ Filled(VacancyQuestions) \subseteq Before["VacancyForm.description"]
<1>1. ASSUME NEW s \in StateName
      PROVE  Before[s] = UNION { q.keys \cup Before[q.at] : q \in { p \in Questions : p.next = s } }
  BY BeforeDefined DEF Defines
<1>2. ASSUME NEW q \in Questions PROVE Before[q.next] = q.keys \cup Before[q.at]
  <2>1. { p \in Questions : p.next = q.next } = {q}
    BY QuestionsDiffer
  <2> QED BY <1>1, <2>1, QuestionFacts
<1>3. ASSUME NEW s \in {NoState, "VacancyForm.title", "CompanyForm.intro", "SeekerForm.intro"}
      PROVE  s \in StateName /\ Before[s] = {}
  <2>0. /\ Question("VacancyForm.title", {"title"}, "VacancyForm.sphere") \in Questions
        /\ Question("CompanyForm.intro", {}, "CompanyForm.name") \in Questions
        /\ Question("SeekerForm.intro", {}, "SeekerForm.full_name") \in Questions
    BY DEF Questions, VacancyQuestions, CompanyQuestions, SeekerQuestions
  <2>1. s \in StateName
    <3>1. CASE s = NoState
      BY <3>1 DEF StateName
    <3>2. CASE s # NoState
      BY <2>0, <3>2, QuestionFacts DEF Question
    <3> QED BY <3>1, <3>2
  <2>2. { p \in Questions : p.next = s } = {}
    BY DEF NoState, VacancyQuestions, CompanyQuestions, SeekerQuestions, SeekerWishes,
           Question, Questions
  <2> QED BY <1>1, <2>1, <2>2
<1>4. Filled(VacancyQuestions) \subseteq Before["VacancyForm.description"]
  <2> DEFINE Fills(at, keys, next) == keys \subseteq Before[next] /\ Before[at] \subseteq Before[next]
  <2>1. ASSUME NEW at, NEW keys, NEW next, Question(at, keys, next) \in VacancyQuestions
        PROVE  Fills(at, keys, next)
    <3>1. Question(at, keys, next) \in Questions
      BY <2>1 DEF Questions
    <3> QED BY <3>1, <1>2 DEF Question
  <2>2. /\ Fills("VacancyForm.title", {"title"}, "VacancyForm.sphere")
        /\ Fills("VacancyForm.sphere", {"sphere"}, "VacancyForm.schedule")
        /\ Fills("VacancyForm.schedule", {"schedule"}, "VacancyForm.salary")
        /\ Fills("VacancyForm.salary", {"salary_min", "salary_max"}, "VacancyForm.location")
        /\ Fills("VacancyForm.location", {"location"}, "VacancyForm.contacts")
        /\ Fills("VacancyForm.contacts", {"contacts"}, "VacancyForm.description")
    <3> HIDE DEF Fills
    <3> QED BY <2>1 DEF VacancyQuestions
  <2>3. ASSUME NEW q \in VacancyQuestions, NEW key \in q.keys
        PROVE  key \in {"title", "sphere", "schedule", "salary_min", "salary_max",
                       "location", "contacts"}
    BY <2>3 DEF VacancyQuestions, Question
  <2> QED BY <2>2, <2>3 DEF Filled
<1> QED BY <1>2, <1>3, <1>4

-------------------------------------------------------------------------------
(* The inductive invariant.                                                *)

\* The handlers that have a row are a vacancy's, after it was created.
RowIsVacancys ==
  \A k \in Slot :
    task[k].row # 0 <=> task[k].kind = "vacancy" /\ task[k].at \in {"clear", "announce"}

\* A vacancy's last handler has read every key of the form: what vacancy_description
\* reads without a default is there, but for the company's name.
AnswersComplete ==
  \A k \in Slot : At(k, "vacancy", "create") => Filled(VacancyQuestions) \subseteq task[k].given

\* What holds of the contexts, and of the handlers and rows.
ContextInv == state \in [User -> StateName] /\ data \in [User -> SUBSET Key] /\ FormInOrder
HandlerInv ==
  /\ companies \in [User -> 0..MaxCompanies] /\ seekers \subseteq User
  /\ vacancies \in Seq(User)
  /\ moderated \subseteq 1..Len(vacancies) /\ abandoned \subseteq 1..Len(vacancies)
  /\ task \in [Slot -> {NoTask} \cup Handlers(Len(vacancies))]
  /\ RowIsVacancys /\ AnswersComplete /\ VacancyReachesModerators

IInv == ContextInv /\ HandlerInv

LEMMA SameContext == ContextInv /\ UNCHANGED context => ContextInv'
  BY DEF ContextInv, context, FormInOrder

LEMMA SameHandlers ==
  HandlerInv /\ UNCHANGED <<rows, moderated, abandoned, task>> => HandlerInv'
  BY DEF HandlerInv, rows, RowIsVacancys, AnswersComplete, VacancyReachesModerators, At, RowsOf

-------------------------------------------------------------------------------
(* How steps change a context and the handlers.                            *)

LEMMA ContextStep ==
  ASSUME ContextInv, NEW u \in User, NEW s \in StateName, NEW d \in SUBSET Key,
         Before[s] \subseteq d, Context(u, s, d)
  PROVE  ContextInv'
  BY DEF ContextInv, Context, FormInOrder

LEMMA BlankStates ==
  \A s \in {NoState, "VacancyForm.title", "CompanyForm.intro", "SeekerForm.intro"} :
    s \in StateName /\ \A d : Before[s] \subseteq d
  BY BeforeFacts

LEMMA ClearStep ==
  ASSUME ContextInv, NEW u \in User, Clear(u)
  PROVE  ContextInv'
  BY BlankStates, ContextStep DEF Clear

LEMMA BeginStep ==
  ASSUME HandlerInv, NEW k \in Slot, NEW t \in Handlers(Len(vacancies)), t.row = 0,
         t.at \in {"lookup", "create"},
         t.kind = "vacancy" => Filled(VacancyQuestions) \subseteq t.given,
         Begin(k, t), UNCHANGED <<rows, moderated, abandoned>>
  PROVE  HandlerInv'
<1>1. task' = [task EXCEPT ![k] = t] /\ task[k] = NoTask /\ NoTask.row = 0
  BY DEF Begin, NoTask
<1>2. /\ task' \in [Slot -> {NoTask} \cup Handlers(Len(vacancies))]
      /\ task'[k] = t /\ \A j \in Slot : j # k => task'[j] = task[j]
  BY <1>1 DEF HandlerInv
<1>3. \A j \in Slot : RowsOf(j)' = RowsOf(j)
  BY <1>1, <1>2 DEF RowsOf
<1>4. RowIsVacancys' /\ AnswersComplete'
  BY <1>2 DEF HandlerInv, RowIsVacancys, AnswersComplete, At
<1>5. VacancyReachesModerators'
  BY <1>3 DEF HandlerInv, VacancyReachesModerators, rows
<1> QED BY <1>2, <1>4, <1>5 DEF HandlerInv, rows

LEMMA DoneStep ==
  ASSUME HandlerInv, NEW k \in Slot, Done(k), UNCHANGED rows,
         moderated \subseteq moderated', moderated' \subseteq moderated \cup RowsOf(k),
         abandoned \subseteq abandoned', abandoned' \subseteq abandoned \cup RowsOf(k),
         RowsOf(k) \subseteq moderated' \cup abandoned'
  PROVE  HandlerInv'
<1>1. /\ task' \in [Slot -> {NoTask} \cup Handlers(Len(vacancies))]
      /\ task'[k] = NoTask /\ \A j \in Slot : j # k => task'[j] = task[j]
  BY DEF HandlerInv, Done
<1>2. NoTask.row = 0 /\ NoTask.kind = "none"
  BY DEF NoTask
<1>3. Len(vacancies) \in Nat /\ task[k].row \in 0..Len(vacancies)
  BY <1>2 DEF HandlerInv, Handlers
<1>4. RowIsVacancys' /\ AnswersComplete'
  BY <1>1, <1>2 DEF HandlerInv, RowIsVacancys, AnswersComplete, At
<1>5. VacancyReachesModerators'
  <2>1. \A j \in Slot : j # k => RowsOf(j)' = RowsOf(j)
    BY <1>1 DEF RowsOf
  <2> QED BY <2>1 DEF HandlerInv, VacancyReachesModerators, rows
<1>6. moderated' \subseteq 1..Len(vacancies) /\ abandoned' \subseteq 1..Len(vacancies)
  BY <1>3 DEF HandlerInv, RowsOf
<1> QED BY <1>1, <1>4, <1>5, <1>6 DEF HandlerInv, rows

\* A handler goes on with its row, and is not about to create one.
LEMMA GoOnStep ==
  ASSUME HandlerInv, NEW k \in Slot, task[k] # NoTask, NEW at \in {"clear", "announce"},
         task[k].kind = "vacancy" => task[k].at = "clear",
         GoOn(k, at), companies' \in [User -> 0..MaxCompanies], seekers' \subseteq User,
         UNCHANGED <<vacancies, moderated, abandoned>>
  PROVE  HandlerInv'
<1>1. task[k] \in Handlers(Len(vacancies))
  BY DEF HandlerInv
<1>2. /\ task' = [task EXCEPT ![k] = [task[k] EXCEPT !.at = at]]
      /\ [task[k] EXCEPT !.at = at] \in Handlers(Len(vacancies))
  BY <1>1 DEF GoOn, Handlers
<1>3. /\ task' \in [Slot -> {NoTask} \cup Handlers(Len(vacancies))]
      /\ task'[k].row = task[k].row /\ task'[k].kind = task[k].kind /\ task'[k].at = at
      /\ \A j \in Slot : j # k => task'[j] = task[j]
  BY <1>1, <1>2 DEF HandlerInv, Handlers
<1>4. RowIsVacancys' /\ AnswersComplete'
  BY <1>3 DEF HandlerInv, RowIsVacancys, AnswersComplete, At
<1>5. VacancyReachesModerators'
  <2>1. \A j \in Slot : RowsOf(j)' = RowsOf(j)
    BY <1>3 DEF RowsOf
  <2> QED BY <2>1 DEF HandlerInv, VacancyReachesModerators
<1> QED BY <1>3, <1>4, <1>5 DEF HandlerInv

-------------------------------------------------------------------------------
(* One lemma per action.                                                   *)

LEMMA InitIInv == Init => ContextInv /\ HandlerInv
<1> SUFFICES ASSUME Init PROVE ContextInv /\ HandlerInv
  OBVIOUS
<1>1. NoTask.row = 0 /\ NoTask.kind = "none"
  BY DEF NoTask
<1>2. ContextInv
  BY BlankStates DEF Init, ContextInv, FormInOrder
<1>3. 0 \in 0..MaxCompanies /\ 1 \in 0..MaxCompanies
  BY FormsAssumption
<1>4. HandlerInv
  BY <1>1, <1>3 DEF Init, HandlerInv, RowIsVacancys, AnswersComplete, VacancyReachesModerators, At
<1> QED BY <1>2, <1>4

LEMMA AnswerKeeps ==
  ASSUME ContextInv, HandlerInv, NEW u \in User, Answer(u)
  PROVE  ContextInv' /\ HandlerInv'
<1>1. PICK q \in Questions : q.at = state[u] /\ Context(u, q.next, data[u] \cup q.keys)
  BY DEF Answer
<1>2. q.next \in StateName /\ data[u] \cup q.keys \in SUBSET Key
  BY QuestionFacts DEF ContextInv
<1>3. Before[q.next] \subseteq data[u] \cup q.keys
  BY <1>1, BeforeFacts DEF ContextInv, FormInOrder
<1>4. ContextInv'
  BY <1>1, <1>2, <1>3, ContextStep
<1>5. HandlerInv'
  BY SameHandlers DEF Answer
<1> QED BY <1>4, <1>5

LEMMA LeaveKeeps ==
  ASSUME ContextInv, HandlerInv, NEW u \in User, Leave(u)
  PROVE  ContextInv' /\ HandlerInv'
  BY ClearStep, SameHandlers DEF Leave

LEMMA BeginsAnewKeeps ==
  ASSUME ContextInv, HandlerInv, NEW u \in User, CommandVacancy(u) \/ StartSeeker(u) \/ CreateCard(u) \/ WithoutCard(u)
  PROVE  ContextInv' /\ HandlerInv'
<1>1. {} \in SUBSET Key /\ data[u] \in SUBSET Key
  BY DEF ContextInv
<1>2. ContextInv'
  BY <1>1, BlankStates, ContextStep DEF CommandVacancy, StartSeeker, CreateCard, WithoutCard
<1>3. HandlerInv'
  BY SameHandlers DEF CommandVacancy, StartSeeker, CreateCard, WithoutCard
<1> QED BY <1>2, <1>3

LEMMA PressPublishKeeps ==
  ASSUME ContextInv, HandlerInv, NEW u \in User, NEW k \in Slot, PressPublish(u, k)
  PROVE  ContextInv' /\ HandlerInv'
<1>1. ContextInv'
  BY ClearStep DEF PressPublish
<1>2. HandlerInv'
  <2> DEFINE t == Handler("start", "lookup", u, {})
  <2>1. /\ t \in Handlers(Len(vacancies)) /\ t.row = 0
        /\ t.at = "lookup" /\ t.kind = "start"
    BY DEF Handler, Handlers, HandlerInv
  <2>2. Begin(k, t) /\ UNCHANGED <<rows, moderated, abandoned>>
    BY DEF PressPublish
  <2> HIDE DEF t
  <2> QED BY <2>1, <2>2, BeginStep
<1> QED BY <1>1, <1>2

LEMMA CompanyReadKeeps ==
  ASSUME ContextInv, HandlerInv, NEW k \in Slot, CompanyRead(k)
  PROVE  ContextInv' /\ HandlerInv'
<1>1. task[k] # NoTask /\ task[k].user \in User /\ RowsOf(k) = {}
  BY DEF CompanyRead, At, NoTask, HandlerInv, Handlers, RowIsVacancys, RowsOf
<1>2. data[task[k].user] \in SUBSET Key
      /\ data[task[k].user] \cup {"company_id", "company_name"} \in SUBSET Key
  BY <1>1 DEF ContextInv, Key
<1>3. ContextInv'
  BY <1>1, <1>2, BlankStates, ContextStep DEF CompanyRead
<1>4. HandlerInv'
  BY <1>1, DoneStep DEF CompanyRead
<1> QED BY <1>3, <1>4

LEMMA SendVacancyKeeps ==
  ASSUME ContextInv, HandlerInv, NEW u \in User, NEW k \in Slot, SendVacancy(u, k)
  PROVE  ContextInv' /\ HandlerInv'
<1> DEFINE t == Handler("vacancy", "create", u, data[u])
<1>1. ContextInv /\ HandlerInv /\ ContextInv'
  BY SameContext DEF SendVacancy
<1>2. t \in Handlers(Len(vacancies)) /\ t.row = 0 /\ t.given = data[u] /\ t.at = "create"
  BY <1>1 DEF Handler, Handlers, ContextInv, HandlerInv
<1>3. Filled(VacancyQuestions) \subseteq data[u]
  BY <1>1, BeforeFacts DEF SendVacancy, ContextInv, FormInOrder
<1>4. HandlerInv'
  BY <1>1, <1>2, <1>3, BeginStep DEF SendVacancy
<1> QED BY <1>1, <1>4

LEMMA SendCompanyKeeps ==
  ASSUME ContextInv, HandlerInv, NEW u \in User, NEW k \in Slot, SendCompany(u, k)
  PROVE  ContextInv' /\ HandlerInv'
<1>1. ContextInv'
  BY SameContext DEF SendCompany
<1>2. HandlerInv'
  <2> DEFINE t == Handler("company", "create", u, {})
  <2>1. /\ t \in Handlers(Len(vacancies)) /\ t.row = 0
        /\ t.at = "create" /\ t.kind = "company"
    BY DEF Handler, Handlers, HandlerInv
  <2>2. Begin(k, t) /\ UNCHANGED <<rows, moderated, abandoned>>
    BY DEF SendCompany
  <2> HIDE DEF t
  <2> QED BY <2>1, <2>2, BeginStep
<1> QED BY <1>1, <1>2

LEMMA SendSeekerKeeps ==
  ASSUME ContextInv, HandlerInv, NEW u \in User, NEW k \in Slot, SendSeeker(u, k)
  PROVE  ContextInv' /\ HandlerInv'
<1>1. Question("VacancyForm.contacts", {"contacts"}, "VacancyForm.description") \in Questions
  BY DEF Questions, VacancyQuestions
<1>2. "contacts" \in Key
  BY <1>1, QuestionFacts DEF Question
<1>3. ContextInv'
  BY <1>2 DEF SendSeeker, ContextInv, FormInOrder
<1>4. HandlerInv'
  <2> DEFINE t == Handler("seeker", "create", u, {})
  <2>1. /\ t \in Handlers(Len(vacancies)) /\ t.row = 0
        /\ t.at = "create" /\ t.kind = "seeker"
    BY DEF Handler, Handlers, HandlerInv
  <2>2. Begin(k, t) /\ UNCHANGED <<rows, moderated, abandoned>>
    BY DEF SendSeeker
  <2> HIDE DEF t
  <2> QED BY <2>1, <2>2, BeginStep
<1> QED BY <1>3, <1>4

LEMMA CreateVacancyKeeps ==
  ASSUME ContextInv, HandlerInv, NEW k \in Slot, CreateVacancy(k)
  PROVE  ContextInv' /\ HandlerInv'
<1> DEFINE n == Len(vacancies)
           t == [task[k] EXCEPT !.at = "clear", !.given = {}, !.row = n + 1]
<1>1. ContextInv' /\ HandlerInv
  BY SameContext DEF CreateVacancy
<1>2. /\ task[k] \in Handlers(n) /\ task[k].kind = "vacancy" /\ RowsOf(k) = {}
      /\ n \in Nat
  BY <1>1 DEF HandlerInv, CreateVacancy, At, NoTask, RowIsVacancys, RowsOf
<1>3. vacancies' \in Seq(User) /\ Len(vacancies') = n + 1
  BY <1>1, <1>2 DEF CreateVacancy, HandlerInv, Handlers
<1>4. t \in Handlers(n + 1) /\ t.row = n + 1 /\ t.at = "clear" /\ t.kind = "vacancy"
  <2>1. task[k].user \in User /\ {} \in SUBSET Key /\ n + 1 \in 0..(n + 1)
    BY <1>2 DEF Handlers
  <2> QED BY <1>2, <2>1 DEF Handlers
<1>5. \A x \in Handlers(n) : x \in Handlers(n + 1)
  <2>1. 0..n \subseteq 0..(n + 1)
    BY <1>2
  <2> QED BY <2>1 DEF Handlers
<1>6. /\ task' = [task EXCEPT ![k] = t]
      /\ task' \in [Slot -> {NoTask} \cup Handlers(n + 1)]
      /\ task'[k] = t /\ \A j \in Slot : j # k => task'[j] = task[j]
  BY <1>1, <1>4, <1>5 DEF CreateVacancy, HandlerInv
<1>7. RowIsVacancys' /\ AnswersComplete'
  BY <1>1, <1>4, <1>6 DEF HandlerInv, RowIsVacancys, AnswersComplete, At
<1>8. VacancyReachesModerators'
  <2>1. n + 1 \in RowsOf(k)' /\ \A j \in Slot : j # k => RowsOf(j)' = RowsOf(j)
    BY <1>2, <1>4, <1>6 DEF RowsOf
  <2>2. \A v \in 1..(n + 1) : v \in 1..n \/ v = n + 1
    BY <1>2
  <2>3. \A v \in 1..n : v \in moderated \cup abandoned \/ \E j \in Slot : v \in RowsOf(j)'
    BY <1>1, <1>2, <2>1 DEF HandlerInv, VacancyReachesModerators
  <2>4. UNCHANGED <<moderated, abandoned>>
    BY DEF CreateVacancy
  <2> QED BY <1>3, <2>1, <2>2, <2>3, <2>4 DEF VacancyReachesModerators
<1>9. HandlerInv'
  BY <1>1, <1>2, <1>3, <1>6, <1>7, <1>8 DEF HandlerInv, CreateVacancy
<1> QED BY <1>1, <1>9

LEMMA CreateCompanyKeeps ==
  ASSUME ContextInv, HandlerInv, NEW k \in Slot, CreateCompany(k)
  PROVE  ContextInv' /\ HandlerInv'
<1>1. ContextInv' /\ HandlerInv
  BY SameContext DEF CreateCompany
<1>2. task[k] # NoTask /\ task[k].user \in User /\ task[k].kind # "vacancy"
  BY <1>1 DEF CreateCompany, At, NoTask, HandlerInv, Handlers
<1>3. companies' \in [User -> 0..MaxCompanies]
  BY <1>1, <1>2, FormsAssumption DEF CreateCompany, HandlerInv
<1>4. HandlerInv'
  BY <1>1, <1>2, <1>3, GoOnStep DEF CreateCompany, HandlerInv
<1> QED BY <1>1, <1>4

LEMMA UpsertSeekerKeeps ==
  ASSUME ContextInv, HandlerInv, NEW k \in Slot, UpsertSeeker(k)
  PROVE  ContextInv' /\ HandlerInv'
<1>1. ContextInv' /\ HandlerInv
  BY SameContext DEF UpsertSeeker
<1>2. task[k] # NoTask /\ task[k].user \in User /\ task[k].kind # "vacancy"
  BY <1>1 DEF UpsertSeeker, At, NoTask, HandlerInv, Handlers
<1>3. HandlerInv'
  BY <1>1, <1>2, GoOnStep DEF UpsertSeeker, HandlerInv
<1> QED BY <1>1, <1>3

LEMMA FinishKeeps ==
  ASSUME ContextInv, HandlerInv, NEW k \in Slot, Finish(k)
  PROVE  ContextInv' /\ HandlerInv'
<1>1. task[k] # NoTask /\ task[k].user \in User
  BY DEF Finish, NoTask, HandlerInv, Handlers
<1>2. ContextInv'
  BY <1>1, ClearStep DEF Finish
<1>3. CASE task[k].kind = "vacancy"
  <2>1. HandlerInv'
    BY <1>1, <1>3, GoOnStep DEF Finish, HandlerInv, rows
  <2> QED BY <1>2, <2>1
<1>4. CASE task[k].kind # "vacancy"
  <2>1. RowsOf(k) = {}
    BY <1>4 DEF HandlerInv, RowIsVacancys, RowsOf
  <2>2. HandlerInv'
    BY <1>4, <2>1, DoneStep DEF Finish
  <2> QED BY <1>2, <2>2
<1> QED BY <1>3, <1>4

LEMMA AnnounceKeeps ==
  ASSUME ContextInv, HandlerInv, NEW k \in Slot, Announce(k)
  PROVE  ContextInv' /\ HandlerInv'
<1>1. ContextInv' /\ HandlerInv
  BY SameContext DEF Announce
<1>2. RowsOf(k) = {task[k].row}
  BY DEF Announce, At, HandlerInv, RowIsVacancys, RowsOf
<1>3. /\ Done(k) /\ UNCHANGED <<rows, abandoned>>
      /\ moderated' = moderated \cup RowsOf(k)
  BY <1>2 DEF Announce
<1>4. HandlerInv'
  BY <1>1, <1>3, DoneStep
<1> QED BY <1>1, <1>4

LEMMA BreakKeeps ==
  ASSUME ContextInv, HandlerInv, NEW k \in Slot, Break(k)
  PROVE  ContextInv' /\ HandlerInv'
<1>1. ContextInv' /\ HandlerInv
  BY SameContext DEF Break
<1>2. HandlerInv'
  BY <1>1, DoneStep DEF Break
<1> QED BY <1>1, <1>2

LEMMA RestartKeeps ==
  ASSUME ContextInv, HandlerInv, Restart
  PROVE  ContextInv' /\ HandlerInv'
<1>1. NoTask.row = 0 /\ NoTask.kind = "none"
  BY DEF NoTask
<1>2. ContextInv'
  BY BlankStates DEF Restart, ContextInv, FormInOrder
<1>3. ASSUME NEW k \in Slot PROVE RowsOf(k) \subseteq 1..Len(vacancies)
  <2>1. task[k].row \in 0..Len(vacancies) /\ Len(vacancies) \in Nat
    BY <1>1 DEF HandlerInv, Handlers
  <2> QED BY <2>1 DEF RowsOf
<1>4. \A k \in Slot : task'[k] = NoTask
  BY DEF Restart
<1>5. RowIsVacancys' /\ AnswersComplete'
  BY <1>1, <1>4 DEF RowIsVacancys, AnswersComplete, At
<1>6. VacancyReachesModerators'
  BY DEF Restart, HandlerInv, VacancyReachesModerators, rows
<1>7. task' \in [Slot -> {NoTask} \cup Handlers(Len(vacancies))]
  BY DEF Restart
<1>8. HandlerInv'
  BY <1>3, <1>5, <1>6, <1>7 DEF Restart, HandlerInv, rows
<1> QED BY <1>2, <1>8

LEMMA StepIInv == IInv /\ [Next]_vars => IInv'
<1> SUFFICES ASSUME ContextInv, HandlerInv, [Next]_vars PROVE ContextInv' /\ HandlerInv'
  BY DEF IInv
<1>1. CASE UNCHANGED vars
  BY <1>1, SameContext, SameHandlers DEF vars
<1>2. CASE Next
  BY <1>2, AnswerKeeps, LeaveKeeps, BeginsAnewKeeps, PressPublishKeeps, CompanyReadKeeps,
     SendVacancyKeeps, SendCompanyKeeps, SendSeekerKeeps, CreateVacancyKeeps,
     CreateCompanyKeeps, UpsertSeekerKeeps, FinishKeeps, AnnounceKeeps, BreakKeeps,
     RestartKeeps DEF Next, Work
<1> QED BY <1>1, <1>2

LEMMA AlwaysIInv == Spec => []IInv
<1>1. Init => IInv
  BY InitIInv DEF IInv
<1> QED BY <1>1, StepIInv, PTL DEF Spec

-------------------------------------------------------------------------------
(* The theorems.                                                           *)

\* Contexts, rows and handlers keep their types.
THEOREM TypeCorrect == Spec => []TypeOK
  BY AlwaysIInv, PTL DEF IInv, ContextInv, HandlerInv, TypeOK

\* However handlers of earlier updates interleave, a user is asked a question only
\* when all that precede it in its form are answered.
THEOREM InOrder == Spec => []FormInOrder
  BY AlwaysIInv, PTL DEF IInv, ContextInv, HandlerInv, TypeOK

\* The handler that creates a vacancy has every answer of its form.
THEOREM Complete == Spec => []AnswersComplete
  BY AlwaysIInv, PTL DEF IInv, ContextInv, HandlerInv, TypeOK

\* Every vacancy was shown to the moderators, or is about to be by a handler under
\* way, or that handler died.
THEOREM Reaches == Spec => []VacancyReachesModerators
  BY AlwaysIInv, PTL DEF IInv, ContextInv, HandlerInv, TypeOK
===============================================================================
