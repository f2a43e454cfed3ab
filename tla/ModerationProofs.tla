---------------------------- MODULE ModerationProofs ----------------------------
(***************************************************************************)
(* The verdicts on a vacancy, and the notices of a day, for any number of  *)
(* vacancies, seekers, days and overlapping handlers.                      *)
(***************************************************************************)
EXTENDS Moderation, FiniteSetTheorems, TLAPS

-------------------------------------------------------------------------------
(* The inductive invariant.                                                *)

\* A row about to be marked approved has its post.
MarkedHasPost == \A k \in Slot : At(k, "markApproved") => task[k].v \in published

\* Decisions that do not overlap: one handler, and between its mark and its message
\* the row says what the employer will be told, unless it was closed.
OneDecides == \A v \in Vacancy \ contested : \A j, k \in Deciding(v) : j = k
VerdictDue ==
  \A k \in Slot : \A v \in Vacancy \ contested :
    /\ k \in Deciding(v) /\ At(k, "tellApproved") => status[v] \in {"approved", "closed"}
    /\ k \in Deciding(v) /\ At(k, "tellRejected") => status[v] \in {"rejected", "closed"}

\* Rounds that do not overlap on a seeker: one handler has the seeker in hand; it
\* resets a row of an earlier day only, to the day that it still is, and writes back
\* the count it has read.
OneVisits   == \A s \in Seeker \ blurred : \A j, k \in Visiting(s) : j = k
RollsStale  == \A s \in Seeker \ blurred : \A k \in Visiting(s) :
                 task[k].pc \in {"rollRead", "rollGet"}
                   => s \in stale /\ task[k].day = days
PutsWhatIs  == \A s \in Seeker \ blurred : \A k \in Visiting(s) :
                 At(k, "put") => s \notin stale /\ task[k].val = count[s]

\* No count is taken along before it is read.
CarriesNone == \A k \in Slot : task[k].pc \in {"read"} \cup (InHand \ {"put"}) => task[k].val = 0

\* What was sent today was counted, but for the one notice in hand; what was counted
\* on an earlier day does not matter.
Uncounted(s) == IF \E k \in Visiting(s) : task[k].pc \in AfterSend THEN 1 ELSE 0
SentCounted  == \A s \in Seeker \ blurred :
                  sent[s] = (IF s \in stale THEN 0 ELSE count[s]) + Uncounted(s)
SendsBelow   == \A s \in Seeker \ blurred : \A k \in Visiting(s) :
                  At(k, "send") /\ task[k].limited => sent[s] < NotificationLimit(s)

IInv == /\ TypeOK /\ MarkedHasPost /\ ApprovedIsPublished
        /\ OneDecides /\ VerdictDue /\ VerdictTold /\ ResponseHeard
        /\ OneVisits /\ RollsStale /\ CarriesNone /\ PutsWhatIs /\ SentCounted /\ SendsBelow

-------------------------------------------------------------------------------
(* What a handler holds at each of its phases, and how a step changes it.  *)

LEMMA Shapes ==
  ASSUME NEW x \in Handler
  PROVE  /\ x.pc \in {"post", "markApproved", "tellApproved", "list"} => x \in Decision
         /\ x.pc \in {"markRejected", "tellRejected", "clear"} => x \in Refusal
         /\ x.pc \in {"check", "set", "tellLike"} => x \in Response
         /\ x.pc = "next" => x \in Round
         /\ x.pc = "reset" => x \in Resetter
         /\ x.pc \in {"read", "rollRead", "send", "record", "get", "rollGet", "put"}
              => x \in Visit
<1>1. CASE x = NoTask
  BY <1>1 DEF NoTask
<1>2. CASE x \in Decision
  BY <1>2 DEF Decision
<1>3. CASE x \in Refusal
  BY <1>3 DEF Refusal
<1>4. CASE x \in Round
  BY <1>4 DEF Round
<1>5. CASE x \in Visit
  BY <1>5 DEF Visit, InHand, AfterSend
<1>6. CASE x \in Response
  BY <1>6 DEF Response
<1>7. CASE x \in Resetter
  BY <1>7 DEF Resetter
<1> QED BY <1>1, <1>2, <1>3, <1>4, <1>5, <1>6, <1>7 DEF Handler

LEMMA DecisionStep ==
  ASSUME TypeOK, NEW k \in Slot, NEW p \in {"post", "markApproved", "tellApproved", "list"},
         task[k].pc \in {"post", "markApproved", "tellApproved", "list"}, GoOn(k, p)
  PROVE  /\ task' \in [Slot -> Handler]
         /\ task[k].v \in Vacancy /\ task'[k].pc = p /\ task'[k].v = task[k].v
         /\ \A j \in Slot : j # k => task'[j] = task[j]
<1> DEFINE x == [task[k] EXCEPT !.pc = p]
<1>1. task \in [Slot -> Handler] /\ task' = [task EXCEPT ![k] = x]
  BY DEF TypeOK, GoOn
<1>2. task[k] \in Decision
  BY <1>1, Shapes
<1>3. x \in Decision /\ x.pc = p /\ x.v = task[k].v /\ x.v \in Vacancy
  BY <1>2 DEF Decision
<1>4. x \in Handler
  BY <1>3 DEF Handler
<1> HIDE DEF x
<1> QED BY <1>1, <1>3, <1>4

LEMMA RefusalStep ==
  ASSUME TypeOK, NEW k \in Slot, NEW p \in {"markRejected", "tellRejected", "clear"},
         task[k].pc \in {"markRejected", "tellRejected", "clear"}, GoOn(k, p)
  PROVE  /\ task' \in [Slot -> Handler]
         /\ task[k].v \in Vacancy /\ task'[k].pc = p /\ task'[k].v = task[k].v
         /\ \A j \in Slot : j # k => task'[j] = task[j]
<1> DEFINE x == [task[k] EXCEPT !.pc = p]
<1>1. task \in [Slot -> Handler] /\ task' = [task EXCEPT ![k] = x]
  BY DEF TypeOK, GoOn
<1>2. task[k] \in Refusal
  BY <1>1, Shapes
<1>3. x \in Refusal /\ x.pc = p /\ x.v = task[k].v /\ x.v \in Vacancy
  BY <1>2 DEF Refusal
<1>4. x \in Handler
  BY <1>3 DEF Handler
<1> HIDE DEF x
<1> QED BY <1>1, <1>3, <1>4

LEMMA ResponseStep ==
  ASSUME TypeOK, NEW k \in Slot, NEW p \in {"check", "set", "tellLike"},
         task[k].pc \in {"check", "set", "tellLike"}, GoOn(k, p)
  PROVE  /\ task' \in [Slot -> Handler]
         /\ task[k].v \in Vacancy /\ task[k].s \in Seeker
         /\ task'[k].pc = p /\ task'[k].v = task[k].v /\ task'[k].s = task[k].s
         /\ \A j \in Slot : j # k => task'[j] = task[j]
<1> DEFINE x == [task[k] EXCEPT !.pc = p]
<1>1. task \in [Slot -> Handler] /\ task' = [task EXCEPT ![k] = x]
  BY DEF TypeOK, GoOn
<1>2. task[k] \in Response
  BY <1>1, Shapes
<1>3. /\ x \in Response /\ x.pc = p /\ x.v = task[k].v /\ x.v \in Vacancy
      /\ x.s = task[k].s /\ x.s \in Seeker
  BY <1>2 DEF Response
<1>4. x \in Handler
  BY <1>3 DEF Handler
<1> HIDE DEF x
<1> QED BY <1>1, <1>3, <1>4

LEMMA VisitShape ==
  ASSUME TypeOK, NEW k \in Slot, task[k].pc \in {"read"} \cup InHand
  PROVE  /\ task[k] \in Visit
         /\ task[k].v \in Vacancy /\ task[k].to \in Seeker /\ task[k].limited \in BOOLEAN
         /\ task[k].todo \in SUBSET Seeker /\ task[k].val \in Nat /\ task[k].day \in Nat
<1>1. task[k] \in Handler
  BY DEF TypeOK
<1>2. task[k] \in Visit
  BY <1>1, Shapes DEF InHand, AfterSend
<1> QED BY <1>2 DEF Visit

LEMMA VisitStep ==
  ASSUME TypeOK, NEW k \in Slot, NEW p \in {"read"} \cup InHand,
         task[k].pc \in {"read"} \cup InHand, GoOn(k, p)
  PROVE  /\ task' \in [Slot -> Handler]
         /\ task'[k].pc = p /\ task'[k].to = task[k].to /\ task'[k].limited = task[k].limited
         /\ task'[k].v = task[k].v /\ task'[k].val = task[k].val
         /\ \A j \in Slot : j # k => task'[j] = task[j]
<1> DEFINE x == [task[k] EXCEPT !.pc = p]
<1>1. task \in [Slot -> Handler] /\ task' = [task EXCEPT ![k] = x]
  BY DEF TypeOK, GoOn
<1>2. task[k] \in Visit
  BY VisitShape
<1>3. /\ x \in Visit /\ x.pc = p /\ x.to = task[k].to /\ x.limited = task[k].limited
      /\ x.v = task[k].v /\ x.val = task[k].val
  BY <1>2 DEF Visit
<1>4. x \in Handler
  BY <1>3 DEF Handler
<1> HIDE DEF x
<1> QED BY <1>1, <1>3, <1>4

LEMMA GoResetStep ==
  ASSUME TypeOK, NEW k \in Slot, NEW p \in InHand,
         task[k].pc \in {"read"} \cup InHand, GoReset(k, p)
  PROVE  /\ task' \in [Slot -> Handler]
         /\ task'[k].pc = p /\ task'[k].to = task[k].to /\ task'[k].val = task[k].val
         /\ task'[k].day = days
         /\ \A j \in Slot : j # k => task'[j] = task[j]
<1> DEFINE x == [task[k] EXCEPT !.pc = p, !.day = days]
<1>2. task[k] \in Visit
  BY VisitShape
<1>1. task \in [Slot -> Handler] /\ task' = [task EXCEPT ![k] = x] /\ days \in Nat
  <2>1. task \in [Slot -> Handler] /\ days \in Nat
    BY DEF TypeOK
  <2>2. task' = [task EXCEPT ![k] = x]
    BY <1>2, <2>1 DEF GoReset
  <2> QED BY <2>1, <2>2
<1>3. x \in Visit /\ x.pc = p /\ x.to = task[k].to /\ x.val = task[k].val /\ x.day = days
  BY <1>1, <1>2 DEF Visit
<1>4. x \in Handler
  BY <1>3 DEF Handler
<1> HIDE DEF x
<1> QED BY <1>1, <1>3, <1>4

LEMMA BeginStep ==
  ASSUME TypeOK, NEW k \in Slot, NEW h \in Handler, Begin(k, h)
  PROVE  /\ task' \in [Slot -> Handler]
         /\ task[k].pc = "none" /\ task'[k] = h
         /\ \A j \in Slot : j # k => task'[j] = task[j]
  BY DEF TypeOK, Begin, NoTask

LEMMA DoneStep ==
  ASSUME TypeOK, NEW k \in Slot, Done(k)
  PROVE  /\ task' \in [Slot -> Handler]
         /\ task'[k].pc = "none"
         /\ \A j \in Slot : j # k => task'[j] = task[j]
<1>1. NoTask \in Handler /\ NoTask.pc = "none"
  BY DEF Handler, NoTask
<1> QED BY <1>1 DEF TypeOK, Done

LEMMA LeaveStep ==
  ASSUME TypeOK, NEW k \in Slot, task[k].pc \in {"read"} \cup InHand, Leave(k)
  PROVE  /\ task' \in [Slot -> Handler]
         /\ task'[k].pc = "next"
         /\ \A j \in Slot : j # k => task'[j] = task[j]
<1> DEFINE x == [pc |-> "next", v |-> task[k].v, limited |-> task[k].limited,
                 todo |-> task[k].todo]
<1>1. x \in Round
  BY VisitShape DEF Round
<1>2. x \in Handler /\ x.pc = "next"
  BY <1>1 DEF Handler
<1> HIDE DEF x
<1>3. task \in [Slot -> Handler] /\ task' = [task EXCEPT ![k] = x]
  BY DEF TypeOK, Leave, x
<1> QED BY <1>2, <1>3

LEMMA ResponseShape ==
  ASSUME TypeOK, NEW k \in Slot, task[k].pc \in {"check", "set", "tellLike"}
  PROVE  task[k].v \in Vacancy /\ task[k].s \in Seeker
<1>1. task[k] \in Response
  BY Shapes DEF TypeOK
<1> QED BY <1>1 DEF Response

LEMMA ResetterShape ==
  ASSUME TypeOK, NEW k \in Slot, task[k].pc = "reset"
  PROVE  task[k].s \in Seeker
<1>1. task[k] \in Resetter
  BY Shapes DEF TypeOK
<1> QED BY <1>1 DEF Resetter

\* A handler that has a seeker in hand does not change what is uncounted of others.
LEMMA OthersUncounted ==
  ASSUME NEW k \in Slot, NEW s \in Seeker, NEW r \in Seeker, r # s,
         \A j \in Slot : j # k => task'[j] = task[j],
         task[k].pc \in InHand => task[k].to = s,
         task'[k].pc \in InHand => task'[k].to = s
  PROVE  Uncounted(r)' = Uncounted(r)
<1>1. \A j \in Slot : j \in Visiting(r)' <=> j \in Visiting(r)
  BY DEF Visiting
<1>2. \A j \in Visiting(r) : task'[j] = task[j]
  BY DEF Visiting
<1>3. \A j : j \in Visiting(r) \/ j \in Visiting(r)' => j \in Slot
  BY DEF Visiting
<1> QED BY <1>1, <1>2, <1>3 DEF Uncounted

\* The handler that has a seeker in hand is the one that makes the difference.
LEMMA OnlyUncounted ==
  ASSUME NEW s \in Seeker, NEW k \in Visiting(s), \A j \in Visiting(s) : j = k
  PROVE  Uncounted(s) = IF task[k].pc \in AfterSend THEN 1 ELSE 0
  BY DEF Uncounted

\* The steps that branch.
LEMMA CheckReactedEffect ==
  ASSUME TypeOK, NEW k \in Slot, CheckReacted(k)
  PROVE  /\ task' \in [Slot -> Handler]
         /\ task[k].pc = "check" /\ task'[k].pc \in {"none", "set"}
         /\ \A j \in Slot : j # k => task'[j] = task[j]
         /\ UNCHANGED <<verdicts, reactions, usage, bounds>>
<1>1. CASE Done(k)
  BY <1>1, DoneStep DEF CheckReacted, At
<1>2. CASE GoOn(k, "set")
  BY <1>2, ResponseStep DEF CheckReacted, At
<1> QED BY <1>1, <1>2 DEF CheckReacted

LEMMA ReadUsageEffect ==
  ASSUME TypeOK, NEW k \in Slot, ReadUsage(k)
  PROVE  LET s == task[k].to IN
         /\ task' \in [Slot -> Handler]
         /\ task[k].pc = "read" /\ s \in Seeker
         /\ \/ task'[k].pc = "next"
            \/ /\ task'[k].pc = "rollRead" /\ s \in stale /\ task'[k].day = days
               /\ task'[k].to = s /\ task'[k].val = task[k].val
            \/ /\ task'[k].pc = "send" /\ s \notin stale /\ MayNotify(s, count[s])
               /\ task'[k].to = s /\ task'[k].val = task[k].val
         /\ \A j \in Slot : j # k => task'[j] = task[j]
         /\ blurred' = IF Visiting(s) # {} THEN blurred \cup {s} ELSE blurred
         /\ UNCHANGED <<verdicts, reactions, count, stale, sent, resetDue, bounds>>
<1> DEFINE s == task[k].to
<1>1. /\ task[k].pc = "read"
      /\ blurred' = IF Visiting(s) # {} THEN blurred \cup {s} ELSE blurred
      /\ UNCHANGED <<verdicts, reactions, count, stale, sent, resetDue, bounds>>
  BY DEF ReadUsage, At
<1>2. s \in Seeker
  BY <1>1, VisitShape
<1>3. CASE s \in stale
  <2>1. GoReset(k, "rollRead")
    BY <1>3 DEF ReadUsage
  <2> QED BY <1>1, <1>2, <1>3, <2>1, GoResetStep DEF InHand, AfterSend
<1>4. CASE s \notin stale /\ MayNotify(s, count[s])
  <2>1. GoOn(k, "send")
    BY <1>4 DEF ReadUsage
  <2> QED BY <1>1, <1>2, <1>4, <2>1, VisitStep DEF InHand
<1>5. CASE s \notin stale /\ ~MayNotify(s, count[s])
  <2>1. Leave(k)
    BY <1>5 DEF ReadUsage
  <2> QED BY <1>1, <1>2, <2>1, LeaveStep
<1> QED BY <1>3, <1>4, <1>5

LEMMA RollEffect ==
  ASSUME TypeOK, NEW k \in Slot, Roll(k)
  PROVE  LET s == task[k].to IN
         /\ task' \in [Slot -> Handler] /\ s \in Seeker
         /\ \/ task[k].pc = "rollRead" /\ task'[k].pc = "next"
            \/ /\ task[k].pc = "rollRead" /\ task'[k].pc = "send" /\ MayNotify(s, 0)
               /\ task'[k].to = s /\ task'[k].val = task[k].val
            \/ /\ task[k].pc = "rollGet" /\ task'[k].pc = "put"
               /\ task'[k].to = s /\ task'[k].val = task[k].val
         /\ \A j \in Slot : j # k => task'[j] = task[j]
         /\ count' = [count EXCEPT ![s] = 0]
         /\ stale' = IF task[k].day = days THEN stale \ {s} ELSE stale \cup {s}
         /\ UNCHANGED <<verdicts, reactions, sent, blurred, resetDue, bounds>>
<1> DEFINE s == task[k].to
<1>1. /\ task[k].pc \in {"rollRead", "rollGet"}
      /\ count' = [count EXCEPT ![s] = 0]
      /\ stale' = IF task[k].day = days THEN stale \ {s} ELSE stale \cup {s}
      /\ UNCHANGED <<verdicts, reactions, sent, blurred, resetDue, bounds>>
  BY DEF Roll, ResetTo
<1>2. s \in Seeker /\ task[k].pc \in InHand
  BY <1>1, VisitShape DEF InHand, AfterSend
<1>3. CASE task[k].pc = "rollGet"
  <2>1. GoOn(k, "put")
    BY <1>3 DEF Roll, At
  <2> QED BY <1>1, <1>2, <1>3, <2>1, VisitStep DEF InHand, AfterSend
<1>4. CASE task[k].pc # "rollGet" /\ MayNotify(s, 0)
  <2>1. GoOn(k, "send")
    BY <1>4 DEF Roll, At
  <2> QED BY <1>1, <1>2, <1>4, <2>1, VisitStep DEF InHand, AfterSend
<1>5. CASE task[k].pc # "rollGet" /\ ~MayNotify(s, 0)
  <2>1. Leave(k)
    BY <1>5 DEF Roll, At
  <2> QED BY <1>1, <1>2, <1>5, <2>1, LeaveStep
<1> QED BY <1>3, <1>4, <1>5

LEMMA GetEffect ==
  ASSUME TypeOK, NEW k \in Slot, Get(k)
  PROVE  LET s == task[k].to IN
         /\ task' \in [Slot -> Handler] /\ s \in Seeker
         /\ task[k].pc = "get" /\ task'[k].to = s
         /\ \/ /\ s \in stale /\ task'[k].pc = "rollGet" /\ task'[k].val = task[k].val
               /\ task'[k].day = days
            \/ s \notin stale /\ task'[k].pc = "put" /\ task'[k].val = count[s]
         /\ \A j \in Slot : j # k => task'[j] = task[j]
         /\ UNCHANGED <<verdicts, reactions, usage, bounds>>
<1> DEFINE s == task[k].to
<1>1. task[k].pc = "get" /\ UNCHANGED <<verdicts, reactions, usage, bounds>>
  BY DEF Get, At
<1>2. s \in Seeker /\ task[k] \in Visit /\ task[k].pc \in InHand
  BY <1>1, VisitShape DEF InHand, AfterSend
<1>3. CASE s \in stale
  <2>1. GoReset(k, "rollGet")
    BY <1>3 DEF Get
  <2> QED BY <1>1, <1>2, <1>3, <2>1, GoResetStep DEF InHand, AfterSend
<1>4. CASE s \notin stale
  <2> DEFINE x == [task[k] EXCEPT !.pc = "put", !.val = count[s]]
  <2>1. task' = [task EXCEPT ![k] = x] /\ task \in [Slot -> Handler] /\ count[s] \in Nat
    BY <1>2, <1>4 DEF Get, TypeOK
  <2>2. x \in Visit /\ x.pc = "put" /\ x.val = count[s] /\ x.to = s
    BY <1>2, <2>1 DEF Visit, InHand, AfterSend
  <2>3. x \in Handler
    BY <2>2 DEF Handler
  <2> HIDE DEF x
  <2> QED BY <1>1, <1>2, <1>4, <2>1, <2>2, <2>3
<1> QED BY <1>3, <1>4

LEMMA PickEffect ==
  ASSUME TypeOK, NEW k \in Slot, NEW s \in Seeker, Pick(k, s)
  PROVE  /\ task' \in [Slot -> Handler]
         /\ task[k].pc = "next" /\ task'[k].to = s /\ task'[k].val = 0
         /\ \/ task'[k].pc = "read"
            \/ /\ task'[k].pc = "send" /\ ~task'[k].limited
               /\ blurred' = IF Visiting(s) # {} THEN blurred \cup {s} ELSE blurred
         /\ blurred \subseteq blurred' /\ blurred' \subseteq Seeker
         /\ \A j \in Slot : j # k => task'[j] = task[j]
         /\ UNCHANGED <<verdicts, reactions, count, stale, sent, resetDue, bounds>>
<1> DEFINE x == [pc |-> IF task[k].limited THEN "read" ELSE "send", v |-> task[k].v,
                 limited |-> task[k].limited, todo |-> task[k].todo \ {s}, to |-> s, val |-> 0, day |-> 0]
<1>1. /\ task[k].pc = "next" /\ task' = [task EXCEPT ![k] = x] /\ task \in [Slot -> Handler]
      /\ blurred' = IF ~task[k].limited /\ Visiting(s) # {} THEN blurred \cup {s} ELSE blurred
      /\ UNCHANGED <<verdicts, reactions, count, stale, sent, resetDue, bounds>>
      /\ blurred \subseteq Seeker
  BY DEF Pick, At, TypeOK
<1>2. task[k] \in Round
  BY <1>1, Shapes
<1>3. x \in Visit
  BY <1>2 DEF Round, Visit, InHand
<1>4. x \in Handler
  BY <1>3 DEF Handler
<1>5. /\ x.pc = IF task[k].limited THEN "read" ELSE "send"
      /\ x.to = s /\ x.val = 0 /\ x.limited = task[k].limited
  OBVIOUS
<1> HIDE DEF x
<1>6. task'[k] = x /\ task' \in [Slot -> Handler] /\ \A j \in Slot : j # k => task'[j] = task[j]
  BY <1>1, <1>4
<1>7. CASE task[k].limited
  BY <1>1, <1>5, <1>6, <1>7
<1>8. CASE ~task[k].limited
  BY <1>1, <1>5, <1>6, <1>8
<1> QED BY <1>7, <1>8

LEMMA SendEffect ==
  ASSUME TypeOK, NEW k \in Slot, Send(k)
  PROVE  LET s == task[k].to IN
         /\ task' \in [Slot -> Handler] /\ s \in Seeker /\ task[k].v \in Vacancy
         /\ task[k].pc = "send" /\ task'[k].pc = "record" /\ task'[k].to = s
         /\ task'[k].val = task[k].val
         /\ \A j \in Slot : j # k => task'[j] = task[j]
         /\ sent' = [sent EXCEPT ![s] = @ + 1]
         /\ cards' = cards \cup {<<task[k].v, s>>}
         /\ UNCHANGED <<verdicts, row, heard, unheard, count, stale, blurred, resetDue, bounds>>
<1>1. task[k].pc \in InHand /\ GoOn(k, "record") /\ "record" \in InHand
  BY DEF Send, At, InHand, AfterSend
<1> QED BY <1>1, VisitShape, VisitStep DEF Send, At

LEMMA PutEffect ==
  ASSUME TypeOK, NEW k \in Slot, Put(k)
  PROVE  LET s == task[k].to IN
         /\ task' \in [Slot -> Handler] /\ s \in Seeker /\ task[k].val \in Nat
         /\ task[k].pc = "put" /\ task'[k].pc = "next"
         /\ \A j \in Slot : j # k => task'[j] = task[j]
         /\ count' = [count EXCEPT ![s] = task[k].val + 1]
         /\ UNCHANGED <<verdicts, reactions, stale, sent, blurred, resetDue, bounds>>
<1>1. task[k].pc \in InHand /\ Leave(k)
  BY DEF Put, At, InHand, AfterSend
<1> QED BY <1>1, VisitShape, LeaveStep DEF Put, At

-------------------------------------------------------------------------------
(* Types are kept.                                                         *)

LEMMA TypeInit == Init => TypeOK
<1> SUFFICES ASSUME Init PROVE TypeOK
  OBVIOUS
<1>1. task \in [Slot -> Handler]
  BY DEF Init, Handler
<1>2. begun \in 0..MaxDecisions /\ days \in 0..MaxDays /\ restarts \in 0..MaxRestarts
  BY ModerationAssumption DEF Init
<1> QED BY <1>1, <1>2 DEF Init, TypeOK

LEMMA TypeStep == TypeOK /\ [Next]_vars => TypeOK'
<1> SUFFICES ASSUME TypeOK, [Next]_vars PROVE TypeOK'
  OBVIOUS
<1>1. ASSUME NEW v \in Vacancy, NEW k \in Slot, PressApprove(v, k) PROVE TypeOK'
  <2>1. [pc |-> "post", v |-> v] \in Handler
    BY DEF Handler, Decision
  <2>2. task' \in [Slot -> Handler]
    BY <1>1, <2>1, BeginStep DEF PressApprove
  <2> QED BY <1>1, <2>2, ModerationAssumption DEF TypeOK, PressApprove, OneMoreDecision, reactions, usage
<1>2. ASSUME NEW k \in Slot, Post(k) PROVE TypeOK'
  <2>1. task' \in [Slot -> Handler] /\ task[k].v \in Vacancy
    BY <1>2, DecisionStep DEF Post, At
  <2> QED BY <1>2, <2>1 DEF TypeOK, Post, reactions, usage, bounds
<1>3. ASSUME NEW k \in Slot, MarkApproved(k) PROVE TypeOK'
  <2>1. task' \in [Slot -> Handler]
    BY <1>3, DecisionStep DEF MarkApproved, At
  <2> QED BY <1>3, <2>1 DEF TypeOK, MarkApproved, reactions, usage, bounds
<1>4. ASSUME NEW k \in Slot, TellApproved(k) PROVE TypeOK'
  <2>1. task' \in [Slot -> Handler]
    BY <1>4, DecisionStep DEF TellApproved, At
  <2> QED BY <1>4, <2>1 DEF TypeOK, TellApproved, reactions, usage, bounds
<1>5. ASSUME NEW k \in Slot, ListSeekers(k) PROVE TypeOK'
  <2> DEFINE x == [pc |-> "next", v |-> task[k].v, limited |-> TRUE,
                   todo |-> { s \in Seeker : <<task[k].v, s>> \in Fits }]
  <2>1. task[k] \in Decision
    BY <1>5, Shapes DEF ListSeekers, At, TypeOK
  <2>2. x \in Round
    BY <2>1 DEF Decision, Round
  <2>3. x \in Handler
    BY <2>2 DEF Handler
  <2>4. task' \in [Slot -> Handler]
    BY <1>5, <2>3 DEF ListSeekers, TypeOK
  <2> QED BY <1>5, <2>4 DEF TypeOK, ListSeekers, verdicts, reactions, usage, bounds
<1>6. ASSUME NEW v \in Vacancy, PressReject(v) PROVE TypeOK'
  BY <1>6 DEF TypeOK, PressReject, reactions, usage, bounds
<1>7. ASSUME NEW k \in Slot, GiveReason(k) PROVE TypeOK'
  <2>1. [pc |-> "markRejected", v |-> asked] \in Handler
    BY <1>7 DEF Handler, Refusal, GiveReason, TypeOK
  <2>2. task' \in [Slot -> Handler]
    BY <1>7, <2>1, BeginStep DEF GiveReason
  <2> QED BY <1>7, <2>2, ModerationAssumption DEF TypeOK, GiveReason, OneMoreDecision, reactions, usage
<1>8. ASSUME NEW k \in Slot, MarkRejected(k) PROVE TypeOK'
  <2>1. task' \in [Slot -> Handler]
    BY <1>8, RefusalStep DEF MarkRejected, At
  <2> QED BY <1>8, <2>1 DEF TypeOK, MarkRejected, reactions, usage, bounds
<1>9. ASSUME NEW k \in Slot, TellRejected(k) PROVE TypeOK'
  <2>1. task' \in [Slot -> Handler]
    BY <1>9, RefusalStep DEF TellRejected, At
  <2> QED BY <1>9, <2>1 DEF TypeOK, TellRejected, reactions, usage, bounds
<1>10. ASSUME NEW k \in Slot, ClearReason(k) PROVE TypeOK'
  <2>1. task' \in [Slot -> Handler]
    BY <1>10, DoneStep DEF ClearReason
  <2> QED BY <1>10, <2>1 DEF TypeOK, ClearReason, reactions, usage, bounds
<1>11. ASSUME NEW v \in Vacancy, Close(v) PROVE TypeOK'
  BY <1>11 DEF TypeOK, Close, reactions, usage, bounds
<1>12. ASSUME NEW v \in Vacancy, NEW k \in Slot, StartBroadcast(v, k) PROVE TypeOK'
  <2>1. [pc |-> "next", v |-> v, limited |-> FALSE, todo |-> Seeker] \in Handler
    BY DEF Handler, Round
  <2>2. task' \in [Slot -> Handler]
    BY <1>12, <2>1, BeginStep DEF StartBroadcast
  <2> QED BY <1>12, <2>2, ModerationAssumption DEF TypeOK, StartBroadcast, OneMoreDecision, verdicts,
      reactions, usage
<1>13. ASSUME NEW k \in Slot, NEW s \in Seeker, Pick(k, s) PROVE TypeOK'
  BY <1>13, PickEffect DEF TypeOK, verdicts, reactions, usage, bounds
<1>14. ASSUME NEW k \in Slot, EndRound(k) PROVE TypeOK'
  <2>1. task' \in [Slot -> Handler]
    BY <1>14, DoneStep DEF EndRound
  <2> QED BY <1>14, <2>1 DEF TypeOK, EndRound, reactions, usage, bounds
<1>15. ASSUME NEW k \in Slot, ReadUsage(k) PROVE TypeOK'
  BY <1>15, ReadUsageEffect DEF TypeOK, verdicts, reactions, usage, bounds
<1>16. ASSUME NEW k \in Slot, Roll(k) PROVE TypeOK'
  BY <1>16, RollEffect DEF TypeOK, verdicts, reactions, usage, bounds
<1>17. ASSUME NEW k \in Slot, Send(k) PROVE TypeOK'
  BY <1>17, SendEffect DEF TypeOK, verdicts, reactions, usage, bounds, Pair
<1>18. ASSUME NEW k \in Slot, Record(k) PROVE TypeOK'
  <2>1. task' \in [Slot -> Handler]
    BY <1>18, VisitStep DEF Record, At, InHand, AfterSend
  <2> QED BY <1>18, <2>1 DEF TypeOK, Record, verdicts, usage, bounds
<1>19. ASSUME NEW k \in Slot, Get(k) PROVE TypeOK'
  BY <1>19, GetEffect DEF TypeOK, verdicts, reactions, usage, bounds
<1>20. ASSUME NEW k \in Slot, Put(k) PROVE TypeOK'
  BY <1>20, PutEffect DEF TypeOK, verdicts, reactions, usage, bounds
<1>21. ASSUME NEW k \in Slot, VisitFails(k) PROVE TypeOK'
  <2>1. task' \in [Slot -> Handler] /\ task[k].to \in Seeker
    BY <1>21, LeaveStep, VisitShape DEF VisitFails, At, InHand, AfterSend
  <2> QED BY <1>21, <2>1 DEF TypeOK, VisitFails, verdicts, reactions, bounds
<1>22. CASE Midnight
  <2>1. days + 1 \in 0..MaxDays
    BY <1>22, ModerationAssumption DEF TypeOK, Midnight
  <2>2. InHandNow \subseteq Seeker
    BY DEF InHandNow
  <2> QED BY <1>22, <2>1, <2>2 DEF TypeOK, Midnight, verdicts, reactions
<1>23. CASE DailyReset
  BY <1>23 DEF TypeOK, DailyReset, InHandNow, Visiting, Slot, InHand, AfterSend,
      verdicts, reactions, bounds
<1>24. ASSUME NEW v \in Vacancy, NEW s \in Seeker, OpenCard(v, s) PROVE TypeOK'
  BY <1>24 DEF TypeOK, OpenCard, verdicts, usage, bounds, Pair, Slot, Handler,
      NoTask, Decision, Refusal, Round, Visit, Resetter, InHand, AfterSend, Response
<1>25. ASSUME NEW v \in Vacancy, NEW s \in Seeker, NEW k \in Slot, PressLike(v, s, k) PROVE TypeOK'
  <2>1. [pc |-> "check", v |-> v, s |-> s] \in Handler
    BY DEF Handler, Response
  <2>2. task' \in [Slot -> Handler]
    BY <1>25, <2>1, BeginStep DEF PressLike
  <2> QED BY <1>25, <2>2 DEF TypeOK, PressLike, verdicts, reactions, usage, bounds
<1>26. ASSUME NEW k \in Slot, CheckReacted(k) PROVE TypeOK'
  BY <1>26, CheckReactedEffect DEF TypeOK, verdicts, reactions, usage, bounds
<1>27. ASSUME NEW k \in Slot, SetLike(k) PROVE TypeOK'
  <2>1. task' \in [Slot -> Handler]
    BY <1>27, ResponseStep DEF SetLike, At
  <2> QED BY <1>27, <2>1 DEF TypeOK, SetLike, verdicts, usage, bounds
<1>28. ASSUME NEW k \in Slot, TellLike(k) PROVE TypeOK'
  <2>1. task' \in [Slot -> Handler] /\ <<task[k].v, task[k].s>> \in Pair
    BY <1>28, DoneStep, ResponseShape DEF TellLike, At, Pair
  <2> QED BY <1>28, <2>1 DEF TypeOK, TellLike, verdicts, usage, bounds
<1>29. ASSUME NEW v \in Vacancy, NEW s \in Seeker, NEW reaction \in {"dislike", "complaint"}, Answer(v, s, reaction) PROVE TypeOK'
  BY <1>29 DEF TypeOK, Answer, verdicts, usage, bounds
<1>30. ASSUME NEW k \in Slot, Break(k) PROVE TypeOK'
  <2>1. task' \in [Slot -> Handler]
    BY <1>30, DoneStep DEF Break
  <2> QED BY <1>30, <2>1 DEF TypeOK, Break, usage, bounds
<1>31. CASE Restart
  <2>1. restarts + 1 \in 0..MaxRestarts
    BY <1>31, ModerationAssumption DEF TypeOK, Restart
  <2>2. InHandNow \subseteq Seeker /\ Unfinished \subseteq Vacancy
    BY DEF InHandNow, Unfinished
  <2>3. task' \in [Slot -> Handler]
    BY <1>31 DEF Restart, Handler
  <2> QED BY <1>31, <2>1, <2>2, <2>3 DEF TypeOK, Restart
<1>32. ASSUME NEW s \in Seeker, NEW k \in Slot, LookUp(s, k) PROVE TypeOK'
  <2>1. [pc |-> "reset", s |-> s, day |-> days] \in Handler
    BY DEF TypeOK, Handler, Resetter
  <2>2. task' \in [Slot -> Handler]
    BY <1>32, <2>1, BeginStep DEF LookUp
  <2> QED BY <1>32, <2>2 DEF TypeOK, LookUp, verdicts, reactions, usage, bounds
<1>33. ASSUME NEW k \in Slot, Reset(k) PROVE TypeOK'
  <2>1. task' \in [Slot -> Handler] /\ task[k].s \in Seeker
    BY <1>33, DoneStep, ResetterShape DEF Reset, At
  <2> QED BY <1>33, <2>1 DEF TypeOK, Reset, ResetTo, verdicts, reactions, bounds
<1>34. CASE UNCHANGED vars
  BY <1>34 DEF TypeOK, vars, verdicts, reactions, usage, bounds
<1> QED
  BY <1>1, <1>2, <1>3, <1>4, <1>5, <1>6, <1>7, <1>8, <1>9, <1>10, <1>11, <1>12,
      <1>13, <1>14, <1>15, <1>16, <1>17, <1>18, <1>19, <1>20, <1>21, <1>22,
      <1>23, <1>24, <1>25, <1>26, <1>27, <1>28, <1>29, <1>30, <1>31, <1>32, <1>33,
      <1>34 DEF Next, Decide, Notify, Respond

-------------------------------------------------------------------------------
(* The invariant holds at first, and every action keeps it.                *)

LEMMA InitIInv == Init => IInv
  BY TypeInit DEF IInv, Init, MarkedHasPost, ApprovedIsPublished, OneDecides,
      VerdictDue, VerdictTold, ResponseHeard, OneVisits, RollsStale,
      CarriesNone, PutsWhatIs, SentCounted, SendsBelow, Pair, Slot, NoTask, At,
      Deciding, Untold, Liking, Visiting, InHand, AfterSend, Uncounted,
      NotificationLimit

LEMMA PressApproveKeeps ==
  ASSUME IInv, TypeOK', NEW v \in Vacancy, NEW k \in Slot, PressApprove(v, k)
  PROVE  IInv'
<1>1. ApprovedIsPublished'
  BY DEF IInv, ApprovedIsPublished, PressApprove, OneMoreDecision, Begin,
      reactions, usage
<1>2. MarkedHasPost'
  BY DEF IInv, MarkedHasPost, PressApprove, OneMoreDecision, Begin, NoTask,
      Slot, Deciding, reactions, usage, At
<1>3. OneDecides'
  BY DEF IInv, OneDecides, PressApprove, OneMoreDecision, Begin, NoTask, Slot,
      Deciding, reactions, usage
<1>4. VerdictDue'
  BY DEF IInv, VerdictDue, PressApprove, OneMoreDecision, Begin, NoTask, Slot,
      Deciding, reactions, usage, At
<1>5. VerdictTold'
  BY DEF IInv, VerdictTold, PressApprove, OneMoreDecision, Begin, NoTask, Slot,
      Deciding, reactions, usage
<1>6. ResponseHeard'
  BY DEF IInv, ResponseHeard, PressApprove, OneMoreDecision, Begin, NoTask,
      Slot, Deciding, reactions, usage, Pair, Untold, Liking, At
<1>7. OneVisits'
  BY DEF IInv, OneVisits, PressApprove, OneMoreDecision, Begin, NoTask, Slot,
      Deciding, reactions, usage, Visiting, InHand, AfterSend
<1>8. RollsStale'
  BY DEF IInv, RollsStale, PressApprove, OneMoreDecision, Begin, NoTask, Slot,
      Deciding, reactions, usage, Visiting, InHand, AfterSend
<1>9. CarriesNone'
  BY DEF IInv, CarriesNone, PressApprove, OneMoreDecision, Begin, NoTask, Slot,
      Deciding, reactions, usage, InHand, AfterSend
<1>10. PutsWhatIs'
  BY DEF IInv, PutsWhatIs, PressApprove, OneMoreDecision, Begin, NoTask, Slot,
      Deciding, reactions, usage, Visiting, InHand, AfterSend, At
<1>11. SentCounted'
  BY DEF IInv, SentCounted, PressApprove, OneMoreDecision, Begin, NoTask, Slot,
      Deciding, reactions, usage, Uncounted, Visiting, InHand, AfterSend
<1>12. SendsBelow'
  BY DEF IInv, SendsBelow, PressApprove, OneMoreDecision, Begin, NoTask, Slot,
      Deciding, reactions, usage, Visiting, InHand, AfterSend, At,
      NotificationLimit
<1> QED BY <1>1, <1>2, <1>3, <1>4, <1>5, <1>6, <1>7, <1>8, <1>9, <1>10, <1>11,
    <1>12 DEF IInv

LEMMA PostKeeps ==
  ASSUME IInv, TypeOK', NEW k \in Slot, Post(k)
  PROVE  IInv'
<1>1. MarkedHasPost'
  BY DEF IInv, MarkedHasPost, Post, At, GoOn, reactions, usage, bounds, Slot
<1>2. ApprovedIsPublished'
  BY DEF IInv, ApprovedIsPublished, Post, At, GoOn, reactions, usage, bounds
<1>3. OneDecides'
  BY DEF IInv, OneDecides, Post, At, GoOn, reactions, usage, bounds, Deciding,
      Slot
<1>4. VerdictDue'
  BY DEF IInv, VerdictDue, Post, At, GoOn, reactions, usage, bounds, Slot,
      Deciding
<1>5. VerdictTold'
  BY DEF IInv, VerdictTold, Post, At, GoOn, reactions, usage, bounds, Deciding,
      Slot
<1>6. ResponseHeard'
  BY DEF IInv, ResponseHeard, Post, At, GoOn, reactions, usage, bounds, Pair,
      Untold, Liking, Slot
<1>7. OneVisits'
  BY DEF IInv, OneVisits, Post, At, GoOn, reactions, usage, bounds, Visiting,
      Slot, InHand, AfterSend
<1>8. RollsStale'
  BY DEF IInv, RollsStale, Post, At, GoOn, reactions, usage, bounds, Visiting,
      Slot, InHand, AfterSend
<1>9. CarriesNone'
  BY DEF IInv, CarriesNone, Post, At, GoOn, reactions, usage, bounds, Slot,
      InHand, AfterSend
<1>10. PutsWhatIs'
  BY DEF IInv, PutsWhatIs, Post, At, GoOn, reactions, usage, bounds, Visiting,
      Slot, InHand, AfterSend
<1>11. SentCounted'
  BY DEF IInv, SentCounted, Post, At, GoOn, reactions, usage, bounds, Uncounted,
      Visiting, Slot, InHand, AfterSend
<1>12. SendsBelow'
  BY DEF IInv, SendsBelow, Post, At, GoOn, reactions, usage, bounds, Visiting,
      Slot, InHand, AfterSend, NotificationLimit
<1> QED BY <1>1, <1>2, <1>3, <1>4, <1>5, <1>6, <1>7, <1>8, <1>9, <1>10, <1>11,
    <1>12 DEF IInv

LEMMA MarkApprovedKeeps ==
  ASSUME IInv, TypeOK', NEW k \in Slot, MarkApproved(k)
  PROVE  IInv'
<1>1. MarkedHasPost'
  BY DEF IInv, MarkedHasPost, MarkApproved, At, GoOn, reactions, usage, bounds,
      Slot
<1>2. ApprovedIsPublished'
  BY DecisionStep DEF IInv, TypeOK, MarkedHasPost, ApprovedIsPublished, MarkApproved, At
<1>3. OneDecides'
  BY DEF IInv, OneDecides, MarkApproved, At, GoOn, reactions, usage, bounds,
      Deciding, Slot
<1>4. VerdictDue'
  BY DecisionStep DEF IInv, TypeOK, OneDecides, VerdictDue, MarkApproved, At, Deciding
<1>5. VerdictTold'
  BY DEF IInv, VerdictTold, MarkApproved, At, GoOn, reactions, usage, bounds,
      Deciding, Slot
<1>6. ResponseHeard'
  BY DEF IInv, ResponseHeard, MarkApproved, At, GoOn, reactions, usage, bounds,
      Pair, Untold, Liking, Slot
<1>7. OneVisits'
  BY DEF IInv, OneVisits, MarkApproved, At, GoOn, reactions, usage, bounds,
      Visiting, Slot, InHand, AfterSend
<1>8. RollsStale'
  BY DEF IInv, RollsStale, MarkApproved, At, GoOn, reactions, usage, bounds,
      Visiting, Slot, InHand, AfterSend
<1>9. CarriesNone'
  BY DEF IInv, CarriesNone, MarkApproved, At, GoOn, reactions, usage, bounds,
      Slot, InHand, AfterSend
<1>10. PutsWhatIs'
  BY DEF IInv, PutsWhatIs, MarkApproved, At, GoOn, reactions, usage, bounds,
      Visiting, Slot, InHand, AfterSend
<1>11. SentCounted'
  BY DEF IInv, SentCounted, MarkApproved, At, GoOn, reactions, usage, bounds,
      Uncounted, Visiting, Slot, InHand, AfterSend
<1>12. SendsBelow'
  BY DEF IInv, SendsBelow, MarkApproved, At, GoOn, reactions, usage, bounds,
      Visiting, Slot, InHand, AfterSend, NotificationLimit
<1> QED BY <1>1, <1>2, <1>3, <1>4, <1>5, <1>6, <1>7, <1>8, <1>9, <1>10, <1>11,
    <1>12 DEF IInv

LEMMA TellApprovedKeeps ==
  ASSUME IInv, TypeOK', NEW k \in Slot, TellApproved(k)
  PROVE  IInv'
<1>1. ApprovedIsPublished'
  BY DEF IInv, ApprovedIsPublished, TellApproved, GoOn, reactions, usage, bounds
<1>2. MarkedHasPost'
  BY DEF IInv, MarkedHasPost, TellApproved, At, GoOn, reactions, usage, bounds,
      Slot
<1>3. OneDecides'
  BY DEF IInv, OneDecides, TellApproved, At, GoOn, reactions, usage, bounds,
      Deciding, Slot
<1>4. VerdictDue'
  BY DEF IInv, VerdictDue, TellApproved, At, GoOn, reactions, usage, bounds,
      Slot, Deciding
<1>5. VerdictTold'
  <2> SUFFICES ASSUME NEW v \in Vacancy \ contested, Deciding(v)' = {},
                      status[v] \in {"approved", "rejected"}
               PROVE  told'[v] = status[v]
    BY DEF TellApproved, VerdictTold
  <2>1. /\ At(k, "tellApproved") /\ told' = [told EXCEPT ![task[k].v] = "approved"]
        /\ task[k].v \in Vacancy /\ \A j \in Slot : j # k => task'[j] = task[j]
    BY DecisionStep DEF IInv, TellApproved, At
  <2>2. CASE v = task[k].v
    <3>1. k \in Deciding(v)
      BY <2>1, <2>2 DEF Deciding, At
    <3>2. status[v] = "approved"
      BY <2>1, <3>1 DEF IInv, VerdictDue
    <3> QED BY <2>1, <2>2, <3>2 DEF IInv, TypeOK
  <2>3. CASE v # task[k].v
    <3>1. Deciding(v) = {}
      BY <2>1, <2>3 DEF Deciding
    <3> QED BY <2>1, <2>3, <3>1 DEF IInv, TypeOK, VerdictTold
  <2> QED BY <2>2, <2>3
<1>6. ResponseHeard'
  BY DEF IInv, ResponseHeard, TellApproved, At, GoOn, reactions, usage, bounds,
      Pair, Untold, Liking, Slot
<1>7. OneVisits'
  BY DEF IInv, OneVisits, TellApproved, At, GoOn, reactions, usage, bounds,
      Visiting, Slot, InHand, AfterSend
<1>8. RollsStale'
  BY DEF IInv, RollsStale, TellApproved, At, GoOn, reactions, usage, bounds,
      Visiting, Slot, InHand, AfterSend
<1>9. CarriesNone'
  BY DEF IInv, CarriesNone, TellApproved, At, GoOn, reactions, usage, bounds,
      Slot, InHand, AfterSend
<1>10. PutsWhatIs'
  BY DEF IInv, PutsWhatIs, TellApproved, At, GoOn, reactions, usage, bounds,
      Visiting, Slot, InHand, AfterSend
<1>11. SentCounted'
  BY DEF IInv, SentCounted, TellApproved, At, GoOn, reactions, usage, bounds,
      Uncounted, Visiting, Slot, InHand, AfterSend
<1>12. SendsBelow'
  BY DEF IInv, SendsBelow, TellApproved, At, GoOn, reactions, usage, bounds,
      Visiting, Slot, InHand, AfterSend, NotificationLimit
<1> QED BY <1>1, <1>2, <1>3, <1>4, <1>5, <1>6, <1>7, <1>8, <1>9, <1>10, <1>11,
    <1>12 DEF IInv

LEMMA ListSeekersKeeps ==
  ASSUME IInv, TypeOK', NEW k \in Slot, ListSeekers(k)
  PROVE  IInv'
<1>1. ApprovedIsPublished'
  BY DEF IInv, ApprovedIsPublished, ListSeekers, verdicts, reactions, usage,
      bounds
<1>2. MarkedHasPost'
  BY DEF IInv, MarkedHasPost, ListSeekers, At, verdicts, reactions, usage,
      bounds, Slot
<1>3. OneDecides'
  BY DEF IInv, OneDecides, ListSeekers, At, verdicts, reactions, usage, bounds,
      Deciding, Slot
<1>4. VerdictDue'
  BY DEF IInv, VerdictDue, ListSeekers, At, verdicts, reactions, usage, bounds,
      Slot, Deciding
<1>5. VerdictTold'
  BY DEF IInv, VerdictTold, ListSeekers, At, verdicts, reactions, usage, bounds,
      Deciding, Slot
<1>6. ResponseHeard'
  BY DEF IInv, ResponseHeard, ListSeekers, At, verdicts, reactions, usage,
      bounds, Pair, Untold, Liking, Slot
<1>7. OneVisits'
  BY DEF IInv, OneVisits, ListSeekers, At, verdicts, reactions, usage, bounds,
      Visiting, Slot, InHand, AfterSend
<1>8. RollsStale'
  BY DEF IInv, RollsStale, ListSeekers, At, verdicts, reactions, usage, bounds,
      Visiting, Slot, InHand, AfterSend
<1>9. CarriesNone'
  BY DEF IInv, CarriesNone, ListSeekers, At, verdicts, reactions, usage, bounds,
      Slot, InHand, AfterSend
<1>10. PutsWhatIs'
  BY DEF IInv, PutsWhatIs, ListSeekers, At, verdicts, reactions, usage, bounds,
      Visiting, Slot, InHand, AfterSend
<1>11. SentCounted'
  BY DEF IInv, SentCounted, ListSeekers, At, verdicts, reactions, usage, bounds,
      Uncounted, Visiting, Slot, InHand, AfterSend
<1>12. SendsBelow'
  BY DEF IInv, SendsBelow, ListSeekers, At, verdicts, reactions, usage, bounds,
      Visiting, Slot, InHand, AfterSend, NotificationLimit
<1> QED BY <1>1, <1>2, <1>3, <1>4, <1>5, <1>6, <1>7, <1>8, <1>9, <1>10, <1>11,
    <1>12 DEF IInv

LEMMA PressRejectKeeps ==
  ASSUME IInv, TypeOK', NEW v \in Vacancy, PressReject(v)
  PROVE  IInv'
<1>1. MarkedHasPost' /\ ApprovedIsPublished' /\ OneDecides' /\ VerdictDue' /\ VerdictTold' /\ ResponseHeard' /\ OneVisits' /\ RollsStale' /\ CarriesNone' /\ PutsWhatIs' /\ SentCounted' /\ SendsBelow'
  BY DEF IInv, MarkedHasPost, ApprovedIsPublished, OneDecides, VerdictDue,
      VerdictTold, ResponseHeard, OneVisits, RollsStale, CarriesNone,
      PutsWhatIs, SentCounted, SendsBelow, PressReject, Slot, At, Deciding,
      Pair, Untold, Liking, Visiting, InHand, AfterSend, Uncounted,
      NotificationLimit, reactions, usage, bounds
<1> QED BY <1>1 DEF IInv

LEMMA GiveReasonKeeps ==
  ASSUME IInv, TypeOK', NEW k \in Slot, GiveReason(k)
  PROVE  IInv'
<1>1. ApprovedIsPublished'
  BY DEF IInv, ApprovedIsPublished, GiveReason, OneMoreDecision, Begin,
      reactions, usage
<1>2. MarkedHasPost'
  BY DEF IInv, MarkedHasPost, GiveReason, OneMoreDecision, Begin, NoTask, Slot,
      Deciding, reactions, usage, At
<1>3. OneDecides'
  BY DEF IInv, OneDecides, GiveReason, OneMoreDecision, Begin, NoTask, Slot,
      Deciding, reactions, usage
<1>4. VerdictDue'
  BY DEF IInv, VerdictDue, GiveReason, OneMoreDecision, Begin, NoTask, Slot,
      Deciding, reactions, usage, At
<1>5. VerdictTold'
  BY DEF IInv, VerdictTold, GiveReason, OneMoreDecision, Begin, NoTask, Slot,
      Deciding, reactions, usage
<1>6. ResponseHeard'
  BY DEF IInv, ResponseHeard, GiveReason, OneMoreDecision, Begin, NoTask, Slot,
      Deciding, reactions, usage, Pair, Untold, Liking, At
<1>7. OneVisits'
  BY DEF IInv, OneVisits, GiveReason, OneMoreDecision, Begin, NoTask, Slot,
      Deciding, reactions, usage, Visiting, InHand, AfterSend
<1>8. RollsStale'
  BY DEF IInv, RollsStale, GiveReason, OneMoreDecision, Begin, NoTask, Slot,
      Deciding, reactions, usage, Visiting, InHand, AfterSend
<1>9. CarriesNone'
  BY DEF IInv, CarriesNone, GiveReason, OneMoreDecision, Begin, NoTask, Slot,
      Deciding, reactions, usage, InHand, AfterSend
<1>10. PutsWhatIs'
  BY DEF IInv, PutsWhatIs, GiveReason, OneMoreDecision, Begin, NoTask, Slot,
      Deciding, reactions, usage, Visiting, InHand, AfterSend, At
<1>11. SentCounted'
  BY DEF IInv, SentCounted, GiveReason, OneMoreDecision, Begin, NoTask, Slot,
      Deciding, reactions, usage, Uncounted, Visiting, InHand, AfterSend
<1>12. SendsBelow'
  BY DEF IInv, SendsBelow, GiveReason, OneMoreDecision, Begin, NoTask, Slot,
      Deciding, reactions, usage, Visiting, InHand, AfterSend, At,
      NotificationLimit
<1> QED BY <1>1, <1>2, <1>3, <1>4, <1>5, <1>6, <1>7, <1>8, <1>9, <1>10, <1>11,
    <1>12 DEF IInv

LEMMA MarkRejectedKeeps ==
  ASSUME IInv, TypeOK', NEW k \in Slot, MarkRejected(k)
  PROVE  IInv'
<1>1. MarkedHasPost'
  BY DEF IInv, MarkedHasPost, MarkRejected, At, GoOn, reactions, usage, bounds,
      Slot
<1>2. ApprovedIsPublished'
  BY DEF IInv, ApprovedIsPublished, MarkRejected, At, GoOn, reactions, usage,
      bounds
<1>3. OneDecides'
  BY DEF IInv, OneDecides, MarkRejected, At, GoOn, reactions, usage, bounds,
      Deciding, Slot
<1>4. VerdictDue'
  BY RefusalStep DEF IInv, TypeOK, OneDecides, VerdictDue, MarkRejected, At, Deciding
<1>5. VerdictTold'
  BY DEF IInv, VerdictTold, MarkRejected, At, GoOn, reactions, usage, bounds,
      Deciding, Slot
<1>6. ResponseHeard'
  BY DEF IInv, ResponseHeard, MarkRejected, At, GoOn, reactions, usage, bounds,
      Pair, Untold, Liking, Slot
<1>7. OneVisits'
  BY DEF IInv, OneVisits, MarkRejected, At, GoOn, reactions, usage, bounds,
      Visiting, Slot, InHand, AfterSend
<1>8. RollsStale'
  BY DEF IInv, RollsStale, MarkRejected, At, GoOn, reactions, usage, bounds,
      Visiting, Slot, InHand, AfterSend
<1>9. CarriesNone'
  BY DEF IInv, CarriesNone, MarkRejected, At, GoOn, reactions, usage, bounds,
      Slot, InHand, AfterSend
<1>10. PutsWhatIs'
  BY DEF IInv, PutsWhatIs, MarkRejected, At, GoOn, reactions, usage, bounds,
      Visiting, Slot, InHand, AfterSend
<1>11. SentCounted'
  BY DEF IInv, SentCounted, MarkRejected, At, GoOn, reactions, usage, bounds,
      Uncounted, Visiting, Slot, InHand, AfterSend
<1>12. SendsBelow'
  BY DEF IInv, SendsBelow, MarkRejected, At, GoOn, reactions, usage, bounds,
      Visiting, Slot, InHand, AfterSend, NotificationLimit
<1> QED BY <1>1, <1>2, <1>3, <1>4, <1>5, <1>6, <1>7, <1>8, <1>9, <1>10, <1>11,
    <1>12 DEF IInv

LEMMA TellRejectedKeeps ==
  ASSUME IInv, TypeOK', NEW k \in Slot, TellRejected(k)
  PROVE  IInv'
<1>1. ApprovedIsPublished'
  BY DEF IInv, ApprovedIsPublished, TellRejected, GoOn, reactions, usage, bounds
<1>2. MarkedHasPost'
  BY DEF IInv, MarkedHasPost, TellRejected, At, GoOn, reactions, usage, bounds,
      Slot
<1>3. OneDecides'
  BY DEF IInv, OneDecides, TellRejected, At, GoOn, reactions, usage, bounds,
      Deciding, Slot
<1>4. VerdictDue'
  BY DEF IInv, VerdictDue, TellRejected, At, GoOn, reactions, usage, bounds,
      Slot, Deciding
<1>5. VerdictTold'
  <2> SUFFICES ASSUME NEW v \in Vacancy \ contested, Deciding(v)' = {},
                      status[v] \in {"approved", "rejected"}
               PROVE  told'[v] = status[v]
    BY DEF TellRejected, VerdictTold
  <2>1. /\ At(k, "tellRejected") /\ told' = [told EXCEPT ![task[k].v] = "rejected"]
        /\ task[k].v \in Vacancy /\ \A j \in Slot : j # k => task'[j] = task[j]
    BY RefusalStep DEF IInv, TellRejected, At
  <2>2. CASE v = task[k].v
    <3>1. k \in Deciding(v)
      BY <2>1, <2>2 DEF Deciding, At
    <3>2. status[v] = "rejected"
      BY <2>1, <3>1 DEF IInv, VerdictDue
    <3> QED BY <2>1, <2>2, <3>2 DEF IInv, TypeOK
  <2>3. CASE v # task[k].v
    <3>1. Deciding(v) = {}
      BY <2>1, <2>3 DEF Deciding
    <3> QED BY <2>1, <2>3, <3>1 DEF IInv, TypeOK, VerdictTold
  <2> QED BY <2>2, <2>3
<1>6. ResponseHeard'
  BY DEF IInv, ResponseHeard, TellRejected, At, GoOn, reactions, usage, bounds,
      Pair, Untold, Liking, Slot
<1>7. OneVisits'
  BY DEF IInv, OneVisits, TellRejected, At, GoOn, reactions, usage, bounds,
      Visiting, Slot, InHand, AfterSend
<1>8. RollsStale'
  BY DEF IInv, RollsStale, TellRejected, At, GoOn, reactions, usage, bounds,
      Visiting, Slot, InHand, AfterSend
<1>9. CarriesNone'
  BY DEF IInv, CarriesNone, TellRejected, At, GoOn, reactions, usage, bounds,
      Slot, InHand, AfterSend
<1>10. PutsWhatIs'
  BY DEF IInv, PutsWhatIs, TellRejected, At, GoOn, reactions, usage, bounds,
      Visiting, Slot, InHand, AfterSend
<1>11. SentCounted'
  BY DEF IInv, SentCounted, TellRejected, At, GoOn, reactions, usage, bounds,
      Uncounted, Visiting, Slot, InHand, AfterSend
<1>12. SendsBelow'
  BY DEF IInv, SendsBelow, TellRejected, At, GoOn, reactions, usage, bounds,
      Visiting, Slot, InHand, AfterSend, NotificationLimit
<1> QED BY <1>1, <1>2, <1>3, <1>4, <1>5, <1>6, <1>7, <1>8, <1>9, <1>10, <1>11,
    <1>12 DEF IInv

LEMMA ClearReasonKeeps ==
  ASSUME IInv, TypeOK', NEW k \in Slot, ClearReason(k)
  PROVE  IInv'
<1>1. ApprovedIsPublished'
  BY DEF IInv, ApprovedIsPublished, ClearReason, Done, reactions, usage, bounds
<1>2. MarkedHasPost'
  BY DEF IInv, MarkedHasPost, ClearReason, At, Done, NoTask, reactions, usage,
      bounds, Slot
<1>3. OneDecides'
  BY DEF IInv, OneDecides, ClearReason, At, Done, NoTask, reactions, usage,
      bounds, Deciding, Slot
<1>4. VerdictDue'
  BY DEF IInv, VerdictDue, ClearReason, At, Done, NoTask, reactions, usage,
      bounds, Slot, Deciding
<1>5. VerdictTold'
  BY DEF IInv, VerdictTold, ClearReason, At, Done, NoTask, reactions, usage,
      bounds, Deciding, Slot
<1>6. ResponseHeard'
  BY DEF IInv, ResponseHeard, ClearReason, At, Done, NoTask, reactions, usage,
      bounds, Pair, Untold, Liking, Slot
<1>7. OneVisits'
  BY DEF IInv, OneVisits, ClearReason, At, Done, NoTask, reactions, usage,
      bounds, Visiting, Slot, InHand, AfterSend
<1>8. RollsStale'
  BY DEF IInv, RollsStale, ClearReason, At, Done, NoTask, reactions, usage,
      bounds, Visiting, Slot, InHand, AfterSend
<1>9. CarriesNone'
  BY DEF IInv, CarriesNone, ClearReason, At, Done, NoTask, reactions, usage,
      bounds, Slot, InHand, AfterSend
<1>10. PutsWhatIs'
  BY DEF IInv, PutsWhatIs, ClearReason, At, Done, NoTask, reactions, usage,
      bounds, Visiting, Slot, InHand, AfterSend
<1>11. SentCounted'
  BY DEF IInv, SentCounted, ClearReason, At, Done, NoTask, reactions, usage,
      bounds, Uncounted, Visiting, Slot, InHand, AfterSend
<1>12. SendsBelow'
  BY DEF IInv, SendsBelow, ClearReason, At, Done, NoTask, reactions, usage,
      bounds, Visiting, Slot, InHand, AfterSend, NotificationLimit
<1> QED BY <1>1, <1>2, <1>3, <1>4, <1>5, <1>6, <1>7, <1>8, <1>9, <1>10, <1>11,
    <1>12 DEF IInv

LEMMA CloseKeeps ==
  ASSUME IInv, TypeOK', NEW v \in Vacancy, Close(v)
  PROVE  IInv'
<1>1. MarkedHasPost' /\ OneDecides' /\ ResponseHeard' /\ OneVisits' /\ RollsStale' /\ CarriesNone' /\ PutsWhatIs' /\ SentCounted' /\ SendsBelow'
  BY DEF IInv, MarkedHasPost, OneDecides, ResponseHeard, OneVisits, RollsStale,
      CarriesNone, PutsWhatIs, SentCounted, SendsBelow, Close, Slot, At,
      Deciding, Pair, Untold, Liking, Visiting, InHand, AfterSend, Uncounted,
      NotificationLimit, reactions, usage, bounds
<1>2. ApprovedIsPublished'
  BY DEF IInv, ApprovedIsPublished, Close, reactions, usage, bounds
<1>3. VerdictDue'
  BY DEF IInv, VerdictDue, Close, reactions, usage, bounds, Slot, Deciding, At
<1>4. VerdictTold'
  BY DEF IInv, VerdictTold, Close, reactions, usage, bounds, Deciding, Slot
<1> QED BY <1>1, <1>2, <1>3, <1>4 DEF IInv

LEMMA StartBroadcastKeeps ==
  ASSUME IInv, TypeOK', NEW v \in Vacancy, NEW k \in Slot, StartBroadcast(v, k)
  PROVE  IInv'
<1>1. ApprovedIsPublished'
  BY DEF IInv, ApprovedIsPublished, StartBroadcast, OneMoreDecision, Begin,
      verdicts, reactions, usage
<1>2. MarkedHasPost'
  BY DEF IInv, MarkedHasPost, StartBroadcast, OneMoreDecision, Begin, NoTask,
      Slot, verdicts, reactions, usage, At
<1>3. OneDecides'
  BY DEF IInv, OneDecides, StartBroadcast, OneMoreDecision, Begin, NoTask, Slot,
      verdicts, reactions, usage, Deciding
<1>4. VerdictDue'
  BY DEF IInv, VerdictDue, StartBroadcast, OneMoreDecision, Begin, NoTask, Slot,
      verdicts, reactions, usage, Deciding, At
<1>5. VerdictTold'
  BY DEF IInv, VerdictTold, StartBroadcast, OneMoreDecision, Begin, NoTask,
      Slot, verdicts, reactions, usage, Deciding
<1>6. ResponseHeard'
  BY DEF IInv, ResponseHeard, StartBroadcast, OneMoreDecision, Begin, NoTask,
      Slot, verdicts, reactions, usage, Pair, Untold, Liking, At
<1>7. OneVisits'
  BY DEF IInv, OneVisits, StartBroadcast, OneMoreDecision, Begin, NoTask, Slot,
      verdicts, reactions, usage, Visiting, InHand, AfterSend
<1>8. RollsStale'
  BY DEF IInv, RollsStale, StartBroadcast, OneMoreDecision, Begin, NoTask, Slot,
      verdicts, reactions, usage, Visiting, InHand, AfterSend
<1>9. CarriesNone'
  BY DEF IInv, CarriesNone, StartBroadcast, OneMoreDecision, Begin, NoTask,
      Slot, verdicts, reactions, usage, InHand, AfterSend
<1>10. PutsWhatIs'
  BY DEF IInv, PutsWhatIs, StartBroadcast, OneMoreDecision, Begin, NoTask, Slot,
      verdicts, reactions, usage, Visiting, InHand, AfterSend, At
<1>11. SentCounted'
  BY DEF IInv, SentCounted, StartBroadcast, OneMoreDecision, Begin, NoTask,
      Slot, verdicts, reactions, usage, Uncounted, Visiting, InHand, AfterSend
<1>12. SendsBelow'
  BY DEF IInv, SendsBelow, StartBroadcast, OneMoreDecision, Begin, NoTask, Slot,
      verdicts, reactions, usage, Visiting, InHand, AfterSend, At,
      NotificationLimit
<1> QED BY <1>1, <1>2, <1>3, <1>4, <1>5, <1>6, <1>7, <1>8, <1>9, <1>10, <1>11,
    <1>12 DEF IInv

LEMMA PickKeeps ==
  ASSUME IInv, TypeOK', NEW k \in Slot, NEW s \in Seeker, Pick(k, s)
  PROVE  IInv'
<1>1. ApprovedIsPublished'
  BY DEF IInv, ApprovedIsPublished, Pick, verdicts, reactions, bounds
<1>2. MarkedHasPost'
  BY PickEffect DEF IInv, MarkedHasPost, Slot, At, verdicts, reactions, usage,
      bounds
<1>3. OneDecides'
  BY PickEffect DEF IInv, OneDecides, Deciding, Slot, verdicts, reactions,
      usage, bounds
<1>4. VerdictDue'
  BY PickEffect DEF IInv, VerdictDue, Slot, Deciding, At, verdicts, reactions,
      usage, bounds
<1>5. VerdictTold'
  BY PickEffect DEF IInv, VerdictTold, Deciding, Slot, verdicts, reactions,
      usage, bounds
<1>6. ResponseHeard'
  BY PickEffect DEF IInv, ResponseHeard, Pair, Untold, Liking, Slot, At,
      verdicts, reactions, usage, bounds
<1>7. OneVisits'
  BY PickEffect DEF IInv, OneVisits, Visiting, Slot, InHand, AfterSend,
      verdicts, reactions, usage, bounds
<1>8. RollsStale'
  BY PickEffect DEF IInv, RollsStale, Visiting, Slot, InHand, AfterSend,
      verdicts, reactions, usage, bounds
<1>9. CarriesNone'
  BY PickEffect DEF IInv, CarriesNone, Slot, InHand, AfterSend, verdicts,
      reactions, usage, bounds
<1>10. PutsWhatIs'
  BY PickEffect DEF IInv, PutsWhatIs, Visiting, Slot, InHand, AfterSend, At,
      verdicts, reactions, usage, bounds
<1>11. SentCounted'
  BY PickEffect DEF IInv, SentCounted, Uncounted, Visiting, Slot, InHand,
      AfterSend, verdicts, reactions, usage, bounds
<1>12. SendsBelow'
  BY PickEffect DEF IInv, SendsBelow, Visiting, Slot, InHand, AfterSend, At,
      NotificationLimit, verdicts, reactions, usage, bounds
<1> QED BY <1>1, <1>2, <1>3, <1>4, <1>5, <1>6, <1>7, <1>8, <1>9, <1>10, <1>11,
    <1>12 DEF IInv

LEMMA EndRoundKeeps ==
  ASSUME IInv, TypeOK', NEW k \in Slot, EndRound(k)
  PROVE  IInv'
<1>1. ApprovedIsPublished'
  BY DEF IInv, ApprovedIsPublished, EndRound, Done, reactions, usage, bounds
<1>2. MarkedHasPost'
  BY DEF IInv, MarkedHasPost, EndRound, At, Done, NoTask, reactions, usage,
      bounds, Slot
<1>3. OneDecides'
  BY DEF IInv, OneDecides, EndRound, At, Done, NoTask, reactions, usage, bounds,
      Deciding, Slot
<1>4. VerdictDue'
  BY DEF IInv, VerdictDue, EndRound, At, Done, NoTask, reactions, usage, bounds,
      Slot, Deciding
<1>5. VerdictTold'
  BY DEF IInv, VerdictTold, EndRound, At, Done, NoTask, reactions, usage,
      bounds, Deciding, Slot
<1>6. ResponseHeard'
  BY DEF IInv, ResponseHeard, EndRound, At, Done, NoTask, reactions, usage,
      bounds, Pair, Untold, Liking, Slot
<1>7. OneVisits'
  BY DEF IInv, OneVisits, EndRound, At, Done, NoTask, reactions, usage, bounds,
      Visiting, Slot, InHand, AfterSend
<1>8. RollsStale'
  BY DEF IInv, RollsStale, EndRound, At, Done, NoTask, reactions, usage, bounds,
      Visiting, Slot, InHand, AfterSend
<1>9. CarriesNone'
  BY DEF IInv, CarriesNone, EndRound, At, Done, NoTask, reactions, usage,
      bounds, Slot, InHand, AfterSend
<1>10. PutsWhatIs'
  BY DEF IInv, PutsWhatIs, EndRound, At, Done, NoTask, reactions, usage, bounds,
      Visiting, Slot, InHand, AfterSend
<1>11. SentCounted'
  BY DEF IInv, SentCounted, EndRound, At, Done, NoTask, reactions, usage,
      bounds, Uncounted, Visiting, Slot, InHand, AfterSend
<1>12. SendsBelow'
  BY DEF IInv, SendsBelow, EndRound, At, Done, NoTask, reactions, usage, bounds,
      Visiting, Slot, InHand, AfterSend, NotificationLimit
<1> QED BY <1>1, <1>2, <1>3, <1>4, <1>5, <1>6, <1>7, <1>8, <1>9, <1>10, <1>11,
    <1>12 DEF IInv

LEMMA ReadUsageKeeps ==
  ASSUME IInv, TypeOK', NEW k \in Slot, ReadUsage(k)
  PROVE  IInv'
<1>1. ApprovedIsPublished'
  BY DEF IInv, ApprovedIsPublished, ReadUsage, GoOn, Leave, verdicts, reactions,
      bounds
<1>2. MarkedHasPost'
  BY ReadUsageEffect DEF IInv, MarkedHasPost, Slot, At, verdicts, reactions,
      usage, bounds
<1>3. OneDecides'
  BY ReadUsageEffect DEF IInv, OneDecides, Deciding, Slot, verdicts, reactions,
      usage, bounds
<1>4. VerdictDue'
  BY ReadUsageEffect DEF IInv, VerdictDue, Slot, Deciding, At, verdicts,
      reactions, usage, bounds
<1>5. VerdictTold'
  BY ReadUsageEffect DEF IInv, VerdictTold, Deciding, Slot, verdicts, reactions,
      usage, bounds
<1>6. ResponseHeard'
  BY ReadUsageEffect DEF IInv, ResponseHeard, Pair, Untold, Liking, Slot, At,
      verdicts, reactions, usage, bounds
<1>7. OneVisits'
  BY ReadUsageEffect DEF IInv, OneVisits, Visiting, Slot, InHand, AfterSend,
      verdicts, reactions, usage, bounds
<1>8. RollsStale'
  BY ReadUsageEffect DEF IInv, RollsStale, Visiting, Slot, InHand, AfterSend,
      verdicts, reactions, usage, bounds
<1>9. CarriesNone'
  BY ReadUsageEffect DEF IInv, CarriesNone, Slot, InHand, AfterSend, verdicts,
      reactions, usage, bounds
<1>10. PutsWhatIs'
  BY ReadUsageEffect DEF IInv, PutsWhatIs, Visiting, Slot, InHand, AfterSend,
      At, verdicts, reactions, usage, bounds
<1>11. SentCounted'
  BY ReadUsageEffect DEF IInv, SentCounted, Uncounted, Visiting, Slot, InHand,
      AfterSend, verdicts, reactions, usage, bounds
<1>12. SendsBelow'
  <2> SUFFICES ASSUME NEW s \in Seeker \ blurred', NEW j \in Visiting(s)', task'[j].pc = "send",
                      task'[j].limited
               PROVE  sent[s] < NotificationLimit(s)
    BY ReadUsageEffect DEF IInv, SendsBelow, At
  <2>1. j \in Slot
    BY DEF Visiting
  <2>2. CASE j # k
    BY <2>1, <2>2, ReadUsageEffect DEF IInv, SendsBelow, At, Visiting
  <2>3. CASE j = k
    <3>1. s = task[k].to /\ s \notin blurred /\ MayNotify(s, count[task[k].to])
      BY <2>3, ReadUsageEffect DEF IInv, Visiting
    <3>2. Visiting(s) = {} /\ s \notin stale
      BY <2>3, <3>1, ReadUsageEffect DEF IInv
    <3>3. Uncounted(s) = 0
      BY <3>2 DEF Uncounted
    <3> QED BY <3>1, <3>2, <3>3 DEF IInv, TypeOK, SentCounted, MayNotify
  <2> QED BY <2>2, <2>3
<1> QED BY <1>1, <1>2, <1>3, <1>4, <1>5, <1>6, <1>7, <1>8, <1>9, <1>10, <1>11,
    <1>12 DEF IInv

LEMMA RollKeeps ==
  ASSUME IInv, TypeOK', NEW k \in Slot, Roll(k)
  PROVE  IInv'
<1>1. ApprovedIsPublished'
  BY DEF IInv, ApprovedIsPublished, Roll, GoOn, Leave, verdicts, reactions,
      bounds
<1>2. MarkedHasPost'
  BY RollEffect DEF IInv, MarkedHasPost, Slot, At, verdicts, reactions, usage,
      bounds
<1>3. OneDecides'
  BY RollEffect DEF IInv, OneDecides, Deciding, Slot, verdicts, reactions,
      usage, bounds
<1>4. VerdictDue'
  BY RollEffect DEF IInv, VerdictDue, Slot, Deciding, At, verdicts, reactions,
      usage, bounds
<1>5. VerdictTold'
  BY RollEffect DEF IInv, VerdictTold, Deciding, Slot, verdicts, reactions,
      usage, bounds
<1>6. ResponseHeard'
  BY RollEffect DEF IInv, ResponseHeard, Pair, Untold, Liking, Slot, At,
      verdicts, reactions, usage, bounds
<1>7. OneVisits'
  BY RollEffect DEF IInv, OneVisits, Visiting, Slot, InHand, AfterSend,
      verdicts, reactions, usage, bounds
<1>8. RollsStale'
  <2>1. /\ task[k].to \in Seeker /\ task[k].pc \in InHand /\ k \in Visiting(task[k].to)
        /\ task'[k].pc \in {"next", "send", "put"}
        /\ \A j \in Slot : j # k => task'[j] = task[j]
        /\ \A r \in Seeker \ {task[k].to} : r \in stale' <=> r \in stale
        /\ UNCHANGED <<blurred, days>>
    BY RollEffect DEF IInv, Visiting, InHand, AfterSend, bounds
  <2> SUFFICES ASSUME NEW r \in Seeker \ blurred, NEW j \in Visiting(r)',
                      task'[j].pc \in {"rollRead", "rollGet"}
               PROVE  r \in stale' /\ task'[j].day = days
    BY <2>1 DEF RollsStale
  <2>2. j # k /\ j \in Visiting(r) /\ task'[j] = task[j]
    BY <2>1 DEF Visiting
  <2>3. r # task[k].to
    BY <2>1, <2>2 DEF IInv, OneVisits
  <2> QED BY <2>1, <2>2, <2>3 DEF IInv, RollsStale
<1>9. CarriesNone'
  BY RollEffect DEF IInv, CarriesNone, Slot, InHand, AfterSend, verdicts,
      reactions, usage, bounds
<1>10. PutsWhatIs'
  <2> DEFINE s == task[k].to
  <2>1. /\ s \in Seeker /\ k \in Visiting(s) /\ count' = [count EXCEPT ![s] = 0]
        /\ task[k].pc \in {"rollRead", "rollGet"} /\ task[k].val = 0
        /\ task'[k].pc = "put" => task'[k].to = s /\ task'[k].val = 0
        /\ \A j \in Slot : j # k => task'[j] = task[j]
        /\ stale' = IF task[k].day = days THEN stale \ {s} ELSE stale \cup {s}
        /\ count \in [Seeker -> Nat] /\ UNCHANGED blurred
    BY RollEffect DEF IInv, TypeOK, CarriesNone, Visiting, InHand, AfterSend
  <2> HIDE DEF s
  <2> SUFFICES ASSUME NEW r \in Seeker \ blurred, NEW j \in Visiting(r)', task'[j].pc = "put"
               PROVE  r \notin stale' /\ task'[j].val = count'[r]
    BY <2>1 DEF PutsWhatIs, At
  <2>2. j \in Slot /\ task'[j].to = r
    BY DEF Visiting
  <2>3. CASE j = k
    <3>1. r = s
      BY <2>1, <2>2, <2>3
    <3>2. task[k].day = days
      BY <2>1, <3>1 DEF IInv, RollsStale
    <3> QED BY <2>1, <2>3, <3>1, <3>2
  <2>4. CASE j # k
    <3>1. j \in Visiting(r) /\ task'[j] = task[j]
      BY <2>1, <2>2, <2>4 DEF Visiting
    <3>2. r # s
      BY <2>1, <2>4, <3>1 DEF IInv, OneVisits
    <3>3. r \notin stale /\ task[j].val = count[r]
      BY <3>1 DEF IInv, PutsWhatIs, At
    <3> QED BY <2>1, <3>1, <3>2, <3>3
  <2> QED BY <2>3, <2>4
<1>11. SentCounted'
  <2> DEFINE s == task[k].to
  <2> SUFFICES ASSUME NEW r \in Seeker \ blurred
               PROVE  sent[r] = (IF r \in stale' THEN 0 ELSE count'[r]) + Uncounted(r)'
    BY RollEffect DEF IInv, SentCounted
  <2>a. /\ s \in Seeker /\ task[k].pc \in {"rollRead", "rollGet"}
        /\ task'[k].pc \in {"next", "send", "put"} /\ (task'[k].pc # "next" => task'[k].to = s)
        /\ (task'[k].pc = "put" <=> task[k].pc = "rollGet")
        /\ \A j \in Slot : j # k => task'[j] = task[j]
        /\ count' = [count EXCEPT ![s] = 0]
        /\ stale' = IF task[k].day = days THEN stale \ {s} ELSE stale \cup {s}
        /\ count \in [Seeker -> Nat] /\ sent \in [Seeker -> Nat]
    BY RollEffect DEF IInv, TypeOK
  <2>0. sent[r] = (IF r \in stale THEN 0 ELSE count[r]) + Uncounted(r)
    BY DEF IInv, SentCounted
  <2>1. CASE r # s
    <3>1. Uncounted(r)' = Uncounted(r)
      BY <2>a, <2>1, OthersUncounted DEF InHand, AfterSend
    <3> QED BY <2>a, <2>0, <2>1, <3>1
  <2>2. CASE r = s
    <3>1. k \in Visiting(r) /\ \A j \in Visiting(r) : j = k
      BY <2>a, <2>2 DEF IInv, OneVisits, Visiting, InHand, AfterSend
    <3>2. \A j \in Visiting(r)' : j = k
      BY <2>a, <2>2, <3>1 DEF Visiting
    <3>3. Uncounted(r)' = Uncounted(r)
      BY <2>a, <2>2, <3>1, <3>2 DEF Uncounted, Visiting, InHand, AfterSend
    <3>4. r \in stale /\ task[k].day = days
      BY <2>a, <2>2, <3>1 DEF IInv, RollsStale
    <3> QED BY <2>a, <2>0, <2>2, <3>3, <3>4
  <2> QED BY <2>1, <2>2
<1>12. SendsBelow'
  <2> SUFFICES ASSUME NEW s \in Seeker \ blurred', NEW j \in Visiting(s)', task'[j].pc = "send",
                      task'[j].limited
               PROVE  sent[s] < NotificationLimit(s)
    BY RollEffect DEF IInv, SendsBelow, At
  <2>1. j \in Slot
    BY DEF Visiting
  <2>2. CASE j # k
    BY <2>1, <2>2, RollEffect DEF IInv, SendsBelow, At, Visiting
  <2>3. CASE j = k
    <3>1. s = task[k].to /\ s \notin blurred /\ MayNotify(s, 0)
      BY <2>3, RollEffect DEF IInv, Visiting
    <3>2. task[k].pc = "rollRead" /\ k \in Visiting(s) /\ \A i \in Visiting(s) : i = k
      BY <2>3, <3>1, RollEffect DEF IInv, OneVisits, Visiting, InHand
    <3>3. Uncounted(s) = 0 /\ s \in stale
      BY <3>1, <3>2, OnlyUncounted DEF IInv, RollsStale, AfterSend
    <3> QED BY <3>1, <3>2, <3>3 DEF IInv, TypeOK, SentCounted, MayNotify
  <2> QED BY <2>2, <2>3
<1> QED BY <1>1, <1>2, <1>3, <1>4, <1>5, <1>6, <1>7, <1>8, <1>9, <1>10, <1>11,
    <1>12 DEF IInv

LEMMA SendKeeps ==
  ASSUME IInv, TypeOK', NEW k \in Slot, Send(k)
  PROVE  IInv'
<1>1. ApprovedIsPublished'
  BY DEF IInv, ApprovedIsPublished, Send, GoOn, verdicts, bounds
<1>2. MarkedHasPost'
  BY SendEffect DEF IInv, MarkedHasPost, Slot, At, verdicts, reactions, usage,
      bounds
<1>3. OneDecides'
  BY SendEffect DEF IInv, OneDecides, Deciding, Slot, verdicts, reactions,
      usage, bounds
<1>4. VerdictDue'
  BY SendEffect DEF IInv, VerdictDue, Slot, Deciding, At, verdicts, reactions,
      usage, bounds
<1>5. VerdictTold'
  BY SendEffect DEF IInv, VerdictTold, Deciding, Slot, verdicts, reactions,
      usage, bounds
<1>6. ResponseHeard'
  BY SendEffect DEF IInv, ResponseHeard, Pair, Untold, Liking, Slot, At,
      verdicts, reactions, usage, bounds
<1>7. OneVisits'
  BY SendEffect DEF IInv, OneVisits, Visiting, Slot, InHand, AfterSend,
      verdicts, reactions, usage, bounds
<1>8. RollsStale'
  BY SendEffect DEF IInv, RollsStale, Visiting, Slot, InHand, AfterSend,
      verdicts, reactions, usage, bounds
<1>9. CarriesNone'
  BY SendEffect DEF IInv, CarriesNone, Slot, InHand, AfterSend, verdicts,
      reactions, usage, bounds
<1>10. PutsWhatIs'
  BY SendEffect DEF IInv, PutsWhatIs, Visiting, Slot, InHand, AfterSend, At,
      verdicts, reactions, usage, bounds
<1>11. SentCounted'
  <2> DEFINE s == task[k].to
  <2> SUFFICES ASSUME NEW r \in Seeker \ blurred
               PROVE  sent'[r] = (IF r \in stale THEN 0 ELSE count[r]) + Uncounted(r)'
    BY SendEffect DEF IInv, SentCounted
  <2>0. sent[r] = (IF r \in stale THEN 0 ELSE count[r]) + Uncounted(r)
    BY DEF IInv, SentCounted
  <2>1. CASE r # s
    <3>1. Uncounted(r)' = Uncounted(r)
      BY <2>1, SendEffect, OthersUncounted DEF IInv
    <3> QED BY <2>0, <2>1, <3>1, SendEffect DEF IInv, TypeOK
  <2>2. CASE r = s
    <3>1. k \in Visiting(r) /\ \A j \in Visiting(r) : j = k
      BY <2>2, SendEffect DEF IInv, OneVisits, Visiting, InHand
    <3>2. Uncounted(r) = 0
      BY <2>2, <3>1, SendEffect, OnlyUncounted DEF IInv, AfterSend
    <3>3. Uncounted(r)' = 1
      BY <2>2, SendEffect DEF IInv, Uncounted, Visiting, InHand, AfterSend
    <3> QED BY <2>0, <2>2, <3>2, <3>3, SendEffect DEF IInv, TypeOK
  <2> QED BY <2>1, <2>2
<1>12. SendsBelow'
  BY SendEffect DEF IInv, TypeOK, SendsBelow, OneVisits, Visiting, InHand, AfterSend, At
<1> QED BY <1>1, <1>2, <1>3, <1>4, <1>5, <1>6, <1>7, <1>8, <1>9, <1>10, <1>11,
    <1>12 DEF IInv

LEMMA RecordKeeps ==
  ASSUME IInv, TypeOK', NEW k \in Slot, Record(k)
  PROVE  IInv'
<1>1. ApprovedIsPublished'
  BY DEF IInv, ApprovedIsPublished, Record, GoOn, verdicts, usage, bounds
<1>2. MarkedHasPost'
  BY DEF IInv, MarkedHasPost, Record, At, GoOn, verdicts, usage, bounds, Slot
<1>3. OneDecides'
  BY DEF IInv, OneDecides, Record, At, GoOn, verdicts, usage, bounds, Deciding,
      Slot
<1>4. VerdictDue'
  BY DEF IInv, VerdictDue, Record, At, GoOn, verdicts, usage, bounds, Slot,
      Deciding
<1>5. VerdictTold'
  BY DEF IInv, VerdictTold, Record, At, GoOn, verdicts, usage, bounds, Deciding,
      Slot
<1>6. ResponseHeard'
  BY DEF IInv, ResponseHeard, Record, At, GoOn, verdicts, usage, bounds, Pair,
      Untold, Liking, Slot
<1>7. OneVisits'
  BY DEF IInv, OneVisits, Record, At, GoOn, verdicts, usage, bounds, Visiting,
      Slot, InHand, AfterSend
<1>8. RollsStale'
  BY DEF IInv, RollsStale, Record, At, GoOn, verdicts, usage, bounds, Visiting,
      Slot, InHand, AfterSend
<1>9. CarriesNone'
  BY DEF IInv, CarriesNone, Record, At, GoOn, verdicts, usage, bounds, Slot,
      InHand, AfterSend
<1>10. PutsWhatIs'
  BY DEF IInv, PutsWhatIs, Record, At, GoOn, verdicts, usage, bounds, Visiting,
      Slot, InHand, AfterSend
<1>11. SentCounted'
  BY DEF IInv, SentCounted, Record, At, GoOn, verdicts, usage, bounds,
      Uncounted, Visiting, Slot, InHand, AfterSend
<1>12. SendsBelow'
  BY DEF IInv, SendsBelow, Record, At, GoOn, verdicts, usage, bounds, Visiting,
      Slot, InHand, AfterSend, NotificationLimit
<1> QED BY <1>1, <1>2, <1>3, <1>4, <1>5, <1>6, <1>7, <1>8, <1>9, <1>10, <1>11,
    <1>12 DEF IInv

LEMMA GetKeeps ==
  ASSUME IInv, TypeOK', NEW k \in Slot, Get(k)
  PROVE  IInv'
<1>1. ApprovedIsPublished'
  BY DEF IInv, ApprovedIsPublished, Get, verdicts, reactions, usage, bounds
<1>2. MarkedHasPost'
  BY GetEffect DEF IInv, MarkedHasPost, Slot, At, verdicts, reactions, usage,
      bounds
<1>3. OneDecides'
  BY GetEffect DEF IInv, OneDecides, Deciding, Slot, verdicts, reactions, usage,
      bounds
<1>4. VerdictDue'
  BY GetEffect DEF IInv, VerdictDue, Slot, Deciding, At, verdicts, reactions,
      usage, bounds
<1>5. VerdictTold'
  BY GetEffect DEF IInv, VerdictTold, Deciding, Slot, verdicts, reactions,
      usage, bounds
<1>6. ResponseHeard'
  BY GetEffect DEF IInv, ResponseHeard, Pair, Untold, Liking, Slot, At,
      verdicts, reactions, usage, bounds
<1>7. OneVisits'
  BY GetEffect DEF IInv, OneVisits, Visiting, Slot, InHand, AfterSend, verdicts,
      reactions, usage, bounds
<1>8. RollsStale'
  BY GetEffect DEF IInv, RollsStale, Visiting, Slot, InHand, AfterSend,
      verdicts, reactions, usage, bounds
<1>9. CarriesNone'
  BY GetEffect DEF IInv, CarriesNone, Slot, InHand, AfterSend, verdicts,
      reactions, usage, bounds
<1>10. PutsWhatIs'
  BY GetEffect DEF IInv, PutsWhatIs, Visiting, Slot, InHand, AfterSend, At,
      verdicts, reactions, usage, bounds
<1>11. SentCounted'
  BY GetEffect DEF IInv, SentCounted, Uncounted, Visiting, Slot, InHand,
      AfterSend, verdicts, reactions, usage, bounds
<1>12. SendsBelow'
  BY GetEffect DEF IInv, SendsBelow, Visiting, Slot, InHand, AfterSend, At,
      NotificationLimit, verdicts, reactions, usage, bounds
<1> QED BY <1>1, <1>2, <1>3, <1>4, <1>5, <1>6, <1>7, <1>8, <1>9, <1>10, <1>11,
    <1>12 DEF IInv

LEMMA PutKeeps ==
  ASSUME IInv, TypeOK', NEW k \in Slot, Put(k)
  PROVE  IInv'
<1>1. ApprovedIsPublished'
  BY DEF IInv, ApprovedIsPublished, Put, Leave, verdicts, reactions, bounds
<1>2. MarkedHasPost'
  BY PutEffect DEF IInv, MarkedHasPost, Slot, At, verdicts, reactions, usage,
      bounds
<1>3. OneDecides'
  BY PutEffect DEF IInv, OneDecides, Deciding, Slot, verdicts, reactions, usage,
      bounds
<1>4. VerdictDue'
  BY PutEffect DEF IInv, VerdictDue, Slot, Deciding, At, verdicts, reactions,
      usage, bounds
<1>5. VerdictTold'
  BY PutEffect DEF IInv, VerdictTold, Deciding, Slot, verdicts, reactions,
      usage, bounds
<1>6. ResponseHeard'
  BY PutEffect DEF IInv, ResponseHeard, Pair, Untold, Liking, Slot, At,
      verdicts, reactions, usage, bounds
<1>7. OneVisits'
  BY PutEffect DEF IInv, OneVisits, Visiting, Slot, InHand, AfterSend, verdicts,
      reactions, usage, bounds
<1>8. RollsStale'
  BY PutEffect DEF IInv, RollsStale, Visiting, Slot, InHand, AfterSend,
      verdicts, reactions, usage, bounds
<1>9. CarriesNone'
  BY PutEffect DEF IInv, CarriesNone, Slot, InHand, AfterSend, verdicts,
      reactions, usage, bounds
<1>10. PutsWhatIs'
  BY PutEffect DEF IInv, TypeOK, PutsWhatIs, OneVisits, Visiting, InHand, AfterSend, At
<1>11. SentCounted'
  <2> DEFINE s == task[k].to
  <2> SUFFICES ASSUME NEW r \in Seeker \ blurred
               PROVE  sent[r] = (IF r \in stale THEN 0 ELSE count'[r]) + Uncounted(r)'
    BY PutEffect DEF IInv, SentCounted
  <2>a. /\ s \in Seeker /\ task[k].pc = "put" /\ task'[k].pc = "next" /\ task[k].val \in Nat
        /\ \A j \in Slot : j # k => task'[j] = task[j]
        /\ count' = [count EXCEPT ![s] = task[k].val + 1]
        /\ count \in [Seeker -> Nat] /\ sent \in [Seeker -> Nat]
    BY PutEffect DEF IInv, TypeOK
  <2>0. sent[r] = (IF r \in stale THEN 0 ELSE count[r]) + Uncounted(r)
    BY DEF IInv, SentCounted
  <2>1. CASE r # s
    <3>1. Uncounted(r)' = Uncounted(r)
      BY <2>a, <2>1, OthersUncounted DEF InHand, AfterSend
    <3> QED BY <2>a, <2>0, <2>1, <3>1
  <2>2. CASE r = s
    <3>1. k \in Visiting(r) /\ \A j \in Visiting(r) : j = k
      BY <2>a, <2>2 DEF IInv, OneVisits, Visiting, InHand, AfterSend
    <3>2. Uncounted(r) = 1 /\ r \notin stale /\ task[k].val = count[r]
      BY <2>a, <2>2, <3>1, OnlyUncounted DEF IInv, AfterSend, PutsWhatIs, At
    <3>3. Uncounted(r)' = 0
      <4>1. \A j \in Slot : j \notin Visiting(r)'
        BY <2>a, <2>2, <3>1 DEF Visiting, InHand, AfterSend
      <4> QED BY <4>1 DEF Uncounted, Visiting
    <3> QED BY <2>a, <2>0, <2>2, <3>2, <3>3
  <2> QED BY <2>1, <2>2
<1>12. SendsBelow'
  BY PutEffect DEF IInv, SendsBelow, Visiting, Slot, InHand, AfterSend, At,
      NotificationLimit, verdicts, reactions, usage, bounds
<1> QED BY <1>1, <1>2, <1>3, <1>4, <1>5, <1>6, <1>7, <1>8, <1>9, <1>10, <1>11,
    <1>12 DEF IInv

LEMMA VisitFailsKeeps ==
  ASSUME IInv, TypeOK', NEW k \in Slot, VisitFails(k)
  PROVE  IInv'
<1>1. ApprovedIsPublished'
  BY DEF IInv, ApprovedIsPublished, VisitFails, Leave, verdicts, reactions,
      bounds
<1>2. MarkedHasPost'
  BY DEF IInv, MarkedHasPost, VisitFails, AfterSend, At, Leave, verdicts,
      reactions, bounds, Slot
<1>3. OneDecides'
  BY DEF IInv, OneDecides, VisitFails, AfterSend, At, Leave, verdicts,
      reactions, bounds, Deciding, Slot
<1>4. VerdictDue'
  BY DEF IInv, VerdictDue, VisitFails, AfterSend, At, Leave, verdicts,
      reactions, bounds, Slot, Deciding
<1>5. VerdictTold'
  BY DEF IInv, VerdictTold, VisitFails, AfterSend, At, Leave, verdicts,
      reactions, bounds, Deciding, Slot
<1>6. ResponseHeard'
  BY DEF IInv, ResponseHeard, VisitFails, AfterSend, At, Leave, verdicts,
      reactions, bounds, Pair, Untold, Liking, Slot
<1>7. OneVisits'
  BY DEF IInv, OneVisits, VisitFails, AfterSend, At, Leave, verdicts, reactions,
      bounds, Visiting, Slot, InHand
<1>8. RollsStale'
  BY DEF IInv, RollsStale, VisitFails, AfterSend, At, Leave, verdicts,
      reactions, bounds, Visiting, Slot, InHand
<1>9. CarriesNone'
  BY DEF IInv, CarriesNone, VisitFails, AfterSend, At, Leave, verdicts,
      reactions, bounds, Slot, InHand
<1>10. PutsWhatIs'
  BY DEF IInv, PutsWhatIs, VisitFails, AfterSend, At, Leave, verdicts,
      reactions, bounds, Visiting, Slot, InHand
<1>11. SentCounted'
  BY DEF IInv, SentCounted, VisitFails, AfterSend, At, Leave, verdicts,
      reactions, bounds, Uncounted, Visiting, Slot, InHand
<1>12. SendsBelow'
  BY DEF IInv, SendsBelow, VisitFails, AfterSend, At, Leave, verdicts,
      reactions, bounds, Visiting, Slot, InHand, NotificationLimit
<1> QED BY <1>1, <1>2, <1>3, <1>4, <1>5, <1>6, <1>7, <1>8, <1>9, <1>10, <1>11,
    <1>12 DEF IInv

LEMMA LookUpKeeps ==
  ASSUME IInv, TypeOK', NEW s \in Seeker, NEW k \in Slot, LookUp(s, k)
  PROVE  IInv'
<1>1. ApprovedIsPublished'
  BY DEF IInv, ApprovedIsPublished, LookUp, Begin, verdicts,
      reactions, usage, bounds
<1>2. MarkedHasPost'
  BY DEF IInv, MarkedHasPost, LookUp, Slot, Begin, NoTask, verdicts,
      reactions, usage, bounds, At
<1>3. OneDecides'
  BY DEF IInv, OneDecides, LookUp, Slot, Begin, NoTask, verdicts,
      reactions, usage, bounds, Deciding
<1>4. VerdictDue'
  BY DEF IInv, VerdictDue, LookUp, Slot, Begin, NoTask, verdicts,
      reactions, usage, bounds, Deciding, At
<1>5. VerdictTold'
  BY DEF IInv, VerdictTold, LookUp, Slot, Begin, NoTask, verdicts,
      reactions, usage, bounds, Deciding
<1>6. ResponseHeard'
  BY DEF IInv, ResponseHeard, LookUp, Slot, Begin, NoTask, verdicts,
      reactions, usage, bounds, Pair, Untold, Liking, At
<1>7. OneVisits'
  BY DEF IInv, OneVisits, LookUp, Slot, Begin, NoTask, verdicts,
      reactions, usage, bounds, Visiting, InHand, AfterSend
<1>8. RollsStale'
  BY DEF IInv, RollsStale, LookUp, Slot, Begin, NoTask, verdicts,
      reactions, usage, bounds, Visiting, InHand, AfterSend
<1>9. CarriesNone'
  BY DEF IInv, CarriesNone, LookUp, Slot, Begin, NoTask, verdicts,
      reactions, usage, bounds, InHand, AfterSend
<1>10. PutsWhatIs'
  BY DEF IInv, PutsWhatIs, LookUp, Slot, Begin, NoTask, verdicts,
      reactions, usage, bounds, Visiting, InHand, AfterSend, At
<1>11. SentCounted'
  BY DEF IInv, SentCounted, LookUp, Slot, Begin, NoTask, verdicts,
      reactions, usage, bounds, Uncounted, Visiting, InHand, AfterSend
<1>12. SendsBelow'
  BY DEF IInv, SendsBelow, LookUp, Slot, Begin, NoTask, verdicts,
      reactions, usage, bounds, Visiting, InHand, AfterSend, At,
      NotificationLimit
<1> QED BY <1>1, <1>2, <1>3, <1>4, <1>5, <1>6, <1>7, <1>8, <1>9, <1>10, <1>11,
    <1>12 DEF IInv

LEMMA ResetKeeps ==
  ASSUME IInv, TypeOK', NEW k \in Slot, Reset(k)
  PROVE  IInv'
<1> DEFINE s == task[k].s
<1>a. /\ s \in Seeker /\ task[k].pc = "reset" /\ task'[k].pc = "none"
      /\ \A j \in Slot : j # k => task'[j] = task[j]
      /\ count' = [count EXCEPT ![s] = 0] /\ count \in [Seeker -> Nat]
      /\ stale' = IF task[k].day = days THEN stale \ {s} ELSE stale \cup {s}
      /\ blurred' = IF Visiting(s) # {} \/ sent[s] > 0 THEN blurred \cup {s} ELSE blurred
      /\ UNCHANGED <<verdicts, reactions, sent, resetDue, bounds>>
      /\ sent \in [Seeker -> Nat]
  BY DoneStep, ResetterShape DEF IInv, TypeOK, Reset, ResetTo, At
\* No round is touched.
<1>b. \A r \in Seeker : Visiting(r)' = Visiting(r)
  BY <1>a DEF Visiting, InHand, AfterSend
<1>c. \A r \in Seeker : \A j \in Visiting(r) : j # k /\ j \in Slot /\ task'[j] = task[j]
  BY <1>a DEF Visiting, InHand, AfterSend
<1>d. blurred \subseteq blurred' /\ (Visiting(s) # {} \/ sent[s] > 0 => s \in blurred')
  BY <1>a
<1> HIDE DEF s
<1>1. MarkedHasPost' /\ ApprovedIsPublished' /\ CarriesNone'
  BY <1>a DEF IInv, MarkedHasPost, ApprovedIsPublished, CarriesNone, InHand,
      AfterSend, At, verdicts
<1>2. OneDecides' /\ VerdictDue' /\ VerdictTold'
  BY <1>a DEF IInv, OneDecides, VerdictDue, VerdictTold, Deciding, At, verdicts
<1>3. ResponseHeard'
  BY <1>a DEF IInv, ResponseHeard, Untold, Liking, At, reactions
<1>4. OneVisits'
  BY <1>b, <1>d DEF IInv, OneVisits
<1>5. RollsStale'
  BY <1>a, <1>b, <1>c, <1>d DEF IInv, RollsStale, bounds
<1>6. PutsWhatIs'
  BY <1>a, <1>b, <1>c, <1>d DEF IInv, PutsWhatIs, At
<1>7. \A r \in Seeker : Uncounted(r)' = Uncounted(r)
  BY <1>b, <1>c DEF Uncounted
<1>8. SentCounted'
  <2> SUFFICES ASSUME NEW r \in Seeker \ blurred'
               PROVE  sent[r] = (IF r \in stale' THEN 0 ELSE count'[r]) + Uncounted(r)
    BY <1>a, <1>7 DEF SentCounted
  <2>1. sent[r] = (IF r \in stale THEN 0 ELSE count[r]) + Uncounted(r)
    BY <1>d DEF IInv, SentCounted
  <2>2. CASE r = s
    <3>1. Visiting(s) = {} /\ sent[s] = 0
      BY <1>a, <1>d, <2>2
    <3>2. Uncounted(s) = 0
      BY <3>1 DEF Uncounted
    <3> QED BY <1>a, <2>2, <3>1, <3>2
  <2>3. CASE r # s
    BY <1>a, <2>1, <2>3
  <2> QED BY <2>2, <2>3
<1>9. SendsBelow'
  BY <1>a, <1>b, <1>c, <1>d DEF IInv, SendsBelow, At, NotificationLimit
<1> QED BY <1>1, <1>2, <1>3, <1>4, <1>5, <1>6, <1>8, <1>9 DEF IInv

LEMMA MidnightKeeps ==
  ASSUME IInv, TypeOK', Midnight
  PROVE  IInv'
<1>1. MarkedHasPost' /\ ApprovedIsPublished' /\ OneDecides' /\ VerdictDue' /\ VerdictTold' /\ ResponseHeard' /\ CarriesNone'
  BY DEF IInv, MarkedHasPost, ApprovedIsPublished, OneDecides, VerdictDue,
      VerdictTold, ResponseHeard, CarriesNone, Midnight, Slot, At, Deciding,
      Pair, Untold, Liking, InHand, AfterSend, verdicts, reactions
<1>2. OneVisits'
  BY DEF IInv, OneVisits, Midnight, InHandNow, Visiting, Slot, InHand,
      AfterSend, verdicts, reactions
<1>3. RollsStale'
  BY DEF IInv, RollsStale, Midnight, InHandNow, Visiting, Slot, InHand,
      AfterSend, verdicts, reactions
<1>4. PutsWhatIs'
  BY DEF IInv, PutsWhatIs, Midnight, InHandNow, Visiting, Slot, InHand,
      AfterSend, verdicts, reactions, At
<1>5. SentCounted'
  BY DEF IInv, SentCounted, Midnight, InHandNow, Visiting, Slot, InHand,
      AfterSend, verdicts, reactions, Uncounted
<1>6. SendsBelow'
  BY DEF IInv, SendsBelow, Midnight, InHandNow, Visiting, Slot, InHand,
      AfterSend, verdicts, reactions, At, NotificationLimit
<1> QED BY <1>1, <1>2, <1>3, <1>4, <1>5, <1>6 DEF IInv

LEMMA DailyResetKeeps ==
  ASSUME IInv, TypeOK', DailyReset
  PROVE  IInv'
<1>1. MarkedHasPost' /\ ApprovedIsPublished' /\ OneDecides' /\ VerdictDue' /\ VerdictTold' /\ ResponseHeard' /\ CarriesNone'
  BY DEF IInv, MarkedHasPost, ApprovedIsPublished, OneDecides, VerdictDue,
      VerdictTold, ResponseHeard, CarriesNone, DailyReset, Slot, At, Deciding,
      Pair, Untold, Liking, InHand, AfterSend, verdicts, reactions, bounds
<1>2. OneVisits'
  BY DEF IInv, OneVisits, DailyReset, InHandNow, Visiting, Slot, InHand,
      AfterSend, verdicts, reactions, bounds
<1>3. RollsStale'
  BY DEF IInv, RollsStale, DailyReset, InHandNow, Visiting, Slot, InHand,
      AfterSend, verdicts, reactions, bounds
<1>4. PutsWhatIs'
  BY DEF IInv, PutsWhatIs, DailyReset, InHandNow, Visiting, Slot, InHand,
      AfterSend, verdicts, reactions, bounds, At
<1>5. SentCounted'
  <2> SUFFICES ASSUME NEW s \in Seeker \ blurred'
               PROVE  sent[s] = Uncounted(s) /\ count'[s] = 0 /\ stale' = {}
    BY DEF DailyReset, SentCounted, Uncounted, Visiting
  <2>1. sent[s] = 0 /\ Visiting(s) = {}
    BY DEF IInv, TypeOK, DailyReset, InHandNow
  <2> QED BY <2>1 DEF DailyReset, Uncounted
<1>6. SendsBelow'
  BY DEF IInv, SendsBelow, DailyReset, InHandNow, Visiting, Slot, InHand,
      AfterSend, verdicts, reactions, bounds, At, NotificationLimit
<1> QED BY <1>1, <1>2, <1>3, <1>4, <1>5, <1>6 DEF IInv

LEMMA OpenCardKeeps ==
  ASSUME IInv, TypeOK', NEW v \in Vacancy, NEW s \in Seeker, OpenCard(v, s)
  PROVE  IInv'
<1>1. MarkedHasPost' /\ ApprovedIsPublished' /\ OneDecides' /\ VerdictDue' /\ VerdictTold' /\ ResponseHeard' /\ OneVisits' /\ RollsStale' /\ CarriesNone' /\ PutsWhatIs' /\ SentCounted' /\ SendsBelow'
  BY DEF IInv, MarkedHasPost, ApprovedIsPublished, OneDecides, VerdictDue,
      VerdictTold, ResponseHeard, OneVisits, RollsStale, CarriesNone,
      PutsWhatIs, SentCounted, SendsBelow, OpenCard, Slot, At, Deciding, Pair,
      Untold, Liking, Visiting, InHand, AfterSend, Uncounted, NotificationLimit,
      verdicts, usage, bounds
<1> QED BY <1>1 DEF IInv

LEMMA PressLikeKeeps ==
  ASSUME IInv, TypeOK', NEW v \in Vacancy, NEW s \in Seeker, NEW k \in Slot, PressLike(v, s, k)
  PROVE  IInv'
<1>1. ApprovedIsPublished'
  BY DEF IInv, ApprovedIsPublished, PressLike, Liking, Begin, verdicts,
      reactions, usage, bounds
<1>2. MarkedHasPost'
  BY DEF IInv, MarkedHasPost, PressLike, Liking, Slot, Begin, NoTask, verdicts,
      reactions, usage, bounds, At
<1>3. OneDecides'
  BY DEF IInv, OneDecides, PressLike, Liking, Slot, Begin, NoTask, verdicts,
      reactions, usage, bounds, Deciding
<1>4. VerdictDue'
  BY DEF IInv, VerdictDue, PressLike, Liking, Slot, Begin, NoTask, verdicts,
      reactions, usage, bounds, Deciding, At
<1>5. VerdictTold'
  BY DEF IInv, VerdictTold, PressLike, Liking, Slot, Begin, NoTask, verdicts,
      reactions, usage, bounds, Deciding
<1>6. ResponseHeard'
  BY DEF IInv, ResponseHeard, PressLike, Liking, Slot, Begin, NoTask, verdicts,
      reactions, usage, bounds, Pair, Untold, At
<1>7. OneVisits'
  BY DEF IInv, OneVisits, PressLike, Liking, Slot, Begin, NoTask, verdicts,
      reactions, usage, bounds, Visiting, InHand, AfterSend
<1>8. RollsStale'
  BY DEF IInv, RollsStale, PressLike, Liking, Slot, Begin, NoTask, verdicts,
      reactions, usage, bounds, Visiting, InHand, AfterSend
<1>9. CarriesNone'
  BY DEF IInv, CarriesNone, PressLike, Liking, Slot, Begin, NoTask, verdicts,
      reactions, usage, bounds, InHand, AfterSend
<1>10. PutsWhatIs'
  BY DEF IInv, PutsWhatIs, PressLike, Liking, Slot, Begin, NoTask, verdicts,
      reactions, usage, bounds, Visiting, InHand, AfterSend, At
<1>11. SentCounted'
  BY DEF IInv, SentCounted, PressLike, Liking, Slot, Begin, NoTask, verdicts,
      reactions, usage, bounds, Uncounted, Visiting, InHand, AfterSend
<1>12. SendsBelow'
  BY DEF IInv, SendsBelow, PressLike, Liking, Slot, Begin, NoTask, verdicts,
      reactions, usage, bounds, Visiting, InHand, AfterSend, At,
      NotificationLimit
<1> QED BY <1>1, <1>2, <1>3, <1>4, <1>5, <1>6, <1>7, <1>8, <1>9, <1>10, <1>11,
    <1>12 DEF IInv

LEMMA CheckReactedKeeps ==
  ASSUME IInv, TypeOK', NEW k \in Slot, CheckReacted(k)
  PROVE  IInv'
<1>1. ApprovedIsPublished'
  BY DEF IInv, ApprovedIsPublished, CheckReacted, Done, GoOn, verdicts,
      reactions, usage, bounds
<1>2. MarkedHasPost'
  BY CheckReactedEffect DEF IInv, MarkedHasPost, Slot, At, verdicts, reactions,
      usage, bounds
<1>3. OneDecides'
  BY CheckReactedEffect DEF IInv, OneDecides, Deciding, Slot, verdicts,
      reactions, usage, bounds
<1>4. VerdictDue'
  BY CheckReactedEffect DEF IInv, VerdictDue, Slot, Deciding, At, verdicts,
      reactions, usage, bounds
<1>5. VerdictTold'
  BY CheckReactedEffect DEF IInv, VerdictTold, Deciding, Slot, verdicts,
      reactions, usage, bounds
<1>6. ResponseHeard'
  BY CheckReactedEffect DEF IInv, ResponseHeard, Pair, Untold, Liking, Slot, At,
      verdicts, reactions, usage, bounds
<1>7. OneVisits'
  BY CheckReactedEffect DEF IInv, OneVisits, Visiting, Slot, InHand, AfterSend,
      verdicts, reactions, usage, bounds
<1>8. RollsStale'
  BY CheckReactedEffect DEF IInv, RollsStale, Visiting, Slot, InHand, AfterSend,
      verdicts, reactions, usage, bounds
<1>9. CarriesNone'
  BY CheckReactedEffect DEF IInv, CarriesNone, Slot, InHand, AfterSend,
      verdicts, reactions, usage, bounds
<1>10. PutsWhatIs'
  BY CheckReactedEffect DEF IInv, PutsWhatIs, Visiting, Slot, InHand, AfterSend,
      At, verdicts, reactions, usage, bounds
<1>11. SentCounted'
  BY CheckReactedEffect DEF IInv, SentCounted, Uncounted, Visiting, Slot,
      InHand, AfterSend, verdicts, reactions, usage, bounds
<1>12. SendsBelow'
  BY CheckReactedEffect DEF IInv, SendsBelow, Visiting, Slot, InHand, AfterSend,
      At, NotificationLimit, verdicts, reactions, usage, bounds
<1> QED BY <1>1, <1>2, <1>3, <1>4, <1>5, <1>6, <1>7, <1>8, <1>9, <1>10, <1>11,
    <1>12 DEF IInv

LEMMA SetLikeKeeps ==
  ASSUME IInv, TypeOK', NEW k \in Slot, SetLike(k)
  PROVE  IInv'
<1>1. ApprovedIsPublished'
  BY DEF IInv, ApprovedIsPublished, SetLike, GoOn, verdicts, usage, bounds
<1>2. MarkedHasPost'
  BY DEF IInv, MarkedHasPost, SetLike, At, GoOn, verdicts, usage, bounds, Slot
<1>3. OneDecides'
  BY DEF IInv, OneDecides, SetLike, At, GoOn, verdicts, usage, bounds, Deciding,
      Slot
<1>4. VerdictDue'
  BY DEF IInv, VerdictDue, SetLike, At, GoOn, verdicts, usage, bounds, Slot,
      Deciding
<1>5. VerdictTold'
  BY DEF IInv, VerdictTold, SetLike, At, GoOn, verdicts, usage, bounds,
      Deciding, Slot
<1>6. ResponseHeard'
  <2> SUFFICES ASSUME NEW p \in Pair, row'[p] = "like", ~(heard[p] > 0), p \notin unheard
               PROVE  Untold(p)'
    BY DEF SetLike, ResponseHeard
  <2>1. /\ task'[k].pc = "tellLike" /\ task'[k].v = task[k].v /\ task'[k].s = task[k].s
        /\ \A j \in Slot : j # k => task'[j] = task[j]
        /\ task[k].pc = "set" /\ row' = [row EXCEPT ![<<task[k].v, task[k].s>>] = "like"]
    BY ResponseStep DEF IInv, SetLike, At
  <2>2. CASE p = <<task[k].v, task[k].s>>
    BY <2>1, <2>2 DEF Untold, Liking, At
  <2>3. CASE p # <<task[k].v, task[k].s>>
    <3>1. Untold(p)
      BY <2>1, <2>3 DEF IInv, TypeOK, ResponseHeard
    <3> QED BY <2>1, <3>1 DEF Untold, Liking, At
  <2> QED BY <2>2, <2>3
<1>7. OneVisits'
  BY DEF IInv, OneVisits, SetLike, At, GoOn, verdicts, usage, bounds, Visiting,
      Slot, InHand, AfterSend
<1>8. RollsStale'
  BY DEF IInv, RollsStale, SetLike, At, GoOn, verdicts, usage, bounds, Visiting,
      Slot, InHand, AfterSend
<1>9. CarriesNone'
  BY DEF IInv, CarriesNone, SetLike, At, GoOn, verdicts, usage, bounds, Slot,
      InHand, AfterSend
<1>10. PutsWhatIs'
  BY DEF IInv, PutsWhatIs, SetLike, At, GoOn, verdicts, usage, bounds, Visiting,
      Slot, InHand, AfterSend
<1>11. SentCounted'
  BY DEF IInv, SentCounted, SetLike, At, GoOn, verdicts, usage, bounds,
      Uncounted, Visiting, Slot, InHand, AfterSend
<1>12. SendsBelow'
  BY DEF IInv, SendsBelow, SetLike, At, GoOn, verdicts, usage, bounds, Visiting,
      Slot, InHand, AfterSend, NotificationLimit
<1> QED BY <1>1, <1>2, <1>3, <1>4, <1>5, <1>6, <1>7, <1>8, <1>9, <1>10, <1>11,
    <1>12 DEF IInv

LEMMA TellLikeKeeps ==
  ASSUME IInv, TypeOK', NEW k \in Slot, TellLike(k)
  PROVE  IInv'
<1>1. ApprovedIsPublished'
  BY DEF IInv, ApprovedIsPublished, TellLike, Done, verdicts, usage, bounds
<1>2. MarkedHasPost'
  BY DEF IInv, MarkedHasPost, TellLike, At, Done, NoTask, verdicts, usage,
      bounds, Slot
<1>3. OneDecides'
  BY DEF IInv, OneDecides, TellLike, At, Done, NoTask, verdicts, usage, bounds,
      Deciding, Slot
<1>4. VerdictDue'
  BY DEF IInv, VerdictDue, TellLike, At, Done, NoTask, verdicts, usage, bounds,
      Slot, Deciding
<1>5. VerdictTold'
  BY DEF IInv, VerdictTold, TellLike, At, Done, NoTask, verdicts, usage, bounds,
      Deciding, Slot
<1>6. ResponseHeard'
  <2> DEFINE q == <<task[k].v, task[k].s>>
  <2> SUFFICES ASSUME NEW p \in Pair, row[p] = "like"
               PROVE  heard'[p] > 0 \/ Untold(p)' \/ p \in unheard'
    BY DEF TellLike, ResponseHeard
  <2>1. /\ \A j \in Slot : j # k => task'[j] = task[j]
        /\ heard' = [heard EXCEPT ![q] = @ + 1] /\ unheard' = unheard \ {q}
        /\ heard \in [Pair -> Nat] /\ task[k].pc = "tellLike"
    BY DoneStep DEF IInv, TypeOK, TellLike, At
  <2>2. CASE p = q
    BY <2>1, <2>2
  <2>3. CASE p # q
    <3>1. heard[p] > 0 \/ Untold(p) \/ p \in unheard
      BY DEF IInv, ResponseHeard
    <3>2. CASE Untold(p)
      <4>1. PICK j \in Liking(p) : At(j, "tellLike")
        BY <3>2 DEF Untold
      <4>2. j \in Slot /\ <<task[j].v, task[j].s>> = p
        BY <4>1 DEF Liking
      <4>3. j # k
        BY <2>3, <4>2
      <4> QED BY <2>1, <4>1, <4>2, <4>3 DEF Untold, Liking, At
    <3> QED BY <2>1, <2>3, <3>1, <3>2
  <2> QED BY <2>2, <2>3
<1>7. OneVisits'
  BY DEF IInv, OneVisits, TellLike, At, Done, NoTask, verdicts, usage, bounds,
      Visiting, Slot, InHand, AfterSend
<1>8. RollsStale'
  BY DEF IInv, RollsStale, TellLike, At, Done, NoTask, verdicts, usage, bounds,
      Visiting, Slot, InHand, AfterSend
<1>9. CarriesNone'
  BY DEF IInv, CarriesNone, TellLike, At, Done, NoTask, verdicts, usage, bounds,
      Slot, InHand, AfterSend
<1>10. PutsWhatIs'
  BY DEF IInv, PutsWhatIs, TellLike, At, Done, NoTask, verdicts, usage, bounds,
      Visiting, Slot, InHand, AfterSend
<1>11. SentCounted'
  BY DEF IInv, SentCounted, TellLike, At, Done, NoTask, verdicts, usage, bounds,
      Uncounted, Visiting, Slot, InHand, AfterSend
<1>12. SendsBelow'
  BY DEF IInv, SendsBelow, TellLike, At, Done, NoTask, verdicts, usage, bounds,
      Visiting, Slot, InHand, AfterSend, NotificationLimit
<1> QED BY <1>1, <1>2, <1>3, <1>4, <1>5, <1>6, <1>7, <1>8, <1>9, <1>10, <1>11,
    <1>12 DEF IInv

LEMMA AnswerKeeps ==
  ASSUME IInv, TypeOK', NEW v \in Vacancy, NEW s \in Seeker, NEW reaction \in {"dislike", "complaint"}, Answer(v, s, reaction)
  PROVE  IInv'
<1>1. MarkedHasPost' /\ ApprovedIsPublished' /\ OneDecides' /\ VerdictDue' /\ VerdictTold' /\ OneVisits' /\ RollsStale' /\ CarriesNone' /\ PutsWhatIs' /\ SentCounted' /\ SendsBelow'
  BY DEF IInv, MarkedHasPost, ApprovedIsPublished, OneDecides, VerdictDue,
      VerdictTold, OneVisits, RollsStale, CarriesNone, PutsWhatIs, SentCounted,
      SendsBelow, Answer, Slot, At, Deciding, Visiting, InHand, AfterSend,
      Uncounted, NotificationLimit, verdicts, usage, bounds
<1>2. ResponseHeard'
  BY DEF IInv, ResponseHeard, Answer, verdicts, usage, bounds, Pair, Untold,
      Liking, Slot, At
<1> QED BY <1>1, <1>2 DEF IInv

LEMMA BreakKeeps ==
  ASSUME IInv, TypeOK', NEW k \in Slot, Break(k)
  PROVE  IInv'
<1>1. ApprovedIsPublished'
  BY DEF IInv, ApprovedIsPublished, Break, Liking, Done, usage, bounds
<1>2. MarkedHasPost'
  BY DEF IInv, MarkedHasPost, Break, AfterSend, At, Deciding, Slot, Pair,
      Liking, Done, NoTask, usage, bounds
<1>3. OneDecides'
  BY DEF IInv, OneDecides, Break, AfterSend, At, Deciding, Slot, Pair, Liking,
      Done, NoTask, usage, bounds
<1>4. VerdictDue'
  BY DEF IInv, VerdictDue, Break, AfterSend, At, Deciding, Slot, Pair, Liking,
      Done, NoTask, usage, bounds
<1>5. VerdictTold'
  BY DEF IInv, VerdictTold, Break, AfterSend, At, Deciding, Slot, Pair, Liking,
      Done, NoTask, usage, bounds
<1>6. ResponseHeard'
  BY DEF IInv, ResponseHeard, Break, AfterSend, At, Deciding, Slot, Pair,
      Liking, Done, NoTask, usage, bounds, Untold
<1>7. OneVisits'
  BY DEF IInv, OneVisits, Break, AfterSend, At, Deciding, Slot, Pair, Liking,
      Done, NoTask, usage, bounds, Visiting, InHand
<1>8. RollsStale'
  BY DEF IInv, RollsStale, Break, AfterSend, At, Deciding, Slot, Pair, Liking,
      Done, NoTask, usage, bounds, Visiting, InHand
<1>9. CarriesNone'
  BY DEF IInv, CarriesNone, Break, AfterSend, At, Deciding, Slot, Pair, Liking,
      Done, NoTask, usage, bounds, InHand
<1>10. PutsWhatIs'
  BY DEF IInv, PutsWhatIs, Break, AfterSend, At, Deciding, Slot, Pair, Liking,
      Done, NoTask, usage, bounds, Visiting, InHand
<1>11. SentCounted'
  BY DEF IInv, SentCounted, Break, AfterSend, At, Deciding, Slot, Pair, Liking,
      Done, NoTask, usage, bounds, Uncounted, Visiting, InHand
<1>12. SendsBelow'
  BY DEF IInv, SendsBelow, Break, AfterSend, At, Deciding, Slot, Pair, Liking,
      Done, NoTask, usage, bounds, Visiting, InHand, NotificationLimit
<1> QED BY <1>1, <1>2, <1>3, <1>4, <1>5, <1>6, <1>7, <1>8, <1>9, <1>10, <1>11,
    <1>12 DEF IInv

LEMMA RestartKeeps ==
  ASSUME IInv, TypeOK', Restart
  PROVE  IInv'
<1>1. ApprovedIsPublished'
  BY DEF IInv, ApprovedIsPublished, Restart, Liking
<1>2. MarkedHasPost'
  BY DEF IInv, MarkedHasPost, Restart, Unfinished, Deciding, Slot, Pair, Untold,
      Liking, At, InHandNow, Visiting, InHand, AfterSend, NoTask
<1>3. OneDecides'
  BY DEF IInv, OneDecides, Restart, Unfinished, Deciding, Slot, Pair, Untold,
      Liking, At, InHandNow, Visiting, InHand, AfterSend, NoTask
<1>4. VerdictDue'
  BY DEF IInv, VerdictDue, Restart, Unfinished, Deciding, Slot, Pair, Untold,
      Liking, At, InHandNow, Visiting, InHand, AfterSend, NoTask
<1>5. VerdictTold'
  BY DEF IInv, VerdictTold, Restart, Unfinished, Deciding, Slot, Pair, Untold,
      Liking, At, InHandNow, Visiting, InHand, AfterSend, NoTask
<1>6. ResponseHeard'
  BY DEF IInv, ResponseHeard, Restart, Unfinished, Deciding, Slot, Pair, Untold,
      Liking, At, InHandNow, Visiting, InHand, AfterSend, NoTask
<1>7. OneVisits'
  BY DEF IInv, OneVisits, Restart, Unfinished, Deciding, Slot, Pair, Untold,
      Liking, At, InHandNow, Visiting, InHand, AfterSend, NoTask
<1>8. RollsStale'
  BY DEF IInv, RollsStale, Restart, Unfinished, Deciding, Slot, Pair, Untold,
      Liking, At, InHandNow, Visiting, InHand, AfterSend, NoTask
<1>9. CarriesNone'
  BY DEF IInv, CarriesNone, Restart, Unfinished, Deciding, Slot, Pair, Untold,
      Liking, At, InHandNow, Visiting, InHand, AfterSend, NoTask
<1>10. PutsWhatIs'
  BY DEF IInv, PutsWhatIs, Restart, Unfinished, Deciding, Slot, Pair, Untold,
      Liking, At, InHandNow, Visiting, InHand, AfterSend, NoTask
<1>11. SentCounted'
  BY DEF IInv, SentCounted, Restart, Unfinished, Deciding, Slot, Pair, Untold,
      Liking, At, InHandNow, Visiting, InHand, AfterSend, NoTask, Uncounted
<1>12. SendsBelow'
  BY DEF IInv, SendsBelow, Restart, Unfinished, Deciding, Slot, Pair, Untold,
      Liking, At, InHandNow, Visiting, InHand, AfterSend, NoTask,
      NotificationLimit
<1> QED BY <1>1, <1>2, <1>3, <1>4, <1>5, <1>6, <1>7, <1>8, <1>9, <1>10, <1>11,
    <1>12 DEF IInv

LEMMA StepIInv == IInv /\ [Next]_vars => IInv'
<1> SUFFICES ASSUME IInv, [Next]_vars PROVE IInv'
  OBVIOUS
<1>1. TypeOK'
  BY TypeStep DEF IInv
<1>2. CASE UNCHANGED vars
  BY <1>2 DEF IInv, vars, verdicts, reactions, usage, bounds, MarkedHasPost,
      ApprovedIsPublished, OneDecides, VerdictDue, VerdictTold, ResponseHeard,
      OneVisits, RollsStale, CarriesNone, PutsWhatIs, SentCounted, SendsBelow,
      Slot, At, Deciding, Pair, Untold, Liking, Visiting, InHand, AfterSend,
      Uncounted, NotificationLimit, TypeOK, Handler, NoTask, Decision, Refusal,
      Round, Visit, Resetter, Response
<1>3. CASE Next
  BY <1>1, <1>3, PressApproveKeeps, PostKeeps, MarkApprovedKeeps,
      TellApprovedKeeps, ListSeekersKeeps, PressRejectKeeps, GiveReasonKeeps,
      MarkRejectedKeeps, TellRejectedKeeps, ClearReasonKeeps, CloseKeeps,
      StartBroadcastKeeps, PickKeeps, EndRoundKeeps, ReadUsageKeeps, RollKeeps,
      SendKeeps, RecordKeeps, GetKeeps, PutKeeps, VisitFailsKeeps,
      LookUpKeeps, ResetKeeps, MidnightKeeps, DailyResetKeeps, OpenCardKeeps, PressLikeKeeps,
      CheckReactedKeeps, SetLikeKeeps, TellLikeKeeps, AnswerKeeps, BreakKeeps,
      RestartKeeps
     DEF Next, Decide, Notify, Respond
<1> QED BY <1>2, <1>3

-------------------------------------------------------------------------------
(* Theorems.                                                               *)

LEMMA Invariance == Spec => []IInv
<1> QED BY InitIInv, StepIInv, PTL DEF Spec

\* The type invariant of vacancies, notices and handlers.
THEOREM TypeCorrect == Spec => []TypeOK
<1>1. IInv => TypeOK
  BY DEF IInv
<1> QED BY Invariance, <1>1, PTL

\* No vacancy is approved without its post, in any interleaving of any number of
\* approvals, rejections, errors and restarts (approve_vacancy).
THEOREM Published == Spec => []ApprovedIsPublished
<1>1. IInv => ApprovedIsPublished
  BY DEF IInv
<1> QED BY Invariance, <1>1, PTL

\* The employer was told what the row says, once no decision is under way and none of
\* them overlapped or died (approve_vacancy, reject_vacancy_reason).
THEOREM Told == Spec => []VerdictTold
<1>1. IInv => VerdictTold
  BY DEF IInv
<1> QED BY Invariance, <1>1, PTL

\* A response in the row was, or is about to be, announced, unless its handler died
\* (vacancy_like).
THEOREM Heard == Spec => []ResponseHeard
<1>1. IInv => ResponseHeard
  BY DEF IInv
<1> QED BY Invariance, <1>1, PTL

\* The day's count is the number of notices sent, over any number of days, rounds,
\* other readers of the row and seekers, where rounds do not overlap on a seeker and
\* nobody else's reset falls into a round or behind it (db.py, limits.py).
THEOREM Counted == Spec => []CountExact
<1>1. IInv => CountExact
  <2> SUFFICES ASSUME IInv, NEW s \in Seeker \ (blurred \cup stale)
               PROVE  sent[s] = count[s]
                        + Cardinality({ k \in Visiting(s) : task[k].pc \in AfterSend })
    BY DEF CountExact
  <2> DEFINE after == { k \in Visiting(s) : task[k].pc \in AfterSend }
  <2>1. sent[s] = count[s] + Uncounted(s)
    BY DEF IInv, SentCounted
  <2>2. CASE after = {}
    <3>1. Cardinality(after) = 0
      BY <2>2, FS_EmptySet
    <3>2. Uncounted(s) = 0
      BY <2>2 DEF Uncounted
    <3> QED BY <2>1, <3>1, <3>2
  <2>3. CASE after # {}
    <3>1. PICK k \in after : TRUE
      BY <2>3
    <3>2. after = {k}
      BY <3>1 DEF IInv, OneVisits
    <3>3. Cardinality(after) = 1
      BY <3>2, FS_Singleton
    <3>4. Uncounted(s) = 1
      BY <3>1 DEF Uncounted
    <3> QED BY <2>1, <3>3, <3>4
  <2> QED BY <2>2, <2>3
<1> QED BY Invariance, <1>1, PTL

\* A round that obeys the limit never sends a notice beyond it, for any limits and
\* numbers of referrals (can_send_notification), with the same exception.
THEOREM Limited == Spec => WithinLimit
<1>1. IInv => [\A k \in Slot :
                 At(k, "send") /\ task'[k].pc = "record" /\ task[k].limited
                   => \/ task[k].to \in blurred
                      \/ sent[task[k].to] < NotificationLimit(task[k].to)]_vars
  <2> SUFFICES ASSUME IInv, NEW k \in Slot, At(k, "send"), task[k].limited,
                      task[k].to \notin blurred
               PROVE  sent[task[k].to] < NotificationLimit(task[k].to)
    OBVIOUS
  <2>1. task[k].to \in Seeker /\ k \in Visiting(task[k].to)
    BY VisitShape DEF IInv, At, Visiting, InHand
  <2> QED BY <2>1 DEF IInv, SendsBelow
<1> QED BY Invariance, <1>1, PTL DEF WithinLimit

\* What a seeker has answered is only replaced by another answer, in every step of any
\* number of rounds and handlers (record_notification, set_reaction).
THEOREM Kept == Spec => ReactionKept
<1>1. IInv /\ [Next]_vars =>
        [\A p \in Pair : row[p] \in {"like", "dislike", "complaint"}
                         => row'[p] \in {"like", "dislike", "complaint"}]_vars
  <2> SUFFICES ASSUME IInv, [Next]_vars, NEW p \in Pair,
                      row[p] \in {"like", "dislike", "complaint"}
               PROVE  row'[p] \in {"like", "dislike", "complaint"}
    OBVIOUS
  <2>1. row \in [Pair -> {"absent", "none", "like", "dislike", "complaint"}]
    BY DEF IInv, TypeOK
  <2>2. ASSUME NEW v \in Vacancy, NEW s \in Seeker, NEW r \in {"dislike", "complaint"},
               Answer(v, s, r)
        PROVE  row'[p] \in {"like", "dislike", "complaint"}
    BY <2>1, <2>2 DEF Answer
  <2>3. ASSUME NEW k \in Slot, SetLike(k) \/ Record(k)
        PROVE  row'[p] \in {"like", "dislike", "complaint"}
    BY <2>1, <2>3 DEF SetLike, Record
  <2>4. CASE UNCHANGED row
    BY <2>4
  <2>5. UNCHANGED row \/ (\E k \in Slot : SetLike(k) \/ Record(k))
          \/ (\E v \in Vacancy, s \in Seeker, r \in {"dislike", "complaint"} : Answer(v, s, r))
    <3>1. ASSUME NEW k \in Slot, Decide(k) \/ GiveReason(k) \/ Break(k)
          PROVE  UNCHANGED row
      BY <3>1 DEF Decide, Post, MarkApproved, TellApproved, ListSeekers, MarkRejected,
                  TellRejected, ClearReason, GiveReason, Break, verdicts, reactions
    <3>2. ASSUME NEW k \in Slot, Notify(k) PROVE UNCHANGED row \/ Record(k)
      BY <3>2 DEF Notify, Pick, EndRound, ReadUsage, Roll, Send, Get, Put, VisitFails,
                  reactions
    <3>3. ASSUME NEW k \in Slot, Respond(k) PROVE UNCHANGED row \/ SetLike(k)
      BY <3>3 DEF Respond, CheckReacted, TellLike, reactions
    <3>4. ASSUME NEW v \in Vacancy,
                 \/ \E k \in Slot : PressApprove(v, k) \/ StartBroadcast(v, k)
                 \/ PressReject(v) \/ Close(v)
                 \/ \E s \in Seeker : OpenCard(v, s) \/ \E k \in Slot : PressLike(v, s, k)
          PROVE  UNCHANGED row
      BY <3>4 DEF PressApprove, StartBroadcast, PressReject, Close, OpenCard, PressLike,
                  reactions
    <3>7. ASSUME NEW k \in Slot, Reset(k) \/ \E s \in Seeker : LookUp(s, k)
          PROVE  UNCHANGED row
      BY <3>7 DEF Reset, LookUp, reactions
    <3>5. CASE Midnight \/ DailyReset \/ Restart
      BY <3>5 DEF Midnight, DailyReset, Restart, reactions
    <3>6. CASE UNCHANGED vars
      BY <3>6 DEF vars, reactions
    <3> QED BY <3>1, <3>2, <3>3, <3>4, <3>5, <3>6, <3>7 DEF Next
  <2> QED BY <2>2, <2>3, <2>4, <2>5
<1> QED BY Invariance, <1>1, PTL DEF Spec, ReactionKept

===============================================================================
