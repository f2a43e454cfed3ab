----------------------------- MODULE PaidPinsProofs ----------------------------
(***************************************************************************)
(* No paid pin is forgotten: for any posts, payments, confirmations,       *)
(* overlapping handlers, failures of the job and restarts.                 *)
(***************************************************************************)
EXTENDS PaidPins, TLAPS, FiniteSetTheorems, SequenceTheorems

-------------------------------------------------------------------------------
(* The inductive invariant.                                                *)

\* What keeps a pin of p from being forgotten, if the row i is left aside.
Kept(p, i) == p \in stuck \cup BeingScheduled \/ Scheduled(p) \ {i} # {}

\* A row about to be marked done is no longer needed: its post was taken down, and if
\* it is pinned again, then by a handler with a row of its own.
DoneNotNeeded ==
  job.call = "markDone" /\ JobPost \in pinned => Kept(JobPost, Head(job.todo))

IInv == TypeOK /\ PinnedHasEnd /\ DoneNotNeeded

-------------------------------------------------------------------------------
(* Handlers and the job.                                                   *)

LEMMA Bounds ==
  /\ Term \in Nat /\ MaxPayments \in Nat /\ MaxTime \in Nat /\ MaxRestarts \in Nat
  /\ \A n \in 0..(MaxTime + Term) : n + Term \in Nat
<1>1. Term \in Nat /\ MaxPayments \in Nat /\ MaxTime \in Nat /\ MaxRestarts \in Nat
  BY PaidPinsAssumption
<1> QED BY <1>1

LEMMA Rows ==
  ASSUME TypeOK
  PROVE  /\ Len(payments) \in Nat /\ Len(unpins) \in Nat
         /\ \A p \in 1..Len(payments) : payments[p] \in PaymentRow /\ payments[p].post \in Post
         /\ \A i \in 1..Len(unpins) : unpins[i] \in UnpinRow /\ unpins[i].post \in Post
<1>1. payments \in Seq(PaymentRow) /\ unpins \in Seq(UnpinRow)
  BY DEF TypeOK
<1>2. ASSUME NEW p \in 1..Len(payments) PROVE payments[p] \in PaymentRow
  BY <1>1, ElementOfSeq
<1>3. ASSUME NEW i \in 1..Len(unpins) PROVE unpins[i] \in UnpinRow
  BY <1>1, ElementOfSeq
<1>4. \A r \in PaymentRow : r.post \in Post
  BY DEF PaymentRow
<1>5. \A r \in UnpinRow : r.post \in Post
  BY DEF UnpinRow
<1>6. Len(payments) \in Nat /\ Len(unpins) \in Nat
  BY <1>1, LenProperties
<1> QED BY <1>2, <1>3, <1>4, <1>5, <1>6

LEMMA HandlerFacts ==
  ASSUME TypeOK, NEW k \in Slot
  PROVE  /\ task[k].kind \in {"none", "forward", "settle", "pin", "schedule"}
         /\ task[k].kind # "none" =>
              /\ task[k].payment \in 1..Len(payments) /\ PostOf(k) \in Post
              /\ task[k] \in [kind : {"forward", "settle", "pin", "schedule"},
                              payment : 1..Len(payments)]
<1>1. task[k] \in Handler
  BY DEF TypeOK
<1>2. ASSUME task[k].kind # "none"
      PROVE  task[k] \in [kind : {"forward", "settle", "pin", "schedule"},
                          payment : 1..Len(payments)]
  BY <1>1, <1>2 DEF Handler, NoTask
<1>3. task[k].kind \in {"none", "forward", "settle", "pin", "schedule"}
  BY <1>1 DEF Handler, NoTask
<1> QED BY <1>2, <1>3, Rows DEF PostOf

LEMMA BeginStep ==
  ASSUME TypeOK, NEW k \in Slot, NEW kind \in {"forward", "settle", "pin", "schedule"},
         NEW p \in 1..Len(payments), Begin(k, kind, p)
  PROVE  /\ task' \in [Slot -> Handler]
         /\ task[k].kind = "none" /\ task'[k].kind = kind /\ task'[k].payment = p
         /\ \A j \in Slot : j # k => task'[j] = task[j]
<1>1. [kind |-> kind, payment |-> p] \in Handler
  BY DEF Handler
<1> QED BY <1>1 DEF TypeOK, Begin, NoTask

LEMMA GoOnStep ==
  ASSUME TypeOK, NEW k \in Slot, task[k].kind # "none",
         NEW kind \in {"forward", "settle", "pin", "schedule"}, GoOn(k, kind)
  PROVE  /\ task' \in [Slot -> Handler]
         /\ task'[k].kind = kind /\ task'[k].payment = task[k].payment
         /\ \A j \in Slot : j # k => task'[j] = task[j]
<1> DEFINE t == [task[k] EXCEPT !.kind = kind]
<1>1. /\ t \in [kind : {"forward", "settle", "pin", "schedule"}, payment : 1..Len(payments)]
      /\ t.kind = kind /\ t.payment = task[k].payment
  BY HandlerFacts
<1>2. t \in Handler
  BY <1>1 DEF Handler
<1>3. task' = [task EXCEPT ![k] = t] /\ task \in [Slot -> Handler]
  BY DEF TypeOK, GoOn
<1> HIDE DEF t
<1> QED BY <1>1, <1>2, <1>3

LEMMA DoneStep ==
  ASSUME TypeOK, NEW k \in Slot, Done(k)
  PROVE  /\ task' \in [Slot -> Handler]
         /\ task'[k].kind = "none"
         /\ \A j \in Slot : j # k => task'[j] = task[j]
<1>1. NoTask \in Handler /\ NoTask.kind = "none"
  BY DEF Handler, NoTask
<1> QED BY <1>1 DEF TypeOK, Done

LEMMA JobFacts ==
  ASSUME TypeOK, job.call # "none"
  PROVE  /\ Head(job.todo) \in 1..Len(unpins) /\ JobPost \in Post
         /\ Tail(job.todo) \in Seq(1..Len(unpins))
<1>1. job.todo \in Seq(1..Len(unpins)) /\ job.todo # <<>>
  BY DEF TypeOK
<1>2. Head(job.todo) \in 1..Len(unpins) /\ Tail(job.todo) \in Seq(1..Len(unpins))
  BY <1>1, HeadTailProperties
<1> QED BY <1>2, Rows DEF JobPost

LEMMA DueFacts ==
  ASSUME TypeOK, DueRows # {}
  PROVE  \A order \in [1..Cardinality(DueRows) -> DueRows] :
           order \in Seq(1..Len(unpins)) /\ order # <<>>
<1>1. DueRows \subseteq 1..Len(unpins) /\ Len(unpins) \in Nat
  BY DEF DueRows, TypeOK
<1>2. IsFiniteSet(DueRows)
  <2>1. IsFiniteSet(1..Len(unpins))
    BY <1>1, FS_Interval
  <2> QED BY <1>1, <2>1, FS_Subset
<1>3. Cardinality(DueRows) \in Nat \ {0}
  BY <1>2, FS_CardinalityType, FS_EmptySet
<1>4. ASSUME NEW n \in Nat \ {0}, NEW order \in [1..n -> DueRows]
      PROVE  order \in Seq(1..Len(unpins)) /\ order # <<>>
  <2>1. order \in [1..n -> 1..Len(unpins)]
    BY <1>1
  <2>2. order \in Seq(1..Len(unpins)) /\ Len(order) = n
    BY <2>1
  <2> QED BY <2>2
<1> QED BY <1>3, <1>4

\* A payment's row is added, or its status changes: its post stays.
LEMMA PaymentAdded ==
  ASSUME TypeOK, NEW p \in Post, Len(payments) < MaxPayments,
         payments' = Append(payments, [post |-> p, status |-> "pending"])
  PROVE  /\ payments' \in Seq(PaymentRow) /\ Len(payments') = Len(payments) + 1
         /\ \A q \in 1..Len(payments) : payments'[q] = payments[q]
         /\ Handler \subseteq Handler'
<1>1. [post |-> p, status |-> "pending"] \in PaymentRow
  BY DEF PaymentRow
<1>2. payments \in Seq(PaymentRow)
  BY DEF TypeOK
<1> DEFINE r == [post |-> p, status |-> "pending"]
<1> HIDE DEF r
<1>3. payments' = Append(payments, r) /\ r \in PaymentRow
  BY <1>1 DEF r
<1>4. /\ payments' \in Seq(PaymentRow) /\ Len(payments') = Len(payments) + 1
      /\ \A q \in 1..Len(payments) : payments'[q] = payments[q]
  BY <1>2, <1>3, AppendProperties
<1>5. Handler \subseteq Handler'
  BY <1>4, Rows DEF Handler
<1> QED BY <1>4, <1>5

LEMMA PaymentDecided ==
  ASSUME TypeOK, NEW p \in 1..Len(payments), NEW x \in {"paid", "rejected"},
         payments' = [payments EXCEPT ![p].status = x]
  PROVE  /\ payments' \in Seq(PaymentRow) /\ Len(payments') = Len(payments)
         /\ \A q \in 1..Len(payments) : payments'[q].post = payments[q].post
<1> DEFINE r == [payments[p] EXCEPT !.status = x]
<1>1. payments[p] \in PaymentRow
  BY Rows
<1>2. r \in PaymentRow /\ r.post = payments[p].post
  BY <1>1 DEF PaymentRow
<1>3. payments' = [payments EXCEPT ![p] = r] /\ payments \in Seq(PaymentRow)
  BY DEF TypeOK
<1> HIDE DEF r
<1> QED BY <1>2, <1>3, ExceptSeq

\* The end of a pin is scheduled, or a row of the job marked.
LEMMA UnpinAdded ==
  ASSUME TypeOK, NEW p \in Post, NEW due \in Nat,
         unpins' = Append(unpins, [post |-> p, due |-> due, status |-> "scheduled"])
  PROVE  /\ unpins' \in Seq(UnpinRow) /\ Len(unpins') = Len(unpins) + 1
         /\ \A i \in 1..Len(unpins) : unpins'[i] = unpins[i]
         /\ Len(unpins) + 1 \in Scheduled(p)'
         /\ \A q : Scheduled(q) \subseteq Scheduled(q)'
<1> DEFINE r == [post |-> p, due |-> due, status |-> "scheduled"]
<1>1. r \in UnpinRow /\ r.post = p /\ r.status = "scheduled"
  BY DEF UnpinRow
<1>2. unpins \in Seq(UnpinRow) /\ unpins' = Append(unpins, r)
  BY DEF TypeOK
<1> HIDE DEF r
<1>3. /\ unpins' \in Seq(UnpinRow) /\ Len(unpins') = Len(unpins) + 1
      /\ \A i \in 1..Len(unpins) : unpins'[i] = unpins[i]
      /\ unpins'[Len(unpins) + 1] = r
  BY <1>1, <1>2, AppendProperties
<1>4. Len(unpins) \in Nat
  BY Rows
<1>5. Len(unpins) + 1 \in Scheduled(p)'
  BY <1>1, <1>3, <1>4 DEF Scheduled
<1>6. \A q : Scheduled(q) \subseteq Scheduled(q)'
  BY <1>3, <1>4 DEF Scheduled
<1> QED BY <1>3, <1>5, <1>6

LEMMA UnpinMarked ==
  ASSUME TypeOK, NEW i \in 1..Len(unpins), NEW x \in {"done", "failed"},
         unpins' = [unpins EXCEPT ![i].status = x]
  PROVE  /\ unpins' \in Seq(UnpinRow) /\ Len(unpins') = Len(unpins)
         /\ \A j \in 1..Len(unpins) : unpins'[j].post = unpins[j].post
         /\ \A q : Scheduled(q) \ {i} \subseteq Scheduled(q)'
         /\ \A q : q # unpins[i].post => Scheduled(q) \subseteq Scheduled(q)'
<1> DEFINE r == [unpins[i] EXCEPT !.status = x]
<1>1. unpins[i] \in UnpinRow
  BY Rows
<1>2. r \in UnpinRow /\ r.post = unpins[i].post
  BY <1>1 DEF UnpinRow
<1>3. unpins' = [unpins EXCEPT ![i] = r] /\ unpins \in Seq(UnpinRow)
  BY DEF TypeOK
<1> HIDE DEF r
<1>4. /\ unpins' \in Seq(UnpinRow) /\ Len(unpins') = Len(unpins)
      /\ \A j \in 1..Len(unpins) : unpins'[j] = IF j = i THEN r ELSE unpins[j]
  BY <1>2, <1>3, ExceptSeq
<1> QED BY <1>2, <1>4 DEF Scheduled

-------------------------------------------------------------------------------
(* Steps that forget no pin.                                               *)

LEMMA Waiting ==
  \A p : p \in BeingScheduled <=> \E k \in Slot : task[k].kind = "schedule" /\ PostOf(k) = p
  BY DEF BeingScheduled

LEMMA StillWaiting ==
  ASSUME TypeOK, NEW k \in Slot, task[k].kind # "schedule",
         \A j \in Slot : j # k => task'[j] = task[j],
         \A q \in 1..Len(payments) : payments'[q].post = payments[q].post
  PROVE  BeingScheduled \subseteq BeingScheduled'
<1> SUFFICES ASSUME NEW j \in Slot, task[j].kind = "schedule"
             PROVE  PostOf(j) \in BeingScheduled'
  BY Waiting
<1>1. task'[j] = task[j] /\ task[j].payment \in 1..Len(payments)
  BY HandlerFacts
<1>2. PostOf(j)' = PostOf(j)
  BY <1>1 DEF PostOf
<1> QED BY <1>1, <1>2 DEF BeingScheduled

LEMMA NoneForgotten ==
  ASSUME PinnedHasEnd, pinned' \subseteq pinned, stuck \subseteq stuck',
         BeingScheduled \subseteq BeingScheduled' \cup stuck',
         \A p : Scheduled(p) \subseteq Scheduled(p)'
  PROVE  PinnedHasEnd'
  BY DEF PinnedHasEnd

LEMMA NoneNeeded ==
  ASSUME TypeOK, DoneNotNeeded, pinned' \subseteq pinned, stuck \subseteq stuck', job' = job,
         BeingScheduled \subseteq BeingScheduled' \cup stuck',
         \A p : Scheduled(p) \subseteq Scheduled(p)',
         \A i \in 1..Len(unpins) : unpins'[i] = unpins[i]
  PROVE  DoneNotNeeded'
<1> SUFFICES ASSUME job.call = "markDone", JobPost' \in pinned'
             PROVE  Kept(JobPost, Head(job.todo))'
  BY DEF DoneNotNeeded
<1>1. JobPost' = JobPost
  BY JobFacts DEF JobPost
<1>2. Kept(JobPost, Head(job.todo))
  BY <1>1 DEF DoneNotNeeded
<1> QED BY <1>1, <1>2 DEF Kept

-------------------------------------------------------------------------------
(* Types are kept.                                                         *)

LEMMA TypeInit == Init => TypeOK
<1> SUFFICES ASSUME Init PROVE TypeOK
  OBVIOUS
<1>1. payments \in Seq(PaymentRow) /\ Len(payments) = 0
  BY EmptySeq DEF Init
<1>2. unpins \in Seq(UnpinRow) /\ Len(unpins) = 0
  BY EmptySeq DEF Init
<1>3. task \in [Slot -> Handler]
  BY DEF Init, Handler
<1>4. job \in [todo : Seq(1..Len(unpins)), call : {"none", "unpin", "markDone", "markFailed"}]
  BY EmptySeq DEF Init, NoJob
<1>5. /\ Len(payments) <= MaxPayments /\ {pending, clicked} \subseteq 0..Len(payments)
      /\ now \in 0..(MaxTime + Term) /\ restarts \in 0..MaxRestarts
  BY <1>1, Bounds DEF Init
<1>6. (job.call = "none") <=> (job.todo = <<>>)
  BY DEF Init, NoJob
<1>7. awaiting \in BOOLEAN /\ inbox = {} /\ pinned = {} /\ stuck = {}
  BY DEF Init
<1> QED BY <1>1, <1>2, <1>3, <1>4, <1>5, <1>6, <1>7 DEF TypeOK

LEMMA TypeStep == TypeOK /\ [Next]_vars => TypeOK'
<1> SUFFICES ASSUME TypeOK, [Next]_vars PROVE TypeOK'
  OBVIOUS
<1>1. ASSUME NEW p \in Post, StartPayment(p) PROVE TypeOK'
  <2>1. /\ payments' \in Seq(PaymentRow) /\ Len(payments') = Len(payments) + 1
        /\ Handler \subseteq Handler'
    BY <1>1, PaymentAdded DEF StartPayment
  <2>2. Len(payments') <= MaxPayments /\ 0..Len(payments) \subseteq 0..Len(payments')
    BY <1>1, <2>1, Rows, Bounds DEF StartPayment
  <2>3. task' \in [Slot -> Handler']
    BY <1>1, <2>1 DEF TypeOK, StartPayment
  <2>4. /\ {pending, clicked} \subseteq 0..Len(payments')
        /\ inbox \subseteq 1..Len(payments')
    BY <2>1, <2>2, Rows DEF TypeOK
  <2> QED BY <1>1, <2>1, <2>2, <2>3, <2>4 DEF TypeOK, StartPayment, channel
<1>2. ASSUME NEW p \in Payment, ClickPaid(p) PROVE TypeOK'
  <2>1. Handler' = Handler
    BY <1>2 DEF ClickPaid, Handler
  <2>0. 0 \in 0..Len(payments)
    BY Rows
  <2>2. {pending', clicked'} \subseteq 0..Len(payments) /\ awaiting' \in BOOLEAN
    BY <1>2, <2>0, Rows DEF TypeOK, ClickPaid
  <2> QED BY <1>2, <2>1, <2>2 DEF TypeOK, ClickPaid, channel
<1>3. ASSUME NEW p \in Payment, Reject(p) PROVE TypeOK'
  <2>1. p \in 1..Len(payments)
    BY <1>3 DEF TypeOK, Reject
  <2>2. payments' \in Seq(PaymentRow) /\ Len(payments') = Len(payments)
    BY <1>3, <2>1, PaymentDecided DEF Reject
  <2>3. Handler' = Handler
    BY <2>2 DEF Handler
  <2>4. task' \in [Slot -> Handler]
    BY <1>3, <2>1, BeginStep DEF TypeOK, Reject
  <2> QED BY <1>3, <2>2, <2>3, <2>4 DEF TypeOK, Reject, channel
<1>4. ASSUME NEW p \in Payment, NEW k \in Slot, Confirm(p, k) PROVE TypeOK'
  <2>1. p \in 1..Len(payments)
    BY <1>4 DEF TypeOK, Confirm
  <2>2. payments' \in Seq(PaymentRow) /\ Len(payments') = Len(payments)
    BY <1>4, <2>1, PaymentDecided DEF Confirm
  <2>3. Handler' = Handler
    BY <2>2 DEF Handler
  <2>4. task' \in [Slot -> Handler]
    BY <1>4, <2>1, BeginStep DEF TypeOK, Confirm
  <2> QED BY <1>4, <2>2, <2>3, <2>4 DEF TypeOK, Confirm, channel
<1>5. ASSUME NEW k \in Slot, SendPhoto(k) PROVE TypeOK'
  <2>1. pending \in 1..Len(payments)
    BY <1>5, Rows DEF TypeOK, SendPhoto
  <2>2. task' \in [Slot -> Handler]
    BY <1>5, <2>1, BeginStep DEF SendPhoto
  <2>3. Handler' = Handler
    BY <1>5 DEF SendPhoto, shop, Handler
  <2> QED BY <1>5, <2>2, <2>3 DEF TypeOK, SendPhoto, shop, channel
<1>6. ASSUME NEW k \in Slot, Forward(k) PROVE TypeOK'
  <2>1. task' \in [Slot -> Handler] /\ task[k].payment \in 1..Len(payments)
    BY <1>6, GoOnStep, HandlerFacts DEF Forward
  <2>2. Handler' = Handler
    BY <1>6 DEF Forward, shop, Handler
  <2> QED BY <1>6, <2>1, <2>2 DEF TypeOK, Forward, shop, channel
<1>7. ASSUME NEW k \in Slot, Settle(k) PROVE TypeOK'
  <2>1. task' \in [Slot -> Handler]
    BY <1>7, DoneStep DEF Settle
  <2>2. Handler' = Handler
    BY <1>7 DEF Settle, shop, Handler
  <2> QED BY <1>7, Rows, <2>1, <2>2 DEF TypeOK, Settle, shop, channel
<1>8. ASSUME NEW k \in Slot, Pin(k) PROVE TypeOK'
  <2>1. task' \in [Slot -> Handler] /\ PostOf(k) \in Post
    BY <1>8, GoOnStep, HandlerFacts DEF Pin
  <2>2. Handler' = Handler
    BY <1>8 DEF Pin, shop, Handler
  <2> QED BY <1>8, <2>1, <2>2 DEF TypeOK, Pin, shop, channel
<1>9. ASSUME NEW k \in Slot, ScheduleUnpin(k) PROVE TypeOK'
  <2>1. PostOf(k) \in Post /\ now + Term \in Nat
    BY <1>9, HandlerFacts, Bounds DEF ScheduleUnpin, TypeOK
  <2>2. unpins' \in Seq(UnpinRow) /\ Len(unpins') = Len(unpins) + 1
    BY <1>9, <2>1, UnpinAdded DEF ScheduleUnpin
  <2>3. job \in [todo : Seq(1..Len(unpins')), call : {"none", "unpin", "markDone", "markFailed"}]
    <3>1. 1..Len(unpins) \subseteq 1..Len(unpins')
      BY <2>2, Rows
    <3>2. job.todo \in Seq(1..Len(unpins'))
      BY <3>1, SeqMonotonic DEF TypeOK
    <3> QED BY <3>2 DEF TypeOK
  <2>4. task' \in [Slot -> Handler] /\ Handler' = Handler
    BY <1>9, DoneStep DEF ScheduleUnpin, shop, Handler
  <2> QED BY <1>9, <2>2, <2>3, <2>4 DEF TypeOK, ScheduleUnpin, shop
<1>10. ASSUME NEW k \in Slot, Break(k) PROVE TypeOK'
  <2>1. task' \in [Slot -> Handler] /\ (task[k].kind = "schedule" => PostOf(k) \in Post)
    BY <1>10, DoneStep, HandlerFacts DEF Break
  <2>2. Handler' = Handler
    BY <1>10 DEF Break, shop, Handler
  <2> QED BY <1>10, <2>1, <2>2 DEF TypeOK, Break, shop, channel
<1>11. CASE Leave
  <2>1. Handler' = Handler
    BY <1>11 DEF Leave, Handler
  <2>0. 0 \in 0..Len(payments)
    BY Rows
  <2>2. {pending', clicked'} \subseteq 0..Len(payments) /\ awaiting' \in BOOLEAN
    BY <1>11, <2>0, Rows DEF TypeOK, Leave
  <2> QED BY <1>11, <2>1, <2>2 DEF TypeOK, Leave, channel
<1>12. CASE StartJob
  <2>1. PICK order \in [1..Cardinality(DueRows) -> DueRows] :
           job' = [todo |-> order, call |-> "unpin"]
    BY <1>12 DEF StartJob
  <2>2. order \in Seq(1..Len(unpins)) /\ order # <<>>
    BY <1>12, DueFacts DEF StartJob
  <2>3. Handler' = Handler
    BY <1>12 DEF StartJob, shop, Handler
  <2> QED BY <1>12, <2>1, <2>2, <2>3 DEF TypeOK, StartJob, shop
<1>13. CASE UnpinPost
  <2>1. Handler' = Handler
    BY <1>13 DEF UnpinPost, shop, Handler
  <2> QED BY <1>13, <2>1, JobFacts DEF TypeOK, UnpinPost, shop
<1>14. CASE UnpinFails
  <2>1. Handler' = Handler
    BY <1>14 DEF UnpinFails, shop, Handler
  <2> QED BY <1>14, <2>1, JobFacts DEF TypeOK, UnpinFails, shop
<1>15. CASE MarkRow
  <2> DEFINE i == Head(job.todo)
             x == IF job.call = "markFailed" THEN "failed" ELSE "done"
  <2>1. i \in 1..Len(unpins) /\ JobPost \in Post /\ Tail(job.todo) \in Seq(1..Len(unpins))
    BY <1>15, JobFacts DEF MarkRow
  <2>2. unpins' = [unpins EXCEPT ![i].status = x] /\ x \in {"done", "failed"}
    BY <1>15 DEF MarkRow
  <2> HIDE DEF x, i
  <2>3. unpins' \in Seq(UnpinRow) /\ Len(unpins') = Len(unpins)
    BY <2>1, <2>2, UnpinMarked
  <2>4. /\ job' \in [todo : Seq(1..Len(unpins)),
                     call : {"none", "unpin", "markDone", "markFailed"}]
        /\ (job'.call = "none") <=> (job'.todo = <<>>)
    BY <1>15, <2>1, EmptySeq DEF MarkRow, NoJob
  <2>5. Handler' = Handler /\ stuck' \subseteq Post
    BY <1>15, <2>1 DEF MarkRow, shop, Handler, TypeOK
  <2> QED BY <1>15, <2>3, <2>4, <2>5 DEF TypeOK, MarkRow, shop
<1>16. CASE MarkFails
  <2>1. /\ job' \in [todo : Seq(1..Len(unpins)),
                     call : {"none", "unpin", "markDone", "markFailed"}]
        /\ (job'.call = "none") <=> (job'.todo = <<>>)
    BY <1>16, EmptySeq DEF MarkFails, NoJob, TypeOK
  <2>2. Handler' = Handler
    BY <1>16 DEF MarkFails, shop, Handler
  <2> QED BY <1>16, <2>1, <2>2 DEF TypeOK, MarkFails, shop
<1>17. CASE Restart
  <2>1. task' \in [Slot -> Handler] /\ Handler' = Handler
    BY <1>17 DEF Restart, Handler
  <2>2. BeingScheduled \subseteq Post
    BY HandlerFacts DEF BeingScheduled
  <2>3. /\ job' \in [todo : Seq(1..Len(unpins)),
                     call : {"none", "unpin", "markDone", "markFailed"}]
        /\ (job'.call = "none") <=> (job'.todo = <<>>)
    BY <1>17, EmptySeq DEF Restart, NoJob
  <2>4. restarts' \in 0..MaxRestarts /\ {pending', clicked'} \subseteq 0..Len(payments)
    BY <1>17, Rows, Bounds DEF Restart, TypeOK
  <2> QED BY <1>17, <2>1, <2>2, <2>3, <2>4 DEF TypeOK, Restart
<1>18. CASE Tick
  <2>1. Handler' = Handler
    BY <1>18 DEF Tick, shop, Handler
  <2>2. now' \in 0..(MaxTime + Term)
    BY <1>18, Bounds DEF TypeOK, Tick
  <2> QED BY <1>18, <2>1, <2>2 DEF TypeOK, Tick, shop, channel
<1>19. CASE UNCHANGED vars
  <2>1. Handler' = Handler
    BY <1>19 DEF vars, shop, Handler
  <2> QED BY <1>19, <2>1 DEF TypeOK, vars, shop, channel
<1> QED
  BY <1>1, <1>2, <1>3, <1>4, <1>5, <1>6, <1>7, <1>8, <1>9, <1>10, <1>11, <1>12,
      <1>13, <1>14, <1>15, <1>16, <1>17, <1>18, <1>19 DEF Next, Work, JobStep

-------------------------------------------------------------------------------
(* The invariant holds at first, and every action keeps it.                *)

LEMMA InitIInv == Init => IInv
  BY TypeInit DEF IInv, Init, PinnedHasEnd, DoneNotNeeded, NoJob, Slot, NoTask,
      BeingScheduled, PostOf, Scheduled, JobPost, Kept

LEMMA StartPaymentKeeps ==
  ASSUME IInv, TypeOK', NEW p \in Post, StartPayment(p)
  PROVE  IInv'
<1>1. PinnedHasEnd'
  <2>1. \A q \in 1..Len(payments) : payments'[q] = payments[q]
    BY PaymentAdded DEF IInv, StartPayment
  <2>2. BeingScheduled \subseteq BeingScheduled'
    <3>1. ASSUME NEW k \in Slot, task[k].kind = "schedule" PROVE PostOf(k)' = PostOf(k)
      BY <2>1, <3>1, HandlerFacts DEF IInv, PostOf, StartPayment
    <3> QED BY <3>1, Waiting DEF BeingScheduled, StartPayment
  <2>3. \A q : Scheduled(q) \subseteq Scheduled(q)'
    BY DEF StartPayment, channel, Scheduled
  <2> QED BY <2>2, <2>3, NoneForgotten DEF IInv, StartPayment, channel
<1>2. DoneNotNeeded'
  <2>1. \A q \in 1..Len(payments) : payments'[q] = payments[q]
    BY PaymentAdded DEF IInv, StartPayment
  <2>2. BeingScheduled \subseteq BeingScheduled'
    <3>1. ASSUME NEW k \in Slot, task[k].kind = "schedule" PROVE PostOf(k)' = PostOf(k)
      BY <2>1, <3>1, HandlerFacts DEF IInv, PostOf, StartPayment
    <3> QED BY <3>1, Waiting DEF BeingScheduled, StartPayment
  <2>3. \A q : Scheduled(q) \subseteq Scheduled(q)'
    BY DEF StartPayment, channel, Scheduled
  <2> QED BY <2>2, <2>3, NoneNeeded DEF IInv, StartPayment, channel
<1> QED BY <1>1, <1>2 DEF IInv

LEMMA ClickPaidKeeps ==
  ASSUME IInv, TypeOK', NEW p \in Payment, ClickPaid(p)
  PROVE  IInv'
<1>1. PinnedHasEnd' /\ DoneNotNeeded'
  BY DEF IInv, PinnedHasEnd, DoneNotNeeded, ClickPaid, BeingScheduled, PostOf,
      Slot, Scheduled, JobPost, Kept, channel
<1> QED BY <1>1 DEF IInv

LEMMA RejectKeeps ==
  ASSUME IInv, TypeOK', NEW p \in Payment, Reject(p)
  PROVE  IInv'
<1>1. PinnedHasEnd'
  <2>1. p \in 1..Len(payments)
    BY DEF IInv, TypeOK, Reject
  <2>2. \A q \in 1..Len(payments) : payments'[q].post = payments[q].post
    BY <2>1, PaymentDecided DEF IInv, Reject
  <2>3. BeingScheduled \subseteq BeingScheduled'
    <3>1. ASSUME NEW k \in Slot, task[k].kind = "schedule" PROVE PostOf(k)' = PostOf(k)
      BY <2>2, <3>1, HandlerFacts DEF IInv, PostOf, Reject
    <3> QED BY <3>1, Waiting DEF BeingScheduled, Reject
  <2>4. \A q : Scheduled(q) \subseteq Scheduled(q)'
    BY DEF Reject, channel, Scheduled
  <2> QED BY <2>3, <2>4, NoneForgotten DEF IInv, Reject, channel
<1>2. DoneNotNeeded'
  <2>1. p \in 1..Len(payments)
    BY DEF IInv, TypeOK, Reject
  <2>2. \A q \in 1..Len(payments) : payments'[q].post = payments[q].post
    BY <2>1, PaymentDecided DEF IInv, Reject
  <2>3. BeingScheduled \subseteq BeingScheduled'
    <3>1. ASSUME NEW k \in Slot, task[k].kind = "schedule" PROVE PostOf(k)' = PostOf(k)
      BY <2>2, <3>1, HandlerFacts DEF IInv, PostOf, Reject
    <3> QED BY <3>1, Waiting DEF BeingScheduled, Reject
  <2>4. \A q : Scheduled(q) \subseteq Scheduled(q)'
    BY DEF Reject, channel, Scheduled
  <2> QED BY <2>3, <2>4, NoneNeeded DEF IInv, Reject, channel
<1> QED BY <1>1, <1>2 DEF IInv

LEMMA ConfirmKeeps ==
  ASSUME IInv, TypeOK', NEW p \in Payment, NEW k \in Slot, Confirm(p, k)
  PROVE  IInv'
<1>1. PinnedHasEnd'
  <2>1. p \in 1..Len(payments)
    BY DEF IInv, TypeOK, Confirm
  <2>2. \A q \in 1..Len(payments) : payments'[q].post = payments[q].post
    BY <2>1, PaymentDecided DEF IInv, Confirm
  <2>3. BeingScheduled \subseteq BeingScheduled'
    BY <2>1, <2>2, BeginStep, StillWaiting DEF IInv, Confirm
  <2>4. \A q : Scheduled(q) \subseteq Scheduled(q)'
    BY DEF Confirm, channel, Scheduled
  <2> QED BY <2>3, <2>4, NoneForgotten DEF IInv, Confirm, channel
<1>2. DoneNotNeeded'
  <2>1. p \in 1..Len(payments)
    BY DEF IInv, TypeOK, Confirm
  <2>2. \A q \in 1..Len(payments) : payments'[q].post = payments[q].post
    BY <2>1, PaymentDecided DEF IInv, Confirm
  <2>3. BeingScheduled \subseteq BeingScheduled'
    BY <2>1, <2>2, BeginStep, StillWaiting DEF IInv, Confirm
  <2>4. \A q : Scheduled(q) \subseteq Scheduled(q)'
    BY DEF Confirm, channel, Scheduled
  <2> QED BY <2>3, <2>4, NoneNeeded DEF IInv, Confirm, channel
<1> QED BY <1>1, <1>2 DEF IInv

LEMMA SendPhotoKeeps ==
  ASSUME IInv, TypeOK', NEW k \in Slot, SendPhoto(k)
  PROVE  IInv'
<1>1. PinnedHasEnd'
  <2>1. pending \in 1..Len(payments)
    BY Rows DEF IInv, TypeOK, SendPhoto
  <2>2. BeingScheduled \subseteq BeingScheduled'
    BY <2>1, BeginStep, StillWaiting DEF IInv, SendPhoto, shop
  <2>3. \A q : Scheduled(q) \subseteq Scheduled(q)'
    BY DEF SendPhoto, channel, Scheduled
  <2> QED BY <2>2, <2>3, NoneForgotten DEF IInv, SendPhoto, channel
<1>2. DoneNotNeeded'
  <2>1. pending \in 1..Len(payments)
    BY Rows DEF IInv, TypeOK, SendPhoto
  <2>2. BeingScheduled \subseteq BeingScheduled'
    BY <2>1, BeginStep, StillWaiting DEF IInv, SendPhoto, shop
  <2>3. \A q : Scheduled(q) \subseteq Scheduled(q)'
    BY DEF SendPhoto, channel, Scheduled
  <2> QED BY <2>2, <2>3, NoneNeeded DEF IInv, SendPhoto, channel
<1> QED BY <1>1, <1>2 DEF IInv

LEMMA ForwardKeeps ==
  ASSUME IInv, TypeOK', NEW k \in Slot, Forward(k)
  PROVE  IInv'
<1>1. PinnedHasEnd'
  <2>1. BeingScheduled \subseteq BeingScheduled'
    BY GoOnStep, StillWaiting DEF IInv, Forward
  <2>2. \A q : Scheduled(q) \subseteq Scheduled(q)'
    BY DEF Forward, channel, Scheduled
  <2> QED BY <2>1, <2>2, NoneForgotten DEF IInv, Forward, channel
<1>2. DoneNotNeeded'
  <2>1. BeingScheduled \subseteq BeingScheduled'
    BY GoOnStep, StillWaiting DEF IInv, Forward
  <2>2. \A q : Scheduled(q) \subseteq Scheduled(q)'
    BY DEF Forward, channel, Scheduled
  <2> QED BY <2>1, <2>2, NoneNeeded DEF IInv, Forward, channel
<1> QED BY <1>1, <1>2 DEF IInv

LEMMA SettleKeeps ==
  ASSUME IInv, TypeOK', NEW k \in Slot, Settle(k)
  PROVE  IInv'
<1>1. PinnedHasEnd'
  <2>1. BeingScheduled \subseteq BeingScheduled'
    BY DoneStep, StillWaiting DEF IInv, Settle
  <2>2. \A q : Scheduled(q) \subseteq Scheduled(q)'
    BY DEF Settle, channel, Scheduled
  <2> QED BY <2>1, <2>2, NoneForgotten DEF IInv, Settle, channel
<1>2. DoneNotNeeded'
  <2>1. BeingScheduled \subseteq BeingScheduled'
    BY DoneStep, StillWaiting DEF IInv, Settle
  <2>2. \A q : Scheduled(q) \subseteq Scheduled(q)'
    BY DEF Settle, channel, Scheduled
  <2> QED BY <2>1, <2>2, NoneNeeded DEF IInv, Settle, channel
<1> QED BY <1>1, <1>2 DEF IInv

LEMMA PinKeeps ==
  ASSUME IInv, TypeOK', NEW k \in Slot, Pin(k)
  PROVE  IInv'
<1>1. PinnedHasEnd'
  <2>1. BeingScheduled \subseteq BeingScheduled' /\ PostOf(k) \in BeingScheduled'
    <3>1. /\ task'[k].kind = "schedule" /\ task'[k].payment = task[k].payment
          /\ \A j \in Slot : j # k => task'[j] = task[j]
      BY GoOnStep DEF IInv, Pin
    <3>2. \A j \in Slot : PostOf(j)' = PostOf(j)
      BY <3>1 DEF PostOf, Pin, shop
    <3> QED BY <3>1, <3>2, Waiting DEF BeingScheduled
  <2>2. \A q : Scheduled(q)' = Scheduled(q)
    BY DEF Pin, Scheduled
  <2> QED BY <2>1, <2>2 DEF IInv, PinnedHasEnd, Pin
<1>2. DoneNotNeeded'
  <2>1. BeingScheduled \subseteq BeingScheduled' /\ PostOf(k) \in BeingScheduled'
    <3>1. /\ task'[k].kind = "schedule" /\ task'[k].payment = task[k].payment
          /\ \A j \in Slot : j # k => task'[j] = task[j]
      BY GoOnStep DEF IInv, Pin
    <3>2. \A j \in Slot : PostOf(j)' = PostOf(j)
      BY <3>1 DEF PostOf, Pin, shop
    <3> QED BY <3>1, <3>2, Waiting DEF BeingScheduled
  <2>2. \A q : Scheduled(q)' = Scheduled(q)
    BY DEF Pin, Scheduled
  <2> QED BY <2>1, <2>2 DEF IInv, DoneNotNeeded, Kept, JobPost, Pin
<1> QED BY <1>1, <1>2 DEF IInv

LEMMA ScheduleUnpinKeeps ==
  ASSUME IInv, TypeOK', NEW k \in Slot, ScheduleUnpin(k)
  PROVE  IInv'
<1>1. PinnedHasEnd'
  <2>1. PICK post \in Post : post = PostOf(k)
    BY HandlerFacts DEF IInv, ScheduleUnpin
  <2>2. /\ \A i \in 1..Len(unpins) : unpins'[i] = unpins[i]
        /\ Len(unpins) + 1 \in Scheduled(post)'
        /\ \A q : Scheduled(q) \subseteq Scheduled(q)'
    <3>1. PICK due \in Nat : due = now + Term
      BY Bounds DEF IInv, TypeOK
    <3>2. unpins' = Append(unpins, [post |-> post, due |-> due, status |-> "scheduled"])
      BY <2>1, <3>1 DEF ScheduleUnpin
    <3> QED BY <2>1, <3>1, <3>2, UnpinAdded DEF IInv
  <2>3. BeingScheduled \subseteq BeingScheduled' \cup {post}
    <3>1. \A j \in Slot : j # k => task'[j] = task[j] /\ PostOf(j)' = PostOf(j)
      BY DoneStep DEF IInv, ScheduleUnpin, shop, PostOf
    <3> QED BY <2>1, <3>1, Waiting DEF BeingScheduled
  <2>4. pinned' = pinned /\ stuck' = stuck
    BY DEF ScheduleUnpin
  <2> SUFFICES ASSUME NEW p \in pinned
               PROVE  p \in stuck \cup BeingScheduled' \/ Scheduled(p)' # {}
    BY <2>4 DEF PinnedHasEnd
  <2>5. p \in stuck \cup BeingScheduled \/ Scheduled(p) # {}
    BY DEF IInv, PinnedHasEnd
  <2> QED BY <2>2, <2>3, <2>5
<1>2. DoneNotNeeded'
  <2>1. PICK post \in Post : post = PostOf(k)
    BY HandlerFacts DEF IInv, ScheduleUnpin
  <2>2. /\ \A i \in 1..Len(unpins) : unpins'[i] = unpins[i]
        /\ Len(unpins) + 1 \in Scheduled(post)'
        /\ \A q : Scheduled(q) \subseteq Scheduled(q)'
    <3>1. PICK due \in Nat : due = now + Term
      BY Bounds DEF IInv, TypeOK
    <3>2. unpins' = Append(unpins, [post |-> post, due |-> due, status |-> "scheduled"])
      BY <2>1, <3>1 DEF ScheduleUnpin
    <3> QED BY <2>1, <3>1, <3>2, UnpinAdded DEF IInv
  <2>3. BeingScheduled \subseteq BeingScheduled' \cup {post}
    <3>1. \A j \in Slot : j # k => task'[j] = task[j] /\ PostOf(j)' = PostOf(j)
      BY DoneStep DEF IInv, ScheduleUnpin, shop, PostOf
    <3> QED BY <2>1, <3>1, Waiting DEF BeingScheduled
  <2>4. ASSUME job.call = "markDone", JobPost' \in pinned'
        PROVE  Kept(JobPost, Head(job.todo))'
    <3>1. Head(job.todo) \in 1..Len(unpins) /\ Len(unpins) \in Nat
      BY <2>4, JobFacts, Rows DEF IInv
    <3>2. JobPost' = JobPost
      BY <2>2, <3>1 DEF JobPost, ScheduleUnpin
    <3>3. Kept(JobPost, Head(job.todo))
      BY <2>4, <3>2 DEF IInv, DoneNotNeeded, ScheduleUnpin
    <3>4. Len(unpins) + 1 # Head(job.todo)
      BY <3>1
    <3>5. stuck' = stuck /\ job' = job
      BY DEF ScheduleUnpin
    <3>6. CASE JobPost = post
      BY <2>2, <3>2, <3>4, <3>5, <3>6 DEF Kept
    <3>7. CASE JobPost # post
      BY <2>2, <2>3, <3>2, <3>3, <3>5, <3>7 DEF Kept
    <3> QED BY <3>6, <3>7
  <2> QED BY <2>4 DEF DoneNotNeeded, ScheduleUnpin
<1> QED BY <1>1, <1>2 DEF IInv

LEMMA BreakKeeps ==
  ASSUME IInv, TypeOK', NEW k \in Slot, Break(k)
  PROVE  IInv'
<1>1. PinnedHasEnd'
  <2>1. BeingScheduled \subseteq BeingScheduled' \cup stuck'
    <3>1. \A j \in Slot : j # k => task'[j] = task[j] /\ PostOf(j)' = PostOf(j)
      BY DoneStep DEF IInv, Break, shop, PostOf
    <3> QED BY <3>1, Waiting DEF BeingScheduled, Break
  <2>2. \A q : Scheduled(q) \subseteq Scheduled(q)'
    BY DEF Break, Scheduled
  <2> QED BY <2>1, <2>2, NoneForgotten DEF IInv, Break
<1>2. DoneNotNeeded'
  <2>1. BeingScheduled \subseteq BeingScheduled' \cup stuck'
    <3>1. \A j \in Slot : j # k => task'[j] = task[j] /\ PostOf(j)' = PostOf(j)
      BY DoneStep DEF IInv, Break, shop, PostOf
    <3> QED BY <3>1, Waiting DEF BeingScheduled, Break
  <2>2. \A q : Scheduled(q) \subseteq Scheduled(q)'
    BY DEF Break, Scheduled
  <2> QED BY <2>1, <2>2, NoneNeeded DEF IInv, Break
<1> QED BY <1>1, <1>2 DEF IInv

LEMMA LeaveKeeps ==
  ASSUME IInv, TypeOK', Leave
  PROVE  IInv'
<1>1. PinnedHasEnd' /\ DoneNotNeeded'
  BY DEF IInv, PinnedHasEnd, DoneNotNeeded, Leave, BeingScheduled, PostOf, Slot,
      Scheduled, JobPost, Kept, channel
<1> QED BY <1>1 DEF IInv

LEMMA StartJobKeeps ==
  ASSUME IInv, TypeOK', StartJob
  PROVE  IInv'
<1>1. PinnedHasEnd'
  BY DEF IInv, PinnedHasEnd, StartJob, BeingScheduled, PostOf, Slot, Scheduled,
      shop
<1>2. DoneNotNeeded'
  BY DEF IInv, DoneNotNeeded, StartJob, NoJob, DueRows, shop, JobPost, Kept,
      BeingScheduled, PostOf, Slot, Scheduled
<1> QED BY <1>1, <1>2 DEF IInv

LEMMA UnpinPostKeeps ==
  ASSUME IInv, TypeOK', UnpinPost
  PROVE  IInv'
<1>1. PinnedHasEnd'
  BY DEF IInv, PinnedHasEnd, UnpinPost, JobPost, shop, BeingScheduled, PostOf,
      Slot, Scheduled
<1>2. DoneNotNeeded'
  BY DEF IInv, DoneNotNeeded, UnpinPost, JobPost, shop, Kept, BeingScheduled,
      PostOf, Slot, Scheduled
<1> QED BY <1>1, <1>2 DEF IInv

LEMMA UnpinFailsKeeps ==
  ASSUME IInv, TypeOK', UnpinFails
  PROVE  IInv'
<1>1. PinnedHasEnd'
  BY DEF IInv, PinnedHasEnd, UnpinFails, BeingScheduled, PostOf, Slot,
      Scheduled, shop
<1>2. DoneNotNeeded'
  BY DEF IInv, DoneNotNeeded, UnpinFails, shop, JobPost, Kept, BeingScheduled,
      PostOf, Slot, Scheduled
<1> QED BY <1>1, <1>2 DEF IInv

LEMMA MarkRowKeeps ==
  ASSUME IInv, TypeOK', MarkRow
  PROVE  IInv'
<1>1. PinnedHasEnd'
  <2> DEFINE i == Head(job.todo)
             x == IF job.call = "markFailed" THEN "failed" ELSE "done"
  <2>1. i \in 1..Len(unpins) /\ JobPost \in Post
    BY JobFacts DEF IInv, MarkRow
  <2>2. unpins' = [unpins EXCEPT ![i].status = x] /\ x \in {"done", "failed"}
    BY DEF MarkRow
  <2> HIDE DEF x
  <2>3. /\ \A q : Scheduled(q) \ {i} \subseteq Scheduled(q)'
        /\ \A q : q # JobPost => Scheduled(q) \subseteq Scheduled(q)'
    BY <2>1, <2>2, UnpinMarked DEF IInv, JobPost
  <2>4. BeingScheduled' = BeingScheduled
    BY DEF BeingScheduled, PostOf, MarkRow, shop
  <2> SUFFICES ASSUME NEW p \in pinned
               PROVE  p \in stuck' \cup BeingScheduled \/ Scheduled(p)' # {}
    BY <2>4 DEF PinnedHasEnd, MarkRow
  <2>5. CASE p # JobPost
    BY <2>3, <2>5 DEF IInv, PinnedHasEnd, MarkRow
  <2>6. CASE p = JobPost /\ job.call = "markFailed"
    BY <2>6 DEF MarkRow
  <2>7. CASE p = JobPost /\ job.call = "markDone"
    <3>1. Kept(JobPost, i)
      BY <2>7 DEF IInv, DoneNotNeeded
    <3> QED BY <2>3, <2>7, <3>1 DEF Kept, MarkRow
  <2> QED BY <2>5, <2>6, <2>7 DEF MarkRow
<1>2. DoneNotNeeded'
  BY DEF DoneNotNeeded, MarkRow, NoJob
<1> QED BY <1>1, <1>2 DEF IInv

LEMMA MarkFailsKeeps ==
  ASSUME IInv, TypeOK', MarkFails
  PROVE  IInv'
<1>1. PinnedHasEnd'
  BY DEF IInv, PinnedHasEnd, MarkFails, BeingScheduled, PostOf, Slot, Scheduled,
      shop
<1>2. DoneNotNeeded'
  BY DEF IInv, DoneNotNeeded, MarkFails, NoJob, shop, JobPost, Kept,
      BeingScheduled, PostOf, Slot, Scheduled
<1> QED BY <1>1, <1>2 DEF IInv

LEMMA RestartKeeps ==
  ASSUME IInv, TypeOK', Restart
  PROVE  IInv'
<1>1. PinnedHasEnd'
  BY DEF IInv, PinnedHasEnd, Restart, Slot, NoTask, BeingScheduled, PostOf,
      NoJob, Scheduled
<1>2. DoneNotNeeded'
  BY DEF IInv, DoneNotNeeded, Restart, Slot, NoTask, BeingScheduled, PostOf,
      NoJob, JobPost, Kept, Scheduled
<1> QED BY <1>1, <1>2 DEF IInv

LEMMA TickKeeps ==
  ASSUME IInv, TypeOK', Tick
  PROVE  IInv'
<1>1. PinnedHasEnd' /\ DoneNotNeeded'
  BY DEF IInv, PinnedHasEnd, DoneNotNeeded, Tick, BeingScheduled, PostOf, Slot,
      Scheduled, JobPost, Kept, shop, channel
<1> QED BY <1>1 DEF IInv

LEMMA StepIInv == IInv /\ [Next]_vars => IInv'
<1> SUFFICES ASSUME IInv, [Next]_vars PROVE IInv'
  OBVIOUS
<1>1. TypeOK'
  BY TypeStep DEF IInv
<1>2. CASE UNCHANGED vars
  <2>1. PinnedHasEnd'
    BY <1>2 DEF IInv, vars, channel, shop, PinnedHasEnd, Scheduled, BeingScheduled, PostOf
  <2>2. DoneNotNeeded'
    BY <1>2 DEF IInv, vars, channel, shop, DoneNotNeeded, Kept, JobPost, Scheduled,
         BeingScheduled, PostOf
  <2> QED BY <1>1, <2>1, <2>2 DEF IInv
<1>3. CASE Next
  BY <1>1, <1>3, StartPaymentKeeps, ClickPaidKeeps, RejectKeeps, ConfirmKeeps,
      SendPhotoKeeps, ForwardKeeps, SettleKeeps, PinKeeps, ScheduleUnpinKeeps,
      BreakKeeps, LeaveKeeps, StartJobKeeps, UnpinPostKeeps, UnpinFailsKeeps,
      MarkRowKeeps, MarkFailsKeeps, RestartKeeps, TickKeeps
     DEF Next, Work, JobStep
<1> QED BY <1>2, <1>3

-------------------------------------------------------------------------------
(* The theorems.                                                           *)

LEMMA Invariance == Spec => []IInv
  BY InitIInv, StepIInv, PTL DEF Spec

\* The rows of payments and unpins, the receipts, the job's list and the handlers stay of
\* their kind, although handlers and the job hold rows by number.
THEOREM TypeCorrect == Spec => []TypeOK
<1>1. IInv => TypeOK
  BY DEF IInv
<1> QED BY <1>1, Invariance, PTL

\* A pinned post has a scheduled end, or a handler that is about to schedule it, unless an
\* error, a restart or a failed unpin has forgotten it (fulfill_paid_feature,
\* unpin_due_messages), however often and in whatever order pins are confirmed and end.
THEOREM EndKnown == Spec => []PinnedHasEnd
<1>1. IInv => PinnedHasEnd
  BY DEF IInv
<1> QED BY <1>1, Invariance, PTL
===============================================================================
