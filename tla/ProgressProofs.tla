----------------------------- MODULE ProgressProofs ----------------------------
(***************************************************************************)
(* Proofs about two of the components that run Progress checks: follow-up  *)
(* messages (FollowUps) and the web chat (WebChat); in the end about the   *)
(* composition of these with the tool servers (McpServersProofs).  Each    *)
(* part has its inductive invariant first, then a lemma per action, then   *)
(* the theorems.                                                           *)
(***************************************************************************)
EXTENDS MCProgress, McpServersProofs, QueueLemmas

-------------------------------------------------------------------------------
(*****************************************************************************)
(* Follow-up messages.                                                       *)
(*****************************************************************************)

(* Follow-ups: the inductive invariant.                                    *)

\* A message is captured once, from "new"; its slot says so, and is handled only
\* when the message is done.
Captures ==
  /\ \A i, j \in 1..Len(captured) : captured[i] = captured[j] => i = j
  /\ \A i \in 1..Len(captured) : pc[captured[i]] # "new"
  /\ \A e \in Event : slot[e] \in Handled => pc[e] = "done"

\* The slots are what is left of the captured messages: all before were handled.
Gone == Len(captured) - Len(slots)
Remaining ==
  /\ Gone \in Nat
  /\ \A i \in 1..Len(slots) : slots[i] = captured[Gone + i]
  /\ \A i \in 1..Gone : slot[captured[i]] \in Handled

\* A captured message that goes on by itself has only handled ones before it.
Own == {"ready", "line", "build", "run", "final"}
HandledBefore ==
  \A i, j \in 1..Len(captured) :
    i < j /\ pc[captured[j]] \in Own => slot[captured[i]] \in Handled

\* A ticket that is pending belongs to a message that waits for it; the runner holds
\* only such; a message whose text was used has a consumed ticket and goes no further.
Tickets ==
  /\ \A e \in pending : ticket[e] = "pending"
  /\ \A e \in Event : ticket[e] = "pending" => pc[e] = "ticket"
  /\ \A e \in noticed : ticket[e] = "consumed"

FollowUpsInv ==
  /\ TypeOK /\ line \in [{Umo} -> Seq(Event)]
  /\ Captures /\ Remaining /\ HandledBefore /\ Tickets /\ AnsweredOnce

-------------------------------------------------------------------------------
(* Parts of the invariant that a step leaves alone.                        *)

LockTypes   == line \in [{Umo} -> Seq(Event)] /\ inside \subseteq Event
RunTypes    == phase \in {"none", "model", "tool", "closing", "over", "broken"} /\ steps \in 0..(MaxSteps + 1)
PlaceTypes  ==
  /\ pc \in [Event -> {"new", "ticket", "turn", "ready", "line", "build", "run", "final", "done"}]
  /\ stop \subseteq Event
SlotTypes   == slots \in Seq(Event) /\ slot \in [Event -> {"none", "pending", "active"} \cup Handled]
TicketTypes ==
  /\ captured \in Seq(Event)
  /\ ticket \in [Event -> {"none", "pending", "resolved", "consumed"}]
  /\ pending \subseteq Captured /\ {noticed, orphans} \subseteq SUBSET Captured

Slots   == SlotTypes /\ Captures /\ Remaining /\ HandledBefore
AnswerState == TicketTypes /\ Tickets /\ AnsweredOnce
FParts  == LockTypes /\ RunTypes /\ PlaceTypes /\ Slots /\ AnswerState

LEMMA FollowUpsParts == (FParts <=> FollowUpsInv) /\ (FParts' => FollowUpsInv')
<1>1. Umo \in {Umo}
  OBVIOUS
<1>2. FParts <=> FollowUpsInv
  BY <1>1 DEF FParts, FollowUpsInv, LockTypes, RunTypes, PlaceTypes, SlotTypes, TicketTypes, Slots,
              AnswerState, TypeOK
<1>3. FParts' => FollowUpsInv'
  BY <1>1 DEF FParts, FollowUpsInv, LockTypes, RunTypes, PlaceTypes, SlotTypes, TicketTypes, Slots,
              AnswerState, TypeOK
<1> QED BY <1>2, <1>3

LEMMA CapturedEvents ==
  ASSUME captured \in Seq(Event)
  PROVE  /\ \A i \in 1..Len(captured) : captured[i] \in Event
         /\ Captured \subseteq Event /\ \A d : d \in Captured <=> \E i \in 1..Len(captured) : captured[i] = d
<1>1. DOMAIN captured = 1..Len(captured)
  OBVIOUS
<1>2. ASSUME NEW d PROVE d \in Captured <=> \E i \in 1..Len(captured) : captured[i] = d
  BY <1>1 DEF Captured, ToSet
<1>3. \A i \in 1..Len(captured) : captured[i] \in Event
  OBVIOUS
<1> QED BY <1>2, <1>3

LEMMA SameLock == LockTypes /\ UNCHANGED <<line, inside>> => LockTypes'
  BY DEF LockTypes

LEMMA SameRun == RunTypes /\ UNCHANGED <<phase, steps>> => RunTypes'
  BY DEF RunTypes

LEMMA SamePlace == PlaceTypes /\ UNCHANGED <<pc, stop>> => PlaceTypes'
  BY DEF PlaceTypes

LEMMA SameSlots == Slots /\ UNCHANGED <<pc, slots, slot, captured>> => Slots'
  BY DEF Slots, SlotTypes, Captures, Remaining, Gone, HandledBefore, Own

LEMMA SameTickets == AnswerState /\ UNCHANGED <<pc, ticket, pending, captured, noticed, orphans>> => AnswerState'
  BY DEF AnswerState, TicketTypes, Tickets, AnsweredOnce, Captured

-------------------------------------------------------------------------------
(* Steps that several actions take.                                        *)

\* A step of the session lock.
LEMMA LockStep ==
  ASSUME LockTypes, NEW e \in Event, Lock!Arrive(e, Umo) \/ Lock!Begin(Umo) \/ Lock!Finish(Umo)
  PROVE  LockTypes'
<1>0. line[Umo] \in Seq(Event)
  BY DEF LockTypes
<1>1. CASE Lock!Arrive(e, Umo)
  <2>1. Append(line[Umo], e) \in Seq(Event)
    BY <1>0
  <2> QED BY <1>1, <2>1 DEF Lock!Arrive, LockTypes
<1>2. CASE Lock!Begin(Umo)
  <2>1. Head(line[Umo]) \in Event
    BY <1>0, <1>2 DEF Lock!Begin
  <2> QED BY <1>2, <2>1 DEF Lock!Begin, LockTypes
<1>3. CASE Lock!Finish(Umo)
  <2>1. Tail(line[Umo]) \in Seq(Event)
    BY <1>0, <1>3 DEF Lock!Finish
  <2> QED BY <1>3, <2>1 DEF Lock!Finish, LockTypes
<1> QED BY <1>1, <1>2, <1>3

\* A message moves on; when it goes on by itself, all before it were handled.
LEMMA SlotsMove ==
  ASSUME Slots, PlaceTypes, captured \in Seq(Event), NEW e \in Event, NEW p, p # "new", pc[e] # "done",
         pc' = [pc EXCEPT ![e] = p], UNCHANGED <<slots, captured>>,
         slot' \in {slot, [slot EXCEPT ![e] = "active"]},
         \/ p \notin Own \/ pc[e] \in Own
         \/ \A i, j \in 1..Len(captured) : i < j /\ captured[j] = e => slot[captured[i]] \in Handled
  PROVE  Slots'
<1>1. /\ \A d \in Event : pc'[d] = IF d = e THEN p ELSE pc[d]
      /\ \A i \in 1..Len(captured) : captured[i] \in Event
      /\ slot[e] \notin Handled
  BY DEF Slots, Captures, PlaceTypes
<1>2. /\ SlotTypes'
      /\ \A d \in Event : slot[d] \in Handled <=> slot'[d] \in Handled
  BY <1>1 DEF Slots, SlotTypes, Handled
<1>3. Captures'
  BY <1>1, <1>2 DEF Slots, Captures
<1>4. Remaining'
  <2>1. Gone' = Gone /\ Gone \in Nat
    BY DEF Gone, Slots, Remaining
  <2>2. \A i \in 1..Gone : captured[i] \in Event
    BY <1>1, <2>1 DEF Gone, Slots, SlotTypes
  <2> QED BY <1>2, <2>1, <2>2 DEF Slots, Remaining
<1>5. HandledBefore'
  BY <1>1, <1>2 DEF Slots, HandledBefore, Own
<1> QED BY <1>2, <1>3, <1>4, <1>5 DEF Slots

\* What the tickets and the texts used say stays true of a message that moves on.
LEMMA AnswersMove ==
  ASSUME AnswerState, PlaceTypes, NEW e \in Event, NEW p, pc' = [pc EXCEPT ![e] = p],
         ticket[e] # "pending", \/ p = "done" \/ pc[e] \notin {"ticket", "done"} \/ ticket[e] = "resolved",
         UNCHANGED <<ticket, captured, noticed>>, pending' \in {pending, {}},
         orphans' \in {orphans, orphans \cup pending}
  PROVE  AnswerState'
<1>1. \A d \in Event : pc'[d] = IF d = e THEN p ELSE pc[d]
  BY DEF PlaceTypes
<1>2. TicketTypes'
  BY DEF AnswerState, TicketTypes, Captured
<1>3. Captured \subseteq Event
  BY CapturedEvents DEF AnswerState, TicketTypes
<1>4. Tickets'
  BY <1>1 DEF AnswerState, Tickets
<1>5. AnsweredOnce'
  BY <1>1, <1>3 DEF AnswerState, Tickets, AnsweredOnce, TicketTypes
<1> QED BY <1>2, <1>4, <1>5 DEF AnswerState

\* A slot is marked as handled: next_turn moves past it when all before it are.
LEMMA MarkKeeps ==
  ASSUME Slots, PlaceTypes, captured \in Seq(Event), NEW e \in Event, NEW s \in Handled,
         MarkSlot(e, s), pc' = [pc EXCEPT ![e] = "done"], UNCHANGED captured
  PROVE  Slots'
<1>1. /\ \A d \in Event : pc'[d] = IF d = e THEN "done" ELSE pc[d]
      /\ \A i \in 1..Len(captured) : captured[i] \in Event
      /\ slot' = [slot EXCEPT ![e] = s]
      /\ Len(captured) \in Nat /\ Len(slots) \in Nat /\ slots \in Seq(Event)
  BY DEF Slots, SlotTypes, PlaceTypes, MarkSlot
<1>2. /\ slot' \in [Event -> {"none", "pending", "active"} \cup Handled]
      /\ \A d \in Event : slot'[d] = IF d = e THEN s ELSE slot[d]
  BY <1>1 DEF Slots, SlotTypes
<1> DEFINE unhandled == { i \in 1..Len(slots) : [slot EXCEPT ![e] = s][slots[i]] \notin Handled }
           k == Min(unhandled)
<1>3. slots' = IF unhandled = {} THEN <<>> ELSE SubSeq(slots, k, Len(slots))
  BY DEF MarkSlot, Advance
<1>3a. unhandled = { i \in 1..Len(slots) : slot'[slots[i]] \notin Handled }
  BY <1>1
<1>4. Captures'
  BY <1>1, <1>2 DEF Slots, Captures
<1>5. HandledBefore'
  <2>1. \A d \in Event : slot[d] \in Handled => slot'[d] \in Handled
    BY <1>2
  <2>2. \A d \in Event : pc'[d] \in Own => pc[d] \in Own
    BY <1>1 DEF Own
  <2> QED BY <1>1, <2>1, <2>2 DEF Slots, HandledBefore, Own
<1>6. \A i \in 1..Gone : i \in 1..Len(captured) /\ slot'[captured[i]] \in Handled
  BY <1>1, <1>2 DEF Slots, Remaining, Gone
<1>7. Gone \in Nat /\ Gone = Len(captured) - Len(slots) /\ \A i \in 1..Len(slots) : slots[i] = captured[Gone + i]
  BY DEF Slots, Remaining, Gone
<1>8. CASE unhandled = {}
  <2>1. slots' = <<>> /\ Len(slots') = 0
    BY <1>3, <1>8
  <2>2. ASSUME NEW i \in 1..Len(captured) PROVE slot'[captured[i]] \in Handled
    <3>1. CASE i <= Gone
      BY <1>6, <1>7, <3>1
    <3>2. CASE i > Gone
      <4> DEFINE n == i - Gone
      <4>1. n \in 1..Len(slots) /\ Gone + n = i
        BY <1>1, <1>7, <3>2
      <4> HIDE DEF n
      <4>2. captured[i] = slots[n]
        BY <1>7, <4>1
      <4> QED BY <1>3a, <1>8, <4>1, <4>2
    <3> QED BY <1>7, <3>1, <3>2
  <2>3. Remaining'
    BY <1>1, <2>1, <2>2 DEF Remaining, Gone
  <2> QED BY <1>2, <1>4, <1>5, <2>1, <2>3 DEF Slots, SlotTypes
<1>9. CASE unhandled # {}
  <2>1. k \in unhandled /\ \A j \in unhandled : k <= j
    <3>1. unhandled \subseteq Nat
      OBVIOUS
    <3> HIDE DEF unhandled
    <3> QED BY <1>9, <3>1, LeastOf DEF Min
  <2> HIDE DEF k
  <2>2. k \in 1..Len(slots) /\ \A i \in 1..(k - 1) : i \in 1..Len(slots) /\ slot'[slots[i]] \in Handled
    BY <1>1, <1>3a, <2>1
  <2> HIDE DEF unhandled
  <2>3. /\ slots' \in Seq(Event) /\ Len(slots') = Len(slots) - k + 1
        /\ \A i \in 1..Len(slots') : slots'[i] = slots[k - 1 + i]
    BY <1>1, <1>3, <1>9, <2>2, SuffixProps
  <2>4. Gone' = Gone + (k - 1) /\ Gone' \in Nat
    BY <1>1, <1>7, <2>2, <2>3 DEF Gone
  <2>5. ASSUME NEW i \in 1..Len(slots') PROVE slots'[i] = captured[Gone' + i]
    <3>1. k - 1 + i \in 1..Len(slots) /\ Gone + (k - 1 + i) = Gone' + i
      BY <1>1, <1>7, <2>2, <2>3, <2>4
    <3> QED BY <1>7, <2>3, <3>1
  <2>6. ASSUME NEW i \in 1..Gone' PROVE slot'[captured[i]] \in Handled
    <3>1. CASE i <= Gone
      <4>1. i \in 1..Gone
        BY <1>7, <2>4, <3>1
      <4> QED BY <1>6, <4>1
    <3>2. CASE i > Gone
      <4> DEFINE n == i - Gone
      <4>1. n \in 1..(k - 1) /\ n \in 1..Len(slots) /\ Gone + n = i
        BY <1>1, <1>7, <2>2, <2>4, <3>2
      <4> HIDE DEF n
      <4>2. captured[i] = slots[n]
        BY <1>7, <4>1
      <4> QED BY <2>2, <4>1, <4>2
    <3> QED BY <1>7, <2>4, <3>1, <3>2
  <2>7. Remaining'
    BY <1>1, <2>4, <2>5, <2>6 DEF Remaining
  <2> QED BY <1>2, <1>4, <1>5, <2>3, <2>7 DEF Slots, SlotTypes
<1> QED BY <1>8, <1>9

-------------------------------------------------------------------------------
(* One lemma per action.                                                   *)

LEMMA FollowUpsInitially == Init => FollowUpsInv
<1> SUFFICES ASSUME Init PROVE FParts
  BY FollowUpsParts
<1>1. LockTypes
  BY DEF Init, Lock!Init, LockTypes
<1>2. RunTypes
  BY FollowUpsAssumption DEF Init, RunTypes
<1>3. PlaceTypes
  BY DEF Init, PlaceTypes
<1>4. captured = <<>> /\ slots = <<>> /\ Len(captured) = 0 /\ Len(slots) = 0
  BY DEF Init
<1>5. Slots
  BY <1>4 DEF Init, Slots, SlotTypes, Handled, Captures, Remaining, Gone, HandledBefore
<1>6. AnswerState
  BY <1>4 DEF Init, AnswerState, TicketTypes, Tickets, AnsweredOnce
<1> QED BY <1>1, <1>2, <1>3, <1>5, <1>6 DEF FParts

LEMMA CaptureKeeps ==
  ASSUME FParts, NEW e \in Event, Capture(e)
  PROVE  FParts'
<1>1. /\ captured \in Seq(Event) /\ slots \in Seq(Event) /\ Len(captured) \in Nat /\ Len(slots) \in Nat
      /\ \A i \in 1..Len(captured) : captured[i] \in Event
  BY DEF FParts, Slots, AnswerState, SlotTypes, TicketTypes
<1>2. /\ captured' \in Seq(Event) /\ Len(captured') = Len(captured) + 1
      /\ captured'[Len(captured) + 1] = e
      /\ \A i \in 1..Len(captured) : captured'[i] = captured[i]
  BY <1>1, AppendProperties DEF Capture
<1>3. /\ slots' \in Seq(Event) /\ Len(slots') = Len(slots) + 1 /\ slots'[Len(slots) + 1] = e
      /\ \A i \in 1..Len(slots) : slots'[i] = slots[i]
  BY <1>1, AppendProperties DEF Capture
<1>4. /\ pc' \in [Event -> {"new", "ticket", "turn", "ready", "line", "build", "run", "final", "done"}]
      /\ pc[e] = "new" /\ pc'[e] = "ticket" /\ \A d \in Event : d # e => pc'[d] = pc[d]
      /\ slot'[e] = "pending" /\ \A d \in Event : d # e => slot'[d] = slot[d]
      /\ ticket'[e] = "pending" /\ \A d \in Event : d # e => ticket'[d] = ticket[d]
  BY DEF Capture, FParts, PlaceTypes, Slots, SlotTypes, AnswerState, TicketTypes
<1>5. \A i \in 1..Len(captured) : captured[i] # e /\ pc[captured[i]] # "new"
  BY <1>4 DEF FParts, Slots, Captures
<1>6. \A i \in 1..Len(captured') : i \in 1..Len(captured) \/ i = Len(captured) + 1
  BY <1>1, <1>2
<1>7. Slots'
  <2>1. SlotTypes'
    BY <1>3 DEF Capture, FParts, Slots, SlotTypes
  <2>2. Captures'
    <3>1. \A i, j \in 1..Len(captured') : captured'[i] = captured'[j] => i = j
      BY <1>2, <1>5, <1>6 DEF FParts, Slots, Captures
    <3>2. \A i \in 1..Len(captured') : pc'[captured'[i]] # "new"
      BY <1>1, <1>2, <1>4, <1>5, <1>6
    <3>3. \A d \in Event : slot'[d] \in Handled => pc'[d] = "done"
      BY <1>4 DEF FParts, Slots, Captures, Handled
    <3> QED BY <3>1, <3>2, <3>3 DEF Captures
  <2>3. Remaining'
    <3>1. Gone' = Gone /\ Gone \in Nat /\ Gone = Len(captured) - Len(slots)
      BY <1>1, <1>2, <1>3 DEF FParts, Slots, Remaining, Gone
    <3>2. ASSUME NEW i \in 1..Len(slots') PROVE slots'[i] = captured'[Gone + i]
      <4>1. CASE i = Len(slots) + 1
        BY <1>1, <1>2, <1>3, <3>1, <4>1
      <4>2. CASE i # Len(slots) + 1
        <5>1. i \in 1..Len(slots) /\ Gone + i \in 1..Len(captured)
          BY <1>1, <1>3, <3>1, <4>2
        <5> QED BY <1>2, <1>3, <5>1 DEF FParts, Slots, Remaining
      <4> QED BY <4>1, <4>2
    <3>3. ASSUME NEW i \in 1..Gone PROVE slot'[captured'[i]] \in Handled
      <4>1. i \in 1..Len(captured) /\ slot[captured[i]] \in Handled
        BY <1>1, <3>1 DEF FParts, Slots, Remaining
      <4> QED BY <1>1, <1>2, <1>4, <1>5, <4>1
    <3> QED BY <3>1, <3>2, <3>3 DEF Remaining
  <2>4. HandledBefore'
    <3> SUFFICES ASSUME NEW i \in 1..Len(captured'), NEW j \in 1..Len(captured'), i < j,
                        pc'[captured'[j]] \in Own
                 PROVE  slot'[captured'[i]] \in Handled
      BY DEF HandledBefore
    <3>1. j \in 1..Len(captured)
      BY <1>2, <1>4, <1>6 DEF Own
    <3>2. i \in 1..Len(captured)
      BY <1>1, <3>1
    <3> QED BY <1>1, <1>2, <1>4, <1>5, <3>1, <3>2 DEF FParts, Slots, HandledBefore
  <2> QED BY <2>1, <2>2, <2>3, <2>4 DEF Slots
<1>8. AnswerState'
  <2>1. Captured' = Captured \cup {e} /\ e \notin Captured /\ Captured \subseteq Event
    <3>1. \A d : d \in Captured <=> \E i \in 1..Len(captured) : captured[i] = d
      BY <1>1, CapturedEvents
    <3>2. DOMAIN captured' = 1..Len(captured')
      BY <1>2
    <3>3. ASSUME NEW d PROVE d \in Captured' <=> \E i \in 1..Len(captured') : captured'[i] = d
      BY <3>2 DEF Captured, ToSet
    <3>4. ASSUME NEW d PROVE d \in Captured' <=> d \in Captured \/ d = e
      <4>1. CASE d = e
        BY <1>1, <1>2, <3>3, <4>1
      <4>2. CASE d # e
        <5>1. \A i \in 1..Len(captured) : i \in 1..Len(captured')
          BY <1>1, <1>2
        <5> QED BY <1>2, <1>6, <3>1, <3>3, <4>2, <5>1
      <4> QED BY <4>1, <4>2
    <3> QED BY <1>1, <1>5, <3>1, <3>4
  <2>2. TicketTypes'
    BY <1>2, <2>1 DEF Capture, FParts, AnswerState, TicketTypes
  <2>3. e \notin noticed /\ noticed \subseteq Event /\ pending \subseteq Event
    BY <2>1 DEF FParts, AnswerState, TicketTypes
  <2>4. Tickets'
    BY <1>4, <2>3 DEF Capture, FParts, AnswerState, Tickets
  <2>5. AnsweredOnce'
    BY <1>4, <2>3 DEF Capture, FParts, AnswerState, AnsweredOnce
  <2> QED BY <2>2, <2>4, <2>5 DEF AnswerState
<1>9. LockTypes' /\ RunTypes' /\ PlaceTypes'
  BY <1>4, SameLock, SameRun DEF Capture, FParts, PlaceTypes
<1> QED BY <1>7, <1>8, <1>9 DEF FParts

\* A message that has a turn of its own, or is to have it, moves on.
LEMMA OwnMoves ==
  ASSUME FParts, NEW e \in Event,
         NEW p \in {"ready", "line", "build", "run", "final", "turn"},
         pc[e] # "done", pc' = [pc EXCEPT ![e] = p],
         \/ pc[e] # "ticket" /\ ticket[e] # "pending"
         \/ ticket[e] = "resolved",
         slot' \in {slot, [slot EXCEPT ![e] = "active"]},
         \/ p = "turn" \/ pc[e] \in Own
         \/ \A i, j \in 1..Len(captured) : i < j /\ captured[j] = e => slot[captured[i]] \in Handled,
         pending' \in {pending, {}}, orphans' \in {orphans, orphans \cup pending},
         UNCHANGED <<slots, captured, stop, ticket, noticed>>
  PROVE  PlaceTypes' /\ Slots' /\ AnswerState'
<1>1. PlaceTypes'
  BY DEF FParts, PlaceTypes
<1>2. Slots'
  BY SlotsMove DEF FParts, Own, AnswerState, TicketTypes
<1>3. AnswerState'
  BY AnswersMove DEF FParts
<1> QED BY <1>1, <1>2, <1>3

LEMMA NotPending ==
  ASSUME FParts, NEW e \in Event, pc[e] # "ticket"
  PROVE  ticket[e] # "pending"
  BY DEF FParts, AnswerState, Tickets

LEMMA PassByKeeps ==
  ASSUME FParts, NEW e \in Event, PassBy(e)
  PROVE  FParts'
<1>1. \A j \in 1..Len(captured) : captured[j] # e
  BY DEF PassBy, FParts, Slots, Captures
<1>2. PlaceTypes' /\ Slots' /\ AnswerState'
  BY <1>1, OwnMoves, NotPending DEF PassBy, order, runner, history
<1> QED BY <1>2, SameLock, SameRun DEF PassBy, runner, FParts

LEMMA ActivateKeeps ==
  ASSUME FParts, NEW e \in Event, Activate(e)
  PROVE  FParts'
<1>2. PlaceTypes' /\ Slots' /\ AnswerState'
  BY OwnMoves DEF Activate, runner, history
<1> QED BY <1>2, SameLock, SameRun DEF Activate, runner, FParts

\* The turn is the first slot's: all that were captured before it were handled.
LEMMA TakeTurnKeeps ==
  ASSUME FParts, NEW e \in Event, TakeTurn(e)
  PROVE  FParts'
<1>1. /\ captured \in Seq(Event) /\ slots \in Seq(Event) /\ slots # <<>> /\ slots[1] = e
      /\ Len(captured) \in Nat /\ Len(slots) \in Nat
  BY DEF TakeTurn, FParts, Slots, SlotTypes, AnswerState, TicketTypes
<1>2. 1 \in 1..Len(slots)
  BY <1>1, EmptySeq
<1>3. Gone \in Nat /\ Gone + 1 \in 1..Len(captured) /\ captured[Gone + 1] = e
  BY <1>1, <1>2 DEF FParts, Slots, Remaining, Gone
<1>4. ASSUME NEW i \in 1..Len(captured), NEW j \in 1..Len(captured), i < j, captured[j] = e
      PROVE  slot[captured[i]] \in Handled
  <2>1. j = Gone + 1
    BY <1>3, <1>4 DEF FParts, Slots, Captures
  <2>2. i \in 1..Gone
    BY <1>1, <1>3, <1>4, <2>1
  <2> QED BY <2>2 DEF FParts, Slots, Remaining
<1>5. PlaceTypes' /\ Slots' /\ AnswerState'
  BY <1>4, OwnMoves, NotPending DEF TakeTurn, order, runner, history
<1> QED BY <1>5, SameLock, SameRun DEF TakeTurn, runner, FParts

LEMMA TurnKeeps ==
  ASSUME FParts, NEW e \in Event, EnterLine(e) \/ BeginTurn(e) \/ BuildFails(e) \/ Register(e) \/ EndTurn(e)
  PROVE  FParts'
<1>1. pc[e] \in Own /\ pc[e] # "done" /\ pc[e] # "ticket" /\ ticket[e] # "pending"
  BY NotPending DEF EnterLine, BeginTurn, BuildFails, Register, EndTurn, Own
<1>2. \E p \in {"ready", "line", "build", "run", "final", "turn"} : pc' = [pc EXCEPT ![e] = p]
  BY DEF EnterLine, BeginTurn, BuildFails, Register, EndTurn
<1>3. /\ pending' \in {pending, {}} /\ orphans' \in {orphans, orphans \cup pending}
      /\ UNCHANGED <<slots, slot, captured, stop, ticket, noticed>>
  BY DEF EnterLine, BeginTurn, BuildFails, Register, EndTurn, order, runner, history
<1>4. PlaceTypes' /\ Slots' /\ AnswerState'
  BY <1>1, <1>2, <1>3, OwnMoves
<1>5. LockTypes'
  BY LockStep, SameLock DEF FParts, EnterLine, BeginTurn, BuildFails, Register, EndTurn
<1>6. RunTypes'
  <2>1. 0 \in 0..(MaxSteps + 1) /\ 1 \in 0..(MaxSteps + 1)
    BY FollowUpsAssumption
  <2> QED BY <2>1, SameRun DEF FParts, RunTypes, EnterLine, BeginTurn, BuildFails, Register, EndTurn, runner
<1> QED BY <1>4, <1>5, <1>6 DEF FParts

\* A message is done, its slot marked if it has one.
LEMMA DoneKeeps ==
  ASSUME FParts, NEW e \in Event, Consumed(e) \/ Finalize(e)
  PROVE  FParts'
<1>1. pc' = [pc EXCEPT ![e] = "done"] /\ pc[e] # "done" /\ ticket[e] # "pending"
  BY NotPending DEF Consumed, Finalize
<1>2. /\ UNCHANGED <<line, inside, phase, steps, pending, stop, ticket, captured, noticed, orphans>>
      /\ captured \in Seq(Event)
  BY DEF Consumed, Finalize, runner, history, FParts, AnswerState, TicketTypes
<1>3. PlaceTypes'
  BY <1>1, <1>2 DEF FParts, PlaceTypes
<1>4. AnswerState'
  BY <1>1, <1>2, AnswersMove DEF FParts
<1>5. Slots'
  <2>1. CASE MarkSlot(e, "consumed") \/ MarkSlot(e, "finished")
    BY <1>1, <1>2, <2>1, MarkKeeps DEF FParts, Handled
  <2>2. CASE UNCHANGED <<slots, slot>>
    BY <1>1, <1>2, <2>2, SlotsMove DEF FParts, Own
  <2> QED BY <2>1, <2>2 DEF Consumed, Finalize
<1> QED BY <1>2, <1>3, <1>4, <1>5, SameLock, SameRun DEF FParts

LEMMA StopKeeps ==
  ASSUME FParts, RequestStop
  PROVE  FParts'
<1>1. PlaceTypes'
  BY DEF FParts, RequestStop, PlaceTypes
<1> QED BY <1>1, SameLock, SameRun, SameSlots, SameTickets DEF FParts, RequestStop, runner, order, history

\* The runner's tickets are consumed, resolved, or left.
LEMMA RunKeeps ==
  ASSUME FParts, Run
  PROVE  FParts'
<1>1. UNCHANGED <<line, inside, pc, stop, slots, slot, captured, orphans>>
  BY DEF Run, CallTool, ToolResult, ToolEndsRun, EmptyReply, Reply, Close, ModelError, StepRaises, InStep
<1>2. RunTypes'
  <2>1. steps <= MaxSteps => steps + 1 \in 0..(MaxSteps + 1)
    BY FollowUpsAssumption DEF FParts, RunTypes
  <2> QED BY <2>1 DEF FParts, RunTypes, Run, CallTool, ToolResult, ToolEndsRun, EmptyReply, Reply,
             Close, ModelError, StepRaises, NextCall
<1>3. Consume \/ Resolve \/ UNCHANGED <<ticket, pending, noticed>>
  BY DEF Run, CallTool, ToolResult, ToolEndsRun, EmptyReply, Reply, Close, ModelError, StepRaises
<1>4. AnswerState'
  <2>1. CASE UNCHANGED <<ticket, pending, noticed>>
    BY <1>1, <2>1, SameTickets DEF FParts
  <2>2. CASE Consume \/ Resolve
    <3>1. /\ Captured' = Captured /\ Captured \subseteq Event /\ pending' = {}
          /\ noticed' \in {noticed, noticed \cup pending}
      BY <1>1, <2>2, CapturedEvents DEF Captured, Consume, Resolve, FParts, AnswerState, TicketTypes
    <3>2. /\ ticket' \in [Event -> {"none", "pending", "resolved", "consumed"}]
          /\ \A d \in Event : d \notin pending => ticket'[d] = ticket[d]
          /\ \A d \in pending : ticket'[d] \in {"resolved", "consumed"}
      BY <2>2, <3>1 DEF Consume, Resolve, FParts, AnswerState, TicketTypes
    <3>3. TicketTypes'
      BY <1>1, <3>1, <3>2 DEF FParts, AnswerState, TicketTypes
    <3>4. \A d \in noticed : d \notin pending /\ d \in Event
      BY <3>1 DEF FParts, AnswerState, Tickets, TicketTypes
    <3>5. \A d \in pending : d \in Event /\ pc[d] = "ticket"
      BY <3>1 DEF FParts, AnswerState, Tickets, TicketTypes
    <3>6. \A d \in noticed' : ticket'[d] = "consumed"
      BY <2>2, <3>2, <3>4, <3>5 DEF Consume, Resolve, FParts, AnswerState, Tickets
    <3>7. Tickets'
      BY <1>1, <3>1, <3>2, <3>6 DEF FParts, AnswerState, Tickets
    <3>8. AnsweredOnce'
      BY <1>1, <3>1, <3>5 DEF FParts, AnswerState, AnsweredOnce
    <3> QED BY <3>3, <3>7, <3>8 DEF AnswerState
  <2> QED BY <1>3, <2>1, <2>2
<1> QED BY <1>1, <1>2, <1>4, SameLock, SamePlace, SameSlots DEF FParts

LEMMA FollowUpsKept == FollowUpsInv /\ [Next]_vars => FollowUpsInv'
<1> SUFFICES ASSUME FParts, [Next]_vars PROVE FParts'
  BY FollowUpsParts
<1>1. CASE UNCHANGED vars
  BY <1>1, SameLock, SameRun, SamePlace, SameSlots, SameTickets DEF vars, runner, order, history, FParts
<1>2. ASSUME NEW e \in Event, Capture(e) \/ PassBy(e) PROVE FParts'
  BY <1>2, CaptureKeeps, PassByKeeps
<1>3. ASSUME NEW e \in Event, Proceed(e) PROVE FParts'
  BY <1>3, ActivateKeeps, TakeTurnKeeps, TurnKeeps, DoneKeeps DEF Proceed
<1>4. CASE RequestStop
  BY <1>4, StopKeeps
<1>5. CASE Run
  BY <1>5, RunKeeps
<1> QED BY <1>1, <1>2, <1>3, <1>4, <1>5 DEF Next

LEMMA FollowUpsInvariance == Spec => []FollowUpsInv
  BY FollowUpsInitially, FollowUpsKept, PTL DEF Spec

-------------------------------------------------------------------------------
(* The theorems.                                                           *)

\* The order state, the tickets and the runner keep their types; the slots hold only
\* messages, the runner's list only captured ones (follow_up.py, tool_loop_agent_runner.py).
THEOREM FollowUpsTypeCorrect == Spec => []TypeOK
<1>1. FollowUpsInv => TypeOK
  BY DEF FollowUpsInv
<1> QED BY <1>1, FollowUpsInvariance, PTL

\* A captured message goes on by itself only when all captured before it were consumed
\* or are done (_advance_follow_up_turn_locked, prepare_follow_up_capture).
THEOREM InTurn == Spec => []ServedInOrder
<1>1. FollowUpsInv => ServedInOrder
  <2> SUFFICES ASSUME FollowUpsInv, NEW i \in 1..Len(captured), NEW j \in 1..Len(captured), i < j,
                      pc[captured[j]] \in {"ready", "line", "build", "run", "final"}
               PROVE  pc[captured[i]] = "done"
    BY DEF ServedInOrder
  <2>1. captured[i] \in Event
    BY CapturedEvents DEF FollowUpsInv, TypeOK
  <2> QED BY <2>1 DEF FollowUpsInv, HandledBefore, Captures, Own
<1> QED BY <1>1, FollowUpsInvariance, PTL

\* A message whose text went into a tool result is not answered again by a turn of its
\* own (_consume_follow_up_notice, prepare_follow_up_capture).
THEOREM Once == Spec => []AnsweredOnce
<1>1. FollowUpsInv => AnsweredOnce
  BY DEF FollowUpsInv
<1> QED BY <1>1, FollowUpsInvariance, PTL

-------------------------------------------------------------------------------
(*****************************************************************************)
(* The web chat.                                                             *)
(*****************************************************************************)

(* The web chat: its inductive invariant.                                  *)

\* What the type invariant leaves open: a callback is busy with a message.
BusyHolds  == \A q \in QueueNo : listener[q] = "busy" => holds[q] \in Message

\* The conversation's queue is the last that was made; the entry of a listener is its own
\* or empty; what is closed or cancelled is earlier; a deleted queue leaves room for another.
LastQueue ==
  /\ input \in {0, made} /\ known \in {0, input}
  /\ input = 0 => made <= MaxRemovals
  /\ \A q \in closed \cup cancelled : q <= made /\ q # input
  /\ ~on => \A q \in QueueNo : listener[q] = "none"

WebInv == WebTypeOK /\ BusyHolds /\ LastQueue /\ QueueServed /\ BackQueueReleased

-------------------------------------------------------------------------------
(* Parts of the state that a step leaves alone.                            *)

InputTypes ==
  /\ on \in BOOLEAN /\ {input, made, known} \subseteq 0..(MaxRemovals + 1)
  /\ content \in [QueueNo -> Seq(Message)]
  /\ {closed, cancelled} \subseteq SUBSET QueueNo
  /\ listener \in [QueueNo -> {"none", "wait", "busy", "ended", "over"}]
  /\ holds \in [QueueNo -> Message \cup {NoMessage}]
BackTypes ==
  /\ back \in [Message -> Nat]
  /\ stream \in [Message -> {"none", "saving", "open", "closing", "over", "unopened"}]
  /\ dropped \in SUBSET Message /\ leaked \in SUBSET Message
AnswerTypes ==
  /\ answer \in [Message -> {"none", "running", "ended", "raised"}]
  /\ left \in [Message -> 0..MaxChunks]
  /\ blocked \in [Message -> Nat]
SenderTypes ==
  /\ due \in SUBSET Message /\ notices \in 0..MaxNotices
  /\ waits \in [Message -> Nat]

\* The back queues with what they hold, in a state of their own for the lemmas.
BackQueues(its) ==
  /\ its \in [Message -> Seq(Seq({"piece", "end"}))]
  /\ \A m \in Message : \A o \in 1..Len(its[m]) : Len(its[m][o]) <= BackSize
ItemTypes == BackQueues(items)

\* Who refers to a back queue refers to one that was made.
Holders == \A m \in Message : {back[m], blocked[m], waits[m]} \subseteq 0..Len(items[m])

Inputs == InputTypes /\ BusyHolds /\ LastQueue /\ QueueServed
Backs  == BackTypes /\ BackQueueReleased

\* The parts, and the parts but for the input queues.
Outputs == Backs /\ ItemTypes /\ Holders /\ AnswerTypes /\ SenderTypes

LEMMA WebParts == Inputs /\ Outputs <=> WebInv
  BY DEF WebInv, Inputs, Outputs, Backs, InputTypes, BackTypes, ItemTypes, BackQueues, Holders,
         AnswerTypes, SenderTypes, WebTypeOK

LEMMA WebPartsNext == (Inputs /\ Outputs)' => WebInv'
  BY DEF WebInv, Inputs, Outputs, Backs, InputTypes, BackTypes, ItemTypes, BackQueues, Holders,
         AnswerTypes, SenderTypes, WebTypeOK

LEMMA SameInputs == Inputs /\ UNCHANGED inputs => Inputs'
  BY DEF Inputs, InputTypes, BusyHolds, LastQueue, QueueServed, Listening, inputs

LEMMA SameBacks == Backs /\ UNCHANGED <<back, stream, dropped, leaked>> => Backs'
  BY DEF Backs, BackTypes, BackQueueReleased, HasBackQueue, Attended

LEMMA SameItems == ItemTypes /\ UNCHANGED items => ItemTypes'
  BY DEF ItemTypes, BackQueues

LEMMA SameHolders == Holders /\ UNCHANGED <<back, items, blocked, waits>> => Holders'
  BY DEF Holders

LEMMA SameAnswers == AnswerTypes /\ UNCHANGED answers => AnswerTypes'
  BY DEF AnswerTypes, answers

LEMMA SameSender == SenderTypes /\ UNCHANGED sender => SenderTypes'
  BY DEF SenderTypes, sender

LEMMA SameOutputs ==
  Outputs /\ UNCHANGED <<back, items, stream, answers, sender, dropped, leaked>> => Outputs'
  BY SameBacks, SameItems, SameHolders, SameAnswers, SameSender DEF Outputs, answers, sender

\* A message more among those without an answer.
LEMMA Drop ==
  ASSUME Backs, dropped' \in SUBSET Message, UNCHANGED <<back, stream, leaked>>
  PROVE  Backs'
  BY DEF Backs, BackTypes, BackQueueReleased, HasBackQueue, Attended

\* A queue gets one more item when it has room.
Put(its, m, o, x) == [its EXCEPT ![m][o] = Append(@, x)]

LEMMA PutProps ==
  ASSUME NEW its, BackQueues(its), NEW m \in Message, NEW o \in 1..Len(its[m]),
         NEW x \in {"piece", "end"}, Len(its[m][o]) < BackSize
  PROVE  /\ BackQueues(Put(its, m, o, x))
         /\ \A n \in Message : Len(Put(its, m, o, x)[n]) = Len(its[n])
<1> DEFINE K == {"piece", "end"}
           s == Append(its[m][o], x)
           r == [its[m] EXCEPT ![o] = s]
           put == Put(its, m, o, x)
<1>1. BackSize \in Nat /\ its[m] \in Seq(Seq(K)) /\ its[m][o] \in Seq(K)
  BY WebAssumption DEF BackQueues
<1>2. s \in Seq(K) /\ Len(s) = Len(its[m][o]) + 1 /\ Len(its[m][o]) \in Nat
  BY <1>1
<1>3. Len(s) <= BackSize
  BY <1>1, <1>2
<1>4. put = [its EXCEPT ![m] = r]
  BY DEF BackQueues, Put
<1> HIDE DEF s, put
<1>5. /\ r \in Seq(Seq(K)) /\ Len(r) = Len(its[m])
      /\ \A p \in 1..Len(r) : r[p] \in {s, its[m][p]}
  BY <1>1, <1>2
<1> HIDE DEF r
<1>6. put \in [Message -> Seq(Seq(K))] /\ put[m] = r /\ \A n \in Message \ {m} : put[n] = its[n]
  BY <1>4, <1>5 DEF BackQueues
<1>7. ASSUME NEW n \in Message
      PROVE  Len(put[n]) = Len(its[n]) /\ \A p \in 1..Len(put[n]) : Len(put[n][p]) <= BackSize
  <2>1. CASE n = m
    BY <1>3, <1>5, <1>6, <2>1 DEF BackQueues
  <2>2. CASE n # m
    BY <1>6, <2>2 DEF BackQueues
  <2> QED BY <2>1, <2>2
<1>8. BackQueues(put)
  BY <1>6, <1>7 DEF BackQueues
<1> QED BY <1>7, <1>8 DEF put

\* A caller gets the registered queue, or a new one that is empty; the others stay.
LEMMA FreshProps ==
  ASSUME ItemTypes, Holders, NEW m \in Message
  PROVE  /\ BackQueues(Fresh(m))
         /\ Target(m) \in 1..Len(Fresh(m)[m])
         /\ Target(m) \in Nat \ {0}
         /\ (HasBackQueue(m) => Room(m, back[m])) => Len(Fresh(m)[m][Target(m)]) < BackSize
         /\ \A n \in Message : /\ Len(Fresh(m)[n]) \in Nat /\ Len(items[n]) \in Nat
                              /\ Len(items[n]) <= Len(Fresh(m)[n])
                              /\ \A o \in 1..Len(items[n]) : Fresh(m)[n][o] = items[n][o]
<1> DEFINE K == {"piece", "end"}
           r == Append(items[m], <<>>)
<1>1. /\ BackSize \in Nat \ {0} /\ \A n \in Message : items[n] \in Seq(Seq(K)) /\ Len(items[n]) \in Nat
      /\ back[m] \in 0..Len(items[m])
  BY WebAssumption DEF ItemTypes, BackQueues, Holders
<1>2. CASE HasBackQueue(m)
  BY <1>1, <1>2 DEF Fresh, Target, HasBackQueue, Room, ItemTypes
<1>3. CASE ~HasBackQueue(m)
  <2>1. <<>> \in Seq(K) /\ Len(<<>>) = 0
    OBVIOUS
  <2>2. /\ r \in Seq(Seq(K)) /\ Len(r) = Len(items[m]) + 1 /\ r[Len(items[m]) + 1] = <<>>
        /\ \A o \in 1..Len(items[m]) : r[o] = items[m][o]
    BY <1>1, <2>1
  <2>3. Fresh(m) = [items EXCEPT ![m] = r] /\ Target(m) = Len(items[m]) + 1
    BY <1>3 DEF Fresh, Target, ItemTypes, BackQueues
  <2> HIDE DEF r
  <2>4. /\ Fresh(m) \in [Message -> Seq(Seq(K))] /\ Fresh(m)[m] = r
        /\ \A n \in Message \ {m} : Fresh(m)[n] = items[n]
    BY <2>2, <2>3 DEF ItemTypes, BackQueues
  <2>5. ASSUME NEW n \in Message, NEW o \in 1..Len(Fresh(m)[n])
        PROVE  Len(Fresh(m)[n][o]) <= BackSize
    <3>1. CASE n # m
      BY <2>4, <3>1 DEF ItemTypes, BackQueues
    <3>2. CASE n = m /\ o = Len(items[m]) + 1
      BY <1>1, <2>1, <2>2, <2>4, <3>2
    <3>3. CASE n = m /\ o # Len(items[m]) + 1
      <4>1. o \in 1..Len(items[m])
        BY <1>1, <2>2, <2>4, <3>3
      <4> QED BY <2>2, <2>4, <3>3, <4>1 DEF ItemTypes, BackQueues
    <3> QED BY <3>1, <3>2, <3>3
  <2>6. BackQueues(Fresh(m))
    BY <2>4, <2>5 DEF BackQueues
  <2>7. ASSUME NEW n \in Message
        PROVE  /\ Len(Fresh(m)[n]) \in Nat /\ Len(items[n]) \in Nat /\ Len(items[n]) <= Len(Fresh(m)[n])
               /\ \A o \in 1..Len(items[n]) : Fresh(m)[n][o] = items[n][o]
    <3>1. CASE n = m
      BY <1>1, <2>2, <2>4, <3>1
    <3>2. CASE n # m
      BY <1>1, <2>4, <3>2
    <3> QED BY <3>1, <3>2
  <2> QED BY <1>1, <2>1, <2>2, <2>3, <2>4, <2>6, <2>7
<1> QED BY <1>2, <1>3

\* Whoever gets a queue is recorded when nothing will remove it.
LEMMA TargetsStep ==
  ASSUME Backs, NEW m \in Message, Target(m) \in Nat \ {0}, Targets(m), UNCHANGED <<stream, dropped>>
  PROVE  Backs'
<1>1. /\ back' \in [Message -> Nat] /\ back'[m] = Target(m)
      /\ \A n \in Message \ {m} : back'[n] = back[n]
  BY DEF Targets, Backs, BackTypes
<1> QED BY <1>1 DEF Targets, Backs, BackTypes, BackQueueReleased, HasBackQueue, Attended

-------------------------------------------------------------------------------
(* One lemma per action.                                                   *)

LEMMA WebInitially == WebInit => WebInv
<1> SUFFICES ASSUME WebInit PROVE Inputs /\ Outputs
  BY WebParts
<1>1. 0 \in 0..(MaxRemovals + 1) /\ 0 \in 0..MaxChunks /\ BackSize \in Nat /\ MaxRemovals \in Nat
  BY WebAssumption
<1>2. Inputs
  <2>1. InputTypes
    <3>1. on \in BOOLEAN /\ {input, made, known} \subseteq 0..(MaxRemovals + 1)
      BY <1>1 DEF WebInit
    <3>2. content \in [QueueNo -> Seq(Message)] /\ {closed, cancelled} \subseteq SUBSET QueueNo
      BY DEF WebInit
    <3>3. /\ listener \in [QueueNo -> {"none", "wait", "busy", "ended", "over"}]
          /\ holds \in [QueueNo -> Message \cup {NoMessage}]
      BY DEF WebInit
    <3> QED BY <3>1, <3>2, <3>3 DEF InputTypes
  <2>2. BusyHolds
    BY DEF WebInit, BusyHolds
  <2>3. LastQueue /\ QueueServed
    BY <1>1 DEF WebInit, LastQueue, QueueServed
  <2> QED BY <2>1, <2>2, <2>3 DEF Inputs
<1>3. Backs
  BY DEF WebInit, Backs, BackTypes, BackQueueReleased, HasBackQueue
<1>4. ItemTypes /\ Holders
  BY <1>1 DEF WebInit, ItemTypes, BackQueues, Holders
<1>5. AnswerTypes
  BY <1>1 DEF WebInit, AnswerTypes
<1>6. SenderTypes
  BY WebAssumption DEF WebInit, SenderTypes
<1> QED BY <1>2, <1>3, <1>4, <1>5, <1>6 DEF Outputs

LEMMA AdapterStartsKeeps ==
  ASSUME Inputs, AdapterStarts
  PROVE  Inputs'
<1>0. MaxRemovals \in Nat /\ input \in 0..(MaxRemovals + 1)
  BY WebAssumption DEF Inputs, InputTypes
<1>1. ~Listening(known)
  BY DEF Inputs, InputTypes, LastQueue, AdapterStarts, Listening, QueueNo
<1>2. CASE input = 0
  BY <1>0, <1>2 DEF AdapterStarts, StartListener, Inputs, InputTypes, BusyHolds, LastQueue, QueueServed
<1>3. CASE input # 0
  <2>1. input \in QueueNo
    BY <1>0, <1>3 DEF QueueNo
  <2>2. listener' = [listener EXCEPT ![input] = "wait"] /\ known' = input
    BY <1>1, <1>3 DEF AdapterStarts, StartListener
  <2>3. /\ listener'[input] = "wait" /\ \A q \in QueueNo : q # input => listener'[q] = listener[q]
        /\ listener' \in [QueueNo -> {"none", "wait", "busy", "ended", "over"}]
    BY <2>1, <2>2 DEF Inputs, InputTypes
  <2> QED BY <1>0, <1>3, <2>1, <2>2, <2>3
          DEF AdapterStarts, Inputs, InputTypes, BusyHolds, LastQueue, QueueServed, Listening
<1> QED BY <1>2, <1>3

\* A listener goes on with its queue.
LEMMA ListenStep ==
  ASSUME Inputs, NEW q \in QueueNo, NEW l \in {"wait", "busy"}, NEW h \in Message \cup {NoMessage},
         listener[q] \in {"wait", "busy"}, listener' = [listener EXCEPT ![q] = l],
         holds' = [holds EXCEPT ![q] = h], l = "busy" => h \in Message,
         content' \in [QueueNo -> Seq(Message)],
         UNCHANGED <<on, input, made, closed, cancelled, known>>
  PROVE  Inputs'
<1>1. /\ listener' \in [QueueNo -> {"none", "wait", "busy", "ended", "over"}]
      /\ listener'[q] = l /\ \A r \in QueueNo : r # q => listener'[r] = listener[r]
      /\ holds' \in [QueueNo -> Message \cup {NoMessage}]
      /\ holds'[q] = h /\ \A r \in QueueNo : r # q => holds'[r] = holds[r]
  BY DEF Inputs, InputTypes
<1>2. on
  BY DEF Inputs, InputTypes, LastQueue
<1>3. input # 0 => input \in QueueNo
  BY DEF Inputs, InputTypes, QueueNo
<1>4. BusyHolds'
  BY <1>1 DEF Inputs, BusyHolds
<1>5. QueueServed'
  BY <1>1, <1>3 DEF Inputs, QueueServed, Listening
<1> QED BY <1>1, <1>2, <1>4, <1>5 DEF Inputs, InputTypes, LastQueue

LEMMA TakeKeeps ==
  ASSUME Inputs, NEW q \in QueueNo, Take(q)
  PROVE  Inputs'
<1>1. content[q] \in Seq(Message) /\ content[q] # <<>>
  BY DEF Inputs, InputTypes, Take
<1>2. Head(content[q]) \in Message /\ Tail(content[q]) \in Seq(Message)
  BY <1>1
<1>3. content' \in [QueueNo -> Seq(Message)]
  BY <1>2 DEF Inputs, InputTypes, Take
<1> QED BY <1>2, <1>3, ListenStep DEF Take

LEMMA CommitKeeps ==
  ASSUME Inputs, AnswerTypes, NEW q \in QueueNo, Commit(q)
  PROVE  Inputs' /\ AnswerTypes'
<1>1. Inputs'
  BY ListenStep DEF Commit, Inputs, InputTypes
<1>2. AnswerTypes'
  BY DEF AnswerTypes, Commit
<1> QED BY <1>1, <1>2

LEMMA CallbackRaisesKeeps ==
  ASSUME Inputs, Backs, NEW q \in QueueNo, CallbackRaises(q)
  PROVE  Inputs' /\ Backs'
<1>1. Inputs'
  BY ListenStep DEF CallbackRaises, Inputs, InputTypes
<1>2. holds[q] \in Message
  BY DEF CallbackRaises, Inputs, BusyHolds
<1>3. Backs'
  BY <1>2, Drop DEF CallbackRaises, Backs, BackTypes
<1> QED BY <1>1, <1>3

\* A listener that ended is not that of the conversation's queue.
LEMMA ListenerEndsKeeps ==
  ASSUME Inputs, Backs, NEW q \in QueueNo, ListenerEnds(q)
  PROVE  Inputs' /\ Backs'
<1>1. q # input /\ listener[q] \in {"wait", "busy"} /\ q \in closed \cup cancelled
  BY DEF ListenerEnds, Inputs, LastQueue
<1>2. /\ listener' \in [QueueNo -> {"none", "wait", "busy", "ended", "over"}]
      /\ listener'[q] = "ended" /\ \A r \in QueueNo : r # q => listener'[r] = listener[r]
      /\ holds' \in [QueueNo -> Message \cup {NoMessage}]
      /\ \A r \in QueueNo : r # q => holds'[r] = holds[r]
  BY DEF ListenerEnds, Inputs, InputTypes
<1>3. on /\ (input # 0 => input \in QueueNo)
  BY <1>1 DEF Inputs, InputTypes, LastQueue, QueueNo
<1>4. BusyHolds' /\ QueueServed'
  BY <1>1, <1>2, <1>3 DEF ListenerEnds, Inputs, BusyHolds, QueueServed, Listening
<1>5. Inputs'
  BY <1>2, <1>3, <1>4 DEF ListenerEnds, Inputs, InputTypes, LastQueue
<1>6. Backs'
  BY Drop DEF ListenerEnds, Backs, BackTypes, Inputs, InputTypes
<1> QED BY <1>5, <1>6

LEMMA ListenerDoneKeeps ==
  ASSUME Inputs, NEW q \in QueueNo, ListenerDone(q)
  PROVE  Inputs'
<1>1. /\ listener' \in [QueueNo -> {"none", "wait", "busy", "ended", "over"}]
      /\ listener'[q] = "over" /\ \A r \in QueueNo : r # q => listener'[r] = listener[r]
  BY DEF ListenerDone, Inputs, InputTypes
<1>2. on /\ (input # 0 => input \in QueueNo)
  BY DEF ListenerDone, Inputs, InputTypes, LastQueue, QueueNo
<1>3. q # input
  <2>1. q # 0 /\ listener[q] = "ended"
    BY DEF ListenerDone, QueueNo
  <2> QED BY <1>2, <2>1 DEF Inputs, QueueServed, Listening
<1>4. BusyHolds' /\ QueueServed'
  BY <1>1, <1>2, <1>3 DEF ListenerDone, Inputs, BusyHolds, QueueServed, Listening
<1>5. 0 \in 0..(MaxRemovals + 1)
  BY WebAssumption
<1> QED BY <1>1, <1>2, <1>4, <1>5 DEF ListenerDone, Inputs, InputTypes, LastQueue

LEMMA PostKeeps ==
  ASSUME Inputs, Outputs, NEW m \in Message, Post(m)
  PROVE  Inputs' /\ Outputs'
<1> DEFINE q == IF input = 0 THEN made + 1 ELSE input
<1>0. /\ MaxRemovals \in Nat /\ input \in 0..(MaxRemovals + 1) /\ made \in 0..(MaxRemovals + 1)
      /\ input = 0 => made <= MaxRemovals /\ known = 0
  BY WebAssumption DEF Inputs, InputTypes, LastQueue
<1>1. q \in QueueNo /\ q # 0
  BY <1>0 DEF QueueNo
<1>2. Outputs'
  <2>1. /\ stream' = [stream EXCEPT ![m] = "saving"] /\ back' = [back EXCEPT ![m] = Target(m)]
        /\ items' = Fresh(m) /\ ~HasBackQueue(m)
        /\ UNCHANGED <<answers, sender, dropped, leaked>>
    BY DEF Post
  <2>2. Target(m) \in Nat \ {0}
    BY FreshProps DEF Outputs
  <2>3. Backs'
    BY <2>1, <2>2 DEF Outputs, Backs, BackTypes, BackQueueReleased, HasBackQueue, Attended
  <2>4. ItemTypes'
    BY <2>1, FreshProps DEF Outputs, ItemTypes
  <2>5. Holders'
    <3> SUFFICES ASSUME NEW n \in Message PROVE {back'[n], blocked[n], waits[n]} \subseteq 0..Len(items'[n])
      BY <2>1 DEF Holders, answers, sender
    <3>1. /\ {back[n], blocked[n], waits[n]} \subseteq 0..Len(items[n])
          /\ Len(items'[n]) \in Nat /\ Len(items[n]) \in Nat /\ Len(items[n]) <= Len(items'[n])
      BY <2>1, FreshProps DEF Outputs, Holders
    <3>2. back'[n] = back[n] \/ (n = m /\ back'[n] \in 1..Len(items'[n]))
      BY <2>1, FreshProps DEF Outputs, Backs, BackTypes
    <3> QED BY <3>1, <3>2
  <2> QED BY <2>1, <2>3, <2>4, <2>5, SameAnswers, SameSender DEF Outputs
<1>3. content' \in [QueueNo -> Seq(Message)]
  <2>1. content' = [content EXCEPT ![q] = Append(content[q], m)]
    BY DEF Post
  <2>2. Append(content[q], m) \in Seq(Message)
    BY <1>1 DEF Inputs, InputTypes
  <2> HIDE DEF q
  <2> QED BY <1>1, <2>1, <2>2 DEF Inputs, InputTypes
<1>4. CASE input # 0
  <2>1. UNCHANGED <<on, input, made, closed, listener, holds, cancelled, known>>
    BY <1>4 DEF Post
  <2> QED BY <1>2, <1>3, <2>1 DEF Inputs, InputTypes, BusyHolds, LastQueue, QueueServed, Listening
<1>5. CASE input = 0
  <2>1. /\ input' = made + 1 /\ made' = made + 1 /\ UNCHANGED <<on, closed, holds, cancelled>>
        /\ StartListener(made + 1, on) /\ made + 1 \in QueueNo
    BY <1>1, <1>5 DEF Post
  <2>2. made + 1 \in 0..(MaxRemovals + 1) /\ made + 1 # 0
    BY <1>0, <1>5
  <2>3. \A r \in closed \cup cancelled : r \in Nat /\ r <= made /\ r # made + 1 /\ r <= made + 1
    BY <1>0 DEF Inputs, InputTypes, LastQueue, QueueNo
  <2>4. CASE on
    <3>1. listener' = [listener EXCEPT ![made + 1] = "wait"] /\ known' = made + 1
      BY <1>0, <1>5, <2>1, <2>2, <2>4 DEF StartListener, Listening
    <3>2. /\ listener' \in [QueueNo -> {"none", "wait", "busy", "ended", "over"}]
          /\ listener'[made + 1] = "wait"
          /\ \A r \in QueueNo : listener'[r] \in {"wait", listener[r]}
      BY <2>1, <3>1 DEF Inputs, InputTypes
    <3>3. BusyHolds' /\ QueueServed'
      BY <2>1, <2>3, <3>2 DEF Inputs, BusyHolds, QueueServed, Listening
    <3> QED BY <1>2, <1>3, <2>1, <2>2, <2>3, <2>4, <3>1, <3>2, <3>3 DEF Inputs, InputTypes, LastQueue
  <2>5. CASE ~on
    <3>1. UNCHANGED <<listener, known>>
      BY <2>1, <2>5 DEF StartListener
    <3> QED BY <1>0, <1>2, <1>3, <1>5, <2>1, <2>2, <2>3, <2>5, <3>1
            DEF Inputs, InputTypes, LastQueue, BusyHolds, QueueServed
  <2> QED BY <2>4, <2>5
<1> QED BY <1>4, <1>5

\* A stream that has still to remove its queue goes on, removes it or leaves it behind.
LEMMA StreamStep ==
  ASSUME Outputs, NEW m \in Message, Attended(m), NEW to \in {"open", "closing", "over", "unopened"},
         stream' = [stream EXCEPT ![m] = to], UNCHANGED <<answers, sender, dropped>>,
         \/ to \in {"open", "closing"} /\ UNCHANGED <<back, leaked>>
         \/ to \in {"over", "unopened"} /\ RemoveBackQueue(m) /\ UNCHANGED leaked
         \/ /\ to \in {"over", "unopened"} /\ UNCHANGED back
            /\ leaked' = IF HasBackQueue(m) THEN leaked \cup {m} ELSE leaked,
         UNCHANGED items
  PROVE  Outputs'
<1>1. /\ stream' \in [Message -> {"none", "saving", "open", "closing", "over", "unopened"}]
      /\ stream'[m] = to /\ \A n \in Message \ {m} : stream'[n] = stream[n]
  BY DEF Outputs, Backs, BackTypes
<1>2. /\ back' \in [Message -> Nat] /\ \A n \in Message : back'[n] \in {0, back[n]}
      /\ \A n \in Message \ {m} : back'[n] = back[n]
      /\ RemoveBackQueue(m) => back'[m] = 0
  BY DEF Outputs, Backs, BackTypes, RemoveBackQueue
<1>3. m \notin leaked
  BY DEF Outputs, Backs, BackQueueReleased
<1>4. Backs'
  BY <1>1, <1>2, <1>3 DEF Outputs, Backs, BackTypes, BackQueueReleased, HasBackQueue, Attended
<1>5. Holders'
  <2> SUFFICES ASSUME NEW n \in Message PROVE {back'[n], blocked[n], waits[n]} \subseteq 0..Len(items[n])
    BY DEF Holders, answers, sender
  <2>1. {back[n], blocked[n], waits[n]} \subseteq 0..Len(items[n]) /\ Len(items[n]) \in Nat
    BY DEF Outputs, Holders, ItemTypes, BackQueues
  <2> QED BY <1>2, <2>1
<1> QED BY <1>4, <1>5, SameItems, SameAnswers, SameSender DEF Outputs

LEMMA ReadsKeeps ==
  ASSUME Outputs, NEW m \in Message, Reads(m)
  PROVE  Outputs'
<1> DEFINE K == {"piece", "end"}
           s == items[m][1]
           r == [items[m] EXCEPT ![1] = Tail(s)]
<1>1. /\ stream[m] = "open" /\ s # <<>> /\ items' = [items EXCEPT ![m][1] = Tail(@)]
      /\ UNCHANGED <<back, answers, sender, dropped, leaked>>
      /\ UNCHANGED stream \/ stream' = [stream EXCEPT ![m] = "closing"]
  BY DEF Reads, StreamAt
<1>2. Backs'
  BY <1>1 DEF Outputs, Backs, BackTypes, BackQueueReleased, HasBackQueue, Attended
<1>3. /\ items[m] \in Seq(Seq(K)) /\ Len(items[m]) \in Nat /\ BackSize \in Nat
      /\ \A o \in 1..Len(items[m]) : items[m][o] \in Seq(K) /\ Len(items[m][o]) <= BackSize
  <2>1. items[m] \in Seq(Seq(K)) /\ \A o \in 1..Len(items[m]) : Len(items[m][o]) <= BackSize
    BY DEF Outputs, ItemTypes, BackQueues
  <2>2. \A o \in 1..Len(items[m]) : items[m][o] \in Seq(K)
    BY <2>1
  <2> QED BY <2>1, <2>2, WebAssumption
<1>4. items' = [items EXCEPT ![m] = r]
  BY <1>1 DEF Outputs, ItemTypes, BackQueues
<1>5. /\ r \in Seq(Seq(K)) /\ Len(r) = Len(items[m])
      /\ \A o \in 1..Len(r) : Len(r[o]) <= BackSize
  <2>1. CASE Len(items[m]) = 0
    <3>1. items[m] = <<>>
      BY <1>3, <2>1
    <3>2. r = items[m]
      BY <3>1
    <3> QED BY <1>3, <3>2
  <2>2. CASE Len(items[m]) # 0
    <3>1. 1 \in 1..Len(items[m])
      BY <1>3, <2>2
    <3>2. s \in Seq(K) /\ Len(s) <= BackSize
      BY <1>3, <3>1
    <3>3. Tail(s) \in Seq(K) /\ Len(Tail(s)) = Len(s) - 1 /\ Len(s) \in Nat
      BY <1>1, <3>2
    <3>4. Len(Tail(s)) <= BackSize
      BY <1>3, <3>2, <3>3
    <3> HIDE DEF s
    <3>5. r \in Seq(Seq(K)) /\ Len(r) = Len(items[m]) /\ \A o \in 1..Len(r) : r[o] \in {Tail(s), items[m][o]}
      BY <1>3, <3>1, <3>3
    <3> QED BY <1>3, <3>4, <3>5
  <2> QED BY <2>1, <2>2
<1> HIDE DEF r, s
<1>6. /\ items' \in [Message -> Seq(Seq(K))] /\ items'[m] = r
      /\ \A n \in Message \ {m} : items'[n] = items[n]
  BY <1>4, <1>5 DEF Outputs, ItemTypes, BackQueues
<1>7. ItemTypes'
  BY <1>5, <1>6 DEF Outputs, ItemTypes, BackQueues
<1>8. Holders'
  BY <1>1, <1>5, <1>6 DEF Outputs, Holders, answers, sender
<1> QED BY <1>1, <1>2, <1>7, <1>8, SameAnswers, SameSender DEF Outputs

LEMMA FollowKeeps ==
  ASSUME Outputs, NEW m \in Message, Follow(m) \/ Disconnects(m)
  PROVE  Outputs'
<1>1. CASE Opens(m) \/ Disconnects(m)
  BY <1>1, StreamStep DEF Opens, Disconnects, StreamAt, Attended
<1>2. CASE NeverOpens(m) \/ SaveCancelled(m)
  BY <1>2, StreamStep DEF NeverOpens, SaveCancelled, LeavesQueue, StreamAt, Attended
<1>3. CASE Closes(m)
  BY <1>3, StreamStep DEF Closes, StreamAt, Attended
<1>4. CASE Reads(m)
  BY <1>4, ReadsKeeps
<1> QED BY <1>1, <1>2, <1>3, <1>4 DEF Follow

\* The pipeline has sent an item.
LEMMA SentStep ==
  ASSUME AnswerTypes, NEW m \in Message, ItemSent(m), blocked' \in {blocked, [blocked EXCEPT ![m] = 0]}
  PROVE  AnswerTypes' /\ Item(m) \in {"piece", "end"}
<1>1. left[m] \in Nat /\ MaxChunks \in Nat
  BY WebAssumption DEF AnswerTypes
<1> QED BY <1>1 DEF AnswerTypes, ItemSent, Item

LEMMA SendsKeeps ==
  ASSUME Outputs, NEW m \in Message, Sends(m)
  PROVE  Outputs'
<1>0. /\ Targets(m) /\ UNCHANGED <<stream, sender, dropped>>
      /\ back' = [back EXCEPT ![m] = Target(m)]
  BY DEF Sends, Targets
<1>1. Backs'
  BY <1>0, TargetsStep, FreshProps DEF Outputs
<1>2. CASE HasBackQueue(m) => Room(m, back[m])
  <2>1. /\ items' = [Fresh(m) EXCEPT ![m][Target(m)] = Append(@, Item(m))]
        /\ ItemSent(m) /\ UNCHANGED blocked
    BY <1>2 DEF Sends
  <2>2. AnswerTypes' /\ Item(m) \in {"piece", "end"}
    BY <2>1, SentStep DEF Outputs
  <2>3. BackQueues(items') /\ \A n \in Message : Len(items'[n]) = Len(Fresh(m)[n])
    <3>1. items' = Put(Fresh(m), m, Target(m), Item(m))
      BY <2>1 DEF Put
    <3>2. /\ BackQueues(Fresh(m)) /\ Target(m) \in 1..Len(Fresh(m)[m])
          /\ Len(Fresh(m)[m][Target(m)]) < BackSize
      BY <1>2, FreshProps DEF Outputs
    <3> QED BY <2>2, <3>1, <3>2, PutProps
  <2>4. Holders'
    <3> SUFFICES ASSUME NEW n \in Message PROVE {back'[n], blocked[n], waits[n]} \subseteq 0..Len(items'[n])
      BY <1>0, <2>1 DEF Holders, sender
    <3>1. /\ {back[n], blocked[n], waits[n]} \subseteq 0..Len(items[n])
          /\ Len(items'[n]) \in Nat /\ Len(items[n]) \in Nat /\ Len(items[n]) <= Len(items'[n])
      BY <2>3, FreshProps DEF Outputs, Holders
    <3>2. back'[n] = back[n] \/ (n = m /\ back'[n] \in 1..Len(items'[n]))
      BY <1>0, <2>3, FreshProps DEF Outputs, Backs, BackTypes
    <3> QED BY <3>1, <3>2
  <2> QED BY <1>0, <1>1, <2>2, <2>3, <2>4, SameSender DEF Outputs, ItemTypes
<1>3. CASE ~(HasBackQueue(m) => Room(m, back[m]))
  <2>1. /\ blocked' = [blocked EXCEPT ![m] = back[m]] /\ UNCHANGED <<items, answer, left>>
        /\ UNCHANGED back
    BY <1>0, <1>3 DEF Sends, Target, Outputs, Backs, BackTypes
  <2>2. AnswerTypes'
    BY <2>1 DEF Outputs, AnswerTypes, Backs, BackTypes
  <2>3. Holders'
    BY <1>0, <2>1 DEF Outputs, Holders, AnswerTypes, sender
  <2> QED BY <1>0, <1>1, <2>1, <2>2, <2>3, SameItems, SameSender DEF Outputs
<1> QED BY <1>2, <1>3

LEMMA GoesOnKeeps ==
  ASSUME Outputs, NEW m \in Message, GoesOn(m)
  PROVE  Outputs'
<1>1. /\ blocked[m] \in 1..Len(items[m]) /\ Room(m, blocked[m]) /\ ItemSent(m)
      /\ items' = [items EXCEPT ![m][blocked[m]] = Append(@, Item(m))]
      /\ blocked' = [blocked EXCEPT ![m] = 0] /\ UNCHANGED <<back, stream, sender, dropped, leaked>>
  BY DEF GoesOn, Outputs, Holders, AnswerTypes
<1>2. AnswerTypes' /\ Item(m) \in {"piece", "end"}
  BY <1>1, SentStep DEF Outputs
<1>3. BackQueues(items') /\ \A n \in Message : Len(items'[n]) = Len(items[n])
  <2>1. items' = Put(items, m, blocked[m], Item(m))
    BY <1>1 DEF Put
  <2>2. BackQueues(items) /\ Len(items[m][blocked[m]]) < BackSize
    BY <1>1 DEF Outputs, ItemTypes, Room
  <2>3. blocked[m] \in 1..Len(items[m]) /\ Item(m) \in {"piece", "end"}
    BY <1>1, <1>2
  <2>4. /\ BackQueues(Put(items, m, blocked[m], Item(m)))
        /\ \A n \in Message : Len(Put(items, m, blocked[m], Item(m))[n]) = Len(items[n])
    BY <2>2, <2>3, PutProps
  <2> QED BY <2>1, <2>4
<1>4. Holders'
  BY <1>1, <1>3 DEF Outputs, Holders, AnswerTypes, ItemTypes, BackQueues, sender
<1> QED BY <1>1, <1>2, <1>3, <1>4, SameBacks, SameSender DEF Outputs, ItemTypes

LEMMA RaisesKeeps ==
  ASSUME Outputs, NEW m \in Message, Raises(m)
  PROVE  Outputs'
<1>1. Backs'
  BY Drop DEF Raises, Outputs, Backs, BackTypes
<1>2. AnswerTypes'
  BY DEF Raises, Outputs, AnswerTypes
<1> QED BY <1>1, <1>2, SameItems, SameHolders, SameSender DEF Raises, Outputs, sender

LEMMA AnnouncesKeeps ==
  ASSUME Outputs, NEW m \in Message, Announces(m)
  PROVE  Outputs'
<1>1. SenderTypes'
  BY WebAssumption DEF Announces, Outputs, SenderTypes, Backs, BackTypes
<1>2. Holders'
  BY DEF Announces, Outputs, Holders, SenderTypes, answers
<1> QED BY <1>1, <1>2, SameBacks, SameItems, SameAnswers DEF Announces, Outputs

LEMMA NotifiesKeeps ==
  ASSUME Outputs, NEW m \in Message, Notifies(m)
  PROVE  Outputs'
<1>1. /\ waits[m] \in 1..Len(items[m]) /\ Len(items[m][waits[m]]) < BackSize
      /\ UNCHANGED <<stream, answers, notices, dropped>>
  BY DEF Notifies, Room, Outputs, Holders, SenderTypes
<1>2. CASE /\ items' = [items EXCEPT ![m][waits[m]] = Append(@, "piece")]
           /\ waits' = [waits EXCEPT ![m] = 0]
           /\ UNCHANGED <<due, back, leaked>>
  <2>1. BackQueues(items') /\ \A n \in Message : Len(items'[n]) = Len(items[n])
    <3>1. items' = Put(items, m, waits[m], "piece") /\ BackQueues(items)
      BY <1>2 DEF Put, Outputs, ItemTypes
    <3> QED BY <1>1, <3>1, PutProps
  <2>2. SenderTypes'
    BY <1>1, <1>2 DEF Outputs, SenderTypes
  <2>3. Holders'
    BY <1>1, <1>2, <2>1 DEF Outputs, Holders, SenderTypes, ItemTypes, BackQueues, answers
  <2> QED BY <1>1, <1>2, <2>1, <2>2, <2>3, SameBacks, SameAnswers DEF Outputs, ItemTypes
<1>3. ASSUME NEW n \in due, Targets(n),
             waits' = [waits EXCEPT ![m] = 0, ![n] = Target(n)],
             items' = [Fresh(n) EXCEPT ![m][waits[m]] = Append(@, "piece")],
             due' = due \ {n}
      PROVE  Outputs'
  <2>0. n \in Message
    BY DEF Outputs, SenderTypes
  <2>1. /\ BackQueues(Fresh(n)) /\ Target(n) \in 1..Len(Fresh(n)[n]) /\ Target(n) \in Nat \ {0}
        /\ \A k \in Message : /\ Len(Fresh(n)[k]) \in Nat /\ Len(items[k]) \in Nat
                             /\ Len(items[k]) <= Len(Fresh(n)[k])
                             /\ \A o \in 1..Len(items[k]) : Fresh(n)[k][o] = items[k][o]
    BY <2>0, FreshProps DEF Outputs
  <2>2. waits[m] \in 1..Len(Fresh(n)[m]) /\ Len(Fresh(n)[m][waits[m]]) < BackSize
    BY <1>1, <2>1
  <2>3. BackQueues(items') /\ \A k \in Message : Len(items'[k]) = Len(Fresh(n)[k])
    <3>1. items' = Put(Fresh(n), m, waits[m], "piece")
      BY <1>3 DEF Put
    <3> QED BY <2>1, <2>2, <3>1, PutProps
  <2>4. Backs'
    BY <1>1, <1>3, <2>0, <2>1, TargetsStep DEF Outputs
  <2>5. /\ waits' \in [Message -> Nat] /\ \A k \in Message : waits'[k] \in {0, waits[k]} \/ (k = n /\ waits'[k] = Target(n))
    BY <1>3, <2>0, <2>1 DEF Outputs, SenderTypes
  <2>6. SenderTypes'
    BY <1>1, <1>3, <2>5 DEF Outputs, SenderTypes
  <2>7. \A k \in Message : back'[k] = back[k] \/ (k = n /\ back'[k] = Target(n))
    BY <1>3, <2>0 DEF Targets, Outputs, Backs, BackTypes
  <2>8. Holders'
    <3> SUFFICES ASSUME NEW k \in Message PROVE {back'[k], blocked[k], waits'[k]} \subseteq 0..Len(items'[k])
      BY <1>1 DEF Holders, answers
    <3>1. {back[k], blocked[k], waits[k]} \subseteq 0..Len(items[k])
      BY DEF Outputs, Holders
    <3>2. Len(items'[k]) \in Nat /\ Len(items[k]) \in Nat /\ Len(items[k]) <= Len(items'[k])
      BY <2>1, <2>3
    <3>3. k = n => Target(n) \in 1..Len(items'[k])
      BY <2>1, <2>3
    <3> QED BY <2>5, <2>7, <3>1, <3>2, <3>3
  <2> QED BY <1>1, <2>3, <2>4, <2>6, <2>8, SameAnswers DEF Outputs, ItemTypes
<1> QED BY <1>2, <1>3 DEF Notifies

LEMMA DeleteConversationKeeps ==
  ASSUME Inputs, Outputs, DeleteConversation
  PROVE  Inputs' /\ Outputs'
<1>0. MaxRemovals \in Nat /\ input \in QueueNo /\ made \in 0..(MaxRemovals + 1) /\ input = made
  BY WebAssumption DEF DeleteConversation, Inputs, InputTypes, LastQueue, QueueNo
<1>1. content[input] \in Seq(Message)
  BY <1>0 DEF Inputs, InputTypes
<1>2. { content[input][i] : i \in 1..Len(content[input]) } \subseteq Message
  BY <1>1
<1>3. Outputs'
  <2>1. /\ back' = [m \in Message |-> 0] /\ leaked' = {} /\ dropped' \in SUBSET Message
        /\ UNCHANGED <<items, stream, answers, sender>>
    BY <1>2 DEF DeleteConversation, Outputs, Backs, BackTypes
  <2>2. Backs'
    BY <2>1 DEF Outputs, Backs, BackTypes, BackQueueReleased, HasBackQueue
  <2>3. Holders'
    BY <2>1 DEF Outputs, Holders, ItemTypes, BackQueues, answers, sender
  <2> QED BY <2>1, <2>2, <2>3, SameItems, SameAnswers, SameSender DEF Outputs
<1>4. /\ input' = 0 /\ known' = 0 /\ closed' = closed \cup {input}
      /\ cancelled' \in {cancelled, cancelled \cup {input}}
      /\ UNCHANGED <<on, made, content, listener, holds>> /\ made <= MaxRemovals
  BY DEF DeleteConversation, RemoveQueue, Inputs, LastQueue
<1>5. \A q \in closed' \cup cancelled' : q \in QueueNo /\ q <= made /\ q # 0
  BY <1>0, <1>4 DEF Inputs, InputTypes, LastQueue, QueueNo
<1> QED BY <1>0, <1>3, <1>4, <1>5 DEF Inputs, InputTypes, BusyHolds, LastQueue, QueueServed, QueueNo

LEMMA WebKept == WebInv /\ [WebNext]_webVars => WebInv'
<1> SUFFICES ASSUME Inputs, Outputs, [WebNext]_webVars PROVE Inputs' /\ Outputs'
  BY WebParts, WebPartsNext
<1>1. CASE UNCHANGED webVars
  BY <1>1, SameInputs, SameOutputs DEF webVars
<1>2. CASE AdapterStarts
  BY <1>2, AdapterStartsKeeps, SameOutputs DEF AdapterStarts
<1>3. ASSUME NEW q \in QueueNo, Listen(q) PROVE Inputs' /\ Outputs'
  <2>1. CASE Take(q)
    BY <2>1, TakeKeeps, SameOutputs DEF Take
  <2>2. CASE Commit(q)
    BY <2>2, CommitKeeps, SameBacks, SameItems, SameHolders, SameSender DEF Commit, Outputs, sender
  <2>3. CASE CallbackRaises(q)
    BY <2>3, CallbackRaisesKeeps, SameItems, SameHolders, SameAnswers, SameSender
       DEF CallbackRaises, Outputs, answers, sender
  <2>4. CASE ListenerEnds(q)
    BY <2>4, ListenerEndsKeeps, SameItems, SameHolders, SameAnswers, SameSender
       DEF ListenerEnds, Outputs, answers, sender
  <2>5. CASE ListenerDone(q)
    BY <2>5, ListenerDoneKeeps, SameOutputs DEF ListenerDone
  <2> QED BY <1>3, <2>1, <2>2, <2>3, <2>4, <2>5 DEF Listen
<1>4. ASSUME NEW m \in Message, Post(m) PROVE Inputs' /\ Outputs'
  BY <1>4, PostKeeps
<1>5. ASSUME NEW m \in Message, Follow(m) \/ Disconnects(m) PROVE Inputs' /\ Outputs'
  <2>1. UNCHANGED inputs
    BY <1>5 DEF Follow, Opens, NeverOpens, SaveCancelled, LeavesQueue, Reads, Closes, Disconnects
  <2> QED BY <1>5, <2>1, FollowKeeps, SameInputs
<1>6. ASSUME NEW m \in Message, Pipeline(m) PROVE Inputs' /\ Outputs'
  <2>1. CASE Sends(m)
    BY <2>1, SendsKeeps, SameInputs DEF Sends
  <2>2. CASE GoesOn(m)
    BY <2>2, GoesOnKeeps, SameInputs DEF GoesOn
  <2>3. CASE Raises(m)
    BY <2>3, RaisesKeeps, SameInputs DEF Raises
  <2> QED BY <1>6, <2>1, <2>2, <2>3 DEF Pipeline
<1>7. ASSUME NEW m \in Message, Announces(m) \/ Notifies(m) PROVE Inputs' /\ Outputs'
  BY <1>7, AnnouncesKeeps, NotifiesKeeps, SameInputs DEF Announces, Notifies
<1>8. CASE DeleteConversation
  BY <1>8, DeleteConversationKeeps
<1> QED BY <1>1, <1>2, <1>3, <1>4, <1>5, <1>6, <1>7, <1>8 DEF WebNext

LEMMA WebInvariance == WebSpec => []WebInv
  BY WebInitially, WebKept, PTL DEF WebSpec

\* Queues, listeners, streams and back queues keep their types, and no back queue outgrows
\* its size, whoever puts (webchat_queue_mgr.py, webchat_event.py).
THEOREM WebTypeCorrect == WebSpec => []WebTypeOK
<1>1. WebInv => WebTypeOK
  BY DEF WebInv
<1> QED BY <1>1, WebInvariance, PTL

\* While the adapter runs the conversation's queue has a listener, however removals and the
\* late ends of earlier listeners interleave (_start_listener_if_needed, remove_queue).
THEOREM Served == WebSpec => []QueueServed
<1>1. WebInv => QueueServed
  BY DEF WebInv
<1> QED BY <1>1, WebInvariance, PTL

\* A back queue that is registered has a stream that has still to remove it, but for those
\* of a stream that never began, of a stream whose last save was cancelled, and of a put
\* after the stream's end (build_chat_stream, get_or_create_back_queue): these and no other.
THEOREM Released == WebSpec => []BackQueueReleased
<1>1. WebInv => BackQueueReleased
  BY DEF WebInv
<1> QED BY <1>1, WebInvariance, PTL

-------------------------------------------------------------------------------
(***************************************************************************)
(* The composition.                                                        *)
(***************************************************************************)

\* The components share no state: each keeps its invariant whichever of them moves.
ProgressInv == FollowUpsInv /\ McpInv /\ WebInv

LEMMA ProgressInvariance == ProgressSpec => []ProgressInv
<1>1. ProgressInit => ProgressInv
  BY FollowUpsInitially, McpInitially, WebInitially DEF ProgressInit, ProgressInv
<1>2. ProgressInv /\ [ProgressNext]_progressVars => ProgressInv'
  <2> SUFFICES ASSUME ProgressInv, [ProgressNext]_progressVars PROVE ProgressInv'
    OBVIOUS
  <2>1. [Next]_vars /\ [McpNext]_mcpVars /\ [WebNext]_webVars
    BY DEF ProgressNext, FollowUpsStep, ServersStep, ChatStep, progressVars
  <2> QED BY <2>1, FollowUpsKept, McpKept, WebKept DEF ProgressInv
<1> QED BY <1>1, <1>2, PTL DEF ProgressSpec

\* The component that moves keeps its types, and the others theirs.
THEOREM ProgressTypeCorrect == ProgressSpec => []ProgressTypeOK
<1>1. ProgressInv => ProgressTypeOK
  BY DEF ProgressInv, ProgressTypeOK, FollowUpsInv, McpInv, WebInv
<1> QED BY <1>1, ProgressInvariance, PTL

===============================================================================
