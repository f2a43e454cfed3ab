----------------------------- MODULE MCModeration ------------------------------
(* Two instances in one run; side says which, and never changes.  Decisions share
   nothing with the seekers but the round they start, so each is checked with the
   other small.

   Decisions: two vacancies that suit no seeker, three decisions of which two
   overlap.  Notices: one vacancy and one seeker whom it suits and whose limit is
   one notification a day, so that a second approval or a broadcast meets the
   limit; two decisions and one midnight. *)
EXTENDS Moderation

CONSTANTS v1, v2, v3

VARIABLE side

MCVacancy   == {v1, v2, v3}
MCFits      == {v3} \X Seeker
MCReferrals == [s \in Seeker |-> 0]

\* The vacancies, and decisions, that a side is about.
Of(a) == IF a = "decisions" THEN {v1, v2} ELSE {v3}
Most  == IF side = "decisions" THEN 3 ELSE 2

DecideOn(v) ==
  \/ PressReject(v) \/ Close(v)
  \/ \E k \in Slot : PressApprove(v, k)

ReasonGiven == \E k \in Slot : GiveReason(k)
GoesOn      == \E k \in Slot : Decide(k) \/ Notify(k) \/ Respond(k) \/ Reset(k) \/ Break(k)

NoticeOn(v) ==
  \/ \E k \in Slot : StartBroadcast(v, k)
  \/ \E s \in Seeker :
       \/ OpenCard(v, s)
       \/ \E k \in Slot : PressLike(v, s, k) \/ LookUp(s, k)
       \/ \E reaction \in {"dislike", "complaint"} : Answer(v, s, reaction)

\* Bound: on the side of the notices the process restarts only while a round has the
\* seeker in hand; at other times errors end the handlers there just as well.
RestartHere == Restart /\ (side = "notices" => InHandNow # {})

SideInit == Init /\ side \in {"decisions", "notices"}

SideNext ==
  /\ UNCHANGED side
  /\ \/ \E v \in Of(side) : DecideOn(v)
     \/ ReasonGiven
     \/ GoesOn
     \/ side = "notices" /\ NoticeOn(v3)
     \/ side = "notices" /\ (Midnight \/ DailyReset)
     \/ RestartHere
  /\ begun' <= Most

SideSpec == SideInit /\ [][SideNext]_<<side, vars>>
===============================================================================
