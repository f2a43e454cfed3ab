------------------------------- MODULE RateLimit -------------------------------
(***************************************************************************)
(* The rate limit of one session (core/pipeline/rate_limit_check/          *)
(* stage.py): a message passes, waits until the window has moved on, or is *)
(* discarded.  A message's `now` is taken before it has the session's      *)
(* lock, which a waiting message holds while it sleeps.                    *)
(*                                                                         *)
(* The clock counts ticks no shorter than the 0.3 s by which a sleep is    *)
(* prolonged; what can run without waiting runs before the next tick.      *)
(***************************************************************************)
EXTENDS Naturals, Sequences, FiniteSets

CONSTANTS
  Arrivals,  \* bound: messages, numbered as they arrive
  Limit,     \* rate_limit_count, if the limit is on
  Window,    \* rate_limit_time
  MaxClock   \* bound: ticks without a message that sleeps

ASSUME RateAssumption == {Arrivals, Limit, Window, MaxClock} \subseteq Nat \ {0}

Arrival == 1..Arrivals

VARIABLES
  strategy,  \* rl_strategy
  clock,
  stamps,    \* event_timestamps
  lane,      \* the lock: its holder, and those behind it
  rated,     \* what became of each message
  seen,      \* its `now`
  wake,      \* when the holder's sleep ends
  passes     \* history: when each message passed

rateVars == <<strategy, clock, stamps, lane, rated, seen, wake, passes>>

RateTypeOK ==
  /\ strategy \in {"stall", "discard"}
  /\ {clock, wake} \subseteq Nat
  /\ stamps \in Seq(Nat) /\ Len(stamps) <= Limit
  /\ lane \in Seq(Arrival)
  /\ rated \in [Arrival -> {"new", "waits", "sleeps", "passed", "discarded"}]
  /\ {seen, passes} \subseteq [Arrival -> Nat]

RateInit ==
  /\ strategy \in {"stall", "discard"}
  /\ clock = 0
  /\ stamps = <<>>
  /\ lane = <<>>
  /\ rated = [a \in Arrival |-> "new"]
  /\ seen = [a \in Arrival |-> 0]
  /\ wake = 0
  /\ passes = [a \in Arrival |-> 0]

Expired(stamp, now) == stamp + Window < now

\* Mutant: expired stamps are dropped wherever they are.
UnexpiredAnywhere(now) == SelectSeq(stamps, LAMBDA stamp : ~Expired(stamp, now))

\* Stamps are dropped from the oldest entry on, up to the first that is not expired.
Unexpired(now) ==
  LET fresh == { i \in 1..Len(stamps) : ~Expired(stamps[i], now) }
  IN  IF fresh = {} THEN <<>>
      ELSE SubSeq(stamps, CHOOSE i \in fresh : \A j \in fresh : i <= j, Len(stamps))

\* The message a has the lock and tries, with its `now`; t is the lock's line.  If it
\* passes or is discarded it leaves the line.
Try(a, now, t) ==
  LET fresh == Unexpired(now) IN
  /\ seen' = [seen EXCEPT ![a] = now]
  /\ \/ /\ Len(fresh) < Limit
        /\ stamps' = Append(fresh, now)
        /\ rated' = [rated EXCEPT ![a] = "passed"]
        /\ passes' = [passes EXCEPT ![a] = clock]
        /\ lane' = Tail(t)
        /\ UNCHANGED wake
     \/ /\ Len(fresh) >= Limit
        /\ strategy = "stall"
        /\ stamps' = fresh
        /\ rated' = [rated EXCEPT ![a] = "sleeps"]
        /\ wake' = clock + (fresh[1] + Window - now) + 1
        /\ lane' = t
        /\ UNCHANGED passes
     \/ /\ Len(fresh) >= Limit
        /\ strategy = "discard"
        /\ stamps' = fresh
        /\ rated' = [rated EXCEPT ![a] = "discarded"]
        /\ lane' = Tail(t)
        /\ UNCHANGED <<wake, passes>>

\* A message comes: it takes its `now` and tries, or stands in line.
Enter(a) ==
  /\ rated[a] = "new"
  /\ \A b \in 1..(a - 1) : rated[b] # "new"
  /\ IF lane = <<>>
     THEN Try(a, clock, <<a>>)
     ELSE /\ lane' = Append(lane, a)
          /\ rated' = [rated EXCEPT ![a] = "waits"]
          /\ seen' = [seen EXCEPT ![a] = clock]
          /\ UNCHANGED <<stamps, wake, passes>>
  /\ UNCHANGED <<strategy, clock>>

\* The lock is its own at last: it tries with the `now` of its arrival.
GetsLock(a) ==
  /\ rated[a] = "waits" /\ Head(lane) = a
  /\ Try(a, seen[a], lane)
  /\ UNCHANGED <<strategy, clock>>

\* Its sleep is over: it takes a new `now` and tries again.
Wakes(a) ==
  /\ rated[a] = "sleeps" /\ clock >= wake
  /\ Try(a, clock, lane)
  /\ UNCHANGED <<strategy, clock>>

CanRun(a) == \/ rated[a] = "waits" /\ Head(lane) = a
             \/ rated[a] = "sleeps" /\ clock >= wake

RateTick ==
  /\ \A a \in Arrival : ~CanRun(a)
  /\ clock < MaxClock \/ \E a \in Arrival : rated[a] = "sleeps"
  /\ clock' = clock + 1
  /\ UNCHANGED <<strategy, stamps, lane, rated, seen, wake, passes>>

RateNext == RateTick \/ \E a \in Arrival : Enter(a) \/ GetsLock(a) \/ Wakes(a)

RateSpec == RateInit /\ [][RateNext]_rateVars

-------------------------------------------------------------------------------
(* Properties.                                                             *)

\* No more than Limit messages pass within any Window, although those that stood in
\* line behind a sleeping message are stamped with the time at which they arrived:
\* such a stamp is early, out of order, and looked at only behind a right one.
WithinRate ==
  \A a \in Arrival : rated[a] = "passed" =>
    Cardinality({ b \in Arrival : rated[b] = "passed"
                                    /\ passes[b] \in passes[a]..(passes[a] + Window) }) <= Limit
===============================================================================
