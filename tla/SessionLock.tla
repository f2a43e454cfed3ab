------------------------------ MODULE SessionLock ------------------------------
(***************************************************************************)
(* The per-session lock of the orchestrator's agent pipeline               *)
(* (astrbot/core/utils/session_lock.py): a dictionary of asyncio locks,    *)
(* created on first use and popped when a reference count falls to zero.   *)
(*                                                                         *)
(* All tasks run on one event loop, so a step is what a task does between  *)
(* two suspensions.  _access_lock is never held across a suspension, hence *)
(* never contended and never a suspension itself: it has no variable.      *)
(* Lock objects have an identity, because a task may keep a lock that the  *)
(* dictionary no longer holds.                                             *)
(***************************************************************************)
EXTENDS Naturals, Sequences, FiniteSets, SequencesExt

CONSTANTS
  Task,      \* the asyncio tasks that execute the pipeline
  Session,   \* unified message origins
  Lock,      \* identities of asyncio.Lock objects
  NoLock     \* "no lock object"

ASSUME SessionLockAssumption ==
  /\ IsFiniteSet(Task)
  /\ NoLock \notin Lock

VARIABLES
  locks,     \* _locks: the lock object of each session that has one
  count,     \* _lock_count: users of each session's lock
  locked,    \* asyncio.Lock._locked of each object
  waiters,   \* asyncio.Lock._waiters of each object, oldest first
  fut,       \* what became of the future a queued task awaits
  ref,       \* the lock object a task entered `async with lock` for
  sess       \* the session a task entered for

vars == <<locks, count, locked, waiters, fut, ref, sess>>

FutState == {"none", "pending", "woken", "cancelled", "interrupted"}

TypeOK ==
  /\ locks \in [Session -> Lock \cup {NoLock}]
  /\ count \in [Session -> Nat]
  /\ locked \in [Lock -> BOOLEAN]
  /\ waiters \in [Lock -> Seq(Task)]
  /\ fut \in [Task -> FutState]
  /\ ref \in [Task -> Lock \cup {NoLock}]
  /\ sess \in [Task -> Session]

Waiting(t) == fut[t] # "none"
Holding(t) == ref[t] # NoLock /\ fut[t] = "none"
Users(s)   == { t \in Task : ref[t] # NoLock /\ sess[t] = s }

Init ==
  /\ locks = [s \in Session |-> NoLock]
  /\ count = [s \in Session |-> 0]
  /\ locked = [l \in Lock |-> FALSE]
  /\ waiters = [l \in Lock |-> <<>>]
  /\ fut = [t \in Task |-> "none"]
  /\ ref = [t \in Task |-> NoLock]
  /\ sess \in [Task -> Session]

-------------------------------------------------------------------------------
(* asyncio.Lock.                                                           *)

\* No object of the dictionary or of a task: a new asyncio.Lock() may have it.
Unused(l) == /\ \A s \in Session : locks[s] # l
             /\ \A t \in Task : ref[t] # l

\* Mutant: nobody is woken.
WakeNobody(q, f) == f

\* release() and a cancelled acquire() wake the first waiter, if it still sleeps.
WakeFirst(q, f) ==
  IF q # <<>> /\ f[Head(q)] = "pending" THEN [f EXCEPT ![Head(q)] = "woken"] ELSE f

\* self._waiters.remove(fut)
WithoutWaiter(q, t) == RemoveAt(q, CHOOSE i \in 1..Len(q) : q[i] = t)

\* Mutant: a newcomer overtakes a waiter that has been woken but did not run.
FreeToBarge(l) == ~ locked[l]

\* acquire() takes the lock at once: unlocked, and every waiter has been cancelled.
FreeToTake(l) == /\ ~ locked[l]
                 /\ \A i \in 1..Len(waiters[l]) : fut[waiters[l][i]] = "cancelled"

-------------------------------------------------------------------------------
(* _PerLoopSessionLockManager.acquire_lock.                                *)

\* `lock = self._locks[session_id]; self._lock_count[session_id] += 1`
Register(t, s, l) ==
  /\ ref[t] = NoLock
  /\ locks' = [locks EXCEPT ![s] = l]
  /\ count' = [count EXCEPT ![s] = @ + 1]
  /\ ref' = [ref EXCEPT ![t] = l]
  /\ sess' = [sess EXCEPT ![t] = s]

\* Mutant: every user pops the lock.
UnregisterPopping(t) ==
  /\ count' = [count EXCEPT ![sess[t]] = @ - 1]
  /\ locks' = [locks EXCEPT ![sess[t]] = NoLock]
  /\ ref' = [ref EXCEPT ![t] = NoLock]
  /\ UNCHANGED sess

\* Mutant: the count is compared before it is decremented.
UnregisterKeeping(t) ==
  /\ count' = [count EXCEPT ![sess[t]] = @ - 1]
  /\ locks' = [locks EXCEPT ![sess[t]] = IF count[sess[t]] = 0 THEN NoLock ELSE @]
  /\ ref' = [ref EXCEPT ![t] = NoLock]
  /\ UNCHANGED sess

\* Mutant: a cancelled user is counted out twice, in its except and its finally.
UnregisterTwice(t) ==
  /\ count' = [count EXCEPT ![sess[t]] = IF fut[t] = "interrupted" THEN @ - 2 ELSE @ - 1]
  /\ locks' = [locks EXCEPT ![sess[t]] = IF count[sess[t]] = 1 THEN NoLock ELSE @]
  /\ ref' = [ref EXCEPT ![t] = NoLock]
  /\ UNCHANGED sess

\* The finally block: the last user of the session pops its lock.
Unregister(t) ==
  LET s == sess[t] IN
  /\ count' = [count EXCEPT ![s] = @ - 1]
  /\ locks' = [locks EXCEPT ![s] = IF count[s] = 1 THEN NoLock ELSE @]
  /\ ref' = [ref EXCEPT ![t] = NoLock]
  /\ UNCHANGED sess

\* The session has no lock object: defaultdict makes one and the task takes it.
EnterNew(t, s) ==
  /\ locks[s] = NoLock
  /\ \E l \in Lock :
       /\ Unused(l)
       /\ Register(t, s, l)
       /\ locked' = [locked EXCEPT ![l] = TRUE]
       /\ waiters' = [waiters EXCEPT ![l] = <<>>]
  /\ UNCHANGED fut

\* The session's lock is free: acquire() returns without suspending.
EnterFree(t, s) ==
  LET l == locks[s] IN
  /\ l # NoLock /\ FreeToTake(l)
  /\ Register(t, s, l)
  /\ locked' = [locked EXCEPT ![l] = TRUE]
  /\ UNCHANGED <<waiters, fut>>

\* The session's lock is taken or promised: the task queues and suspends.
EnterQueue(t, s) ==
  LET l == locks[s] IN
  /\ l # NoLock /\ ~ FreeToTake(l)
  /\ Register(t, s, l)
  /\ waiters' = [waiters EXCEPT ![l] = Append(@, t)]
  /\ fut' = [fut EXCEPT ![t] = "pending"]
  /\ UNCHANGED locked

\* A woken task runs again: it leaves the queue and holds the lock.
Resume(t) ==
  /\ fut[t] = "woken"
  /\ waiters' = [waiters EXCEPT ![ref[t]] = WithoutWaiter(@, t)]
  /\ locked' = [locked EXCEPT ![ref[t]] = TRUE]
  /\ fut' = [fut EXCEPT ![t] = "none"]
  /\ UNCHANGED <<locks, count, ref, sess>>

\* The body of `async with` ends, normally or by an exception.
Exit(t) ==
  /\ Holding(t)
  /\ locked' = [locked EXCEPT ![ref[t]] = FALSE]
  /\ fut' = WakeFirst(waiters[ref[t]], fut)
  /\ Unregister(t)
  /\ UNCHANGED waiters

\* task.cancel() on a waiting task: a sleeping future is cancelled, a woken one
\* stays done and the CancelledError is raised when the task runs.
Cancel(t) ==
  /\ fut[t] \in {"pending", "woken"}
  /\ fut' = [fut EXCEPT ![t] = IF @ = "pending" THEN "cancelled" ELSE "interrupted"]
  /\ UNCHANGED <<locks, count, locked, waiters, ref, sess>>

\* Mutant: a cancelled task keeps the wake-up it was given.
UnwindKeepingWakeup(t) ==
  /\ fut[t] \in {"cancelled", "interrupted"}
  /\ waiters' = [waiters EXCEPT ![ref[t]] = WithoutWaiter(@, t)]
  /\ fut' = [fut EXCEPT ![t] = "none"]
  /\ Unregister(t)
  /\ UNCHANGED locked

\* A cancelled task runs: it leaves the queue, hands on the wake-up if nobody
\* holds the lock, and its finally block gives up its reference.
Unwind(t) ==
  LET l == ref[t]
      q == WithoutWaiter(waiters[l], t)
      f == [fut EXCEPT ![t] = "none"] IN
  /\ fut[t] \in {"cancelled", "interrupted"}
  /\ waiters' = [waiters EXCEPT ![l] = q]
  /\ fut' = IF locked[l] THEN f ELSE WakeFirst(q, f)
  /\ Unregister(t)
  /\ UNCHANGED locked

Step(t) == Resume(t) \/ Exit(t) \/ Unwind(t)

Next == \E t \in Task :
          \/ \E s \in Session : EnterNew(t, s) \/ EnterFree(t, s) \/ EnterQueue(t, s)
          \/ Resume(t)
          \/ Exit(t)
          \/ Cancel(t)
          \/ Unwind(t)

Spec == Init /\ [][Next]_vars

\* The event loop runs every task that is ready, and a pipeline turn ends.
FairSpec == Spec /\ \A t \in Task : WF_vars(Step(t))

-------------------------------------------------------------------------------
(* Properties.                                                             *)

\* Two turns of one session never run at once (internal.py holds the lock from
\* building the agent to saving its history), although lock objects come and go.
MutualExclusion ==
  \A t, u \in Task : Holding(t) /\ Holding(u) /\ sess[t] = sess[u] => t = u

\* The dictionary keeps a session's lock exactly while some task uses it: it
\* neither grows for ever nor drops a lock that a queued task still refers to.
DictionaryExact ==
  /\ \A t \in Task : ref[t] # NoLock => locks[sess[t]] = ref[t]
  /\ \A s \in Session : locks[s] # NoLock => Users(s) # {}

\* A wake-up is never lost: when nobody holds a lock that has waiters, the first
\* of them has been woken or cancelled and will pass the lock on when it runs.
WakeupNotLost ==
  \A l \in Lock :
    ~ locked[l] /\ waiters[l] # <<>> => fut[Head(waiters[l])] # "pending"

\* A queued task gets its turn (or unwinds its cancellation) in the end.
EveryWaiterMoves == \A t \in Task : Waiting(t) ~> ~ Waiting(t)

\* The members of S that stand in a queue, in its order.
Within(q, S) ==
  LET first[n \in 0..Len(q)] ==   \* of the first n
        IF n = 0 THEN <<>>
        ELSE IF q[n] \in S THEN Append(first[n - 1], q[n]) ELSE first[n - 1]
  IN  first[Len(q)]

\* The line of session s: the holder, then the queue without the tasks that
\* have been cancelled but did not run yet.
Staying    == { t \in Task : fut[t] \in {"pending", "woken"} }
Holders(s) == { t \in Users(s) : Holding(t) }
LineOf(s)  == SetToSeq(Holders(s))
                \o (IF locks[s] = NoLock THEN <<>> ELSE Within(waiters[locks[s]], Staying))

Turns == INSTANCE SessionTurns
           WITH line <- [s \in Session |-> LineOf(s)],
                inside <- { t \in Task : Holding(t) }

\* The reference-counted locks give every session its turns one at a time and in
\* order of arrival, whatever is cancelled on the way.
TurnsInOrder == Turns!Spec
===============================================================================
