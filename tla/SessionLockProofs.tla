--------------------------- MODULE SessionLockProofs ---------------------------
(***************************************************************************)
(* Mutual exclusion of the session lock, and that it gives every session   *)
(* its turns in order of arrival (SessionTurns), for any number of tasks,  *)
(* sessions and lock objects.                                              *)
(***************************************************************************)
EXTENDS SessionLock, QueueLemmas, FiniteSetTheorems

\* A task leaves the queue of a lock.
LEMMA WithoutWaiterProps ==
  ASSUME NEW q \in Seq(Task), NEW t \in Task, InQueue(q, t), NoRepeat(q)
  PROVE  LET r == WithoutWaiter(q, t) IN
         /\ r \in Seq(Task)
         /\ NoRepeat(r)
         /\ ~ InQueue(r, t)
         /\ \A u \in Task : u # t => (InQueue(q, u) <=> InQueue(r, u))
         /\ q[1] # t => r # <<>> /\ r[1] = q[1]
  BY RemovalProps DEF WithoutWaiter

\* Waking the first waiter changes at most the future of the first, from
\* pending to woken, and afterwards the first is not pending.
LEMMA WakeFirstProps ==
  ASSUME NEW q \in Seq(Task), NEW f \in [Task -> FutState]
  PROVE  LET g == WakeFirst(q, f) IN
         /\ g \in [Task -> FutState]
         /\ \A u \in Task : \/ g[u] = f[u]
                            \/ /\ f[u] = "pending" /\ g[u] = "woken"
                               /\ q # <<>> /\ q[1] = u
         /\ q # <<>> => g[q[1]] # "pending"
  BY DEF WakeFirst, FutState
-------------------------------------------------------------------------------
(* The inductive invariant.                                                *)

\* A task outside the lock awaits nothing; the others use the lock object that
\* the dictionary holds for their session, and no two sessions share an object.
RefInv ==
  /\ \A t \in Task : ref[t] = NoLock => fut[t] = "none"
  /\ \A t \in Task : ref[t] # NoLock => locks[sess[t]] = ref[t]
  /\ \A r, s \in Session : locks[r] = locks[s] /\ locks[r] # NoLock => r = s

\* The reference count of a session is the number of its users.
CountInv ==
  \A s \in Session : /\ count[s] = Cardinality(Users(s))
                     /\ locks[s] = NoLock <=> Users(s) = {}

\* The queue of an object lists the tasks that wait for it, each once.
QueueInv ==
  \A l \in Lock :
    /\ NoRepeat(waiters[l])
    /\ \A t \in Task : InQueue(waiters[l], t) <=> ref[t] = l /\ Waiting(t)

\* One holder per object; a task that has been woken is the first in the queue of
\* an unlocked object.
HolderInv ==
  /\ \A t \in Task : Holding(t) => locked[ref[t]]
  /\ \A t, u \in Task : Holding(t) /\ Holding(u) /\ ref[t] = ref[u] => t = u
  /\ \A t \in Task : fut[t] \in {"woken", "interrupted"}
                       => ~ locked[ref[t]] /\ waiters[ref[t]][1] = t

IInv == TypeOK /\ RefInv /\ CountInv /\ QueueInv /\ HolderInv /\ WakeupNotLost

LEMMA UsersFinite == \A s \in Session : IsFiniteSet(Users(s))
  BY SessionLockAssumption, FS_Subset DEF Users

LEMMA InitIInv == Init => IInv
<1> SUFFICES ASSUME Init PROVE IInv
  OBVIOUS
<1>1. TypeOK
  BY DEF Init, TypeOK, FutState
<1>2. \A s \in Session : Users(s) = {}
  BY DEF Init, Users
<1>3. CountInv
  BY <1>2, FS_EmptySet DEF Init, CountInv
<1>4. RefInv /\ QueueInv /\ HolderInv /\ WakeupNotLost
  BY SessionLockAssumption
  DEF Init, RefInv, QueueInv, HolderInv, WakeupNotLost, Holding, Waiting,
      NoRepeat, InQueue
<1> QED BY <1>1, <1>3, <1>4 DEF IInv

\* Entering adds the task to the users of its session and of no other.
LEMMA RegisterKeeps ==
  ASSUME IInv, NEW t \in Task, NEW s \in Session, NEW l \in Lock,
         Register(t, s, l), locks[s] = l \/ (locks[s] = NoLock /\ Unused(l))
  PROVE  /\ CountInv'
         /\ locks' \in [Session -> Lock \cup {NoLock}]
         /\ count' \in [Session -> Nat]
         /\ ref' \in [Task -> Lock \cup {NoLock}]
         /\ sess' \in [Task -> Session]
         /\ \A u \in Task : ref'[u] # NoLock => locks'[sess'[u]] = ref'[u]
         /\ \A p, q \in Session : locks'[p] = locks'[q] /\ locks'[p] # NoLock => p = q
         /\ ref'[t] = l /\ ref[t] = NoLock
         /\ \A u \in Task : u # t => ref'[u] = ref[u]
<1> USE SessionLockAssumption
<1>1. /\ ref[t] = NoLock /\ l # NoLock
      /\ locks' = [locks EXCEPT ![s] = l]
      /\ count' = [count EXCEPT ![s] = @ + 1]
      /\ ref' = [ref EXCEPT ![t] = l]
      /\ sess' = [sess EXCEPT ![t] = s]
  BY DEF Register
<1>2. TypeOK /\ RefInv /\ CountInv
  BY DEF IInv
<1>3. /\ locks' \in [Session -> Lock \cup {NoLock}]
      /\ count' \in [Session -> Nat]
      /\ ref' \in [Task -> Lock \cup {NoLock}]
      /\ sess' \in [Task -> Session]
  BY <1>1, <1>2 DEF TypeOK
<1>4. Users(s)' = Users(s) \cup {t} /\ t \notin Users(s)
  BY <1>1, <1>2 DEF TypeOK, Users
<1>5. \A p \in Session : p # s => Users(p)' = Users(p)
  BY <1>1, <1>2 DEF TypeOK, Users
<1>6. CountInv'
  <2> SUFFICES ASSUME NEW p \in Session
               PROVE  /\ count'[p] = Cardinality(Users(p)')
                      /\ locks'[p] = NoLock <=> Users(p)' = {}
    BY DEF CountInv
  <2>1. CASE p = s
    <3>1. Cardinality(Users(s) \cup {t}) = Cardinality(Users(s)) + 1
      BY <1>4, UsersFinite, FS_AddElement
    <3> QED BY <3>1, <2>1, <1>1, <1>2, <1>4 DEF CountInv, TypeOK
  <2>2. CASE p # s
    BY <2>2, <1>1, <1>2, <1>5 DEF CountInv, TypeOK
  <2> QED BY <2>1, <2>2
<1>7. \A u \in Task : ref'[u] # NoLock => locks'[sess'[u]] = ref'[u]
  <2> SUFFICES ASSUME NEW u \in Task, ref'[u] # NoLock
               PROVE  locks'[sess'[u]] = ref'[u]
    OBVIOUS
  <2>1. CASE u = t
    BY <2>1, <1>1, <1>2 DEF TypeOK
  <2>2. CASE u # t
    <3>1. ref'[u] = ref[u] /\ sess'[u] = sess[u] /\ locks[sess[u]] = ref[u]
          /\ sess[u] \in Session
      BY <2>2, <1>1, <1>2 DEF TypeOK, RefInv
    <3>2. sess[u] = s => locks[s] = l
      BY <3>1, <1>2 DEF RefInv
    <3> QED BY <3>1, <3>2, <1>1, <1>2 DEF TypeOK
  <2> QED BY <2>1, <2>2
<1>8. \A p, q \in Session : locks'[p] = locks'[q] /\ locks'[p] # NoLock => p = q
  BY <1>1, <1>2 DEF TypeOK, RefInv, Unused
<1> QED BY <1>1, <1>2, <1>3, <1>6, <1>7, <1>8 DEF TypeOK

\* Leaving removes the task from the users of its session; the lock is popped
\* exactly when it was the last of them.
LEMMA UnregisterKeeps ==
  ASSUME IInv, NEW t \in Task, ref[t] # NoLock, Unregister(t)
  PROVE  /\ CountInv'
         /\ locks' \in [Session -> Lock \cup {NoLock}]
         /\ count' \in [Session -> Nat]
         /\ ref' \in [Task -> Lock \cup {NoLock}]
         /\ sess' = sess
         /\ \A u \in Task : ref'[u] # NoLock => locks'[sess'[u]] = ref'[u]
         /\ \A p, q \in Session : locks'[p] = locks'[q] /\ locks'[p] # NoLock => p = q
         /\ ref'[t] = NoLock
         /\ \A u \in Task : u # t => ref'[u] = ref[u]
<1> USE SessionLockAssumption
<1>0. PICK s \in Session : s = sess[t]
  BY DEF IInv, TypeOK
<1>1. /\ count' = [count EXCEPT ![s] = @ - 1]
      /\ locks' = [locks EXCEPT ![s] = IF count[s] = 1 THEN NoLock ELSE @]
      /\ ref' = [ref EXCEPT ![t] = NoLock]
      /\ sess' = sess
  BY <1>0 DEF Unregister
<1>2. TypeOK /\ RefInv /\ CountInv
  BY DEF IInv
<1>3. s \in Session /\ t \in Users(s)
  BY <1>0 DEF Users
<1>4. Users(s)' = Users(s) \ {t}
  BY <1>0, <1>1, <1>2 DEF TypeOK, Users
<1>5. \A p \in Session : p # s => Users(p)' = Users(p)
  BY <1>0, <1>1, <1>2 DEF TypeOK, Users
<1>6. /\ Cardinality(Users(s) \ {t}) = Cardinality(Users(s)) - 1
      /\ Cardinality(Users(s)) = 1 <=> Users(s) \ {t} = {}
  <2>1. Cardinality(Users(s) \ {t}) = Cardinality(Users(s)) - 1
        /\ IsFiniteSet(Users(s) \ {t})
    BY <1>3, UsersFinite, FS_RemoveElement
  <2>2. Cardinality(Users(s) \ {t}) = 0 <=> Users(s) \ {t} = {}
    BY <2>1, FS_EmptySet
  <2>3. Cardinality(Users(s)) \in Nat
    BY <1>3, UsersFinite, FS_CardinalityType
  <2> QED BY <2>1, <2>2, <2>3
<1>7. count[s] = Cardinality(Users(s)) /\ count[s] \in Nat /\ locks[s] # NoLock
      /\ count[s] >= 1
  <2>1. count[s] = Cardinality(Users(s)) /\ count[s] \in Nat /\ locks[s] # NoLock
    BY <1>2, <1>3 DEF CountInv, TypeOK
  <2>2. Cardinality(Users(s)) # 0
    BY <1>3, UsersFinite, FS_EmptySet
  <2> QED BY <2>1, <2>2
<1>8. /\ locks' \in [Session -> Lock \cup {NoLock}]
      /\ count' \in [Session -> Nat]
      /\ ref' \in [Task -> Lock \cup {NoLock}]
  BY <1>1, <1>2, <1>3, <1>7 DEF TypeOK
<1>9. CountInv'
  <2> SUFFICES ASSUME NEW p \in Session
               PROVE  /\ count'[p] = Cardinality(Users(p)')
                      /\ locks'[p] = NoLock <=> Users(p)' = {}
    BY DEF CountInv
  <2>1. CASE p = s
    BY <2>1, <1>1, <1>2, <1>3, <1>4, <1>6, <1>7 DEF CountInv, TypeOK
  <2>2. CASE p # s
    BY <2>2, <1>1, <1>2, <1>3, <1>5 DEF CountInv, TypeOK
  <2> QED BY <2>1, <2>2
<1>10. \A u \in Task : ref'[u] # NoLock => locks'[sess'[u]] = ref'[u]
  <2> SUFFICES ASSUME NEW u \in Task, ref'[u] # NoLock
               PROVE  locks'[sess'[u]] = ref'[u]
    OBVIOUS
  <2>1. u # t /\ ref'[u] = ref[u] /\ locks[sess[u]] = ref[u] /\ sess[u] \in Session
    BY <1>1, <1>2 DEF TypeOK, RefInv
  <2>2. CASE sess[u] = s
    <3>1. u \in Users(s) \ {t}
      BY <2>1, <2>2 DEF Users
    <3>2. count[s] # 1
      BY <3>1, <1>6, <1>7
    <3> QED BY <3>2, <2>1, <2>2, <1>1, <1>2 DEF TypeOK
  <2>3. CASE sess[u] # s
    BY <2>3, <2>1, <1>1, <1>2 DEF TypeOK
  <2> QED BY <2>2, <2>3
<1>11. \A p, q \in Session : locks'[p] = locks'[q] /\ locks'[p] # NoLock => p = q
  BY <1>1, <1>2 DEF TypeOK, RefInv
<1> QED BY <1>1, <1>2, <1>8, <1>9, <1>10, <1>11 DEF TypeOK
-------------------------------------------------------------------------------
(* Each action preserves the invariant.                                    *)

LEMMA EnterNewKeeps ==
  ASSUME IInv, NEW t \in Task, NEW s \in Session, EnterNew(t, s)
  PROVE  IInv'
<1> USE SessionLockAssumption
<1>1. PICK l \in Lock :
        /\ Unused(l) /\ Register(t, s, l) /\ locks[s] = NoLock /\ fut' = fut
        /\ locked' = [locked EXCEPT ![l] = TRUE]
        /\ waiters' = [waiters EXCEPT ![l] = <<>>]
  BY DEF EnterNew
<1>2. /\ CountInv'
      /\ locks' \in [Session -> Lock \cup {NoLock}]
      /\ count' \in [Session -> Nat]
      /\ ref' \in [Task -> Lock \cup {NoLock}]
      /\ sess' \in [Task -> Session]
      /\ \A u \in Task : ref'[u] # NoLock => locks'[sess'[u]] = ref'[u]
      /\ \A p, q \in Session : locks'[p] = locks'[q] /\ locks'[p] # NoLock => p = q
      /\ ref'[t] = l /\ ref[t] = NoLock
      /\ \A u \in Task : u # t => ref'[u] = ref[u]
  BY <1>1, RegisterKeeps
<1>3. TypeOK /\ RefInv /\ QueueInv /\ HolderInv /\ WakeupNotLost /\ fut[t] = "none"
  BY <1>2 DEF IInv, RefInv
<1>4. \A u \in Task : ref[u] # l
  BY <1>1 DEF Unused
<1>5. TypeOK'
  BY <1>1, <1>2, <1>3 DEF TypeOK
<1>6. RefInv'
  BY <1>1, <1>2, <1>3 DEF RefInv
<1>7. QueueInv'
  <2> SUFFICES ASSUME NEW k \in Lock
               PROVE  /\ NoRepeat(waiters'[k])
                      /\ \A u \in Task : InQueue(waiters'[k], u)
                                           <=> ref'[u] = k /\ fut'[u] # "none"
    BY DEF QueueInv, Waiting
  <2>1. CASE k = l
    <3>1. waiters'[k] = <<>>
      BY <2>1, <1>1, <1>3 DEF TypeOK
    <3>2. \A u \in Task : ~ (ref'[u] = l /\ fut'[u] # "none")
      BY <1>1, <1>2, <1>3, <1>4
    <3> QED BY <2>1, <3>1, <3>2 DEF NoRepeat, InQueue
  <2>2. CASE k # l
    <3>1. waiters'[k] = waiters[k]
      BY <2>2, <1>1, <1>3 DEF TypeOK
    <3>2. \A u \in Task : ref'[u] = k /\ fut'[u] # "none"
                            <=> ref[u] = k /\ fut[u] # "none"
      BY <2>2, <1>1, <1>2, <1>3
    <3> QED BY <3>1, <3>2, <1>3 DEF QueueInv, Waiting
  <2> QED BY <2>1, <2>2
<1>8. HolderInv'
  <2>1. \A u \in Task : u # t /\ ref[u] # NoLock =>
          /\ ref'[u] = ref[u] /\ ref[u] \in Lock /\ ref[u] # l
          /\ locked'[ref[u]] = locked[ref[u]] /\ waiters'[ref[u]] = waiters[ref[u]]
    BY <1>1, <1>2, <1>3, <1>4 DEF TypeOK
  <2>2. locked'[l] /\ \A u \in Task : u # t => ref'[u] # l
    BY <1>1, <1>2, <1>3, <1>4 DEF TypeOK
  <2>3. \A u \in Task : Holding(u)' /\ u # t => Holding(u) /\ ref'[u] # l /\ ref'[u] = ref[u]
    BY <2>1, <2>2, <1>1, <1>2 DEF Holding
  <2>4. \A u \in Task : Holding(u)' => locked'[ref'[u]]
    BY <2>1, <2>2, <2>3, <1>2, <1>3 DEF HolderInv, Holding
  <2>5. \A u, v \in Task : Holding(u)' /\ Holding(v)' /\ ref'[u] = ref'[v] => u = v
    BY <2>3, <1>2, <1>3 DEF HolderInv
  <2>6. \A u \in Task : fut'[u] \in {"woken", "interrupted"}
          => ~ locked'[ref'[u]] /\ waiters'[ref'[u]][1] = u
    <3> SUFFICES ASSUME NEW u \in Task, fut'[u] \in {"woken", "interrupted"}
                 PROVE  ~ locked'[ref'[u]] /\ waiters'[ref'[u]][1] = u
      OBVIOUS
    <3>1. fut[u] \in {"woken", "interrupted"} /\ u # t /\ ref[u] # NoLock
      BY <1>1, <1>3 DEF RefInv
    <3> QED BY <3>1, <2>1, <1>3 DEF HolderInv
  <2> QED BY <2>4, <2>5, <2>6 DEF HolderInv
<1>9. WakeupNotLost'
  BY <1>1, <1>3 DEF WakeupNotLost, TypeOK
<1> QED BY <1>2, <1>5, <1>6, <1>7, <1>8, <1>9 DEF IInv

LEMMA EnterFreeKeeps ==
  ASSUME IInv, NEW t \in Task, NEW s \in Session, EnterFree(t, s)
  PROVE  IInv'
<1> USE SessionLockAssumption
<1>1. PICK l \in Lock :
        /\ l = locks[s] /\ FreeToTake(l) /\ Register(t, s, l)
        /\ locked' = [locked EXCEPT ![l] = TRUE]
        /\ waiters' = waiters /\ fut' = fut
  BY DEF EnterFree, IInv, TypeOK
<1>2. /\ CountInv'
      /\ locks' \in [Session -> Lock \cup {NoLock}]
      /\ count' \in [Session -> Nat]
      /\ ref' \in [Task -> Lock \cup {NoLock}]
      /\ sess' \in [Task -> Session]
      /\ \A u \in Task : ref'[u] # NoLock => locks'[sess'[u]] = ref'[u]
      /\ \A p, q \in Session : locks'[p] = locks'[q] /\ locks'[p] # NoLock => p = q
      /\ ref'[t] = l /\ ref[t] = NoLock
      /\ \A u \in Task : u # t => ref'[u] = ref[u]
  BY <1>1, RegisterKeeps
<1>3. TypeOK /\ RefInv /\ QueueInv /\ HolderInv /\ WakeupNotLost /\ fut[t] = "none"
  BY <1>2 DEF IInv, RefInv
<1>4. ~ locked[l] /\ \A u \in Task : ref[u] = l /\ fut[u] # "none" => fut[u] = "cancelled"
  BY <1>1, <1>3 DEF FreeToTake, QueueInv, InQueue, Waiting
<1>5. TypeOK'
  BY <1>1, <1>2, <1>3 DEF TypeOK
<1>6. RefInv'
  BY <1>1, <1>2, <1>3 DEF RefInv
<1>7. QueueInv'
  BY <1>1, <1>2, <1>3 DEF QueueInv, Waiting
<1>8. HolderInv'
  <2>1. \A u \in Task : ref[u] = l => ~ Holding(u)
    BY <1>3, <1>4 DEF HolderInv
  <2>2. \A u \in Task : u # t /\ ref[u] # NoLock =>
          /\ ref'[u] = ref[u] /\ ref[u] \in Lock
          /\ ref[u] # l => locked'[ref[u]] = locked[ref[u]]
    BY <1>1, <1>2, <1>3 DEF TypeOK
  <2>3. locked'[l] /\ \A u \in Task : Holding(u)' /\ u # t => Holding(u) /\ ref[u] # l
    BY <2>1, <1>1, <1>2, <1>3 DEF TypeOK, Holding
  <2>4. \A u \in Task : Holding(u)' => locked'[ref'[u]]
    BY <2>2, <2>3, <1>2, <1>3 DEF HolderInv, Holding
  <2>5. \A u, v \in Task : Holding(u)' /\ Holding(v)' /\ ref'[u] = ref'[v] => u = v
    BY <2>2, <2>3, <1>2, <1>3 DEF HolderInv, Holding
  <2>6. \A u \in Task : fut'[u] \in {"woken", "interrupted"}
          => ~ locked'[ref'[u]] /\ waiters'[ref'[u]][1] = u
    <3> SUFFICES ASSUME NEW u \in Task, fut'[u] \in {"woken", "interrupted"}
                 PROVE  ~ locked'[ref'[u]] /\ waiters'[ref'[u]][1] = u
      OBVIOUS
    <3>1. fut[u] \in {"woken", "interrupted"} /\ u # t /\ ref[u] # NoLock
      BY <1>1, <1>3 DEF RefInv
    <3>2. ref[u] # l
      BY <3>1, <1>4
    <3> QED BY <3>1, <3>2, <2>2, <1>1, <1>3 DEF HolderInv
  <2> QED BY <2>4, <2>5, <2>6 DEF HolderInv
<1>9. WakeupNotLost'
  BY <1>1, <1>3 DEF WakeupNotLost, TypeOK
<1> QED BY <1>2, <1>5, <1>6, <1>7, <1>8, <1>9 DEF IInv

LEMMA EnterQueueKeeps ==
  ASSUME IInv, NEW t \in Task, NEW s \in Session, EnterQueue(t, s)
  PROVE  IInv'
<1> USE SessionLockAssumption
<1>1. PICK l \in Lock :
        /\ l = locks[s] /\ ~ FreeToTake(l) /\ Register(t, s, l)
        /\ waiters' = [waiters EXCEPT ![l] = Append(@, t)]
        /\ fut' = [fut EXCEPT ![t] = "pending"]
        /\ locked' = locked
  BY DEF EnterQueue, IInv, TypeOK
<1>2. /\ CountInv'
      /\ locks' \in [Session -> Lock \cup {NoLock}]
      /\ count' \in [Session -> Nat]
      /\ ref' \in [Task -> Lock \cup {NoLock}]
      /\ sess' \in [Task -> Session]
      /\ \A u \in Task : ref'[u] # NoLock => locks'[sess'[u]] = ref'[u]
      /\ \A p, q \in Session : locks'[p] = locks'[q] /\ locks'[p] # NoLock => p = q
      /\ ref'[t] = l /\ ref[t] = NoLock
      /\ \A u \in Task : u # t => ref'[u] = ref[u]
  BY <1>1, RegisterKeeps
<1>3. TypeOK /\ RefInv /\ QueueInv /\ HolderInv /\ WakeupNotLost /\ fut[t] = "none"
  BY <1>2 DEF IInv, RefInv
<1> DEFINE q == waiters[l]
           r == Append(q, t)
<1>4. /\ q \in Seq(Task) /\ waiters'[l] = r /\ r \in Seq(Task)
      /\ Len(r) = Len(q) + 1 /\ r[Len(q) + 1] = t
      /\ \A i \in 1..Len(q) : r[i] = q[i]
  BY <1>1, <1>3 DEF TypeOK
<1>5. /\ \A k \in Lock : k # l => waiters'[k] = waiters[k]
      /\ fut'[t] = "pending" /\ \A u \in Task : u # t => fut'[u] = fut[u]
  BY <1>1, <1>3 DEF TypeOK
<1>6. ~ InQueue(q, t)
  BY <1>2, <1>3 DEF QueueInv
<1> HIDE DEF q, r
<1>7. NoRepeat(r)
  <2> SUFFICES ASSUME NEW i \in 1..Len(r), NEW j \in 1..Len(r), r[i] = r[j]
               PROVE  i = j
    BY DEF NoRepeat
  <2>1. NoRepeat(q)
    BY <1>3 DEF QueueInv, q
  <2>2. CASE i \in 1..Len(q) /\ j \in 1..Len(q)
    BY <2>1, <2>2, <1>4 DEF NoRepeat
  <2>3. CASE i = Len(q) + 1 \/ j = Len(q) + 1
    BY <2>3, <1>4, <1>6 DEF InQueue
  <2> QED BY <2>2, <2>3, <1>4
<1>8. \A u \in Task : InQueue(r, u) <=> InQueue(q, u) \/ u = t
  <2> TAKE u \in Task
  <2>1. InQueue(r, u) => InQueue(q, u) \/ u = t
    BY <1>4 DEF InQueue
  <2>2. InQueue(q, u) => InQueue(r, u)
    BY <1>4 DEF InQueue
  <2>3. InQueue(r, t)
    BY <1>4 DEF InQueue
  <2> QED BY <2>1, <2>2, <2>3
<1>9. TypeOK'
  <2>1. waiters' \in [Lock -> Seq(Task)]
    BY <1>1, <1>3, <1>4 DEF TypeOK, q, r
  <2>2. fut' \in [Task -> FutState]
    BY <1>1, <1>3 DEF TypeOK, FutState
  <2> QED BY <2>1, <2>2, <1>1, <1>2, <1>3 DEF TypeOK
<1>10. RefInv'
  BY <1>2, <1>3, <1>5 DEF RefInv
<1>11. QueueInv'
  <2> SUFFICES ASSUME NEW k \in Lock
               PROVE  /\ NoRepeat(waiters'[k])
                      /\ \A u \in Task : InQueue(waiters'[k], u)
                                           <=> ref'[u] = k /\ fut'[u] # "none"
    BY DEF QueueInv, Waiting
  <2>1. CASE k = l
    <3>1. \A u \in Task : InQueue(q, u) <=> ref[u] = l /\ fut[u] # "none"
      BY <1>3 DEF QueueInv, Waiting, q
    <3> QED BY <2>1, <3>1, <1>2, <1>4, <1>5, <1>7, <1>8
  <2>2. CASE k # l
    <3>1. \A u \in Task : InQueue(waiters[k], u) <=> ref[u] = k /\ fut[u] # "none"
      BY <1>3 DEF QueueInv, Waiting
    <3>2. NoRepeat(waiters[k])
      BY <1>3 DEF QueueInv
    <3> QED BY <2>2, <3>1, <3>2, <1>2, <1>5
  <2> QED BY <2>1, <2>2
<1>12. q # <<>> => r[1] = q[1] /\ r # <<>>
  BY <1>4
<1>13. ASSUME NEW u \in Task, fut[u] \in {"woken", "interrupted"}, ref[u] = l
       PROVE  q # <<>>
  <2>1. InQueue(q, u)
    BY <1>13, <1>3 DEF QueueInv, Waiting, q
  <2> QED BY <2>1, <1>4 DEF InQueue
<1>14. HolderInv'
  <2>1. \A u \in Task : Holding(u)' => Holding(u) /\ ref'[u] = ref[u] /\ u # t
    BY <1>2, <1>5 DEF Holding
  <2>2. \A u \in Task : Holding(u)' => locked'[ref'[u]]
    BY <2>1, <1>1, <1>3 DEF HolderInv
  <2>3. \A u, v \in Task : Holding(u)' /\ Holding(v)' /\ ref'[u] = ref'[v] => u = v
    BY <2>1, <1>3 DEF HolderInv
  <2>4. ASSUME NEW u \in Task, fut'[u] \in {"woken", "interrupted"}
        PROVE  ~ locked'[ref'[u]] /\ waiters'[ref'[u]][1] = u
    <3>1. u # t /\ fut'[u] = fut[u] /\ ref'[u] = ref[u]
      BY <2>4, <1>2, <1>5
    <3>2. ~ locked[ref[u]] /\ waiters[ref[u]][1] = u /\ ref[u] \in Lock
      BY <3>1, <2>4, <1>3 DEF HolderInv, RefInv, TypeOK
    <3>3. CASE ref[u] = l
      BY <3>1, <3>2, <3>3, <2>4, <1>1, <1>4, <1>12, <1>13 DEF q
    <3>4. CASE ref[u] # l
      BY <3>1, <3>2, <3>4, <1>1, <1>5
    <3> QED BY <3>3, <3>4
  <2> QED BY <2>2, <2>3, <2>4 DEF HolderInv
<1>15. WakeupNotLost'
  <2> SUFFICES ASSUME NEW k \in Lock, ~ locked'[k], waiters'[k] # <<>>
               PROVE  fut'[Head(waiters'[k])] # "pending"
    BY DEF WakeupNotLost
  <2>1. CASE k = l
    <3>1. \E i \in 1..Len(q) : fut[q[i]] # "cancelled"
      BY <2>1, <1>1 DEF FreeToTake, q
    <3>2. q # <<>>
      BY <3>1, <1>4
    <3>3. fut[Head(q)] # "pending" /\ Head(q) = q[1]
      BY <3>2, <2>1, <1>1, <1>3 DEF WakeupNotLost, q
    <3>4. Head(r) = q[1] /\ InQueue(q, q[1]) /\ q[1] \in Task
      BY <3>2, <1>4, <1>12 DEF InQueue
    <3> QED BY <3>3, <3>4, <2>1, <1>4, <1>5, <1>6
  <2>2. CASE k # l
    <3>1. fut[Head(waiters[k])] # "pending" /\ waiters[k] # <<>>
      BY <2>2, <1>1, <1>3, <1>5 DEF WakeupNotLost
    <3>2. waiters[k] \in Seq(Task)
      BY <1>3 DEF TypeOK
    <3>3. Head(waiters[k]) \in Task /\ Head(waiters[k]) = waiters[k][1]
          /\ InQueue(waiters[k], Head(waiters[k]))
      BY <3>1, <3>2 DEF InQueue
    <3>4. Head(waiters[k]) # t
      BY <3>3, <1>2, <1>3 DEF QueueInv
    <3> QED BY <3>1, <3>3, <3>4, <2>2, <1>5
  <2> QED BY <2>1, <2>2
<1> QED BY <1>2, <1>9, <1>10, <1>11, <1>14, <1>15 DEF IInv

LEMMA ResumeKeeps ==
  ASSUME IInv, NEW t \in Task, Resume(t)
  PROVE  IInv'
<1> USE SessionLockAssumption
<1>1. TypeOK /\ RefInv /\ CountInv /\ QueueInv /\ HolderInv /\ WakeupNotLost
  BY DEF IInv
<1>2. PICK l \in Lock : l = ref[t]
  BY <1>1 DEF Resume, TypeOK, RefInv
<1> DEFINE q == waiters[l]
           r == WithoutWaiter(q, t)
<1>3. /\ fut[t] = "woken" /\ q \in Seq(Task)
      /\ waiters' = [waiters EXCEPT ![l] = r]
      /\ locked' = [locked EXCEPT ![l] = TRUE]
      /\ fut' = [fut EXCEPT ![t] = "none"]
      /\ locks' = locks /\ count' = count /\ ref' = ref /\ sess' = sess
  BY <1>1, <1>2 DEF Resume, TypeOK
<1>4. InQueue(q, t) /\ NoRepeat(q)
  BY <1>1, <1>2, <1>3 DEF QueueInv, Waiting
<1>5. /\ r \in Seq(Task) /\ NoRepeat(r) /\ ~ InQueue(r, t)
      /\ \A u \in Task : u # t => (InQueue(q, u) <=> InQueue(r, u))
  BY <1>3, <1>4, WithoutWaiterProps
<1> HIDE DEF q, r
<1>6. ~ locked[l] /\ q[1] = t
  BY <1>1, <1>2, <1>3 DEF HolderInv, q
<1>7. TypeOK'
  BY <1>1, <1>3, <1>5 DEF TypeOK, FutState
<1>8. RefInv' /\ CountInv'
  <2>1. \A u \in Task : ref[u] = NoLock => fut'[u] = "none"
    BY <1>1, <1>3 DEF RefInv, TypeOK
  <2>2. RefInv'
    BY <2>1, <1>1, <1>3 DEF RefInv
  <2>3. \A s \in Session : Users(s)' = Users(s)
    BY <1>3 DEF Users
  <2>4. CountInv'
    BY <2>3, <1>1, <1>3 DEF CountInv
  <2> QED BY <2>2, <2>4
<1>9. QueueInv'
  <2> SUFFICES ASSUME NEW k \in Lock
               PROVE  /\ NoRepeat(waiters'[k])
                      /\ \A u \in Task : InQueue(waiters'[k], u)
                                           <=> ref'[u] = k /\ fut'[u] # "none"
    BY DEF QueueInv, Waiting
  <2>1. \A u \in Task : InQueue(waiters[k], u) <=> ref[u] = k /\ fut[u] # "none"
    BY <1>1 DEF QueueInv, Waiting
  <2>2. fut'[t] = "none" /\ \A u \in Task : u # t => fut'[u] = fut[u]
    BY <1>1, <1>3 DEF TypeOK
  <2>3. CASE k = l
    <3>1. waiters'[k] = r
      BY <2>3, <1>1, <1>3 DEF TypeOK
    <3> QED BY <3>1, <2>1, <2>2, <2>3, <1>3, <1>5 DEF q
  <2>4. CASE k # l
    <3>1. waiters'[k] = waiters[k] /\ NoRepeat(waiters[k])
      BY <2>4, <1>1, <1>3 DEF TypeOK, QueueInv
    <3> QED BY <3>1, <2>1, <2>2, <2>4, <1>2, <1>3
  <2> QED BY <2>3, <2>4
<1>10. HolderInv'
  <2>1. \A u \in Task : u # t =>
          /\ Holding(u)' <=> Holding(u)
          /\ Holding(u) => ref[u] # l
          /\ fut[u] \in {"woken", "interrupted"} => ref[u] # l
    BY <1>1, <1>2, <1>3, <1>6 DEF Holding, HolderInv, TypeOK, q
  <2>2. \A k \in Lock : k # l => locked'[k] = locked[k] /\ waiters'[k] = waiters[k]
    BY <1>1, <1>3 DEF TypeOK
  <2>3. locked'[l] /\ fut'[t] = "none" /\ \A u \in Task : u # t => fut'[u] = fut[u]
    BY <1>1, <1>3 DEF TypeOK
  <2>4. \A u \in Task : ref[u] # NoLock => ref[u] \in Lock
    BY <1>1 DEF TypeOK
  <2>5. \A u \in Task : Holding(u)' => locked'[ref'[u]]
    BY <2>1, <2>2, <2>3, <2>4, <1>1, <1>2, <1>3 DEF HolderInv, Holding
  <2>6. \A u, v \in Task : Holding(u)' /\ Holding(v)' /\ ref'[u] = ref'[v] => u = v
    BY <2>1, <1>1, <1>2, <1>3 DEF HolderInv
  <2>7. \A u \in Task : fut'[u] \in {"woken", "interrupted"}
          => ~ locked'[ref'[u]] /\ waiters'[ref'[u]][1] = u
    <3> SUFFICES ASSUME NEW u \in Task, fut'[u] \in {"woken", "interrupted"}
                 PROVE  ~ locked'[ref'[u]] /\ waiters'[ref'[u]][1] = u
      OBVIOUS
    <3>1. u # t /\ fut[u] \in {"woken", "interrupted"} /\ ref[u] # l
      BY <2>1, <2>3
    <3>2. ref[u] \in Lock
      BY <3>1, <2>4, <1>1 DEF RefInv
    <3> QED BY <3>1, <3>2, <2>2, <1>1, <1>3 DEF HolderInv
  <2> QED BY <2>5, <2>6, <2>7 DEF HolderInv
<1>11. WakeupNotLost'
  <2> SUFFICES ASSUME NEW k \in Lock, ~ locked'[k], waiters'[k] # <<>>
               PROVE  fut'[Head(waiters'[k])] # "pending"
    BY DEF WakeupNotLost
  <2>1. k # l /\ ~ locked[k] /\ waiters'[k] = waiters[k]
    BY <1>1, <1>3 DEF TypeOK
  <2> QED BY <2>1, <1>1, <1>3 DEF WakeupNotLost, TypeOK
<1> QED BY <1>7, <1>8, <1>9, <1>10, <1>11 DEF IInv

LEMMA CancelKeeps ==
  ASSUME IInv, NEW t \in Task, Cancel(t)
  PROVE  IInv'
<1>1. TypeOK /\ RefInv /\ CountInv /\ QueueInv /\ HolderInv /\ WakeupNotLost
  BY DEF IInv
<1>2. /\ fut[t] \in {"pending", "woken"}
      /\ fut' = [fut EXCEPT ![t] = IF @ = "pending" THEN "cancelled" ELSE "interrupted"]
      /\ locks' = locks /\ count' = count /\ ref' = ref /\ sess' = sess
      /\ locked' = locked /\ waiters' = waiters
  BY DEF Cancel
<1>3. /\ fut[t] = "pending" => fut'[t] = "cancelled"
      /\ fut[t] = "woken" => fut'[t] = "interrupted"
      /\ \A u \in Task : u # t => fut'[u] = fut[u]
  BY <1>1, <1>2 DEF TypeOK
<1>4. TypeOK'
  BY <1>1, <1>2 DEF TypeOK, FutState
<1>5. RefInv' /\ CountInv'
  BY <1>1, <1>2, <1>3 DEF RefInv, CountInv, Users
<1>6. \A u \in Task : fut'[u] # "none" <=> fut[u] # "none"
  BY <1>2, <1>3
<1>7. QueueInv'
  BY <1>1, <1>2, <1>6 DEF QueueInv, Waiting
<1>8. HolderInv'
  <2>1. \A u \in Task : Holding(u)' <=> Holding(u)
    BY <1>2, <1>6 DEF Holding
  <2>2. \A u \in Task : fut'[u] \in {"woken", "interrupted"}
                          => fut[u] \in {"woken", "interrupted"}
    BY <1>2, <1>3
  <2> QED BY <2>1, <2>2, <1>1, <1>2 DEF HolderInv
<1>9. WakeupNotLost'
  BY <1>1, <1>2, <1>3 DEF WakeupNotLost, TypeOK
<1> QED BY <1>4, <1>5, <1>7, <1>8, <1>9 DEF IInv

LEMMA ExitKeeps ==
  ASSUME IInv, NEW t \in Task, Exit(t)
  PROVE  IInv'
<1> USE SessionLockAssumption
<1>1. TypeOK /\ RefInv /\ CountInv /\ QueueInv /\ HolderInv /\ WakeupNotLost
  BY DEF IInv
<1>2. PICK l \in Lock : l = ref[t]
  BY <1>1 DEF Exit, Holding, TypeOK
<1> DEFINE q == waiters[l]
           g == WakeFirst(q, fut)
<1>3. /\ Holding(t) /\ ref[t] # NoLock /\ fut[t] = "none" /\ Unregister(t)
      /\ locked' = [locked EXCEPT ![l] = FALSE]
      /\ fut' = g /\ waiters' = waiters
      /\ q \in Seq(Task) /\ fut \in [Task -> FutState]
  BY <1>1, <1>2 DEF Exit, Holding, TypeOK
<1>4. /\ CountInv'
      /\ locks' \in [Session -> Lock \cup {NoLock}]
      /\ count' \in [Session -> Nat]
      /\ ref' \in [Task -> Lock \cup {NoLock}]
      /\ sess' = sess
      /\ \A u \in Task : ref'[u] # NoLock => locks'[sess'[u]] = ref'[u]
      /\ \A p, r \in Session : locks'[p] = locks'[r] /\ locks'[p] # NoLock => p = r
      /\ ref'[t] = NoLock
      /\ \A u \in Task : u # t => ref'[u] = ref[u]
  BY <1>3, UnregisterKeeps
<1>5. /\ g \in [Task -> FutState]
      /\ \A u \in Task : \/ g[u] = fut[u]
                         \/ /\ fut[u] = "pending" /\ g[u] = "woken"
                            /\ q # <<>> /\ q[1] = u
      /\ q # <<>> => g[q[1]] # "pending"
  BY <1>3, WakeFirstProps
<1> HIDE DEF g
<1>6. /\ \A u \in Task : fut'[u] # "none" <=> fut[u] # "none"
      /\ fut'[t] = "none"
  BY <1>3, <1>5
<1>7. \A u \in Task : ref[u] = l /\ u # t => ~ Holding(u)
  BY <1>1, <1>2, <1>3 DEF HolderInv
<1>8. \A k \in Lock : locked'[k] = IF k = l THEN FALSE ELSE locked[k]
  BY <1>1, <1>3 DEF TypeOK
<1>9. TypeOK'
  BY <1>1, <1>3, <1>4, <1>5 DEF TypeOK
<1>10. RefInv'
  BY <1>1, <1>4, <1>6 DEF RefInv
<1>11. QueueInv'
  BY <1>1, <1>3, <1>4, <1>6 DEF QueueInv, Waiting
<1>12. \A u \in Task : InQueue(q, u) => ref[u] = l
  BY <1>1 DEF QueueInv
<1>13. HolderInv'
  <2>1. \A u \in Task : Holding(u)' => Holding(u) /\ u # t /\ ref'[u] = ref[u] /\ ref[u] # l
    BY <1>4, <1>6, <1>7 DEF Holding
  <2>2. \A u \in Task : Holding(u)' => locked'[ref'[u]]
    <3>1. \A u \in Task : Holding(u) => ref[u] \in Lock /\ locked[ref[u]]
      BY <1>1 DEF HolderInv, Holding, TypeOK
    <3> QED BY <3>1, <2>1, <1>8
  <2>3. \A u, v \in Task : Holding(u)' /\ Holding(v)' /\ ref'[u] = ref'[v] => u = v
    BY <2>1, <1>1 DEF HolderInv
  <2>4. \A u \in Task : fut'[u] \in {"woken", "interrupted"}
          => ~ locked'[ref'[u]] /\ waiters'[ref'[u]][1] = u
    <3> SUFFICES ASSUME NEW u \in Task, fut'[u] \in {"woken", "interrupted"}
                 PROVE  ~ locked'[ref'[u]] /\ waiters'[ref'[u]][1] = u
      OBVIOUS
    <3>1. u # t /\ ref'[u] = ref[u] /\ ref[u] \in Lock
      BY <1>1, <1>4, <1>6 DEF RefInv, TypeOK
    <3>2. CASE fut[u] \in {"woken", "interrupted"}
      BY <3>1, <3>2, <1>1, <1>3, <1>8 DEF HolderInv
    <3>3. CASE q # <<>> /\ q[1] = u
      <4>1. InQueue(q, u)
        BY <3>3, <1>3 DEF InQueue
      <4> QED BY <4>1, <3>1, <3>3, <1>3, <1>8, <1>12
    <3> QED BY <3>2, <3>3, <1>3, <1>5
  <2> QED BY <2>2, <2>3, <2>4 DEF HolderInv
<1>14. WakeupNotLost'
  <2> SUFFICES ASSUME NEW k \in Lock, ~ locked'[k], waiters'[k] # <<>>
               PROVE  fut'[Head(waiters'[k])] # "pending"
    BY DEF WakeupNotLost
  <2>1. CASE k = l
    BY <2>1, <1>3, <1>5
  <2>2. CASE k # l
    <3>1. waiters[k] \in Seq(Task) /\ waiters[k] # <<>> /\ ~ locked[k]
      BY <2>2, <1>1, <1>3, <1>8 DEF TypeOK
    <3>2. fut[Head(waiters[k])] # "pending" /\ Head(waiters[k]) \in Task
      BY <3>1, <1>1 DEF WakeupNotLost
    <3> QED BY <3>2, <1>3, <1>5
  <2> QED BY <2>1, <2>2
<1> QED BY <1>4, <1>9, <1>10, <1>11, <1>13, <1>14 DEF IInv

LEMMA UnwindKeeps ==
  ASSUME IInv, NEW t \in Task, Unwind(t)
  PROVE  IInv'
<1> USE SessionLockAssumption
<1>1. TypeOK /\ RefInv /\ CountInv /\ QueueInv /\ HolderInv /\ WakeupNotLost
  BY DEF IInv
<1>2. fut[t] \in {"cancelled", "interrupted"} /\ ref[t] # NoLock
  BY <1>1 DEF Unwind, RefInv
<1>3. PICK l \in Lock : l = ref[t]
  BY <1>1, <1>2 DEF TypeOK
<1> DEFINE p == waiters[l]
           q == WithoutWaiter(p, t)
           f == [fut EXCEPT ![t] = "none"]
           g == IF locked[l] THEN f ELSE WakeFirst(q, f)
<1>4. /\ Unregister(t) /\ locked' = locked
      /\ waiters' = [waiters EXCEPT ![l] = q] /\ fut' = g
      /\ p \in Seq(Task)
  BY <1>1, <1>3 DEF Unwind, TypeOK
<1>5. /\ CountInv'
      /\ locks' \in [Session -> Lock \cup {NoLock}]
      /\ count' \in [Session -> Nat]
      /\ ref' \in [Task -> Lock \cup {NoLock}]
      /\ sess' = sess
      /\ \A u \in Task : ref'[u] # NoLock => locks'[sess'[u]] = ref'[u]
      /\ \A a, b \in Session : locks'[a] = locks'[b] /\ locks'[a] # NoLock => a = b
      /\ ref'[t] = NoLock
      /\ \A u \in Task : u # t => ref'[u] = ref[u]
  BY <1>2, <1>4, UnregisterKeeps
<1>6. InQueue(p, t) /\ NoRepeat(p)
  BY <1>1, <1>2, <1>3 DEF QueueInv, Waiting
<1>7. /\ q \in Seq(Task) /\ NoRepeat(q) /\ ~ InQueue(q, t)
      /\ \A u \in Task : u # t => (InQueue(p, u) <=> InQueue(q, u))
      /\ p[1] # t => q # <<>> /\ q[1] = p[1]
  BY <1>4, <1>6, WithoutWaiterProps
<1>8. \A u \in Task : InQueue(p, u) <=> ref[u] = l /\ fut[u] # "none"
  BY <1>1 DEF QueueInv, Waiting
<1> HIDE DEF p, q
<1>9. f \in [Task -> FutState] /\ f[t] = "none" /\ \A u \in Task : u # t => f[u] = fut[u]
  BY <1>1 DEF TypeOK, FutState
<1>10. LET h == WakeFirst(q, f) IN
         /\ h \in [Task -> FutState]
         /\ \A u \in Task : \/ h[u] = f[u]
                            \/ /\ f[u] = "pending" /\ h[u] = "woken"
                               /\ q # <<>> /\ q[1] = u
         /\ q # <<>> => h[q[1]] # "pending"
  <2> HIDE DEF f
  <2> QED BY <1>7, <1>9, WakeFirstProps
<1>11. /\ g \in [Task -> FutState]
       /\ \A u \in Task : \/ g[u] = f[u]
                          \/ /\ f[u] = "pending" /\ g[u] = "woken"
                             /\ q # <<>> /\ q[1] = u /\ ~ locked[l]
       /\ q # <<>> /\ ~ locked[l] => g[q[1]] # "pending"
  <2> HIDE DEF f
  <2>1. CASE locked[l]
    BY <2>1, <1>9
  <2>2. CASE ~ locked[l]
    BY <2>2, <1>10
  <2> QED BY <2>1, <2>2
<1> HIDE DEF f, g
<1>12. /\ fut'[t] = "none"
       /\ \A u \in Task : u # t => (fut'[u] # "none" <=> fut[u] # "none")
  BY <1>4, <1>9, <1>11
<1>13. /\ waiters'[l] = q
       /\ \A k \in Lock : k # l => waiters'[k] = waiters[k]
  BY <1>1, <1>4 DEF TypeOK
<1>14. TypeOK'
  BY <1>1, <1>4, <1>5, <1>7, <1>11 DEF TypeOK
<1>15. RefInv'
  BY <1>1, <1>5, <1>12 DEF RefInv
<1>16. QueueInv'
  <2> SUFFICES ASSUME NEW k \in Lock
               PROVE  /\ NoRepeat(waiters'[k])
                      /\ \A u \in Task : InQueue(waiters'[k], u)
                                           <=> ref'[u] = k /\ fut'[u] # "none"
    BY DEF QueueInv, Waiting
  <2>1. CASE k = l
    <3>1. \A u \in Task : InQueue(q, u) <=> ref'[u] = l /\ fut'[u] # "none"
      BY <1>5, <1>7, <1>8, <1>12
    <3> QED BY <2>1, <3>1, <1>7, <1>13
  <2>2. CASE k # l
    <3>1. NoRepeat(waiters[k])
          /\ \A u \in Task : InQueue(waiters[k], u) <=> ref[u] = k /\ fut[u] # "none"
      BY <1>1 DEF QueueInv, Waiting
    <3>2. \A u \in Task : ref'[u] = k /\ fut'[u] # "none" <=> ref[u] = k /\ fut[u] # "none"
      BY <2>2, <1>3, <1>5, <1>12
    <3> QED BY <2>2, <3>1, <3>2, <1>13
  <2> QED BY <2>1, <2>2
<1>17. HolderInv'
  <2>1. \A u \in Task : Holding(u)' => Holding(u) /\ u # t /\ ref'[u] = ref[u]
    BY <1>5, <1>12 DEF Holding
  <2>2. \A u \in Task : Holding(u)' => locked'[ref'[u]]
    BY <2>1, <1>1, <1>4 DEF HolderInv
  <2>3. \A u, v \in Task : Holding(u)' /\ Holding(v)' /\ ref'[u] = ref'[v] => u = v
    BY <2>1, <1>1 DEF HolderInv
  <2>4. ASSUME NEW u \in Task, fut'[u] \in {"woken", "interrupted"}
        PROVE  ~ locked'[ref'[u]] /\ waiters'[ref'[u]][1] = u
    <3>1. u # t /\ ref'[u] = ref[u] /\ ref[u] \in Lock
      BY <2>4, <1>1, <1>5, <1>12 DEF RefInv, TypeOK
    <3>2. CASE fut[u] \in {"woken", "interrupted"}
      <4>1. ~ locked[ref[u]] /\ waiters[ref[u]][1] = u
        BY <3>2, <1>1 DEF HolderInv
      <4>2. CASE ref[u] = l
        <5>1. p[1] = u
          BY <4>1, <4>2 DEF p
        <5> QED BY <5>1, <4>1, <4>2, <3>1, <1>4, <1>7, <1>13
      <4>3. CASE ref[u] # l
        BY <4>1, <4>3, <3>1, <1>4, <1>13
      <4> QED BY <4>2, <4>3
    <3>3. CASE q # <<>> /\ q[1] = u /\ ~ locked[l]
      <4>1. InQueue(q, u)
        BY <3>3, <1>7 DEF InQueue
      <4>2. ref[u] = l
        BY <4>1, <3>1, <1>7, <1>8
      <4> QED BY <4>2, <3>1, <3>3, <1>4, <1>13
    <3> QED BY <2>4, <3>1, <3>2, <3>3, <1>4, <1>9, <1>11
  <2> QED BY <2>2, <2>3, <2>4 DEF HolderInv
<1>18. WakeupNotLost'
  <2> SUFFICES ASSUME NEW k \in Lock, ~ locked'[k], waiters'[k] # <<>>
               PROVE  fut'[Head(waiters'[k])] # "pending"
    BY DEF WakeupNotLost
  <2>1. CASE k = l
    BY <2>1, <1>4, <1>7, <1>11, <1>13
  <2>2. CASE k # l
    <3>1. waiters'[k] = waiters[k] /\ waiters[k] \in Seq(Task) /\ ~ locked[k]
          /\ waiters[k] # <<>>
      BY <2>2, <1>1, <1>4, <1>13 DEF TypeOK
    <3>2. fut[Head(waiters[k])] # "pending" /\ Head(waiters[k]) \in Task
          /\ InQueue(waiters[k], Head(waiters[k]))
      BY <3>1, <1>1 DEF WakeupNotLost, InQueue
    <3>3. Head(waiters[k]) # t
      BY <3>2, <2>2, <1>1, <1>3 DEF QueueInv
    <3> QED BY <3>1, <3>2, <3>3, <1>4, <1>9, <1>11
  <2> QED BY <2>1, <2>2
<1> QED BY <1>5, <1>14, <1>15, <1>16, <1>17, <1>18 DEF IInv

-------------------------------------------------------------------------------
(* The invariants.                                                         *)

LEMMA Invariance == Spec => []IInv
<1>1. Init => IInv
  BY InitIInv
<1>2. IInv /\ [Next]_vars => IInv'
  <2> SUFFICES ASSUME IInv, [Next]_vars
               PROVE  IInv'
    OBVIOUS
  <2>1. ASSUME NEW t \in Task, NEW s \in Session, EnterNew(t, s)
        PROVE  IInv'
    BY <2>1, EnterNewKeeps
  <2>2. ASSUME NEW t \in Task, NEW s \in Session, EnterFree(t, s)
        PROVE  IInv'
    BY <2>2, EnterFreeKeeps
  <2>3. ASSUME NEW t \in Task, NEW s \in Session, EnterQueue(t, s)
        PROVE  IInv'
    BY <2>3, EnterQueueKeeps
  <2>4. ASSUME NEW t \in Task, Resume(t)
        PROVE  IInv'
    BY <2>4, ResumeKeeps
  <2>5. ASSUME NEW t \in Task, Exit(t)
        PROVE  IInv'
    BY <2>5, ExitKeeps
  <2>6. ASSUME NEW t \in Task, Cancel(t)
        PROVE  IInv'
    BY <2>6, CancelKeeps
  <2>7. ASSUME NEW t \in Task, Unwind(t)
        PROVE  IInv'
    BY <2>7, UnwindKeeps
  <2>8. CASE UNCHANGED vars
    <3>1. /\ locks' = locks /\ count' = count /\ locked' = locked
          /\ waiters' = waiters /\ fut' = fut /\ ref' = ref /\ sess' = sess
      BY <2>8 DEF vars
    <3>2. \A s \in Session : Users(s)' = Users(s)
      BY <3>1 DEF Users
    <3>3. \A t \in Task : (Holding(t)' <=> Holding(t)) /\ (Waiting(t)' <=> Waiting(t))
      BY <3>1 DEF Holding, Waiting
    <3>4. TypeOK' /\ RefInv' /\ WakeupNotLost'
      BY <3>1 DEF IInv, TypeOK, RefInv, WakeupNotLost
    <3>5. CountInv'
      BY <3>1, <3>2 DEF IInv, CountInv
    <3>6. QueueInv' /\ HolderInv'
      BY <3>1, <3>3 DEF IInv, QueueInv, HolderInv
    <3> QED BY <3>4, <3>5, <3>6 DEF IInv
  <2> QED BY <2>1, <2>2, <2>3, <2>4, <2>5, <2>6, <2>7, <2>8 DEF Next
<1> QED BY <1>1, <1>2, PTL DEF Spec

\* The variables of the lock manager always have their types: the reference
\* counts of session_lock.py never become negative.
THEOREM TypeCorrect == Spec => []TypeOK
<1>1. IInv => TypeOK
  BY DEF IInv
<1> QED BY <1>1, Invariance, PTL

\* Two turns of one session never hold its lock together, for any number of
\* tasks, sessions and cancellations.
THEOREM Exclusion == Spec => []MutualExclusion
<1>1. IInv => MutualExclusion
  BY DEF IInv, RefInv, HolderInv, MutualExclusion, Holding
<1> QED BY <1>1, Invariance, PTL

\* The dictionary of locks holds exactly the locks in use: none is popped under
\* a task that refers to it, none stays behind.
THEOREM ExactDictionary == Spec => []DictionaryExact
<1>1. IInv => DictionaryExact
  BY DEF IInv, RefInv, CountInv, DictionaryExact
<1> QED BY <1>1, Invariance, PTL

\* No wake-up of asyncio.Lock is lost, whatever is cancelled while it is on its
\* way: an unlocked lock with a queue has a first waiter that will move it on.
THEOREM NoLostWakeup == Spec => []WakeupNotLost
<1>1. IInv => WakeupNotLost
  BY DEF IInv
<1> QED BY <1>1, Invariance, PTL

-------------------------------------------------------------------------------
(* What Within selects.                                                    *)

\* What Within has selected from the first n of a queue, for each n.
Selects(f, q, n, S) ==
  /\ f[0] = <<>>
  /\ \A m \in 1..n : f[m] = IF q[m] \in S THEN Append(f[m - 1], q[m]) ELSE f[m - 1]

\* There is a selection for every place of a queue ...
LEMMA SelectionExists ==
  ASSUME NEW T, NEW q \in Seq(T), NEW S, NEW n \in 0..Len(q)
  PROVE  \E f \in [0..n -> Seq(T)] : Selects(f, q, n, S)
<1> DEFINE bad == { k \in 0..Len(q) : ~\E f \in [0..k -> Seq(T)] : Selects(f, q, k, S) }
<1> Len(q) \in Nat
  OBVIOUS
<1>1. SUFFICES ASSUME bad # {} PROVE FALSE
  OBVIOUS
<1>2. PICK k \in bad : \A j \in bad : k <= j
  <2> bad \subseteq Nat
    OBVIOUS
  <2> HIDE DEF bad
  <2> QED BY <1>1, LeastOf
<1>3. k # 0
  <2> DEFINE f == [m \in 0..0 |-> <<>>]
  <2>1. f \in [0..0 -> Seq(T)] /\ f[0] = <<>>
    BY EmptySeq
  <2>2. Selects(f, q, 0, S)
    BY <2>1 DEF Selects
  <2> HIDE DEF f
  <2> QED BY <2>1, <2>2
<1>4. k - 1 \in 0..Len(q) /\ k - 1 \notin bad
  BY <1>2, <1>3
<1>5. PICK g \in [0..(k - 1) -> Seq(T)] : Selects(g, q, k - 1, S)
  BY <1>4
<1> DEFINE f == [m \in 0..k |-> IF m < k THEN g[m]
                                ELSE IF q[k] \in S THEN Append(g[k - 1], q[k]) ELSE g[k - 1]]
<1>6. k \in 1..Len(q) /\ q[k] \in T /\ g[k - 1] \in Seq(T)
  BY <1>2, <1>3, ElementOfSeq
<1>7. Append(g[k - 1], q[k]) \in Seq(T)
  BY <1>6, AppendProperties
<1>8. f \in [0..k -> Seq(T)]
  BY <1>6, <1>7
<1>9. Selects(f, q, k, S)
  <2>1. f[0] = <<>>
    BY <1>5, <1>6 DEF Selects
  <2>2. ASSUME NEW m \in 1..k
        PROVE  f[m] = IF q[m] \in S THEN Append(f[m - 1], q[m]) ELSE f[m - 1]
    <3>1. f[m - 1] = g[m - 1]
      BY <1>6
    <3>2. CASE m = k
      BY <3>1, <3>2, <1>6
    <3>3. CASE m < k
      <4> f[m] = g[m] /\ m \in 1..(k - 1)
        BY <3>3, <1>6
      <4> QED BY <3>1, <1>5 DEF Selects
    <3> QED BY <3>2, <3>3, <1>6
  <2> HIDE DEF f
  <2> QED BY <2>1, <2>2 DEF Selects
<1> HIDE DEF f
<1> QED BY <1>2, <1>8, <1>9

\* ... and there is one such selection.
LEMMA SelectionUnique ==
  ASSUME NEW q, NEW n \in Nat, NEW S, NEW f, NEW g,
         Selects(f, q, n, S), Selects(g, q, n, S)
  PROVE  f[n] = g[n]
<1> DEFINE bad == { k \in 0..n : f[k] # g[k] }
<1>1. SUFFICES ASSUME bad # {} PROVE FALSE
  OBVIOUS
<1>2. PICK k \in bad : \A j \in bad : k <= j
  <2> bad \subseteq Nat
    OBVIOUS
  <2> HIDE DEF bad
  <2> QED BY <1>1, LeastOf
<1>3. k \in 1..n
  BY <1>2 DEF Selects
<1>4. f[k - 1] = g[k - 1]
  BY <1>2, <1>3
<1> QED BY <1>2, <1>3, <1>4 DEF Selects

\* ... which is what the recursive function of Within is.
LEMMA WithinSelects ==
  ASSUME NEW T, NEW q \in Seq(T), NEW S, NEW f, Selects(f, q, Len(q), S)
  PROVE  Within(q, S) = f[Len(q)] /\ Within(q, S) \in Seq(T)
<1> Len(q) \in Nat /\ Len(q) \in 0..Len(q)
  OBVIOUS
<1>1. PICK g \in [0..Len(q) -> Seq(T)] : Selects(g, q, Len(q), S)
  BY SelectionExists
<1>2. \A n \in 0..Len(q) :
         g[n] = IF n = 0 THEN <<>>
                ELSE IF q[n] \in S THEN Append(g[n - 1], q[n]) ELSE g[n - 1]
  <2> SUFFICES ASSUME NEW n \in 0..Len(q), n # 0
               PROVE  g[n] = IF q[n] \in S THEN Append(g[n - 1], q[n]) ELSE g[n - 1]
    BY <1>1 DEF Selects
  <2>1. n \in 1..Len(q)
    OBVIOUS
  <2> QED BY <1>1, <2>1 DEF Selects
<1>3. g = [n \in 0..Len(q) |-> IF n = 0 THEN <<>>
                ELSE IF q[n] \in S THEN Append(g[n - 1], q[n]) ELSE g[n - 1]]
  BY <1>2
<1> DEFINE F == CHOOSE h : h = [n \in 0..Len(q) |-> IF n = 0 THEN <<>>
                ELSE IF q[n] \in S THEN Append(h[n - 1], q[n]) ELSE h[n - 1]]
<1>4. Within(q, S) = F[Len(q)]
  BY DEF Within
<1>5. F = [n \in 0..Len(q) |-> IF n = 0 THEN <<>>
                ELSE IF q[n] \in S THEN Append(F[n - 1], q[n]) ELSE F[n - 1]]
  BY <1>3
<1> HIDE DEF F
<1>6. \A n \in 0..Len(q) :
         F[n] = IF n = 0 THEN <<>>
                ELSE IF q[n] \in S THEN Append(F[n - 1], q[n]) ELSE F[n - 1]
  BY <1>5
<1>7. Selects(F, q, Len(q), S)
  <2>1. F[0] = <<>>
    BY <1>6
  <2>2. ASSUME NEW m \in 1..Len(q)
        PROVE  F[m] = IF q[m] \in S THEN Append(F[m - 1], q[m]) ELSE F[m - 1]
    <3>1. m \in 0..Len(q) /\ m # 0
      OBVIOUS
    <3> QED BY <1>6, <3>1
  <2> QED BY <2>1, <2>2 DEF Selects
<1>8. F[Len(q)] = f[Len(q)] /\ F[Len(q)] = g[Len(q)]
  BY <1>1, <1>7, SelectionUnique
<1> QED BY <1>1, <1>4, <1>8

\* From an empty queue nothing is selected.
LEMMA WithinEmpty == \A S : Within(<<>>, S) = <<>>
<1> SUFFICES ASSUME NEW S PROVE Within(<<>>, S) = <<>>
  OBVIOUS
<1> DEFINE f == [m \in 0..0 |-> <<>>]
<1>1. Selects(f, <<>>, Len(<<>>), S)
  BY DEF Selects
<1>2. f[Len(<<>>)] = <<>> /\ <<>> \in Seq({})
  OBVIOUS
<1> HIDE DEF f
<1> QED BY <1>1, <1>2, WithinSelects

\* A newcomer is selected last, if he is.
LEMMA WithinAppend ==
  ASSUME NEW T, NEW q \in Seq(T), NEW t \in T, NEW S
  PROVE  /\ Within(q, S) \in Seq(T)
         /\ Within(Append(q, t), S) = IF t \in S THEN Append(Within(q, S), t) ELSE Within(q, S)
<1> DEFINE r == Append(q, t)
<1> Len(q) \in Nat
  OBVIOUS
<1>1. /\ r \in Seq(T) /\ Len(r) = Len(q) + 1
      /\ \A i \in 1..Len(q) : r[i] = q[i]
      /\ r[Len(q) + 1] = t
  BY AppendProperties
<1> HIDE DEF r
<1>2. PICK f \in [0..Len(r) -> Seq(T)] : Selects(f, r, Len(r), S)
  <2>1. Len(r) \in 0..Len(r)
    BY <1>1
  <2> QED BY <1>1, <2>1, SelectionExists
<1>3. Selects(f, q, Len(q), S)
  BY <1>1, <1>2 DEF Selects
<1>4. Within(q, S) = f[Len(q)] /\ Within(q, S) \in Seq(T)
  BY <1>3, WithinSelects
<1>5. Within(r, S) = f[Len(r)]
  BY <1>1, <1>2, WithinSelects
<1>6. f[Len(r)] = IF r[Len(r)] \in S THEN Append(f[Len(r) - 1], r[Len(r)]) ELSE f[Len(r) - 1]
  BY <1>1, <1>2 DEF Selects
<1>7. Len(r) - 1 = Len(q) /\ r[Len(r)] = t
  BY <1>1
<1> QED BY <1>4, <1>5, <1>6, <1>7 DEF r

\* What is selected is a sequence.
LEMMA WithinSeq ==
  ASSUME NEW T, NEW q \in Seq(T), NEW S
  PROVE  Within(q, S) \in Seq(T)
<1>1. PICK f \in [0..Len(q) -> Seq(T)] : Selects(f, q, Len(q), S)
  <2>1. Len(q) \in 0..Len(q)
    OBVIOUS
  <2> QED BY <2>1, SelectionExists
<1> QED BY <1>1, WithinSelects

\* Only the members that stand in the queue matter.
LEMMA WithinAgrees ==
  ASSUME NEW T, NEW q \in Seq(T), NEW S, NEW R,
         \A i \in 1..Len(q) : q[i] \in S <=> q[i] \in R
  PROVE  Within(q, S) = Within(q, R)
<1> Len(q) \in 0..Len(q)
  OBVIOUS
<1>1. PICK f \in [0..Len(q) -> Seq(T)] : Selects(f, q, Len(q), S)
  BY SelectionExists
<1>2. Selects(f, q, Len(q), R)
  BY <1>1 DEF Selects
<1> QED BY <1>1, <1>2, WithinSelects

\* What is selected stands in the queue and is a member.
LEMMA WithinMembers ==
  ASSUME NEW T, NEW q \in Seq(T), NEW S, NEW t
  PROVE  InQueue(Within(q, S), t) => InQueue(q, t) /\ t \in S
<1> DEFINE P == { r \in Seq(T) : InQueue(Within(r, S), t) => InQueue(r, t) /\ t \in S }
<1>1. <<>> \in P
  <2>1. ~InQueue(Within(<<>>, S), t)
    BY WithinEmpty DEF InQueue
  <2> QED BY <2>1, EmptySeq
<1>2. ASSUME NEW r \in P, NEW u \in T PROVE Append(r, u) \in P
  <2>1. /\ Append(r, u) \in Seq(T) /\ Len(Append(r, u)) = Len(r) + 1
        /\ \A i \in 1..Len(r) : Append(r, u)[i] = r[i]
        /\ Append(r, u)[Len(r) + 1] = u
    BY AppendProperties
  <2>2. /\ InQueue(r, t) => InQueue(Append(r, u), t)
        /\ InQueue(Append(r, u), u)
    BY <2>1 DEF InQueue
  <2>3. CASE u \notin S
    <3>1. Within(Append(r, u), S) = Within(r, S)
      BY <2>3, WithinAppend
    <3> QED BY <3>1, <2>1, <2>2
  <2>4. CASE u \in S
    <3>1. Within(Append(r, u), S) = Append(Within(r, S), u) /\ Within(r, S) \in Seq(T)
      BY <2>4, WithinAppend
    <3>2. InQueue(Append(Within(r, S), u), t) => InQueue(Within(r, S), t) \/ t = u
      BY <3>1, AppendProperties DEF InQueue
    <3> QED BY <3>1, <3>2, <2>1, <2>2, <2>4
  <2> QED BY <2>3, <2>4
<1>3. P \subseteq Seq(T)
  OBVIOUS
<1> HIDE DEF P
<1>4. P = Seq(T)
  BY <1>1, <1>2, <1>3, BuiltByAppending
<1> QED BY <1>4 DEF P

\* Queues of which the same is selected get the same newcomer.
LEMMA SameBeforeLast ==
  ASSUME NEW T, NEW q \in Seq(T), NEW r \in Seq(T), NEW u \in T, NEW S,
         Within(q, S) = Within(r, S)
  PROVE  Within(Append(q, u), S) = Within(Append(r, u), S)
<1>1. CASE u \in S
  <2>1. Within(Append(q, u), S) = Append(Within(q, S), u)
    BY <1>1, WithinAppend
  <2>2. Within(Append(r, u), S) = Append(Within(r, S), u)
    BY <1>1, WithinAppend
  <2> QED BY <2>1, <2>2
<1>2. CASE u \notin S
  <2>1. Within(Append(q, u), S) = Within(q, S)
    BY <1>2, WithinAppend
  <2>2. Within(Append(r, u), S) = Within(r, S)
    BY <1>2, WithinAppend
  <2> QED BY <2>1, <2>2
<1> QED BY <1>1, <1>2

\* Who is not selected may leave the queue.
LEMMA WithinWithout ==
  ASSUME NEW T, NEW q \in Seq(T), NEW S, NEW i \in 1..Len(q), q[i] \notin S
  PROVE  Within(RemoveAt(q, i), S) = Within(q, S)
<1> DEFINE P == { r \in Seq(T) : \A j \in 1..Len(r) :
                    r[j] \notin S => Within(RemoveAt(r, j), S) = Within(r, S) }
<1>1. <<>> \in P
  BY EmptySeq
<1>2. ASSUME NEW r \in P, NEW u \in T PROVE Append(r, u) \in P
  <2>0. r \in Seq(T)
    OBVIOUS
  <2> DEFINE a == Append(r, u)
  <2>1. /\ a \in Seq(T) /\ Len(a) = Len(r) + 1
        /\ \A j \in 1..Len(r) : a[j] = r[j]
        /\ a[Len(r) + 1] = u
    BY AppendProperties
  <2>2. SUFFICES ASSUME NEW j \in 1..Len(a), a[j] \notin S
                 PROVE  Within(RemoveAt(a, j), S) = Within(a, S)
    BY <2>1
  <2>3. CASE j = Len(r) + 1
    <3>1. RemoveAt(a, j) = r
      BY <2>3, RemoveLast
    <3>2. Within(a, S) = Within(r, S)
      BY <2>1, <2>2, <2>3, WithinAppend
    <3> QED BY <3>1, <3>2
  <2>4. CASE j \in 1..Len(r)
    <3>1. RemoveAt(a, j) = Append(RemoveAt(r, j), u) /\ RemoveAt(r, j) \in Seq(T)
      BY <2>4, RemoveBeforeLast
    <3>2. Within(RemoveAt(r, j), S) = Within(r, S)
      BY <2>1, <2>2, <2>4
    <3>3. Within(Append(RemoveAt(r, j), u), S) = Within(a, S)
      <4> DEFINE x == RemoveAt(r, j)
      <4>1. x \in Seq(T) /\ Within(x, S) = Within(r, S)
        BY <3>1, <3>2
      <4> HIDE DEF x
      <4> QED BY <4>1, <2>0, SameBeforeLast DEF x
    <3> QED BY <3>1, <3>3
  <2> QED BY <2>1, <2>3, <2>4
<1>3. P \subseteq Seq(T)
  OBVIOUS
<1> HIDE DEF P
<1>4. P = Seq(T)
  BY <1>1, <1>2, <1>3, BuiltByAppending
<1> QED BY <1>4 DEF P

\* The first of a queue, if it is selected, is selected first.
LEMMA WithinFirst ==
  ASSUME NEW T, NEW q \in Seq(T), NEW S, q # <<>>, q[1] \in S
  PROVE  Within(q, S) = <<q[1]>> \o Within(RemoveAt(q, 1), S)
<1> DEFINE P == { r \in Seq(T) : r # <<>> /\ r[1] \in S =>
                    Within(r, S) = <<r[1]>> \o Within(RemoveAt(r, 1), S) }
<1>1. <<>> \in P
  BY EmptySeq
<1>2. ASSUME NEW r \in P, NEW u \in T PROVE Append(r, u) \in P
  <2>0. r \in Seq(T)
    OBVIOUS
  <2> DEFINE a == Append(r, u)
  <2>1. /\ a \in Seq(T) /\ Len(a) = Len(r) + 1
        /\ \A j \in 1..Len(r) : a[j] = r[j]
        /\ a[Len(r) + 1] = u
    BY AppendProperties
  <2>2. SUFFICES ASSUME a[1] \in S
                 PROVE  Within(a, S) = <<a[1]>> \o Within(RemoveAt(a, 1), S)
    BY <2>1
  <2>3. CASE r = <<>>
    <3>1. Len(r) + 1 = 1
      BY <2>3
    <3>2. a[1] = u
      BY <2>1, <3>1
    <3>3. RemoveAt(a, 1) = <<>>
      <4>1. RemoveAt(a, Len(r) + 1) = r
        BY RemoveLast
      <4> QED BY <4>1, <3>1, <2>3
    <3>4. Within(a, S) = Append(<<>>, u)
      <4>1. Within(a, S) = Append(Within(r, S), u)
        BY <2>2, <3>2, WithinAppend
      <4> QED BY <4>1, <2>3, WithinEmpty
    <3> HIDE DEF a
    <3>5. Within(RemoveAt(a, 1), S) = <<>>
      BY <3>3, WithinEmpty
    <3>6. <<u>> \o <<>> = Append(<<>>, u)
      OBVIOUS
    <3> QED BY <3>2, <3>4, <3>5, <3>6
  <2>4. CASE r # <<>>
    <3> DEFINE x == RemoveAt(r, 1)
    <3>1. 1 \in 1..Len(r) /\ a[1] = r[1]
      BY <2>1, <2>4
    <3>2. RemoveAt(a, 1) = Append(x, u) /\ x \in Seq(T)
      BY <3>1, RemoveBeforeLast
    <3>3. Within(r, S) = <<r[1]>> \o Within(x, S)
      BY <2>2, <2>4, <3>1
    <3> HIDE DEF x
    <3>4. Within(x, S) \in Seq(T) /\ <<r[1]>> \in Seq(T) /\ <<u>> \in Seq(T)
      <4>1. r[1] \in T
        BY <3>1
      <4> QED BY <4>1, <3>2, WithinAppend
    <3>5. CASE u \in S
      <4>1. Within(a, S) = Append(<<r[1]>> \o Within(x, S), u)
        BY <3>3, <3>5, WithinAppend
      <4>2. Within(Append(x, u), S) = Append(Within(x, S), u)
        BY <3>2, <3>5, WithinAppend
      <4>3. Append(<<r[1]>> \o Within(x, S), u) = <<r[1]>> \o Append(Within(x, S), u)
        <5>1. r[1] \in T /\ Within(x, S) \in Seq(T)
          BY <3>1, <3>4
        <5> HIDE DEF P, a
        <5> QED BY <5>1, AppendBehind
      <4> QED BY <3>1, <3>2, <4>1, <4>2, <4>3
    <3>6. CASE u \notin S
      <4>1. Within(a, S) = <<r[1]>> \o Within(x, S)
        <5>1. Within(a, S) = Within(r, S)
          BY <3>6, WithinAppend
        <5> HIDE DEF a
        <5> QED BY <5>1, <3>3
      <4>2. Within(Append(x, u), S) = Within(x, S)
        BY <3>2, <3>6, WithinAppend
      <4> QED BY <3>1, <3>2, <4>1, <4>2
    <3> QED BY <3>5, <3>6
  <2> QED BY <2>3, <2>4
<1>3. P \subseteq Seq(T)
  OBVIOUS
<1> HIDE DEF P
<1>4. P = Seq(T)
  BY <1>1, <1>2, <1>3, BuiltByAppending
<1> QED BY <1>4 DEF P

\* A member that is no longer selected leaves its place among the selected.
LEMMA WithinFewer ==
  ASSUME NEW T, NEW q \in Seq(T), NEW S, NEW t \in S, NoRepeat(q), InQueue(q, t)
  PROVE  \E i \in 1..Len(Within(q, S)) :
           Within(q, S)[i] = t /\ Within(q, S \ {t}) = RemoveAt(Within(q, S), i)
<1> DEFINE Leaves(r) == \E i \in 1..Len(Within(r, S)) :
             Within(r, S)[i] = t /\ Within(r, S \ {t}) = RemoveAt(Within(r, S), i)
           P == { r \in Seq(T) : NoRepeat(r) /\ InQueue(r, t) => Leaves(r) }
<1>1. <<>> \in P
  BY EmptySeq DEF InQueue
<1>2. ASSUME NEW r \in P, NEW u \in T PROVE Append(r, u) \in P
  <2>0. r \in Seq(T)
    OBVIOUS
  <2> DEFINE a == Append(r, u)
             w == Within(r, S)
  <2>1. /\ a \in Seq(T) /\ Len(a) = Len(r) + 1
        /\ \A j \in 1..Len(r) : a[j] = r[j]
        /\ a[Len(r) + 1] = u
    BY AppendProperties
  <2>2. SUFFICES ASSUME NoRepeat(a), InQueue(a, t) PROVE Leaves(a)
    BY <2>1
  <2>3. w \in Seq(T) /\ Within(r, S \ {t}) \in Seq(T)
    BY WithinAppend
  <2>4. CASE u = t
    <3>1. ~InQueue(r, t)
      BY <2>1, <2>2, <2>4 DEF NoRepeat, InQueue
    <3>2. Within(r, S \ {t}) = w
      BY <3>1, WithinAgrees DEF InQueue
    <3>3. Within(a, S) = Append(w, t) /\ Within(a, S \ {t}) = w
      <4>1. Within(a, S) = Append(w, t)
        BY <2>4, WithinAppend
      <4>2. Within(a, S \ {t}) = Within(r, S \ {t})
        <5>1. u \notin S \ {t}
          BY <2>4
        <5> QED BY <5>1, WithinAppend
      <4> HIDE DEF a, w
      <4> QED BY <4>1, <4>2, <3>2
    <3> HIDE DEF w, a
    <3>4. /\ Len(Append(w, t)) = Len(w) + 1 /\ Append(w, t)[Len(w) + 1] = t
          /\ RemoveAt(Append(w, t), Len(w) + 1) = w
      BY <2>3, <2>4, AppendProperties, RemoveLast
    <3> QED BY <2>3, <3>3, <3>4
  <2>5. CASE u # t
    <3>1. NoRepeat(r) /\ InQueue(r, t)
      BY <2>1, <2>2, <2>5 DEF NoRepeat, InQueue
    <3>2. PICK i \in 1..Len(w) : w[i] = t /\ Within(r, S \ {t}) = RemoveAt(w, i)
      BY <3>1
    <3>3. CASE u \in S
      <4>1. Within(a, S) = Append(w, u) /\ Within(a, S \ {t}) = Append(RemoveAt(w, i), u)
        <5>1. u \in S \ {t}
          BY <2>5, <3>3
        <5>2. Within(a, S \ {t}) = Append(Within(r, S \ {t}), u)
          <6> DEFINE R == S \ {t}
          <6>1. u \in R
            BY <5>1
          <6> HIDE DEF R, P
          <6>2. Within(a, R) = Append(Within(r, R), u)
            BY <6>1, <2>0, WithinAppend
          <6> QED BY <6>2 DEF R
        <5>3. Within(a, S) = Append(w, u)
          BY <3>3, WithinAppend
        <5> HIDE DEF a, w
        <5> QED BY <5>2, <5>3, <3>2
      <4> HIDE DEF w, a
      <4>2. /\ i \in 1..Len(Append(w, u)) /\ Append(w, u)[i] = t
            /\ RemoveAt(Append(w, u), i) = Append(RemoveAt(w, i), u)
        BY <2>3, <3>2, AppendProperties, RemoveBeforeLast
      <4> QED BY <4>1, <4>2
    <3>4. CASE u \notin S
      <4>1. Within(a, S) = w /\ Within(a, S \ {t}) = Within(r, S \ {t})
        BY <3>4, WithinAppend
      <4> HIDE DEF w, a
      <4> QED BY <3>2, <4>1
    <3> QED BY <3>3, <3>4
  <2> QED BY <2>4, <2>5
<1>3. P \subseteq Seq(T)
  OBVIOUS
<1> HIDE DEF P
<1>4. P = Seq(T)
  BY <1>1, <1>2, <1>3, BuiltByAppending
<1> QED BY <1>4 DEF P

-------------------------------------------------------------------------------
(* Lines.                                                                  *)

\* The sequence of at most one task.
LEMMA Heads == SetToSeq({}) = <<>> /\ \A t : SetToSeq({t}) = <<t>>
<1>1. SetToSeq({}) = <<>>
  <2>1. Cardinality({}) = 0
    BY FS_EmptySet
  <2>2. SetToSeq({}) \in [1..0 -> {}]
    <3>1. <<>> \in [1..0 -> {}] /\ IsInjective(<<>>)
      BY DEF IsInjective
    <3> QED BY <2>1, <3>1 DEF SetToSeq
  <2> QED BY <2>2
<1>2. ASSUME NEW t PROVE SetToSeq({t}) = <<t>>
  <2>1. Cardinality({t}) = 1
    BY FS_Singleton
  <2>2. SetToSeq({t}) \in [1..1 -> {t}]
    <3>1. <<t>> \in [1..1 -> {t}] /\ IsInjective(<<t>>)
      BY DEF IsInjective
    <3> QED BY <2>1, <3>1 DEF SetToSeq
  <2> QED BY <2>2
<1> QED BY <1>1, <1>2

\* The tasks of a line that do not hold the lock.
Rest(s) == IF locks[s] = NoLock THEN <<>> ELSE Within(waiters[locks[s]], Staying)

LEMMA RestFacts ==
  ASSUME IInv, NEW s \in Session
  PROVE  /\ Rest(s) \in Seq(Task)
         /\ \A u \in Task : InQueue(Rest(s), u) =>
              locks[s] # NoLock /\ InQueue(waiters[locks[s]], u) /\ u \in Staying
<1>1. CASE locks[s] = NoLock
  BY <1>1, EmptySeq DEF Rest, InQueue
<1>2. CASE locks[s] # NoLock
  <2>1. waiters[locks[s]] \in Seq(Task)
    BY <1>2 DEF IInv, TypeOK
  <2>2. Rest(s) = Within(waiters[locks[s]], Staying)
    BY <1>2 DEF Rest
  <2>3. Within(waiters[locks[s]], Staying) \in Seq(Task)
    BY <2>1, WithinSeq
  <2> QED BY <1>2, <2>1, <2>2, <2>3, WithinMembers
<1> QED BY <1>1, <1>2

\* A holder stands before the rest, and there is at most one.
LEMMA LineShape ==
  ASSUME IInv, NEW s \in Session
  PROVE  \/ Holders(s) = {} /\ LineOf(s) = Rest(s)
         \/ \E h \in Task : /\ Holding(h) /\ sess[h] = s
                            /\ Holders(s) = {h} /\ LineOf(s) = <<h>> \o Rest(s)
<1>1. Rest(s) \in Seq(Task) /\ LineOf(s) = SetToSeq(Holders(s)) \o Rest(s)
  BY RestFacts DEF LineOf, Rest
<1>2. CASE Holders(s) = {}
  BY <1>1, <1>2, Heads, ConcatEmptySeq
<1>3. ASSUME NEW h \in Holders(s)
      PROVE  /\ h \in Task /\ Holding(h) /\ sess[h] = s
             /\ Holders(s) = {h} /\ LineOf(s) = <<h>> \o Rest(s)
  <2>1. h \in Task /\ Holding(h) /\ sess[h] = s
    BY DEF Holders, Users
  <2>2. Holders(s) = {h}
    BY DEF Holders, Users, IInv, RefInv, HolderInv
  <2>3. LineOf(s) = <<h>> \o Rest(s)
    BY <1>1, <2>2, Heads
  <2> QED BY <2>1, <2>2, <2>3
<1> QED BY <1>2, <1>3

\* Who stands in a line uses a lock.
LEMMA LineIsUsers ==
  ASSUME IInv, NEW s \in Session
  PROVE  /\ LineOf(s) \in Seq(Task)
         /\ \A i \in 1..Len(LineOf(s)) : ref[LineOf(s)[i]] # NoLock /\ sess[LineOf(s)[i]] = s
<1>1. Rest(s) \in Seq(Task)
  BY RestFacts
<1>2. ASSUME NEW i \in 1..Len(Rest(s))
      PROVE  ref[Rest(s)[i]] # NoLock /\ sess[Rest(s)[i]] = s
  <2>1. /\ Rest(s)[i] \in Task /\ locks[s] # NoLock
        /\ InQueue(waiters[locks[s]], Rest(s)[i])
    BY <1>1, RestFacts DEF InQueue
  <2>2. locks[s] \in Lock /\ ref[Rest(s)[i]] = locks[s]
    BY <2>1 DEF IInv, TypeOK, QueueInv
  <2> QED BY <2>1, <2>2 DEF IInv, RefInv, TypeOK
<1>3. CASE LineOf(s) = Rest(s)
  BY <1>1, <1>2, <1>3
<1>4. ASSUME NEW h \in Task, Holding(h), sess[h] = s, LineOf(s) = <<h>> \o Rest(s)
      PROVE  /\ LineOf(s) \in Seq(Task)
             /\ \A i \in 1..Len(LineOf(s)) : ref[LineOf(s)[i]] # NoLock /\ sess[LineOf(s)[i]] = s
  <2> DEFINE q == Rest(s)
  <2> HIDE DEF q
  <2>1. q \in Seq(Task) /\ \A i \in 1..Len(q) : ref[q[i]] # NoLock /\ sess[q[i]] = s
    BY <1>1, <1>2 DEF q
  <2>2. LineOf(s) = <<h>> \o q
    BY <1>4 DEF q
  <2>3. /\ <<h>> \o q \in Seq(Task) /\ Len(<<h>> \o q) = Len(q) + 1
        /\ (<<h>> \o q)[1] = h
        /\ \A i \in 1..Len(q) : (<<h>> \o q)[i + 1] = q[i]
    BY <2>1
  <2>4. \A i \in 1..(Len(q) + 1) : i = 1 \/ (i - 1 \in 1..Len(q) /\ (<<h>> \o q)[i] = q[i - 1])
    BY <2>1, <2>3
  <2>5. ref[h] # NoLock /\ sess[h] = s
    BY <1>4 DEF Holding
  <2>6. ASSUME NEW i \in 1..(Len(q) + 1)
        PROVE  ref[(<<h>> \o q)[i]] # NoLock /\ sess[(<<h>> \o q)[i]] = s
    BY <2>1, <2>3, <2>4, <2>5
  <2> QED BY <2>2, <2>3, <2>6
<1> QED BY <1>3, <1>4, LineShape

\* A step leaves a line alone if it leaves its holder and its queue alone, and who of
\* the queue stays.
LEMMA SameLine ==
  ASSUME IInv, NEW s \in Session, locks'[s] = locks[s], Holders(s)' = Holders(s),
         locks[s] # NoLock =>
           /\ waiters'[locks[s]] = waiters[locks[s]]
           /\ \A u \in Task : InQueue(waiters[locks[s]], u) => (u \in Staying' <=> u \in Staying)
  PROVE  LineOf(s)' = LineOf(s)
<1>1. LineOf(s) = SetToSeq(Holders(s)) \o Rest(s) /\ LineOf(s)' = SetToSeq(Holders(s)') \o Rest(s)'
  BY DEF LineOf, Rest
<1>2. Rest(s)' = Rest(s)
  <2>1. CASE locks[s] = NoLock
    BY <2>1 DEF Rest
  <2>2. CASE locks[s] # NoLock
    <3> DEFINE q == waiters[locks[s]]
    <3>1. q \in Seq(Task)
      BY <2>2 DEF IInv, TypeOK
    <3>2. \A i \in 1..Len(q) : q[i] \in Staying' <=> q[i] \in Staying
      BY <2>2, <3>1 DEF InQueue
    <3>3. Within(q, Staying') = Within(q, Staying)
      BY <3>1, <3>2, WithinAgrees
    <3> QED BY <2>2, <3>3 DEF Rest
  <2> QED BY <2>1, <2>2
<1> QED BY <1>1, <1>2

\* A task without a lock stands in no line.
LEMMA NotInLine ==
  ASSUME IInv, NEW t \in Task, ref[t] = NoLock
  PROVE  t \notin Turns!InLine
<1> SUFFICES ASSUME NEW s \in Session, NEW i \in 1..Len(LineOf(s)), LineOf(s)[i] = t
             PROVE  FALSE
  <2>1. \A s \in Session : DOMAIN LineOf(s) = 1..Len(LineOf(s))
    BY LineIsUsers
  <2> QED BY <2>1 DEF Turns!InLine, Turns!ToSet
<1> QED BY LineIsUsers

\* The session of a new user: its line gets longer by the task, which may hold the lock.
LEMMA Arrives ==
  ASSUME IInv, NEW t \in Task, NEW s \in Session, ref[t] = NoLock,
         LineOf(s)' = Append(LineOf(s), t),
         \A r \in Session : r # s => LineOf(r)' = LineOf(r),
         \/ \A u \in Task : Holding(u)' <=> Holding(u)
         \/ LineOf(s) = <<>> /\ \A u \in Task : Holding(u)' <=> Holding(u) \/ u = t
  PROVE  Turns!Arrive(t, s)
<1>1. t \notin Turns!InLine
  BY NotInLine
<1>2. [r \in Session |-> LineOf(r)]'
        = [[r \in Session |-> LineOf(r)] EXCEPT ![s] = Append(LineOf(s), t)]
  OBVIOUS
<1>3. \/ { u \in Task : Holding(u) }' = { u \in Task : Holding(u) }
      \/ LineOf(s) = <<>> /\ { u \in Task : Holding(u) }' = { u \in Task : Holding(u) } \cup {t}
  OBVIOUS
<1> QED BY <1>1, <1>2, <1>3 DEF Turns!Arrive
-------------------------------------------------------------------------------
(* Every step takes its turn.                                              *)

\* A task that enters disturbs no other session.
LEMMA RegisterElsewhere ==
  ASSUME IInv, NEW t \in Task, NEW s \in Session, NEW l \in Lock, Register(t, s, l),
         NEW r \in Session, r # s,
         \A u \in Task : u # t => fut'[u] = fut[u],
         locks[s] = l \/ Unused(l),
         \A k \in Lock : k # l => waiters'[k] = waiters[k]
  PROVE  LineOf(r)' = LineOf(r)
<1> USE SessionLockAssumption
<1>1. TypeOK /\ RefInv /\ QueueInv
  BY DEF IInv
<1>2. /\ ref[t] = NoLock /\ locks' = [locks EXCEPT ![s] = l]
      /\ ref' = [ref EXCEPT ![t] = l] /\ sess' = [sess EXCEPT ![t] = s]
  BY DEF Register
<1>3. locks'[r] = locks[r] /\ locks[r] # l
  BY <1>1, <1>2 DEF TypeOK, RefInv, Unused
<1>4. Holders(r)' = Holders(r)
  BY <1>1, <1>2 DEF TypeOK, Holders, Users, Holding
<1>5. ASSUME locks[r] # NoLock, NEW u \in Task, InQueue(waiters[locks[r]], u)
      PROVE  u \in Staying' <=> u \in Staying
  <2>1. u # t
    BY <1>1, <1>2, <1>5 DEF QueueInv, TypeOK
  <2> QED BY <2>1 DEF Staying
<1>6. locks[r] # NoLock => waiters'[locks[r]] = waiters[locks[r]]
  BY <1>1, <1>3 DEF TypeOK
<1> QED BY <1>3, <1>4, <1>5, <1>6, SameLine

\* The session has no lock: its line is empty and the task is its holder.
LEMMA EnterNewArrives ==
  ASSUME IInv, NEW t \in Task, NEW s \in Session, EnterNew(t, s)
  PROVE  Turns!Arrive(t, s)
<1> USE SessionLockAssumption
<1>1. TypeOK /\ RefInv /\ CountInv
  BY DEF IInv
<1>2. PICK l \in Lock : /\ Unused(l) /\ Register(t, s, l)
                        /\ waiters' = [waiters EXCEPT ![l] = <<>>]
  BY DEF EnterNew
<1>3. locks[s] = NoLock /\ fut' = fut
  BY DEF EnterNew
<1>4. /\ ref[t] = NoLock /\ locks' = [locks EXCEPT ![s] = l]
      /\ ref' = [ref EXCEPT ![t] = l] /\ sess' = [sess EXCEPT ![t] = s]
  BY <1>2 DEF Register
<1>5. Users(s) = {} /\ fut[t] = "none"
  BY <1>1, <1>3, <1>4 DEF CountInv, RefInv
<1>6. LineOf(s) = <<>>
  <2>1. Holders(s) = {} /\ Rest(s) = <<>>
    BY <1>3, <1>5 DEF Holders, Rest
  <2> QED BY <2>1, LineShape
<1>7. LineOf(s)' = <<t>>
  <2>1. Holders(s)' = {t}
    BY <1>1, <1>3, <1>4, <1>5 DEF TypeOK, Holders, Users, Holding
  <2>2. Rest(s)' = <<>>
    <3>1. locks'[s] = l /\ l # NoLock /\ waiters'[l] = <<>>
      BY <1>1, <1>2, <1>4 DEF TypeOK
    <3> QED BY <3>1, WithinEmpty DEF Rest
  <2>3. LineOf(s)' = SetToSeq(Holders(s)') \o Rest(s)'
    BY DEF LineOf, Rest
  <2>4. LineOf(s)' = SetToSeq({t}) \o <<>>
    BY <2>1, <2>2, <2>3
  <2>5. <<t>> \o <<>> = <<t>>
    OBVIOUS
  <2> QED BY <2>4, <2>5, Heads
<1>8. LineOf(s)' = Append(LineOf(s), t)
  BY <1>6, <1>7
<1>9. \A r \in Session : r # s => LineOf(r)' = LineOf(r)
  BY <1>1, <1>2, <1>3, RegisterElsewhere DEF TypeOK
<1>10. \A u \in Task : Holding(u)' <=> Holding(u) \/ u = t
  BY <1>1, <1>3, <1>4, <1>5 DEF TypeOK, Holding
<1> QED BY <1>4, <1>6, <1>8, <1>9, <1>10, Arrives

\* Nobody holds the lock, and nobody of its queue stays: the line is empty.
LEMMA EnterFreeArrives ==
  ASSUME IInv, NEW t \in Task, NEW s \in Session, EnterFree(t, s)
  PROVE  Turns!Arrive(t, s)
<1> USE SessionLockAssumption
<1>1. TypeOK /\ RefInv /\ CountInv /\ QueueInv /\ HolderInv
  BY DEF IInv
<1>2. PICK l \in Lock : l = locks[s]
  BY <1>1 DEF TypeOK, EnterFree
<1>3. FreeToTake(l) /\ Register(t, s, l) /\ waiters' = waiters /\ fut' = fut
  BY <1>2 DEF EnterFree
<1>4. /\ ref[t] = NoLock /\ locks' = [locks EXCEPT ![s] = l]
      /\ ref' = [ref EXCEPT ![t] = l] /\ sess' = [sess EXCEPT ![t] = s]
  BY <1>3 DEF Register
<1>5. fut[t] = "none"
  BY <1>1, <1>4 DEF RefInv
<1>6. Holders(s) = {}
  <2> SUFFICES ASSUME NEW u \in Holders(s) PROVE FALSE
    OBVIOUS
  <2>1. u \in Task /\ Holding(u) /\ ref[u] = l
    BY <1>1, <1>2 DEF Holders, Users, RefInv
  <2> QED BY <1>1, <1>3, <2>1 DEF HolderInv, FreeToTake
<1>7. Rest(s) = <<>>
  <2>1. Rest(s) \in Seq(Task)
    BY RestFacts
  <2>2. \A u \in Task : ~InQueue(Rest(s), u)
    BY <1>2, <1>3, RestFacts DEF Staying, InQueue, FreeToTake
  <2> QED BY <2>1, <2>2 DEF InQueue
<1>8. LineOf(s) = <<>>
  BY <1>6, <1>7, LineShape
<1>9. LineOf(s)' = <<t>>
  <2>1. Holders(s)' = {t}
    BY <1>1, <1>3, <1>4, <1>5, <1>6 DEF TypeOK, Holders, Users, Holding
  <2>2. Rest(s)' = <<>>
    <3>1. locks'[s] = locks[s] /\ Staying' = Staying
      BY <1>1, <1>2, <1>3, <1>4 DEF TypeOK, Staying
    <3> QED BY <3>1, <1>3, <1>7 DEF Rest
  <2>3. LineOf(s)' = SetToSeq(Holders(s)') \o Rest(s)'
    BY DEF LineOf, Rest
  <2>4. LineOf(s)' = SetToSeq({t}) \o <<>>
    BY <2>1, <2>2, <2>3
  <2>5. <<t>> \o <<>> = <<t>>
    OBVIOUS
  <2> QED BY <2>4, <2>5, Heads
<1>10. LineOf(s)' = Append(LineOf(s), t)
  BY <1>8, <1>9
<1>11. \A r \in Session : r # s => LineOf(r)' = LineOf(r)
  BY <1>2, <1>3, RegisterElsewhere
<1>12. \A u \in Task : Holding(u)' <=> Holding(u) \/ u = t
  BY <1>1, <1>2, <1>3, <1>4, <1>5 DEF TypeOK, Holding
<1> QED BY <1>4, <1>8, <1>10, <1>11, <1>12, Arrives

\* The task is the last of the queue, and of the line.
LEMMA EnterQueueArrives ==
  ASSUME IInv, NEW t \in Task, NEW s \in Session, EnterQueue(t, s)
  PROVE  Turns!Arrive(t, s)
<1> USE SessionLockAssumption
<1>1. TypeOK /\ RefInv /\ CountInv /\ QueueInv /\ HolderInv
  BY DEF IInv
<1>2. PICK l \in Lock : l = locks[s]
  BY <1>1 DEF TypeOK, EnterQueue
<1> DEFINE q == waiters[l]
<1>3. /\ Register(t, s, l) /\ waiters' = [waiters EXCEPT ![l] = Append(q, t)]
      /\ fut' = [fut EXCEPT ![t] = "pending"] /\ q \in Seq(Task)
  BY <1>1, <1>2 DEF EnterQueue, TypeOK
<1>4. /\ ref[t] = NoLock /\ locks' = [locks EXCEPT ![s] = l]
      /\ ref' = [ref EXCEPT ![t] = l] /\ sess' = [sess EXCEPT ![t] = s]
  BY <1>3 DEF Register
<1>5. fut[t] = "none" /\ ~InQueue(q, t)
  BY <1>1, <1>4 DEF RefInv, QueueInv
<1> HIDE DEF q
<1>6. Holders(s)' = Holders(s)
  BY <1>1, <1>3, <1>4 DEF TypeOK, Holders, Users, Holding
<1>7. Rest(s)' = Append(Rest(s), t)
  <2>1. Rest(s) = Within(q, Staying)
    BY <1>2 DEF Rest, q
  <2>2. Rest(s)' = Within(Append(q, t), Staying')
    <3>1. locks'[s] = l /\ l # NoLock /\ waiters'[l] = Append(q, t)
      BY <1>1, <1>3, <1>4 DEF TypeOK
    <3> QED BY <3>1 DEF Rest
  <2>3. t \in Staying'
    BY <1>1, <1>3 DEF TypeOK, Staying
  <2>4. Within(Append(q, t), Staying') = Append(Within(q, Staying'), t)
    BY <1>3, <2>3, WithinAppend
  <2>5. \A i \in 1..Len(q) : q[i] \in Staying' <=> q[i] \in Staying
    BY <1>1, <1>3, <1>5 DEF TypeOK, Staying, InQueue
  <2>6. Within(q, Staying') = Within(q, Staying)
    BY <1>3, <2>5, WithinAgrees
  <2> QED BY <2>1, <2>2, <2>4, <2>6
<1>8. LineOf(s)' = Append(LineOf(s), t)
  <2>1. LineOf(s)' = SetToSeq(Holders(s)') \o Rest(s)'
    BY DEF LineOf, Rest
  <2> DEFINE w == Rest(s)
  <2>2. w \in Seq(Task) /\ Append(w, t) \in Seq(Task)
    BY RestFacts
  <2>3. LineOf(s)' = SetToSeq(Holders(s)) \o Append(w, t)
    BY <1>6, <1>7, <2>1
  <2> HIDE DEF w
  <2>4. CASE Holders(s) = {} /\ LineOf(s) = w
    BY <2>2, <2>3, <2>4, Heads, ConcatEmptySeq
  <2>5. ASSUME NEW h \in Task, Holders(s) = {h}, LineOf(s) = <<h>> \o w
        PROVE  LineOf(s)' = Append(LineOf(s), t)
    <3>1. LineOf(s)' = <<h>> \o Append(w, t)
      BY <2>3, <2>5, Heads
    <3>2. <<h>> \o Append(w, t) = Append(<<h>> \o w, t)
      BY <2>2, AppendBehind
    <3> QED BY <2>5, <3>1, <3>2
  <2> QED BY <2>4, <2>5, LineShape DEF w
<1>9. \A r \in Session : r # s => LineOf(r)' = LineOf(r)
  <2>1. \A u \in Task : u # t => fut'[u] = fut[u]
    BY <1>1, <1>3 DEF TypeOK
  <2>2. \A k \in Lock : k # l => waiters'[k] = waiters[k]
    BY <1>1, <1>3 DEF TypeOK
  <2> QED BY <1>2, <1>3, <2>1, <2>2, RegisterElsewhere
<1>10. \A u \in Task : Holding(u)' <=> Holding(u)
  BY <1>1, <1>3, <1>4 DEF TypeOK, Holding
<1> QED BY <1>4, <1>8, <1>9, <1>10, Arrives

\* The first of the queue becomes the holder: the line is what it was.
LEMMA ResumeBegins ==
  ASSUME IInv, NEW t \in Task, Resume(t)
  PROVE  Turns!Begin(sess[t])
<1> USE SessionLockAssumption
<1>1. TypeOK /\ RefInv /\ CountInv /\ QueueInv /\ HolderInv
  BY DEF IInv
<1>2. PICK l \in Lock : l = ref[t]
  BY <1>1 DEF Resume, TypeOK, RefInv
<1>3. PICK s \in Session : s = sess[t]
  BY <1>1 DEF TypeOK
<1> DEFINE q == waiters[l]
           x == WithoutWaiter(q, t)
<1>4. /\ fut[t] = "woken" /\ q \in Seq(Task)
      /\ waiters' = [waiters EXCEPT ![l] = x]
      /\ fut' = [fut EXCEPT ![t] = "none"]
      /\ locks' = locks /\ ref' = ref /\ sess' = sess
  BY <1>1, <1>2 DEF Resume, TypeOK
<1>5. locks[s] = l /\ l # NoLock
  BY <1>1, <1>2, <1>3 DEF RefInv
<1>6. InQueue(q, t) /\ NoRepeat(q) /\ q[1] = t /\ q # <<>>
  BY <1>1, <1>2, <1>4 DEF QueueInv, HolderInv, Waiting, InQueue
<1>7. x \in Seq(Task) /\ ~InQueue(x, t) /\ x = RemoveAt(q, 1)
  <2>1. 1 \in 1..Len(q) /\ \A i \in 1..Len(q) : q[i] = t <=> i = 1
    BY <1>4, <1>6 DEF NoRepeat
  <2>2. (CHOOSE i \in 1..Len(q) : q[i] = t) = 1
    BY <2>1
  <2>3. x = RemoveAt(q, 1)
    BY <2>2 DEF WithoutWaiter
  <2> HIDE DEF q
  <2> QED BY <2>3, <1>4, <1>6, WithoutWaiterProps
<1> HIDE DEF q, x
<1>8. Holders(s) = {}
  BY <1>1, <1>2, <1>3, <1>4, <1>5 DEF Holders, Users, RefInv, HolderInv
<1>9. Holders(s)' = {t}
  BY <1>1, <1>2, <1>3, <1>4, <1>5, <1>8 DEF TypeOK, Holders, Users, Holding
<1>10. Rest(s) = <<t>> \o Rest(s)'
  <2>1. Rest(s) = Within(q, Staying) /\ t \in Staying
    BY <1>4, <1>5 DEF Rest, Staying, q
  <2>2. Rest(s)' = Within(x, Staying')
    BY <1>1, <1>4, <1>5 DEF Rest, TypeOK
  <2>3. Within(q, Staying) = <<q[1]>> \o Within(RemoveAt(q, 1), Staying)
    BY <1>4, <1>6, <2>1, WithinFirst
  <2>4. \A i \in 1..Len(x) : x[i] \in Staying' <=> x[i] \in Staying
    BY <1>1, <1>4, <1>7 DEF TypeOK, Staying, InQueue
  <2>5. Within(x, Staying') = Within(x, Staying)
    BY <1>7, <2>4, WithinAgrees
  <2> QED BY <1>6, <1>7, <2>1, <2>2, <2>3, <2>5
<1>11. LineOf(s) = <<t>> \o Rest(s)' /\ LineOf(s)' = <<t>> \o Rest(s)'
  <2>1. LineOf(s)' = SetToSeq(Holders(s)') \o Rest(s)'
    BY DEF LineOf, Rest
  <2>2. LineOf(s)' = <<t>> \o Rest(s)'
    BY <1>9, <2>1, Heads
  <2> QED BY <1>8, <1>10, <2>2, LineShape
<1>12. \A r \in Session : LineOf(r)' = LineOf(r)
  <2> SUFFICES ASSUME NEW r \in Session, r # s PROVE LineOf(r)' = LineOf(r)
    BY <1>11
  <2>1. Holders(r)' = Holders(r)
    BY <1>1, <1>3, <1>4 DEF TypeOK, Holders, Users, Holding
  <2>2. ASSUME locks[r] # NoLock
        PROVE  /\ waiters'[locks[r]] = waiters[locks[r]]
               /\ \A u \in Task : InQueue(waiters[locks[r]], u) => (u \in Staying' <=> u \in Staying)
    <3>1. locks[r] \in Lock /\ locks[r] # l
      BY <1>1, <1>5, <2>2 DEF TypeOK, RefInv
    <3>2. waiters'[locks[r]] = waiters[locks[r]] /\ ~InQueue(waiters[locks[r]], t)
      BY <1>1, <1>2, <1>4, <3>1 DEF TypeOK, QueueInv
    <3>3. \A u \in Task : u # t => (u \in Staying' <=> u \in Staying)
      BY <1>1, <1>4 DEF TypeOK, Staying
    <3> QED BY <3>2, <3>3
  <2> QED BY <1>4, <2>1, <2>2, SameLine
<1>13. LineOf(s) # <<>> /\ Head(LineOf(s)) = t
  <2> DEFINE w == Rest(s)
  <2>0. LineOf(s) = w /\ w \in Seq(Task)
    BY <1>8, LineShape, RestFacts
  <2>1. w = Within(q, Staying) /\ t \in Staying
    BY <1>4, <1>5 DEF Rest, Staying, q
  <2>2. Within(RemoveAt(q, 1), Staying) \in Seq(Task)
    BY <1>7, WithinSeq
  <2>3. w = <<t>> \o Within(RemoveAt(q, 1), Staying)
    BY <1>4, <1>6, <2>1, WithinFirst
  <2> HIDE DEF w
  <2> DEFINE v == Within(RemoveAt(q, 1), Staying)
  <2> HIDE DEF v
  <2>4. v \in Seq(Task) /\ LineOf(s) = <<t>> \o v
    BY <2>0, <2>2, <2>3 DEF v
  <2> QED BY <2>4
<1>14. /\ ~Holding(t)
       /\ { u \in Task : Holding(u) }' = { u \in Task : Holding(u) } \cup {t}
  BY <1>1, <1>2, <1>4, <1>5 DEF TypeOK, Holding
<1>15. [r \in Session |-> LineOf(r)]' = [r \in Session |-> LineOf(r)]
  BY <1>12
<1> QED BY <1>3, <1>13, <1>14, <1>15 DEF Turns!Begin

\* Leaving disturbs no other session.
LEMMA UnregisterElsewhere ==
  ASSUME IInv, NEW t \in Task, ref[t] # NoLock, Unregister(t),
         NEW r \in Session, r # sess[t],
         \A u \in Task : u # t => (fut'[u] = "none" <=> fut[u] = "none")
                                  /\ (u \in Staying' <=> u \in Staying),
         \A k \in Lock : k # ref[t] => waiters'[k] = waiters[k]
  PROVE  LineOf(r)' = LineOf(r)
<1>1. TypeOK /\ RefInv /\ QueueInv
  BY DEF IInv
<1>2. /\ locks' = [locks EXCEPT ![sess[t]] = IF count[sess[t]] = 1 THEN NoLock ELSE @]
      /\ ref' = [ref EXCEPT ![t] = NoLock] /\ sess' = sess
  BY DEF Unregister
<1>3. locks'[r] = locks[r]
  BY <1>1, <1>2 DEF TypeOK
<1>4. Holders(r)' = Holders(r)
  BY <1>1, <1>2 DEF TypeOK, Holders, Users, Holding
<1>5. ASSUME locks[r] # NoLock
      PROVE  /\ waiters'[locks[r]] = waiters[locks[r]]
             /\ \A u \in Task : InQueue(waiters[locks[r]], u) => (u \in Staying' <=> u \in Staying)
  <2>1. locks[r] \in Lock /\ locks[r] # ref[t]
    BY <1>1, <1>5 DEF TypeOK, RefInv
  <2>2. ~InQueue(waiters[locks[r]], t)
    BY <1>1, <2>1 DEF QueueInv
  <2> QED BY <2>1, <2>2
<1> QED BY <1>3, <1>4, <1>5, SameLine

\* Waking makes nobody stay or leave.
LEMMA WakeFirstStays ==
  ASSUME NEW q \in Seq(Task), NEW f \in [Task -> FutState], NEW u \in Task
  PROVE  /\ WakeFirst(q, f)[u] = "none" <=> f[u] = "none"
         /\ WakeFirst(q, f)[u] \in {"pending", "woken"} <=> f[u] \in {"pending", "woken"}
<1>1. \/ WakeFirst(q, f)[u] = f[u]
      \/ f[u] = "pending" /\ WakeFirst(q, f)[u] = "woken"
  BY WakeFirstProps
<1> QED BY <1>1

\* The rest of the line a task leaves is what stays in the queue of its lock, even if
\* nobody does and the dictionary drops the lock.
LEMMA RestAfterLeaving ==
  ASSUME IInv, IInv', NEW t \in Task, ref[t] # NoLock, Unregister(t),
         \A u \in Task : InQueue(waiters'[ref[t]], u) => u # t /\ ref[u] = ref[t]
  PROVE  Rest(sess[t])' = Within(waiters'[ref[t]], Staying')
<1>1. TypeOK /\ RefInv /\ TypeOK' /\ CountInv'
  BY DEF IInv
<1>2. PICK s \in Session, l \in Lock : s = sess[t] /\ l = ref[t]
  BY <1>1 DEF TypeOK
<1>3. /\ locks' = [locks EXCEPT ![s] = IF count[s] = 1 THEN NoLock ELSE @]
      /\ ref' = [ref EXCEPT ![t] = NoLock] /\ sess' = sess /\ locks[s] = l
  BY <1>1, <1>2 DEF Unregister, RefInv
<1>4. Rest(sess[t])' = Rest(s)'
  <2>1. Rest(sess[t])' = IF locks'[sess'[t]] = NoLock THEN <<>>
                         ELSE Within(waiters'[locks'[sess'[t]]], Staying')
    BY DEF Rest
  <2> QED BY <2>1, <1>2, <1>3 DEF Rest
<1> DEFINE x == waiters'[l]
<1>5. x \in Seq(Task)
  BY <1>1 DEF TypeOK
<1>6. CASE locks'[s] = NoLock
  <2>1. Users(s)' = {}
    BY <1>1, <1>6 DEF CountInv
  <2>2. ASSUME NEW u \in Task, InQueue(x, u) PROVE FALSE
    <3>1. u # t /\ ref[u] = l
      BY <1>2, <2>2
    <3>2. sess[u] \in Session /\ locks[sess[u]] = l /\ l # NoLock
      BY <1>1, <1>2, <3>1 DEF TypeOK, RefInv
    <3>3. sess[u] = s
      BY <1>1, <1>3, <3>2 DEF RefInv
    <3>4. u \in Users(s)'
      BY <1>1, <1>3, <3>1, <3>2, <3>3 DEF Users, TypeOK
    <3> QED BY <2>1, <3>4
  <2> HIDE DEF x
  <2> DEFINE w == Within(x, Staying')
  <2>3. w \in Seq(Task)
    BY <1>5, WithinSeq
  <2>4. \A u \in Task : ~InQueue(w, u)
    BY <1>5, <2>2, WithinMembers
  <2> HIDE DEF w
  <2>5. w = <<>>
    BY <2>3, <2>4 DEF InQueue
  <2>6. Rest(s)' = <<>>
    BY <1>6 DEF Rest
  <2> QED BY <1>2, <1>4, <2>5, <2>6 DEF w, x
<1>7. CASE locks'[s] # NoLock
  <2>1. locks'[s] = l
    BY <1>1, <1>3, <1>7 DEF TypeOK
  <2> QED BY <1>2, <1>4, <1>7, <2>1 DEF Rest
<1> QED BY <1>6, <1>7

\* The holder leaves, and whom it wakes stays where it was.
LEMMA ExitFinishes ==
  ASSUME IInv, IInv', NEW t \in Task, Exit(t)
  PROVE  Turns!Finish(sess[t])
<1>1. TypeOK /\ RefInv /\ QueueInv /\ HolderInv
  BY DEF IInv
<1>2. PICK s \in Session, l \in Lock : s = sess[t] /\ l = ref[t]
  BY <1>1 DEF TypeOK, Exit, Holding
<1> DEFINE q == waiters[l]
<1>3. /\ Holding(t) /\ ref[t] # NoLock /\ fut[t] = "none" /\ q \in Seq(Task)
      /\ Unregister(t) /\ waiters' = waiters /\ fut' = WakeFirst(q, fut)
  BY <1>1, <1>2 DEF Exit, Holding, TypeOK
<1>4. /\ ref' = [ref EXCEPT ![t] = NoLock] /\ sess' = sess /\ locks[s] = l /\ l # NoLock
  BY <1>1, <1>2, <1>3 DEF Unregister, RefInv
<1> HIDE DEF q
<1>5. \A u \in Task : /\ fut'[u] = "none" <=> fut[u] = "none"
                      /\ u \in Staying' <=> u \in Staying
  BY <1>1, <1>3, WakeFirstStays DEF TypeOK, Staying
<1>6. Staying' = Staying
  BY <1>5 DEF Staying
<1>7. \A u \in Task : InQueue(q, u) => u # t /\ ref[u] = l
  BY <1>1, <1>2, <1>3 DEF QueueInv, Waiting, q
<1>8. Rest(s)' = Rest(s)
  <2>1. Rest(sess[t])' = Within(waiters'[l], Staying')
    BY <1>2, <1>3, <1>7, RestAfterLeaving DEF q
  <2>2. Rest(sess[t])' = Rest(s)'
    BY <1>2, <1>4 DEF Rest
  <2>3. Rest(s) = Within(waiters[l], Staying)
    BY <1>4 DEF Rest
  <2> QED BY <1>3, <1>6, <2>1, <2>2, <2>3
<1>9. Holders(s) = {t}
  BY <1>1, <1>2, <1>3 DEF Holders, Users, RefInv, HolderInv
<1>10. Holders(s)' = {}
  BY <1>1, <1>2, <1>4, <1>5, <1>9 DEF TypeOK, Holders, Users, Holding
<1>11. Rest(s) \in Seq(Task)
  BY RestFacts
<1>12. LineOf(s) = <<t>> \o Rest(s)
  BY <1>9, LineShape
<1>13. LineOf(s)' = Rest(s)
  <2>1. LineOf(s)' = SetToSeq(Holders(s)') \o Rest(s)'
    BY DEF LineOf, Rest
  <2> QED BY <1>8, <1>10, <1>11, <2>1, Heads, ConcatEmptySeq
<1>14. LineOf(s) # <<>> /\ Head(LineOf(s)) = t /\ LineOf(s)' = Tail(LineOf(s))
  <2> DEFINE w == Rest(s)
  <2> HIDE DEF w
  <2>1. w \in Seq(Task) /\ LineOf(s) = <<t>> \o w /\ LineOf(s)' = w
    BY <1>11, <1>12, <1>13 DEF w
  <2>2. <<t>> \o w # <<>> /\ Head(<<t>> \o w) = t /\ Tail(<<t>> \o w) = w
    BY <2>1
  <2> QED BY <2>1, <2>2
<1>15. \A r \in Session : r # s => LineOf(r)' = LineOf(r)
  BY <1>2, <1>3, <1>5, UnregisterElsewhere
<1>16. { u \in Task : Holding(u) }' = { u \in Task : Holding(u) } \ {t}
  BY <1>1, <1>4, <1>5 DEF TypeOK, Holding
<1>17. [r \in Session |-> LineOf(r)]'
         = [[r \in Session |-> LineOf(r)] EXCEPT ![s] = Tail(LineOf(s))]
  BY <1>14, <1>15
<1> QED BY <1>2, <1>3, <1>14, <1>16, <1>17 DEF Turns!Finish

\* A cancelled task is in the queue still, and no longer in the line.
LEMMA CancelGivesUp ==
  ASSUME IInv, NEW t \in Task, Cancel(t)
  PROVE  Turns!GiveUp(t, sess[t])
<1>1. TypeOK /\ RefInv /\ QueueInv
  BY DEF IInv
<1>2. /\ fut[t] \in {"pending", "woken"}
      /\ fut' = [fut EXCEPT ![t] = IF @ = "pending" THEN "cancelled" ELSE "interrupted"]
      /\ locks' = locks /\ ref' = ref /\ sess' = sess /\ waiters' = waiters
  BY DEF Cancel
<1>3. PICK s \in Session, l \in Lock : s = sess[t] /\ l = ref[t]
  BY <1>1, <1>2 DEF TypeOK, RefInv
<1> DEFINE q == waiters[l]
           w == Within(q, Staying)
<1>4. locks[s] = l /\ l # NoLock /\ q \in Seq(Task) /\ InQueue(q, t) /\ NoRepeat(q)
  BY <1>1, <1>2, <1>3 DEF TypeOK, RefInv, QueueInv, Waiting
<1>5. Staying' = Staying \ {t} /\ t \in Staying
  BY <1>1, <1>2 DEF TypeOK, Staying
<1>6. PICK i \in 1..Len(w) : w[i] = t /\ Within(q, Staying \ {t}) = RemoveAt(w, i)
  BY <1>4, <1>5, WithinFewer
<1>7. Rest(s) = w /\ Rest(s)' = RemoveAt(w, i) /\ w \in Seq(Task)
  BY <1>2, <1>4, <1>5, <1>6, WithinSeq DEF Rest
<1> HIDE DEF q, w
<1>8. \A u \in Task : Holding(u)' <=> Holding(u)
  BY <1>1, <1>2 DEF TypeOK, Holding
<1>9. Holders(s)' = Holders(s)
  BY <1>2, <1>8 DEF Holders, Users
<1>10. LineOf(s)' = SetToSeq(Holders(s)) \o RemoveAt(w, i)
  BY <1>7, <1>9 DEF LineOf, Rest
<1>11. \E j \in 1..Len(LineOf(s)) : LineOf(s)[j] = t /\ LineOf(s)' = RemoveAt(LineOf(s), j)
  <2>0. RemoveAt(w, i) \in Seq(Task)
    BY <1>6, <1>7, RemoveAtProps
  <2>1. CASE Holders(s) = {} /\ LineOf(s) = w
    BY <2>0, <2>1, <1>6, <1>10, Heads, ConcatEmptySeq
  <2>2. ASSUME NEW h \in Task, Holders(s) = {h}, LineOf(s) = <<h>> \o w
        PROVE  \E j \in 1..Len(LineOf(s)) : LineOf(s)[j] = t /\ LineOf(s)' = RemoveAt(LineOf(s), j)
    <3>1. LineOf(s)' = <<h>> \o RemoveAt(w, i)
      BY <1>10, <2>2, Heads
    <3>2. RemoveAt(<<h>> \o w, i + 1) = <<h>> \o RemoveAt(w, i)
      BY <1>6, <1>7, RemoveBehind
    <3>3. i + 1 \in 1..Len(<<h>> \o w) /\ (<<h>> \o w)[i + 1] = t
      BY <1>6, <1>7
    <3> QED BY <2>2, <3>1, <3>2, <3>3
  <2> QED BY <2>1, <2>2, <1>7, LineShape
<1>12. \A r \in Session : r # s => LineOf(r)' = LineOf(r)
  <2> SUFFICES ASSUME NEW r \in Session, r # s PROVE LineOf(r)' = LineOf(r)
    OBVIOUS
  <2>1. Holders(r)' = Holders(r)
    BY <1>2, <1>8 DEF Holders, Users
  <2>2. ASSUME locks[r] # NoLock, NEW u \in Task, InQueue(waiters[locks[r]], u)
        PROVE  u \in Staying' <=> u \in Staying
    <3>1. locks[r] \in Lock /\ locks[r] # l
      BY <1>1, <1>4, <2>2 DEF TypeOK, RefInv
    <3>2. u # t
      BY <1>1, <1>3, <2>2, <3>1 DEF QueueInv
    <3> QED BY <1>5, <3>2
  <2> QED BY <1>2, <2>1, <2>2, SameLine
<1>13. PICK j \in 1..Len(LineOf(s)) : LineOf(s)[j] = t /\ LineOf(s)' = RemoveAt(LineOf(s), j)
  BY <1>11
<1>14. [r \in Session |-> LineOf(r)]'
         = [[r \in Session |-> LineOf(r)] EXCEPT ![s] = RemoveAt(LineOf(s), j)]
  BY <1>12, <1>13
<1>15. /\ t \notin { u \in Task : Holding(u) }
       /\ { u \in Task : Holding(u) }' = { u \in Task : Holding(u) }
  BY <1>2, <1>8 DEF Holding
<1> QED BY <1>3, <1>13, <1>14, <1>15 DEF Turns!GiveUp, Turns!RemoveAt, RemoveAt

\* A cancelled task leaves the queue: it was not in the line any more.
LEMMA UnwindStutters ==
  ASSUME IInv, IInv', NEW t \in Task, Unwind(t)
  PROVE  UNCHANGED Turns!vars
<1>1. TypeOK /\ RefInv /\ QueueInv
  BY DEF IInv
<1>2. PICK s \in Session, l \in Lock : s = sess[t] /\ l = ref[t]
  BY <1>1 DEF TypeOK, RefInv, Unwind
<1> DEFINE q == waiters[l]
           x == WithoutWaiter(q, t)
           f == [fut EXCEPT ![t] = "none"]
<1>3. /\ fut[t] \in {"cancelled", "interrupted"} /\ q \in Seq(Task)
      /\ waiters' = [waiters EXCEPT ![l] = x]
      /\ fut' = IF locked[l] THEN f ELSE WakeFirst(x, f)
      /\ Unregister(t)
  BY <1>1, <1>2 DEF Unwind, TypeOK
<1>4. /\ ref' = [ref EXCEPT ![t] = NoLock] /\ sess' = sess /\ locks[s] = l /\ l # NoLock
      /\ ref[t] # NoLock
  BY <1>1, <1>2, <1>3 DEF Unregister, RefInv
<1>5. InQueue(q, t) /\ NoRepeat(q)
  BY <1>1, <1>2, <1>3 DEF QueueInv, Waiting
<1>6. /\ x \in Seq(Task) /\ ~InQueue(x, t)
      /\ \A u \in Task : u # t => (InQueue(q, u) <=> InQueue(x, u))
  BY <1>3, <1>5, WithoutWaiterProps
<1>7. Within(x, Staying) = Within(q, Staying)
  <2> DEFINE i == CHOOSE i \in 1..Len(q) : q[i] = t
  <2>1. i \in 1..Len(q) /\ q[i] = t
    BY <1>5 DEF InQueue
  <2>2. x = RemoveAt(q, i)
    BY DEF WithoutWaiter
  <2>3. t \notin Staying
    BY <1>3 DEF Staying
  <2> HIDE DEF i, x, q
  <2> QED BY <1>3, <2>1, <2>2, <2>3, WithinWithout
<1> HIDE DEF x
<1>8. f \in [Task -> FutState] /\ f[t] = "none" /\ \A u \in Task : u # t => f[u] = fut[u]
  BY <1>1 DEF TypeOK, FutState
<1> HIDE DEF f
<1>9. /\ fut'[t] = "none"
      /\ \A u \in Task : u # t => /\ fut'[u] = "none" <=> fut[u] = "none"
                                  /\ u \in Staying' <=> u \in Staying
  BY <1>3, <1>6, <1>8, WakeFirstStays DEF Staying
<1>10. Staying' = Staying
  BY <1>3, <1>9 DEF Staying
<1>11. \A u \in Task : Holding(u)' <=> Holding(u)
  BY <1>1, <1>3, <1>4, <1>9 DEF TypeOK, Holding
<1>12. waiters'[l] = x /\ \A k \in Lock : k # l => waiters'[k] = waiters[k]
  BY <1>1, <1>3 DEF TypeOK
<1>13. Rest(s)' = Rest(s)
  <2>1. \A u \in Task : InQueue(waiters'[l], u) => u # t /\ ref[u] = l
    BY <1>1, <1>2, <1>6, <1>12 DEF QueueInv
  <2>2. Rest(sess[t])' = Within(x, Staying')
    BY <1>2, <1>3, <1>4, <1>12, <2>1, RestAfterLeaving
  <2>3. Rest(sess[t])' = Rest(s)'
    BY <1>2, <1>4 DEF Rest
  <2>4. Rest(s) = Within(q, Staying)
    BY <1>4 DEF Rest
  <2> QED BY <1>7, <1>10, <2>2, <2>3, <2>4
<1>14. LineOf(s)' = LineOf(s)
  <2>1. Holders(s)' = Holders(s)
    BY <1>1, <1>3, <1>4, <1>11 DEF Holders, Users, Holding, TypeOK
  <2> QED BY <1>13, <2>1 DEF LineOf, Rest
<1>15. \A r \in Session : r # s => LineOf(r)' = LineOf(r)
  BY <1>2, <1>3, <1>4, <1>9, <1>12, UnregisterElsewhere
<1> QED BY <1>11, <1>14, <1>15 DEF Turns!vars

\* The line of every session moves as SessionTurns says: with EnterNew, EnterFree and
\* EnterQueue a task arrives, with Resume a turn begins, with Exit it ends, with Cancel a
\* task gives up its place; unwinding a cancellation is no step of the line.
THEOREM Refines == Spec => TurnsInOrder
<1>1. Init => Turns!Init
  <2> SUFFICES ASSUME Init PROVE Turns!Init
    OBVIOUS
  <2>1. \A s \in Session : Holders(s) = {} /\ Rest(s) = <<>>
    BY DEF Init, Holders, Users, Rest
  <2>2. \A s \in Session : LineOf(s) = <<>>
    BY <2>1, InitIInv, LineShape
  <2>3. { t \in Task : Holding(t) } = {}
    BY DEF Init, Holding
  <2> QED BY <2>2, <2>3 DEF Turns!Init
<1>2. IInv /\ IInv' /\ [Next]_vars => [Turns!Next]_(Turns!vars)
  <2> SUFFICES ASSUME IInv, IInv', [Next]_vars
               PROVE  Turns!Next \/ UNCHANGED Turns!vars
    OBVIOUS
  <2>1. ASSUME NEW t \in Task, NEW s \in Session,
               EnterNew(t, s) \/ EnterFree(t, s) \/ EnterQueue(t, s)
        PROVE  Turns!Next
    <3>1. Turns!Arrive(t, s)
      BY <2>1, EnterNewArrives, EnterFreeArrives, EnterQueueArrives
    <3> QED BY <3>1 DEF Turns!Next
  <2>2. \A t \in Task : sess[t] \in Session
    BY DEF IInv, TypeOK
  <2>3. ASSUME NEW t \in Task, Resume(t) PROVE Turns!Next
    BY <2>2, <2>3, ResumeBegins DEF Turns!Next
  <2>4. ASSUME NEW t \in Task, Exit(t) PROVE Turns!Next
    BY <2>2, <2>4, ExitFinishes DEF Turns!Next
  <2>5. ASSUME NEW t \in Task, Cancel(t) PROVE Turns!Next
    BY <2>2, <2>5, CancelGivesUp DEF Turns!Next
  <2>6. ASSUME NEW t \in Task, Unwind(t) PROVE UNCHANGED Turns!vars
    BY <2>6, UnwindStutters
  <2>7. CASE UNCHANGED vars
    BY <2>7 DEF vars, Turns!vars, LineOf, Holders, Users, Staying, Holding
  <2> QED BY <2>1, <2>3, <2>4, <2>5, <2>6, <2>7 DEF Next
<1> QED BY <1>1, <1>2, Invariance, PTL DEF Spec, TurnsInOrder, Turns!Spec
===============================================================================
