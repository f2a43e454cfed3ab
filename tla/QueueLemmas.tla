------------------------------ MODULE QueueLemmas ------------------------------
(***************************************************************************)
(* Queues without repetitions, removals, suffixes of sequences, and the    *)
(* least member of a set of naturals: what the proofs about waiters of a   *)
(* lock, filters of session waiters, order slots and stamps have in common.*)
(***************************************************************************)
EXTENDS Naturals, Sequences, SequencesExt, SequenceTheorems, WellFoundedInduction, TLAPS

InQueue(q, u) == \E i \in 1..Len(q) : q[i] = u
NoRepeat(q)   == \A i, j \in 1..Len(q) : q[i] = q[j] => i = j

\* Removing the element at a place keeps the others, in order.
LEMMA RemoveAtProps ==
  ASSUME NEW S, NEW q \in Seq(S), NEW i \in 1..Len(q)
  PROVE  LET r == RemoveAt(q, i) IN
         /\ r \in Seq(S) /\ Len(r) = Len(q) - 1
         /\ \A j \in 1..Len(r) : r[j] = IF j < i THEN q[j] ELSE q[j + 1]
<1> DEFINE a == SubSeq(q, 1, i - 1)
           b == SubSeq(q, i + 1, Len(q))
           r == RemoveAt(q, i)
<1>0. Len(q) \in Nat /\ i \in 1..Len(q) /\ \A k \in 1..Len(q) : q[k] \in S
  OBVIOUS
<1>1. /\ a \in Seq(S) /\ Len(a) = i - 1
      /\ \A k \in 1..(i - 1) : a[k] = q[k]
  <2>1. \A k \in 1..(i - 1) : q[k] \in S
    BY <1>0
  <2> HIDE DEF a
  <2>2. /\ SubSeq(q, 1, i - 1) \in Seq(S)
        /\ Len(SubSeq(q, 1, i - 1)) = IF 1 <= i - 1 THEN (i - 1) - 1 + 1 ELSE 0
        /\ \A k \in 1..((i - 1) - 1 + 1) : SubSeq(q, 1, i - 1)[k] = q[1 + k - 1]
    BY <2>1, <1>0, SubSeqProperties
  <2> QED BY <2>2, <1>0 DEF a
<1>2. /\ b \in Seq(S) /\ Len(b) = Len(q) - i
      /\ \A k \in 1..(Len(q) - i) : b[k] = q[i + k]
  <2>1. \A k \in (i + 1)..Len(q) : q[k] \in S
    BY <1>0
  <2> HIDE DEF b
  <2>2. /\ SubSeq(q, i + 1, Len(q)) \in Seq(S)
        /\ Len(SubSeq(q, i + 1, Len(q)))
             = IF i + 1 <= Len(q) THEN Len(q) - (i + 1) + 1 ELSE 0
        /\ \A k \in 1..(Len(q) - (i + 1) + 1) :
             SubSeq(q, i + 1, Len(q))[k] = q[(i + 1) + k - 1]
    BY <2>1, <1>0, SubSeqProperties
  <2> QED BY <2>2, <1>0 DEF b
<1>3. r = a \o b
  BY DEF RemoveAt
<1> HIDE DEF a, b, r
<1>4. /\ a \o b \in Seq(S) /\ Len(a \o b) = Len(a) + Len(b)
      /\ \A k \in 1..(Len(a) + Len(b)) :
           (a \o b)[k] = IF k <= Len(a) THEN a[k] ELSE b[k - Len(a)]
  BY <1>1, <1>2, ConcatProperties
<1>5. Len(r) = Len(q) - 1
  BY <1>0, <1>1, <1>2, <1>3, <1>4
<1>6. ASSUME NEW j \in 1..Len(r)
      PROVE  r[j] = IF j < i THEN q[j] ELSE q[j + 1]
  <2>1. CASE j < i
    <3> j <= Len(a) /\ j \in 1..(i - 1)
      BY <1>0, <1>1, <2>1
    <3> r[j] = a[j]
      BY <1>3, <1>4, <1>5, <1>1, <1>2, <1>0
    <3> QED BY <1>1, <2>1
  <2>2. CASE ~ (j < i)
    <3> ~ (j <= Len(a)) /\ j - Len(a) \in 1..(Len(q) - i) /\ i + (j - Len(a)) = j + 1
      BY <1>0, <1>1, <1>5, <2>2
    <3> r[j] = b[j - Len(a)]
      BY <1>3, <1>4, <1>5, <1>1, <1>2, <1>0
    <3> QED BY <1>2, <2>2
  <2> QED BY <2>1, <2>2
<1> QED BY <1>1, <1>2, <1>3, <1>4, <1>5, <1>6 DEF r

\* Removing an element from a queue without repetitions keeps the others, in
\* order, and keeps the first one first unless it is the one removed.
LEMMA RemovalProps ==
  ASSUME NEW S, NEW q \in Seq(S), NEW t \in S, InQueue(q, t), NoRepeat(q)
  PROVE  LET r == RemoveAt(q, CHOOSE k \in 1..Len(q) : q[k] = t) IN
         /\ r \in Seq(S)
         /\ NoRepeat(r)
         /\ ~ InQueue(r, t)
         /\ \A u \in S : u # t => (InQueue(q, u) <=> InQueue(r, u))
         /\ q[1] # t => r # <<>> /\ r[1] = q[1]
<1> DEFINE i == CHOOSE k \in 1..Len(q) : q[k] = t
           r == RemoveAt(q, CHOOSE k \in 1..Len(q) : q[k] = t)
<1>1. i \in 1..Len(q) /\ q[i] = t
  BY DEF InQueue
<1>2. r = SubSeq(q, 1, i - 1) \o SubSeq(q, i + 1, Len(q))
  BY DEF RemoveAt
<1> HIDE DEF i, r
<1>3. /\ r \in Seq(S)
      /\ Len(r) = Len(q) - 1
      /\ \A j \in 1..Len(r) : r[j] = IF j < i THEN q[j] ELSE q[j + 1]
  BY <1>1, RemoveAtProps DEF r, i
<1>4. \A k \in 1..Len(q) : k # i => \E j \in 1..Len(r) : r[j] = q[k]
  <2> SUFFICES ASSUME NEW k \in 1..Len(q), k # i
               PROVE  \E j \in 1..Len(r) : r[j] = q[k]
    OBVIOUS
  <2>1. CASE k < i
    <3> k \in 1..Len(r) /\ r[k] = q[k]
      BY <1>1, <1>3, <2>1
    <3> QED OBVIOUS
  <2>2. CASE k > i
    <3> (k - 1) \in 1..Len(r) /\ r[k - 1] = q[k]
      BY <1>1, <1>3, <2>2
    <3> QED OBVIOUS
  <2> QED BY <1>1, <2>1, <2>2
<1>4a. \A j \in 1..Len(r) : \E k \in 1..Len(q) : k # i /\ r[j] = q[k]
  <2> SUFFICES ASSUME NEW j \in 1..Len(r)
               PROVE  \E k \in 1..Len(q) : k # i /\ r[j] = q[k]
    OBVIOUS
  <2>1. /\ Len(q) \in Nat /\ i \in Int
        /\ j < i => j \in 1..Len(q) /\ j # i
        /\ ~ (j < i) => j + 1 \in 1..Len(q) /\ j + 1 # i
    BY <1>1, <1>3
  <2>2. CASE j < i
    BY <1>3, <2>1, <2>2
  <2>3. CASE ~ (j < i)
    BY <1>3, <2>1, <2>3
  <2> QED BY <2>2, <2>3
<1>5. NoRepeat(r)
  BY <1>1, <1>3 DEF NoRepeat
<1>6. ~ InQueue(r, t)
  BY <1>1, <1>4a DEF NoRepeat, InQueue
<1>7. ASSUME NEW u \in S, u # t
      PROVE  InQueue(q, u) <=> InQueue(r, u)
  <2>1. InQueue(q, u) => InQueue(r, u)
    BY <1>1, <1>4, <1>7 DEF InQueue
  <2>2. InQueue(r, u) => InQueue(q, u)
    BY <1>4a DEF InQueue
  <2> QED BY <2>1, <2>2
<1>8. ASSUME q[1] # t
      PROVE  r # <<>> /\ r[1] = q[1]
  <2> i > 1 /\ Len(r) >= 1 /\ 1 \in 1..Len(r)
    BY <1>1, <1>3, <1>8
  <2> QED BY <1>3
<1> QED BY <1>3, <1>5, <1>6, <1>7, <1>8 DEF r

\* A newcomer stands behind the others.
LEMMA AppendProps ==
  ASSUME NEW S, NEW q \in Seq(S), NEW t \in S, ~ InQueue(q, t), NoRepeat(q)
  PROVE  LET r == Append(q, t) IN
         /\ r \in Seq(S)
         /\ NoRepeat(r)
         /\ InQueue(r, t)
         /\ \A u \in S : u # t => (InQueue(q, u) <=> InQueue(r, u))
         /\ r[1] = IF q = <<>> THEN t ELSE q[1]
<1> DEFINE r == Append(q, t)
<1>1. /\ r \in Seq(S) /\ Len(r) = Len(q) + 1 /\ Len(q) \in Nat
      /\ \A k \in 1..Len(q) : r[k] = q[k]
      /\ r[Len(q) + 1] = t
  BY AppendProperties
<1>2. q = <<>> <=> Len(q) = 0
  BY EmptySeq
<1> HIDE DEF r
<1>3. \A k \in 1..Len(r) : k \in 1..Len(q) \/ k = Len(q) + 1
  BY <1>1
<1>4. NoRepeat(r)
  BY <1>1, <1>3 DEF NoRepeat, InQueue
<1>5. InQueue(r, t) /\ \A u \in S : u # t => (InQueue(q, u) <=> InQueue(r, u))
  BY <1>1, <1>3 DEF InQueue
<1> QED BY <1>1, <1>2, <1>4, <1>5 DEF r

\* The first one leaves.
LEMMA TailProps ==
  ASSUME NEW S, NEW q \in Seq(S), q # <<>>, NoRepeat(q)
  PROVE  LET r == Tail(q) IN
         /\ r \in Seq(S)
         /\ NoRepeat(r)
         /\ \A u \in S : InQueue(r, u) <=> InQueue(q, u) /\ u # q[1]
<1> DEFINE r == Tail(q)
<1>1. /\ r \in Seq(S) /\ Len(r) = Len(q) - 1 /\ Len(q) \in Nat \ {0}
      /\ \A k \in 1..Len(r) : r[k] = q[k + 1]
  BY HeadTailProperties, EmptySeq
<1> HIDE DEF r
<1>2. NoRepeat(r)
  BY <1>1 DEF NoRepeat
<1>3. ASSUME NEW u \in S PROVE InQueue(r, u) <=> InQueue(q, u) /\ u # q[1]
  <2>1. ASSUME NEW k \in 1..Len(q), q[k] = u, u # q[1] PROVE InQueue(r, u)
    <3> k - 1 \in 1..Len(r) /\ r[k - 1] = q[k]
      BY <1>1, <2>1
    <3> QED BY <2>1 DEF InQueue
  <2>2. ASSUME NEW k \in 1..Len(r), r[k] = u PROVE InQueue(q, u) /\ u # q[1]
    <3> k + 1 \in 1..Len(q) /\ 1 \in 1..Len(q) /\ k + 1 # 1 /\ q[k + 1] = u
      BY <1>1, <2>2
    <3> QED BY DEF InQueue, NoRepeat
  <2> QED BY <2>1, <2>2 DEF InQueue
<1> QED BY <1>1, <1>2, <1>3 DEF r

\* A set of numbers that is not empty has a least one.
LEMMA LeastOf ==
  ASSUME NEW O, O \subseteq Nat, O # {}
  PROVE  LET x == CHOOSE i \in O : \A j \in O : i <= j IN
         x \in O /\ \A j \in O : x <= j
<1>1. PICK x \in O : \A y \in O : ~ (<<y, x>> \in OpToRel(<, Nat))
  BY NatLessThanWellFounded, WFMin
<1>2. \A y \in O : x <= y
  <2> SUFFICES ASSUME NEW y \in O, y < x PROVE FALSE
    OBVIOUS
  <2>1. <<y, x>> \in OpToRel(<, Nat)
    BY DEF OpToRel
  <2> QED BY <1>1, <2>1
<1> QED BY <1>2

\* What is left of a queue from its place k on.
LEMMA SuffixProps ==
  ASSUME NEW S, NEW q \in Seq(S), NEW k \in 1..Len(q)
  PROVE  LET r == SubSeq(q, k, Len(q)) IN
         /\ r \in Seq(S) /\ Len(r) = Len(q) - k + 1
         /\ \A i \in 1..Len(r) : r[i] = q[k - 1 + i]
<1>1. \A i \in k..Len(q) : q[i] \in S
  OBVIOUS
<1>2. Len(q) \in Nat
  OBVIOUS
<1>3. /\ SubSeq(q, k, Len(q)) \in Seq(S)
      /\ Len(SubSeq(q, k, Len(q))) = IF k <= Len(q) THEN Len(q) - k + 1 ELSE 0
      /\ \A i \in 1..(Len(q) - k + 1) : SubSeq(q, k, Len(q))[i] = q[k + i - 1]
  BY <1>1, <1>2, SubSeqProperties
<1> QED BY <1>2, <1>3

\* A set of sequences with the empty one, and with each also the one that is longer by
\* one, is all of them.
LEMMA BuiltByAppending ==
  ASSUME NEW T, NEW P, P \subseteq Seq(T), <<>> \in P,
         \A q \in P, t \in T : Append(q, t) \in P
  PROVE  P = Seq(T)
<1> DEFINE bad == { Len(q) : q \in Seq(T) \ P }
<1>1. SUFFICES ASSUME bad # {} PROVE FALSE
  OBVIOUS
<1>2. PICK k \in bad : \A j \in bad : k <= j
  <2> bad \subseteq Nat
    OBVIOUS
  <2> HIDE DEF bad
  <2> QED BY <1>1, LeastOf
<1>3. PICK q \in Seq(T) \ P : k = Len(q)
  BY <1>2
<1>4. PICK r \in Seq(T), t \in T : q = Append(r, t)
  BY <1>3, SequenceEmptyOrAppend
<1>5. Len(q) = Len(r) + 1
  BY <1>4, AppendProperties
<1>6. r \in P
  <2>1. ~(k <= Len(r))
    BY <1>3, <1>5
  <2> QED BY <1>2, <1>4, <2>1
<1> QED BY <1>3, <1>4, <1>6

\* A newcomer does not disturb a removal before him.
LEMMA RemoveBeforeLast ==
  ASSUME NEW T, NEW q \in Seq(T), NEW u \in T, NEW i \in 1..Len(q)
  PROVE  RemoveAt(Append(q, u), i) = Append(RemoveAt(q, i), u) /\ RemoveAt(q, i) \in Seq(T)
<1> DEFINE a == Append(q, u)
           r == RemoveAt(q, i)
<1>1. /\ a \in Seq(T) /\ Len(a) = Len(q) + 1
      /\ \A j \in 1..Len(q) : a[j] = q[j]
      /\ a[Len(q) + 1] = u
  BY AppendProperties
<1>2. /\ r \in Seq(T) /\ Len(r) = Len(q) - 1
      /\ \A j \in 1..Len(r) : r[j] = IF j < i THEN q[j] ELSE q[j + 1]
  BY RemoveAtProps
<1> HIDE DEF a, r
<1> DEFINE x == RemoveAt(a, i)
           y == Append(r, u)
<1>3. i \in 1..Len(a)
  BY <1>1
<1>4. /\ x \in Seq(T) /\ Len(x) = Len(q)
      /\ \A j \in 1..Len(x) : x[j] = IF j < i THEN a[j] ELSE a[j + 1]
  BY <1>1, <1>3, RemoveAtProps
<1>5. /\ y \in Seq(T) /\ Len(y) = Len(q)
      /\ \A j \in 1..Len(r) : y[j] = r[j]
      /\ y[Len(r) + 1] = u
  BY <1>2, AppendProperties
<1> HIDE DEF x, y
<1>6. ASSUME NEW j \in 1..Len(q) PROVE x[j] = y[j]
  <2>1. CASE j = Len(q)
    <3>1. ~(j < i) /\ j = Len(r) + 1
      BY <2>1, <1>2
    <3> QED BY <3>1, <2>1, <1>1, <1>4, <1>5
  <2>2. CASE j < i
    <3>1. j \in 1..Len(r)
      BY <2>2, <1>2
    <3> QED BY <3>1, <2>2, <1>1, <1>2, <1>4, <1>5
  <2>3. CASE ~(j < i) /\ j # Len(q)
    <3>1. j \in 1..Len(r) /\ j + 1 \in 1..Len(q)
      BY <2>3, <1>2
    <3> QED BY <3>1, <2>3, <1>1, <1>2, <1>4, <1>5
  <2> QED BY <2>1, <2>2, <2>3
<1>7. x = y
  BY <1>4, <1>5, <1>6, SeqEqual
<1> QED BY <1>2, <1>7 DEF x, y, a, r

\* The last one may be removed again, ...
LEMMA RemoveLast ==
  ASSUME NEW T, NEW q \in Seq(T), NEW u \in T
  PROVE  RemoveAt(Append(q, u), Len(q) + 1) = q
<1> DEFINE a == Append(q, u)
           x == RemoveAt(a, Len(q) + 1)
<1>1. /\ a \in Seq(T) /\ Len(a) = Len(q) + 1
      /\ \A j \in 1..Len(q) : a[j] = q[j]
  BY AppendProperties
<1> HIDE DEF a
<1>2. Len(q) + 1 \in 1..Len(a)
  BY <1>1
<1>3. /\ x \in Seq(T) /\ Len(x) = Len(q)
      /\ \A j \in 1..Len(x) : x[j] = IF j < Len(q) + 1 THEN a[j] ELSE a[j + 1]
  BY <1>1, <1>2, RemoveAtProps
<1> HIDE DEF x
<1>4. \A j \in 1..Len(q) : x[j] = q[j]
  BY <1>1, <1>3
<1>5. x = q
  BY <1>3, <1>4, SeqEqual
<1> QED BY <1>5 DEF x, a

\* ... and one behind whoever is put before a queue.
LEMMA RemoveBehind ==
  ASSUME NEW T, NEW q \in Seq(T), NEW h \in T, NEW i \in 1..Len(q)
  PROVE  RemoveAt(<<h>> \o q, i + 1) = <<h>> \o RemoveAt(q, i)
<1> DEFINE a == <<h>> \o q
           r == RemoveAt(q, i)
<1>1. /\ a \in Seq(T) /\ Len(a) = Len(q) + 1
      /\ a[1] = h /\ \A j \in 1..Len(q) : a[j + 1] = q[j]
  OBVIOUS
<1>2. /\ r \in Seq(T) /\ Len(r) = Len(q) - 1
      /\ \A j \in 1..Len(r) : r[j] = IF j < i THEN q[j] ELSE q[j + 1]
  BY RemoveAtProps
<1> HIDE DEF a, r
<1> DEFINE x == RemoveAt(a, i + 1)
           y == <<h>> \o r
<1>3. i + 1 \in 1..Len(a)
  BY <1>1
<1>4. /\ x \in Seq(T) /\ Len(x) = Len(q)
      /\ \A j \in 1..Len(x) : x[j] = IF j < i + 1 THEN a[j] ELSE a[j + 1]
  BY <1>1, <1>3, RemoveAtProps
<1>5. /\ y \in Seq(T) /\ Len(y) = Len(q)
      /\ y[1] = h /\ \A j \in 1..Len(r) : y[j + 1] = r[j]
  BY <1>2
<1> HIDE DEF x, y
<1>6. ASSUME NEW j \in 1..Len(q) PROVE x[j] = y[j]
  <2>1. CASE j = 1
    BY <2>1, <1>1, <1>4, <1>5
  <2>2. CASE j # 1
    <3>1. j - 1 \in 1..Len(r) /\ j - 1 \in 1..Len(q) /\ j = (j - 1) + 1
      BY <2>2, <1>2
    <3>2. y[j] = r[j - 1] /\ a[j] = q[j - 1] /\ a[j + 1] = q[j]
      BY <3>1, <1>1, <1>5
    <3>3. CASE j < i + 1
      BY <3>1, <3>2, <3>3, <1>2, <1>4
    <3>4. CASE ~(j < i + 1)
      BY <3>1, <3>2, <3>4, <1>2, <1>4
    <3> QED BY <3>3, <3>4
  <2> QED BY <2>1, <2>2
<1>7. x = y
  BY <1>4, <1>5, <1>6, SeqEqual
<1> QED BY <1>7 DEF x, y, a, r

\* A newcomer at the end does not disturb one that is put before the queue.
LEMMA AppendBehind ==
  ASSUME NEW T, NEW q \in Seq(T), NEW t \in T, NEW u \in T
  PROVE  <<t>> \o Append(q, u) = Append(<<t>> \o q, u)
<1> DEFINE h == <<t>>
           v == <<u>>
<1>1. h \in Seq(T) /\ v \in Seq(T)
  OBVIOUS
<1>2. Append(q, u) = q \o v
  BY AppendIsConcat
<1>3. Append(h \o q, u) = (h \o q) \o v
  <2>1. h \o q \in Seq(T)
    BY <1>1, ConcatProperties
  <2> HIDE DEF h
  <2> QED BY <2>1, AppendIsConcat
<1> HIDE DEF h, v
<1>4. (h \o q) \o v = h \o (q \o v)
  BY <1>1, ConcatAssociative
<1> QED BY <1>2, <1>3, <1>4 DEF h
===============================================================================
