--------------------------- MODULE RawLockProofs ---------------------------
(***************************************************************************)
(* The lock of RawLock excludes, for any number of threads and futures: a  *)
(* proof that IInv below is an inductive invariant, and what follows.  And *)
(* no waiter is forgotten or overtaken: SInv, inductive given IInv.        *)
(***************************************************************************)
EXTENDS RawLock, FiniteSetTheorems, WellFoundedInduction, TLAPS

-----------------------------------------------------------------------------
(* Facts about numbers and sequences. *)

LessOnNat == {ss \in Nat \X Nat : ss[1] < ss[2]}

\* < on the naturals as a set of pairs, the form WFMin takes.
LEMMA LessWellFounded == IsWellFoundedOn(LessOnNat, Nat)
BY NatLessThanWellFounded DEF OpToRel, LessOnNat

\* Min(S) is what it says for every nonempty set of naturals.
LEMMA MinProperty ==
  ASSUME NEW S \in SUBSET Nat, S # {}
  PROVE  Min(S) \in S /\ \A y \in S : Min(S) <= y
<1>1. PICK m \in S : \A y \in S : <<y, m>> \notin LessOnNat
  BY LessWellFounded, WFMin
<1>2. \A y \in S : m <= y
  <2> SUFFICES ASSUME NEW y \in S PROVE m <= y
    OBVIOUS
  <2>1. <<y, m>> \notin LessOnNat /\ y \in Nat /\ m \in Nat
    BY <1>1
  <2>2. <<y, m>> \in LessOnNat <=> y < m
    BY <2>1 DEF LessOnNat
  <2> QED BY <2>1, <2>2
<1> QED BY <1>2 DEF Min

\* Max(S) is what it says for every nonempty bounded set of naturals.
LEMMA MaxProperty ==
  ASSUME NEW S \in SUBSET Nat, S # {}, NEW n \in Nat, \A x \in S : x <= n
  PROVE  Max(S) \in S /\ \A y \in S : Max(S) >= y
<1> DEFINE T == {m \in Nat : \E x \in S : m = n - x}
<1>1. T \in SUBSET Nat
  OBVIOUS
<1>2. T # {}
  <2>1. PICK x \in S : TRUE
    OBVIOUS
  <2>2. n - x \in T
    BY <2>1
  <2> QED BY <2>2
<1>3. Min(T) \in T /\ \A y \in T : Min(T) <= y
  <2> HIDE DEF T
  <2> QED BY <1>1, <1>2, MinProperty
<1>4. PICK x \in S : Min(T) = n - x
  BY <1>3
<1>5. \A y \in S : x >= y
  <2> SUFFICES ASSUME NEW y \in S PROVE x >= y
    OBVIOUS
  <2>1. n - y \in T
    OBVIOUS
  <2>2. Min(T) <= n - y
    <3> HIDE DEF T
    <3> QED BY <1>3, <2>1
  <2> HIDE DEF T
  <2> QED BY <1>4, <2>2
<1> QED BY <1>5 DEF Max

\* A sequence that is not empty has an index.
LEMMA NonEmptyProperty ==
  ASSUME NEW S, NEW q \in Seq(S)
  PROVE  (q # <<>>) <=> \E i \in DOMAIN q : TRUE
<1>1. CASE Len(q) = 0
  BY <1>1
<1>2. CASE Len(q) > 0
  <2>1. 1 \in DOMAIN q
    BY <1>2
  <2>2. q # <<>>
    BY <1>2
  <2> QED BY <2>1, <2>2
<1> QED BY <1>1, <1>2

\* What a concatenation holds.
LEMMA ConcatProperty ==
  ASSUME NEW S, NEW s \in Seq(S), NEW t \in Seq(S)
  PROVE  /\ s \o t \in Seq(S)
         /\ Len(s \o t) = Len(s) + Len(t)
         /\ \A i \in 1 .. Len(s) + Len(t) :
              (s \o t)[i] = IF i <= Len(s) THEN s[i] ELSE t[i - Len(s)]
OBVIOUS

\* InsertAt puts e at place k and moves what stood there and after it by one.
LEMMA InsertAtProperty ==
  ASSUME NEW S, NEW q \in Seq(S), NEW e \in S, NEW k \in 1 .. Len(q) + 1
  PROVE  /\ InsertAt(q, k, e) \in Seq(S)
         /\ Len(InsertAt(q, k, e)) = Len(q) + 1
         /\ \A i \in 1 .. Len(q) + 1 :
              InsertAt(q, k, e)[i] = IF i < k THEN q[i] ELSE IF i = k THEN e ELSE q[i - 1]
<1> DEFINE front == SubSeq(q, 1, k - 1)
           back  == SubSeq(q, k, Len(q))
<1>1. /\ front \in Seq(S) /\ Len(front) = k - 1
      /\ \A i \in 1 .. k - 1 : front[i] = q[i]
  OBVIOUS
<1>2. /\ back \in Seq(S) /\ Len(back) = Len(q) - k + 1
      /\ \A i \in 1 .. Len(q) - k + 1 : back[i] = q[k + i - 1]
  OBVIOUS
<1>3. InsertAt(q, k, e) = (front \o <<e>>) \o back
  BY DEF InsertAt
<1> HIDE DEF front, back
<1>4. /\ front \o <<e>> \in Seq(S) /\ Len(front \o <<e>>) = k
      /\ \A i \in 1 .. k : (front \o <<e>>)[i] = IF i < k THEN q[i] ELSE e
  BY <1>1
<1>5. /\ (front \o <<e>>) \o back \in Seq(S)
      /\ Len((front \o <<e>>) \o back) = Len(q) + 1
      /\ \A i \in 1 .. Len(q) + 1 : ((front \o <<e>>) \o back)[i] =
            IF i <= k THEN (front \o <<e>>)[i] ELSE back[i - k]
  <2> DEFINE head == front \o <<e>>
  <2>1. head \in Seq(S) /\ Len(head) = k
    BY <1>4
  <2> HIDE DEF head
  <2>2. /\ head \o back \in Seq(S)
        /\ Len(head \o back) = Len(head) + Len(back)
        /\ \A i \in 1 .. Len(head) + Len(back) : (head \o back)[i] =
              IF i <= Len(head) THEN head[i] ELSE back[i - Len(head)]
    BY <1>2, <2>1, ConcatProperty
  <2>3. Len(head) + Len(back) = Len(q) + 1
    BY <1>2, <2>1
  <2> QED BY <2>1, <2>2, <2>3 DEF head
<1>6. \A i \in 1 .. Len(q) + 1 :
        InsertAt(q, k, e)[i] = IF i < k THEN q[i] ELSE IF i = k THEN e ELSE q[i - 1]
  <2> SUFFICES ASSUME NEW i \in 1 .. Len(q) + 1
               PROVE  InsertAt(q, k, e)[i] =
                        IF i < k THEN q[i] ELSE IF i = k THEN e ELSE q[i - 1]
    OBVIOUS
  <2>1. CASE i <= k
    BY <1>3, <1>4, <1>5, <2>1
  <2>2. CASE i > k
    <3>1. i - k \in 1 .. Len(q) - k + 1 /\ k + (i - k) - 1 = i - 1
      BY <2>2
    <3> QED BY <1>2, <1>3, <1>5, <2>2, <3>1
  <2> QED BY <2>1, <2>2
<1> QED BY <1>3, <1>5, <1>6

\* RemoveAt drops the element at place k and moves those after it by one.
LEMMA RemoveAtProperty ==
  ASSUME NEW S, NEW q \in Seq(S), NEW k \in 1 .. Len(q)
  PROVE  /\ RemoveAt(q, k) \in Seq(S)
         /\ Len(RemoveAt(q, k)) = Len(q) - 1
         /\ \A i \in 1 .. Len(q) - 1 :
              RemoveAt(q, k)[i] = IF i < k THEN q[i] ELSE q[i + 1]
<1> DEFINE front == SubSeq(q, 1, k - 1)
           back  == SubSeq(q, k + 1, Len(q))
<1>1. /\ front \in Seq(S) /\ Len(front) = k - 1
      /\ \A i \in 1 .. k - 1 : front[i] = q[i]
  OBVIOUS
<1>2. /\ back \in Seq(S) /\ Len(back) = Len(q) - k
      /\ \A i \in 1 .. Len(q) - k : back[i] = q[k + i]
  OBVIOUS
<1>3. RemoveAt(q, k) = front \o back
  BY DEF RemoveAt
<1> HIDE DEF front, back
<1>4. /\ front \o back \in Seq(S)
      /\ Len(front \o back) = Len(q) - 1
      /\ \A i \in 1 .. Len(q) - 1 :
            (front \o back)[i] = IF i < k THEN front[i] ELSE back[i - (k - 1)]
  <2>1. /\ front \o back \in Seq(S)
        /\ Len(front \o back) = Len(front) + Len(back)
        /\ \A i \in 1 .. Len(front) + Len(back) : (front \o back)[i] =
              IF i <= Len(front) THEN front[i] ELSE back[i - Len(front)]
    BY <1>1, <1>2, ConcatProperty
  <2>2. Len(front) = k - 1 /\ Len(back) = Len(q) - k /\ k \in Nat /\ Len(q) \in Nat
    BY <1>1, <1>2
  <2> QED BY <2>1, <2>2
<1>5. \A i \in 1 .. Len(q) - 1 : RemoveAt(q, k)[i] = IF i < k THEN q[i] ELSE q[i + 1]
  <2> SUFFICES ASSUME NEW i \in 1 .. Len(q) - 1
               PROVE  RemoveAt(q, k)[i] = IF i < k THEN q[i] ELSE q[i + 1]
    OBVIOUS
  <2>1. CASE i < k
    BY <1>1, <1>3, <1>4, <2>1
  <2>2. CASE i >= k
    <3>1. i - (k - 1) \in 1 .. Len(q) - k /\ k + (i - (k - 1)) = i + 1
      BY <2>2
    <3> QED BY <1>2, <1>3, <1>4, <2>2, <3>1
  <2> QED BY <2>1, <2>2
<1> QED BY <1>3, <1>4, <1>5

\* From a sequence of different elements RemoveAt takes one out for good and
\* leaves the others, in their order.
LEMMA RemovedProperty ==
  ASSUME NEW S, NEW q \in Seq(S), NEW k \in DOMAIN q,
         \A i, j \in DOMAIN q : q[i] = q[j] => i = j
  PROVE  /\ RemoveAt(q, k) \in Seq(S)
         /\ \A i \in DOMAIN RemoveAt(q, k) :
              /\ RemoveAt(q, k)[i] # q[k]
              /\ \E a \in DOMAIN q : RemoveAt(q, k)[i] = q[a]
         /\ \A i, j \in DOMAIN RemoveAt(q, k) :
              i < j => \E a, b \in DOMAIN q :
                         a < b /\ RemoveAt(q, k)[i] = q[a] /\ RemoveAt(q, k)[j] = q[b]
         /\ \A a \in DOMAIN q :
              a # k => \E i \in DOMAIN RemoveAt(q, k) : RemoveAt(q, k)[i] = q[a]
<1> DEFINE r == RemoveAt(q, k)
<1>1. k \in 1 .. Len(q)
  OBVIOUS
<1>2. /\ r \in Seq(S) /\ Len(r) = Len(q) - 1
      /\ \A i \in 1 .. Len(q) - 1 : r[i] = IF i < k THEN q[i] ELSE q[i + 1]
  BY <1>1, RemoveAtProperty
<1> HIDE DEF r
<1>3. DOMAIN r = 1 .. Len(q) - 1 /\ DOMAIN q = 1 .. Len(q) /\ Len(q) \in Nat
  BY <1>2
<1> DEFINE From(i) == IF i < k THEN i ELSE i + 1
<1>4. \A i \in DOMAIN r : From(i) \in DOMAIN q /\ From(i) # k /\ r[i] = q[From(i)]
  BY <1>1, <1>2, <1>3
<1>5. \A i, j \in DOMAIN r : i < j => From(i) < From(j)
  BY <1>1, <1>3
<1>6. \A a \in DOMAIN q : a # k => \E i \in DOMAIN r : From(i) = a
  <2> SUFFICES ASSUME NEW a \in DOMAIN q, a # k PROVE \E i \in DOMAIN r : From(i) = a
    OBVIOUS
  <2>1. CASE a < k
    BY <1>1, <1>3, <2>1
  <2>2. CASE a > k
    <3>1. a - 1 \in DOMAIN r /\ From(a - 1) = a
      BY <1>1, <1>3, <2>2
    <3> QED BY <3>1
  <2> QED BY <1>1, <1>3, <2>1, <2>2
<1> HIDE DEF From
<1>7. \A i \in DOMAIN r : r[i] # q[k]
  BY <1>1, <1>3, <1>4
<1>8. \A a \in DOMAIN q : a # k => \E i \in DOMAIN r : r[i] = q[a]
  BY <1>4, <1>6
<1> QED BY <1>2, <1>4, <1>5, <1>7, <1>8 DEF r

-----------------------------------------------------------------------------
\* One locker at a time is granting, and outside of that nobody is picked.
SectionOK ==
  /\ \A l \in Lockers : pc[l] = "grant" <=> crit = l
  /\ crit = Nobody => picked = {}

\* A release that still has WRITER to drop is a writer's.
ClearOK == \A l \in Lockers : clear[l] => pc[l] = "release" /\ ~shared[l]

\* A waiter about to be queued is as new; a dropped one was let go.
FreshOK ==
  \A l \in Lockers : /\ pc[l] \in {"try", "spin", "enqueue"} => wst[l] = "WAITING"
                     /\ pc[l] = "dropped" => wst[l] # "WAITING"

\* The flags speak of the waiters that stay: those picked leave the queue
\* before the section ends.
FlagsOK ==
  /\ word.parked <=> \E i \in DOMAIN queue : queue[i] \notin picked
  /\ word.writerParked <=> \E i \in DOMAIN queue : queue[i] \notin picked /\ ~shared[queue[i]]

\* The inductive invariant.  The word counts the owners only because a handed
\* lock is owned by a waiter nobody can overlook: it is linked until it is
\* told, and told before the section ends.
IInv ==
  /\ TypeOK /\ SectionOK /\ ClearOK /\ FreshOK
  /\ WaitersLinked /\ Exclusion /\ WordCountsOwners /\ FlagsOK

-----------------------------------------------------------------------------
(* The helpers. *)

\* A released element is out, nothing else is, and the order stays.
LEMMA WithoutProperty ==
  ASSUME NEW S, NEW q \in Seq(S), NEW l \in S,
         \A i, j \in DOMAIN q : q[i] = q[j] => i = j
  PROVE  /\ Without(q, l) \in Seq(S)
         /\ \A i \in DOMAIN Without(q, l) :
              /\ Without(q, l)[i] # l
              /\ \E a \in DOMAIN q : Without(q, l)[i] = q[a]
         /\ \A i, j \in DOMAIN Without(q, l) :
              i < j => \E a, b \in DOMAIN q :
                         a < b /\ Without(q, l)[i] = q[a] /\ Without(q, l)[j] = q[b]
         /\ \A a \in DOMAIN q :
              q[a] # l => \E i \in DOMAIN Without(q, l) : Without(q, l)[i] = q[a]
<1>1. CASE ~ \E i \in DOMAIN q : q[i] = l
  BY <1>1 DEF Without
<1>2. CASE \E i \in DOMAIN q : q[i] = l
  <2> DEFINE k == CHOOSE i \in DOMAIN q : q[i] = l
  <2>1. k \in DOMAIN q /\ q[k] = l
    BY <1>2
  <2>2. Without(q, l) = RemoveAt(q, k)
    BY <1>2 DEF Without
  <2> HIDE DEF k
  <2> DEFINE r == RemoveAt(q, k)
  <2>3. /\ r \in Seq(S)
        /\ \A i \in DOMAIN r : r[i] # q[k] /\ \E a \in DOMAIN q : r[i] = q[a]
        /\ \A i, j \in DOMAIN r :
             i < j => \E a, b \in DOMAIN q : a < b /\ r[i] = q[a] /\ r[j] = q[b]
        /\ \A a \in DOMAIN q : a # k => \E i \in DOMAIN r : r[i] = q[a]
    BY <2>1, RemovedProperty
  <2> HIDE DEF r
  <2>4. \A a \in DOMAIN q : q[a] # l => \E i \in DOMAIN r : r[i] = q[a]
    BY <2>1, <2>3
  <2>5. \A i \in DOMAIN r : r[i] # l
    BY <2>1, <2>3
  <2>6. Without(q, l) = r
    BY <2>2 DEF r
  <2> QED BY <2>3, <2>4, <2>5, <2>6
<1> QED BY <1>1, <1>2

\* A waiter's place lies within the queue or right behind it, behind all of its
\* priority and above and before all below.
LEMMA PositionProperty ==
  ASSUME NEW q \in Seq(Lockers), NEW l \in Lockers
  PROVE  /\ Position(q, l) \in 1 .. Len(q) + 1
         /\ \A i \in DOMAIN q : i >= Position(q, l) => Priority[q[i]] < Priority[l]
         /\ Position(q, l) > 1 => Priority[q[Position(q, l) - 1]] >= Priority[l]
<1> DEFINE S == {0} \cup {i \in DOMAIN q : Priority[q[i]] >= Priority[l]}
<1>1. S \in SUBSET Nat /\ S # {} /\ Len(q) \in Nat /\ \A x \in S : x <= Len(q)
  OBVIOUS
<1>2. Max(S) \in S /\ \A y \in S : Max(S) >= y
  <2> HIDE DEF S
  <2> QED BY <1>1, MaxProperty
<1>3. Position(q, l) = Max(S) + 1
  BY DEF Position
<1> DEFINE m == Max(S)
<1>4. m \in S /\ \A y \in S : m >= y
  BY <1>2
<1>5. Position(q, l) = m + 1
  BY <1>3
<1> HIDE DEF m
<1>6. Priority \in [Lockers -> Nat]
  BY LockersAssumption
<1> QED BY <1>1, <1>4, <1>5, <1>6

\* Who is picked stands in the queue.
LEMMA PicksQueued ==
  ASSUME NEW w \in Words, queue \in Seq(Lockers)
  PROVE  /\ Picks(w) \subseteq {queue[i] : i \in DOMAIN queue}
         /\ \/ Picks(w) = {}
            \/ ~w.writer /\ w.readers = 0 /\ \E m \in DOMAIN queue : Picks(w) = {queue[m]}
            \/ ~w.writer /\ \A k \in Picks(w) : shared[k]
<1>1. CASE QueuedWriters # {}
  <2>1. QueuedWriters \in SUBSET Nat
    BY DEF QueuedWriters
  <2>2. Min(QueuedWriters) \in QueuedWriters
    BY <1>1, <2>1, MinProperty
  <2>3. Min(QueuedWriters) \in DOMAIN queue
    BY <2>2 DEF QueuedWriters
  <2> QED BY <1>1, <2>3 DEF Picks
<1>2. CASE QueuedWriters = {}
  <2>1. \A i \in DOMAIN queue : shared[queue[i]]
    BY <1>2 DEF QueuedWriters
  <2> QED BY <1>2, <2>1 DEF Picks
<1> QED BY <1>1, <1>2
-----------------------------------------------------------------------------
(* The steps. *)

\* The critical section is entered by one locker at a time.
LEMMA SectionStep ==
  ASSUME IInv, [Next]_vars PROVE SectionOK'
<1> USE LockersAssumption DEF IInv, SectionOK, TypeOK, Lockers
<1>1. ASSUME NEW l \in Lockers, NEW mode \in Modes[l], Start(l, mode) PROVE SectionOK'
  BY <1>1 DEF Start, Goto, GrantVars
<1>2. ASSUME NEW l \in Lockers, TryLock(l) PROVE SectionOK'
  BY <1>2 DEF TryLock, Goto, GrantVars
<1>3. ASSUME NEW l \in Lockers, Enqueue(l) PROVE SectionOK'
  BY <1>3 DEF Enqueue, Goto, GrantVars
<1>4. ASSUME NEW l \in Lockers, Age(l) PROVE SectionOK'
  BY <1>4 DEF Age, Goto, GrantVars
<1>5. ASSUME NEW l \in Lockers, Unlock(l) PROVE SectionOK'
  BY <1>5 DEF Unlock, Goto, GrantVars, UnlockStep
<1>6. ASSUME NEW l \in Lockers, Grant(l) PROVE SectionOK'
  BY <1>6 DEF Grant, Goto, GrantVars
<1>7. ASSUME NEW l \in Lockers, NEW w \in Lockers, GrantOne(l, w) PROVE SectionOK'
  BY <1>7 DEF GrantOne, Goto, GrantVars
<1>8. ASSUME NEW l \in Lockers, GrantDone(l) PROVE SectionOK'
  BY <1>8 DEF GrantDone, Goto, GrantVars
<1>9. ASSUME NEW l \in Lockers, NEW w \in Lockers, Wake(l, w) PROVE SectionOK'
  BY <1>9 DEF Wake, Goto, GrantVars
<1>10. ASSUME NEW l \in Lockers, WakesDone(l) PROVE SectionOK'
  BY <1>10 DEF WakesDone, Goto, GrantVars
<1>11. ASSUME NEW l \in Threads, Spin(l) PROVE SectionOK'
  BY <1>11 DEF Spin, Goto, GrantVars
<1>12. ASSUME NEW l \in Threads, Check(l) PROVE SectionOK'
  BY <1>12 DEF Check, Goto, GrantVars
<1>13. ASSUME NEW l \in Threads, Park(l) PROVE SectionOK'
  BY <1>13 DEF Park, Goto, GrantVars
<1>14. ASSUME NEW l \in Threads, ParkSpurious(l) PROVE SectionOK'
  BY <1>14 DEF ParkSpurious, Goto, GrantVars
<1>15. ASSUME NEW l \in Threads, End(l) PROVE SectionOK'
  BY <1>15 DEF End, Goto, GrantVars
<1>16. ASSUME NEW l \in Futures, Poll(l) PROVE SectionOK'
  BY <1>16 DEF Poll, Goto, GrantVars
<1>17. ASSUME NEW l \in Futures, Recheck(l) PROVE SectionOK'
  BY <1>17 DEF Recheck, Goto, GrantVars
<1>18. ASSUME NEW l \in Futures, Relink(l) PROVE SectionOK'
  BY <1>18 DEF Relink, Goto, GrantVars
<1>19. ASSUME NEW l \in Futures, Move(l) PROVE SectionOK'
  BY <1>19 DEF Move, Goto, GrantVars
<1>20. ASSUME NEW l \in Futures, Cancel(l) PROVE SectionOK'
  BY <1>20 DEF Cancel, Goto, GrantVars
<1>21. ASSUME NEW l \in Futures, Unlink(l) PROVE SectionOK'
  BY <1>21 DEF Unlink, Goto, GrantVars, AfterUnlink
<1>22. ASSUME NEW l \in Futures, PassOn(l) PROVE SectionOK'
  BY <1>22 DEF PassOn, Goto, GrantVars, UnlockStep
<1>23. CASE UNCHANGED vars
  BY <1>23 DEF vars
<1> QED
  BY <1>1, <1>2, <1>3, <1>4, <1>5, <1>6, <1>7, <1>8, <1>9, <1>10, <1>11, <1>12,
     <1>13, <1>14, <1>15, <1>16, <1>17, <1>18, <1>19, <1>20, <1>21, <1>22, <1>23
     DEF Next, LockerStep, ThreadStep, FutureStep

\* Only a writer's release has WRITER to drop.
LEMMA ClearStep ==
  ASSUME IInv, [Next]_vars PROVE ClearOK'
<1> USE  DEF IInv, ClearOK, TypeOK, Lockers
<1>1. ASSUME NEW l \in Lockers, NEW mode \in Modes[l], Start(l, mode) PROVE ClearOK'
  BY <1>1 DEF Start, Goto, GrantVars
<1>2. ASSUME NEW l \in Lockers, TryLock(l) PROVE ClearOK'
  BY <1>2 DEF TryLock, Goto, GrantVars
<1>3. ASSUME NEW l \in Lockers, Enqueue(l) PROVE ClearOK'
  BY <1>3 DEF Enqueue, Goto, GrantVars
<1>4. ASSUME NEW l \in Lockers, Age(l) PROVE ClearOK'
  BY <1>4 DEF Age, Goto, GrantVars
<1>5. ASSUME NEW l \in Lockers, Unlock(l) PROVE ClearOK'
  BY <1>5 DEF Unlock, Goto, GrantVars, UnlockStep
<1>6. ASSUME NEW l \in Lockers, Grant(l) PROVE ClearOK'
  BY <1>6 DEF Grant, Goto, GrantVars
<1>7. ASSUME NEW l \in Lockers, NEW w \in Lockers, GrantOne(l, w) PROVE ClearOK'
  BY <1>7 DEF GrantOne, Goto, GrantVars
<1>8. ASSUME NEW l \in Lockers, GrantDone(l) PROVE ClearOK'
  BY <1>8 DEF GrantDone, Goto, GrantVars, SectionOK
<1>9. ASSUME NEW l \in Lockers, NEW w \in Lockers, Wake(l, w) PROVE ClearOK'
  BY <1>9 DEF Wake, Goto, GrantVars
<1>10. ASSUME NEW l \in Lockers, WakesDone(l) PROVE ClearOK'
  BY <1>10 DEF WakesDone, Goto, GrantVars
<1>11. ASSUME NEW l \in Threads, Spin(l) PROVE ClearOK'
  BY <1>11 DEF Spin, Goto, GrantVars
<1>12. ASSUME NEW l \in Threads, Check(l) PROVE ClearOK'
  BY <1>12 DEF Check, Goto, GrantVars
<1>13. ASSUME NEW l \in Threads, Park(l) PROVE ClearOK'
  BY <1>13 DEF Park, Goto, GrantVars
<1>14. ASSUME NEW l \in Threads, ParkSpurious(l) PROVE ClearOK'
  BY <1>14 DEF ParkSpurious, Goto, GrantVars
<1>15. ASSUME NEW l \in Threads, End(l) PROVE ClearOK'
  BY <1>15 DEF End, Goto, GrantVars
<1>16. ASSUME NEW l \in Futures, Poll(l) PROVE ClearOK'
  BY <1>16 DEF Poll, Goto, GrantVars
<1>17. ASSUME NEW l \in Futures, Recheck(l) PROVE ClearOK'
  BY <1>17 DEF Recheck, Goto, GrantVars
<1>18. ASSUME NEW l \in Futures, Relink(l) PROVE ClearOK'
  BY <1>18 DEF Relink, Goto, GrantVars
<1>19. ASSUME NEW l \in Futures, Move(l) PROVE ClearOK'
  BY <1>19 DEF Move, Goto, GrantVars
<1>20. ASSUME NEW l \in Futures, Cancel(l) PROVE ClearOK'
  BY <1>20 DEF Cancel, Goto, GrantVars
<1>21. ASSUME NEW l \in Futures, Unlink(l) PROVE ClearOK'
  BY <1>21 DEF Unlink, Goto, GrantVars, AfterUnlink
<1>22. ASSUME NEW l \in Futures, PassOn(l) PROVE ClearOK'
  BY <1>22 DEF PassOn, Goto, GrantVars, UnlockStep
<1>23. CASE UNCHANGED vars
  BY <1>23 DEF vars
<1> QED
  BY <1>1, <1>2, <1>3, <1>4, <1>5, <1>6, <1>7, <1>8, <1>9, <1>10, <1>11, <1>12,
     <1>13, <1>14, <1>15, <1>16, <1>17, <1>18, <1>19, <1>20, <1>21, <1>22, <1>23
     DEF Next, LockerStep, ThreadStep, FutureStep

\* Who asks for the lock starts with a new waiter.
LEMMA FreshStep ==
  ASSUME IInv, [Next]_vars PROVE FreshOK'
<1> USE  DEF IInv, FreshOK, TypeOK, Lockers
<1>1. ASSUME NEW l \in Lockers, NEW mode \in Modes[l], Start(l, mode) PROVE FreshOK'
  BY <1>1 DEF Start, Goto, GrantVars
<1>2. ASSUME NEW l \in Lockers, TryLock(l) PROVE FreshOK'
  BY <1>2 DEF TryLock, Goto, GrantVars
<1>3. ASSUME NEW l \in Lockers, Enqueue(l) PROVE FreshOK'
  BY <1>3 DEF Enqueue, Goto, GrantVars
<1>4. ASSUME NEW l \in Lockers, Age(l) PROVE FreshOK'
  BY <1>4 DEF Age, Goto, GrantVars
<1>5. ASSUME NEW l \in Lockers, Unlock(l) PROVE FreshOK'
  BY <1>5 DEF Unlock, Goto, GrantVars, UnlockStep
<1>6. ASSUME NEW l \in Lockers, Grant(l) PROVE FreshOK'
  BY <1>6 DEF Grant, Goto, GrantVars
<1>7. ASSUME NEW l \in Lockers, NEW w \in Lockers, GrantOne(l, w) PROVE FreshOK'
  BY <1>7 DEF GrantOne, Goto, GrantVars, WaitersLinked, WaitPCs
<1>8. ASSUME NEW l \in Lockers, GrantDone(l) PROVE FreshOK'
  BY <1>8 DEF GrantDone, Goto, GrantVars
<1>9. ASSUME NEW l \in Lockers, NEW w \in Lockers, Wake(l, w) PROVE FreshOK'
  BY <1>9 DEF Wake, Goto, GrantVars
<1>10. ASSUME NEW l \in Lockers, WakesDone(l) PROVE FreshOK'
  BY <1>10 DEF WakesDone, Goto, GrantVars
<1>11. ASSUME NEW l \in Threads, Spin(l) PROVE FreshOK'
  BY <1>11 DEF Spin, Goto, GrantVars
<1>12. ASSUME NEW l \in Threads, Check(l) PROVE FreshOK'
  BY <1>12 DEF Check, Goto, GrantVars
<1>13. ASSUME NEW l \in Threads, Park(l) PROVE FreshOK'
  BY <1>13 DEF Park, Goto, GrantVars
<1>14. ASSUME NEW l \in Threads, ParkSpurious(l) PROVE FreshOK'
  BY <1>14 DEF ParkSpurious, Goto, GrantVars
<1>15. ASSUME NEW l \in Threads, End(l) PROVE FreshOK'
  BY <1>15 DEF End, Goto, GrantVars
<1>16. ASSUME NEW l \in Futures, Poll(l) PROVE FreshOK'
  BY <1>16 DEF Poll, Goto, GrantVars
<1>17. ASSUME NEW l \in Futures, Recheck(l) PROVE FreshOK'
  BY <1>17 DEF Recheck, Goto, GrantVars
<1>18. ASSUME NEW l \in Futures, Relink(l) PROVE FreshOK'
  BY <1>18 DEF Relink, Goto, GrantVars
<1>19. ASSUME NEW l \in Futures, Move(l) PROVE FreshOK'
  BY <1>19 DEF Move, Goto, GrantVars
<1>20. ASSUME NEW l \in Futures, Cancel(l) PROVE FreshOK'
  BY <1>20 DEF Cancel, Goto, GrantVars
<1>21. ASSUME NEW l \in Futures, Unlink(l) PROVE FreshOK'
  BY <1>21 DEF Unlink, Goto, GrantVars, AfterUnlink, WaitersLinked, WaitPCs, Linked
<1>22. ASSUME NEW l \in Futures, PassOn(l) PROVE FreshOK'
  BY <1>22 DEF PassOn, Goto, GrantVars, UnlockStep
<1>23. CASE UNCHANGED vars
  BY <1>23 DEF vars
<1> QED
  BY <1>1, <1>2, <1>3, <1>4, <1>5, <1>6, <1>7, <1>8, <1>9, <1>10, <1>11, <1>12,
     <1>13, <1>14, <1>15, <1>16, <1>17, <1>18, <1>19, <1>20, <1>21, <1>22, <1>23
     DEF Next, LockerStep, ThreadStep, FutureStep

\* Taking the lock gives a lock word.
LEMMA TakenTyped ==
  ASSUME word \in Words, NEW l \in Threads \cup Futures
  PROVE  Taken(word, l) \in Words
<1>1. [word EXCEPT !.readers = @ + 1] \in Words
  BY DEF Words
<1>2. [word EXCEPT !.writer = TRUE] \in Words
  BY DEF Words
<1> QED BY <1>1, <1>2 DEF Taken

\* A picked waiter is in the queue, and its owner waits.
LEMMA PickedWait ==
  ASSUME IInv
  PROVE  \A k \in picked : /\ k \in Lockers /\ pc[k] \in WaitPCs /\ wst[k] = "WAITING"
                           /\ \E i \in DOMAIN queue : queue[i] = k
BY DEF IInv, TypeOK, WaitersLinked

\* The owners are finitely many, so the lock word can count them.
LEMMA OwnersFinite ==
  /\ \A S : S \subseteq Lockers => IsFiniteSet(S) /\ Cardinality(S) \in Nat
  /\ ReadOwners \subseteq Lockers /\ WriteOwners \subseteq Lockers
<1>1. IsFiniteSet(Lockers)
  BY LockersAssumption, FS_Union DEF Lockers
<1> QED BY <1>1, FS_Subset, FS_CardinalityType DEF ReadOwners, WriteOwners

\* A reader that owns the lock is counted: no release underflows the word.
LEMMA ReaderCounted ==
  ASSUME IInv, NEW l \in Lockers, Owns(l), shared[l]
  PROVE  word.readers - 1 \in Nat
<1>1. l \in ReadOwners /\ IsFiniteSet(ReadOwners) /\ Cardinality(ReadOwners) \in Nat
  BY OwnersFinite DEF ReadOwners
<1>2. Cardinality(ReadOwners) # 0
  BY <1>1, FS_EmptySet
<1> QED BY <1>1, <1>2 DEF IInv, WordCountsOwners


\* Types are kept; that the count of readers stays a natural takes IInv.
LEMMA TypeStep ==
  ASSUME IInv, [Next]_vars PROVE TypeOK'
<1> USE  DEF IInv, TypeOK, Words, PCs, Lockers
<1>1. ASSUME NEW l \in Lockers, NEW mode \in Modes[l], Start(l, mode) PROVE TypeOK'
  BY <1>1, LockersAssumption DEF Start, GrantVars, Goto
<1>2. ASSUME NEW l \in Lockers, TryLock(l) PROVE TypeOK'
  <2>1. word' \in Words
    BY <1>2, TakenTyped DEF TryLock
  <2> QED BY <1>2, <2>1 DEF TryLock, Goto, GrantVars
<1>3. ASSUME NEW l \in Lockers, Enqueue(l) PROVE TypeOK'
  <2>2. word' \in Words
    <3>1. [word EXCEPT !.parked = TRUE, !.writerParked = @ \/ ~shared[l]] \in Words
      OBVIOUS
    <3> HIDE DEF Words
    <3> QED BY <1>3, <3>1, TakenTyped DEF Enqueue
  <2>1. InsertAt(queue, Position(queue, l), l) \in Seq(Lockers)
    BY PositionProperty, InsertAtProperty
  <2>3. TypeOK
    OBVIOUS
  <2> HIDE DEF IInv
  <2> QED BY <1>3, <2>1, <2>2, <2>3 DEF Enqueue, Goto, GrantVars
<1>4. ASSUME NEW l \in Lockers, Age(l) PROVE TypeOK'
  BY <1>4 DEF Age, Goto, GrantVars
<1>5. ASSUME NEW l \in Lockers, Unlock(l) PROVE TypeOK'
  <2>1. shared[l] => word.readers - 1 \in Nat
    BY <1>5, ReaderCounted DEF Unlock, Owns
  <2>2. word' \in Words
    BY <1>5, <2>1 DEF Unlock, UnlockStep
  <2>3. pc' \in [Lockers -> PCs] /\ clear' \in [Lockers -> BOOLEAN]
    BY ZenonT(40), <1>5 DEF Unlock, UnlockStep, Goto
  <2>4. TypeOK
    OBVIOUS
  <2> HIDE DEF IInv, Words, PCs
  <2> QED BY <1>5, <2>2, <2>3, <2>4 DEF Unlock
<1>6. ASSUME NEW l \in Lockers, Grant(l) PROVE TypeOK'
  <2> DEFINE held == IF clear[l] THEN [word EXCEPT !.writer = FALSE] ELSE word
  <2>1. held \in Words
    OBVIOUS
  <2>2. Picks(held) \subseteq {queue[i] : i \in DOMAIN queue}
    BY <2>1, PicksQueued
  <2> HIDE DEF held
  <2>3. Picks(held) \subseteq Lockers /\ Handed(Picks(held)) \subseteq Picks(held)
    BY <2>2 DEF Handed
  <2> DEFINE readers == {w \in Handed(Picks(held)) : shared[w]}
  <2>4. Cardinality(readers) \in Nat
    BY <2>3, OwnersFinite
  <2>5. /\ \E f, g \in BOOLEAN : word' = [writer |-> held.writer \/ (\E w \in Handed(Picks(held)) : ~shared[w]),
                     readers |-> held.readers + Cardinality(readers),
                     parked |-> f, writerParked |-> g]
        /\ picked' = Picks(held) /\ given' = Handed(Picks(held))
    BY <1>6 DEF Grant, held
  <2>6. word' \in Words
    <3> HIDE DEF readers
    <3> QED BY <2>1, <2>4, <2>5
  <2> QED BY <1>6, <2>3, <2>5, <2>6 DEF Grant, Goto, GrantVars
<1>7. ASSUME NEW l \in Lockers, NEW w \in Lockers, GrantOne(l, w) PROVE TypeOK'
  <2>1. Without(queue, w) \in Seq(Lockers)
    BY WithoutProperty DEF WaitersLinked
  <2> QED BY <1>7, <2>1 DEF GrantOne, AfterHold
<1>8. ASSUME NEW l \in Lockers, GrantDone(l) PROVE TypeOK'
  BY <1>8 DEF GrantDone, Goto, GrantVars
<1>9. ASSUME NEW l \in Lockers, NEW w \in Lockers, Wake(l, w) PROVE TypeOK'
  BY <1>9 DEF Wake, Goto, GrantVars
<1>10. ASSUME NEW l \in Lockers, WakesDone(l) PROVE TypeOK'
  BY <1>10 DEF WakesDone, Goto, GrantVars
<1>11. ASSUME NEW l \in Threads, Spin(l) PROVE TypeOK'
  <2>1. word' \in Words
    BY <1>11, TakenTyped DEF Spin
  <2> QED BY <1>11, <2>1 DEF Spin, Goto, GrantVars
<1>12. ASSUME NEW l \in Threads, Check(l) PROVE TypeOK'
  BY SMTT(40), <1>12 DEF Check, Goto, GrantVars
<1>13. ASSUME NEW l \in Threads, Park(l) PROVE TypeOK'
  BY <1>13 DEF Park, Goto, GrantVars
<1>14. ASSUME NEW l \in Threads, ParkSpurious(l) PROVE TypeOK'
  BY <1>14 DEF ParkSpurious, Goto, GrantVars
<1>15. ASSUME NEW l \in Threads, End(l) PROVE TypeOK'
  BY <1>15 DEF End, Goto, GrantVars
<1>16. ASSUME NEW l \in Futures, Poll(l) PROVE TypeOK'
  BY <1>16 DEF Poll, Goto, GrantVars
<1>17. ASSUME NEW l \in Futures, Recheck(l) PROVE TypeOK'
  BY <1>17 DEF Recheck, Goto, GrantVars
<1>18. ASSUME NEW l \in Futures, Relink(l) PROVE TypeOK'
  BY <1>18 DEF Relink, Goto, GrantVars
<1>19. ASSUME NEW l \in Futures, Move(l) PROVE TypeOK'
  BY <1>19 DEF Move, Goto, GrantVars
<1>20. ASSUME NEW l \in Futures, Cancel(l) PROVE TypeOK'
  BY <1>20 DEF Cancel, Goto, GrantVars
<1>21. ASSUME NEW l \in Futures, Unlink(l) PROVE TypeOK'
  <2>1. Without(queue, l) \in Seq(Lockers)
    BY WithoutProperty DEF WaitersLinked
  <2>2. word' \in Words
    BY ZenonT(40), <1>21 DEF Unlink, Flagged
  <2>3. pc' \in [Lockers -> PCs]
    BY <1>21 DEF Unlink, AfterUnlink, Goto
  <2>4. TypeOK
    OBVIOUS
  <2> HIDE DEF IInv, Words, PCs
  <2> QED BY <1>21, <2>1, <2>2, <2>3, <2>4 DEF Unlink, GrantVars
<1>22. ASSUME NEW l \in Futures, PassOn(l) PROVE TypeOK'
  <2>1. wst[l] = "GRANTED" /\ shared[l] => word.readers - 1 \in Nat
    BY <1>22, ReaderCounted DEF PassOn, Owns, WaitPCs
  <2> QED BY <1>22, <2>1 DEF PassOn, UnlockStep, Goto, GrantVars
<1>23. CASE UNCHANGED vars
  BY <1>23 DEF vars
<1> QED
  BY <1>1, <1>2, <1>3, <1>4, <1>5, <1>6, <1>7, <1>8, <1>9, <1>10, <1>11, <1>12,
     <1>13, <1>14, <1>15, <1>16, <1>17, <1>18, <1>19, <1>20, <1>21, <1>22, <1>23
     DEF Next, LockerStep, ThreadStep, FutureStep

\* Every linked waiter keeps an owner that waits on it.
LEMMA WaitersStep ==
  ASSUME IInv, [Next]_vars PROVE WaitersLinked'
<1> USE  DEF IInv, WaitersLinked, FreshOK, WaitPCs, Linked
<1>1. ASSUME NEW l \in Lockers, NEW mode \in Modes[l], Start(l, mode) PROVE WaitersLinked'
  BY <1>1 DEF Start, Goto, GrantVars, TypeOK, Lockers
<1>2. ASSUME NEW l \in Lockers, TryLock(l) PROVE WaitersLinked'
  BY <1>2 DEF TryLock, Goto, GrantVars, TypeOK, Lockers
<1>3. ASSUME NEW l \in Lockers, Enqueue(l) PROVE WaitersLinked'
  <2>1. CASE FreeFor(word, l)
    BY <1>3, <2>1 DEF Enqueue, Goto, GrantVars, TypeOK
  <2>2. CASE ~FreeFor(word, l)
    <3> DEFINE k == Position(queue, l)
    <3>1. queue \in Seq(Lockers) /\ k \in 1 .. Len(queue) + 1 /\ queue' = InsertAt(queue, k, l)
      BY <1>3, <2>2, PositionProperty DEF Enqueue, TypeOK
    <3> HIDE DEF k
    <3>2. /\ DOMAIN queue' = 1 .. Len(queue) + 1 /\ Len(queue) \in Nat
          /\ \A i \in 1 .. Len(queue) + 1 :
               queue'[i] = IF i < k THEN queue[i] ELSE IF i = k THEN l ELSE queue[i - 1]
      BY SMTT(40), <3>1, InsertAtProperty
    <3>3. \A i \in DOMAIN queue : queue[i] # l
      BY <1>3 DEF Enqueue
    <3>4. \A i, j \in DOMAIN queue' : queue'[i] = queue'[j] => i = j
      <4> SUFFICES ASSUME NEW i \in 1 .. Len(queue) + 1, NEW j \in 1 .. Len(queue) + 1, i < j
                   PROVE  queue'[i] # queue'[j]
        BY <3>2
      <4>0. /\ i \in Nat /\ j \in Nat /\ DOMAIN queue = 1 .. Len(queue)
            /\ k \in Nat /\ Len(queue) \in Nat
        BY <3>1
      <4>1. CASE j < k
        <5>1. /\ i \in DOMAIN queue /\ j \in DOMAIN queue
              /\ queue'[i] = queue[i] /\ queue'[j] = queue[j]
          BY <3>2, <4>0, <4>1, <3>1
        <5> QED BY <5>1, <4>0
      <4>2. CASE j = k
        <5>1. i \in DOMAIN queue /\ queue'[i] = queue[i] /\ queue'[j] = l
          BY <3>2, <4>0, <4>2, <3>1
        <5> QED BY <5>1, <3>3
      <4>3. CASE j > k /\ i < k
        <5>1. i \in DOMAIN queue /\ j - 1 \in DOMAIN queue /\ i # j - 1
              /\ queue'[i] = queue[i] /\ queue'[j] = queue[j - 1]
          BY <3>2, <4>0, <4>3, <3>1
        <5> QED BY <5>1
      <4>4. CASE j > k /\ i = k
        <5>1. j - 1 \in DOMAIN queue /\ queue'[i] = l /\ queue'[j] = queue[j - 1]
          BY <3>2, <4>0, <4>4, <3>1
        <5> QED BY <5>1, <3>3
      <4>5. CASE j > k /\ i > k
        <5>1. i - 1 \in DOMAIN queue /\ j - 1 \in DOMAIN queue /\ i - 1 # j - 1
              /\ queue'[i] = queue[i - 1] /\ queue'[j] = queue[j - 1]
          BY <3>2, <4>0, <4>5, <3>1
        <5> QED BY <5>1
      <4> QED BY <4>0, <4>1, <4>2, <4>3, <4>4, <4>5
    <3>5. \A i \in DOMAIN queue' : queue'[i] = l \/ \E j \in DOMAIN queue : queue'[i] = queue[j]
      BY <3>1, <3>2
    <3>6. \A j \in DOMAIN queue : \E i \in DOMAIN queue' : queue'[i] = queue[j]
      <4> SUFFICES ASSUME NEW j \in DOMAIN queue
                   PROVE  \E i \in DOMAIN queue' : queue'[i] = queue[j]
        OBVIOUS
      <4>0. j \in 1 .. Len(queue)
        BY <3>1
      <4>1. CASE j < k
        BY <3>1, <3>2, <4>0, <4>1
      <4>2. CASE j >= k
        <5>1. j + 1 \in DOMAIN queue' /\ queue'[j + 1] = queue[j]
          BY <3>1, <3>2, <4>0, <4>2
        <5> QED BY <5>1
      <4> QED BY <3>1, <4>0, <4>1, <4>2
    <3>7. \E i \in DOMAIN queue' : queue'[i] = l
      BY <3>1, <3>2
    <3>8. /\ pc \in [Lockers -> PCs] /\ wst' = wst /\ picked' = picked /\ wst[l] = "WAITING"
          /\ pc' = [pc EXCEPT ![l] = IF l \in Threads THEN "check" ELSE "pending"]
      BY <1>3, <2>2 DEF Enqueue, Goto, GrantVars, TypeOK
    <3>9. \A i \in DOMAIN queue' : pc'[queue'[i]] \in WaitPCs /\ wst'[queue'[i]] = "WAITING"
      BY <3>1, <3>5, <3>8
    <3>10. picked' \subseteq {queue'[i] : i \in DOMAIN queue'}
      BY <3>6, <3>8
    <3>11. \A m \in Lockers : pc'[m] \in WaitPCs /\ wst'[m] = "WAITING" => Linked(m)'
      BY <3>6, <3>7, <3>8
    <3> QED BY <3>4, <3>9, <3>10, <3>11
  <2> QED BY <2>1, <2>2
<1>4. ASSUME NEW l \in Lockers, Age(l) PROVE WaitersLinked'
  BY <1>4 DEF Age, Goto, GrantVars, TypeOK, Lockers
<1>5. ASSUME NEW l \in Lockers, Unlock(l) PROVE WaitersLinked'
  BY <1>5 DEF Unlock, Goto, GrantVars, TypeOK, Lockers, UnlockStep
<1>6. ASSUME NEW l \in Lockers, Grant(l) PROVE WaitersLinked'
  <2> DEFINE held == IF clear[l] THEN [word EXCEPT !.writer = FALSE] ELSE word
  <2>1. held \in Words /\ queue \in Seq(Lockers)
    BY DEF TypeOK, Words
  <2>2. Picks(held) \subseteq {queue[i] : i \in DOMAIN queue}
    BY <2>1, PicksQueued
  <2>3. picked' = Picks(held)
    BY <1>6 DEF Grant
  <2> HIDE DEF held
  <2> QED BY <1>6, <2>2, <2>3 DEF Grant, Goto, GrantVars, TypeOK
<1>7. ASSUME NEW l \in Lockers, NEW w \in Lockers, GrantOne(l, w) PROVE WaitersLinked'
  <2> DEFINE q == Without(queue, w)
  <2>1. queue \in Seq(Lockers) /\ queue' = q /\ picked' = picked \ {w} /\ pc' = pc
    BY <1>7 DEF GrantOne, TypeOK
  <2>2. /\ \A i \in DOMAIN q : q[i] # w /\ \E a \in DOMAIN queue : q[i] = queue[a]
        /\ \A i, j \in DOMAIN q :
             i < j => \E a, b \in DOMAIN queue : a < b /\ q[i] = queue[a] /\ q[j] = queue[b]
        /\ \A a \in DOMAIN queue : queue[a] # w => \E i \in DOMAIN q : q[i] = queue[a]
        /\ q \in Seq(Lockers)
    BY <2>1, WithoutProperty
  <2> HIDE DEF q
  <2>3. \A i, j \in DOMAIN q : q[i] = q[j] => i = j
    <3>1. \A i, j \in DOMAIN q : i < j => q[i] # q[j]
      BY <2>1, <2>2
    <3> QED BY <2>2, <3>1
  <2>4. \A k \in Lockers : k # w => wst'[k] = wst[k]
    BY <1>7 DEF GrantOne, TypeOK
  <2>5. wst'[w] # "WAITING"
    BY <1>7 DEF GrantOne, TypeOK
  <2>6. \A i \in DOMAIN q : q[i] \in Lockers
    BY <2>2
  <2> QED BY <2>1, <2>2, <2>3, <2>4, <2>5, <2>6
<1>8. ASSUME NEW l \in Lockers, GrantDone(l) PROVE WaitersLinked'
  BY <1>8 DEF GrantDone, Goto, GrantVars, TypeOK, Lockers, SectionOK
<1>9. ASSUME NEW l \in Lockers, NEW w \in Lockers, Wake(l, w) PROVE WaitersLinked'
  BY <1>9 DEF Wake, Goto, GrantVars, TypeOK, Lockers
<1>10. ASSUME NEW l \in Lockers, WakesDone(l) PROVE WaitersLinked'
  BY <1>10 DEF WakesDone, Goto, GrantVars, TypeOK, Lockers
<1>11. ASSUME NEW l \in Threads, Spin(l) PROVE WaitersLinked'
  BY <1>11 DEF Spin, Goto, GrantVars, TypeOK, Lockers
<1>12. ASSUME NEW l \in Threads, Check(l) PROVE WaitersLinked'
  BY <1>12 DEF Check, Goto, GrantVars, TypeOK, Lockers
<1>13. ASSUME NEW l \in Threads, Park(l) PROVE WaitersLinked'
  BY <1>13 DEF Park, Goto, GrantVars, TypeOK, Lockers
<1>14. ASSUME NEW l \in Threads, ParkSpurious(l) PROVE WaitersLinked'
  BY <1>14 DEF ParkSpurious, Goto, GrantVars, TypeOK, Lockers
<1>15. ASSUME NEW l \in Threads, End(l) PROVE WaitersLinked'
  BY <1>15 DEF End, Goto, GrantVars, TypeOK, Lockers
<1>16. ASSUME NEW l \in Futures, Poll(l) PROVE WaitersLinked'
  BY <1>16 DEF Poll, Goto, GrantVars, TypeOK, Lockers
<1>17. ASSUME NEW l \in Futures, Recheck(l) PROVE WaitersLinked'
  BY SMTT(40), <1>17 DEF Recheck, Goto, GrantVars, TypeOK, Lockers
<1>18. ASSUME NEW l \in Futures, Relink(l) PROVE WaitersLinked'
  BY <1>18 DEF Relink, Goto, GrantVars, TypeOK, Lockers
<1>19. ASSUME NEW l \in Futures, Move(l) PROVE WaitersLinked'
  BY <1>19 DEF Move, Goto, GrantVars, TypeOK, Lockers
<1>20. ASSUME NEW l \in Futures, Cancel(l) PROVE WaitersLinked'
  BY <1>20 DEF Cancel, Goto, GrantVars, TypeOK, Lockers
<1>21. ASSUME NEW l \in Futures, Unlink(l) PROVE WaitersLinked'
  <2>1. CASE ~Linked(l)
    BY <1>21, <2>1 DEF Unlink, Goto, GrantVars, TypeOK, Lockers
  <2>2. CASE Linked(l)
    <3> DEFINE q == Without(queue, l)
    <3>1. /\ queue \in Seq(Lockers) /\ l \in Lockers /\ queue' = q
          /\ picked' = {} /\ wst' = wst /\ pc \in [Lockers -> PCs]
          /\ pc'[l] \notin WaitPCs /\ \A k \in Lockers : k # l => pc'[k] = pc[k]
      BY <1>21, <2>2 DEF Unlink, AfterUnlink, Goto, GrantVars, TypeOK, SectionOK, Lockers
    <3>2. /\ \A i \in DOMAIN q : q[i] # l /\ \E a \in DOMAIN queue : q[i] = queue[a]
          /\ \A i, j \in DOMAIN q :
               i < j => \E a, b \in DOMAIN queue : a < b /\ q[i] = queue[a] /\ q[j] = queue[b]
          /\ \A a \in DOMAIN queue : queue[a] # l => \E i \in DOMAIN q : q[i] = queue[a]
          /\ q \in Seq(Lockers)
      BY <3>1, WithoutProperty
    <3> HIDE DEF q
    <3>3. \A i, j \in DOMAIN q : q[i] = q[j] => i = j
      <4>1. \A i, j \in DOMAIN q : i < j => q[i] # q[j]
        BY <3>1, <3>2
      <4> QED BY <3>2, <4>1
    <3>4. \A i \in DOMAIN q : q[i] \in Lockers
      BY <3>2
    <3> QED BY <3>1, <3>2, <3>3, <3>4
  <2> QED BY <2>1, <2>2
<1>22. ASSUME NEW l \in Futures, PassOn(l) PROVE WaitersLinked'
  BY <1>22 DEF PassOn, Goto, GrantVars, TypeOK, Lockers, UnlockStep
<1>23. CASE UNCHANGED vars
  BY <1>23 DEF vars
<1> QED
  BY <1>1, <1>2, <1>3, <1>4, <1>5, <1>6, <1>7, <1>8, <1>9, <1>10, <1>11, <1>12,
     <1>13, <1>14, <1>15, <1>16, <1>17, <1>18, <1>19, <1>20, <1>21, <1>22, <1>23
     DEF Next, LockerStep, ThreadStep, FutureStep

\* What a step does to the owners, as RwLockSpec allows it.
AbstractStep == [Abstract!Next]_(Abstract!vars)

\* Nobody's ownership changes.
LEMMA OwnersKept ==
  ASSUME IInv, word'.writer = word.writer, word'.readers = word.readers,
         \A k \in Lockers : Owns(k)' <=> Owns(k),
         \A k \in Lockers : Owns(k) => shared'[k] = shared[k]
  PROVE  Exclusion' /\ WordCountsOwners' /\ AbstractStep
<1>1. WriteOwners' = WriteOwners /\ ReadOwners' = ReadOwners
  BY DEF WriteOwners, ReadOwners
<1>2. Exclusion /\ WordCountsOwners
  BY DEF IInv
<1>3. Exclusion'
  BY <1>1, <1>2 DEF Exclusion
<1>4. WordCountsOwners'
  BY <1>1, <1>2 DEF WordCountsOwners
<1>5. AbstractStep
  BY <1>1 DEF AbstractStep, Abstract!vars
<1> QED BY <1>3, <1>4, <1>5

\* A locker that found the lock free becomes an owner.
LEMMA OwnerTakes ==
  ASSUME IInv, NEW l \in Lockers, FreeFor(word, l), word' = Taken(word, l),
         ~Owns(l), Owns(l)', shared' = shared,
         \A k \in Lockers : k # l => (Owns(k)' <=> Owns(k))
  PROVE  Exclusion' /\ WordCountsOwners' /\ AbstractStep
<1>1. Exclusion /\ WordCountsOwners /\ word \in Words /\ shared \in [Lockers -> BOOLEAN]
  BY DEF IInv, TypeOK
<1>2. IsFiniteSet(ReadOwners) /\ Cardinality(ReadOwners) \in Nat
  BY OwnersFinite
<1>3. WriteOwners = {}
  BY <1>1 DEF FreeFor, WordCountsOwners
<1>4. CASE shared[l]
  <2>1. WriteOwners' = WriteOwners /\ ReadOwners' = ReadOwners \cup {l} /\ l \notin ReadOwners
    BY <1>4 DEF WriteOwners, ReadOwners
  <2>2. Cardinality(ReadOwners') = Cardinality(ReadOwners) + 1
    BY <1>2, <2>1, FS_AddElement
  <2>3. word'.writer = word.writer /\ word'.readers = word.readers + 1
    BY <1>1, <1>4 DEF Taken, Words
  <2>4. Exclusion'
    BY <1>3, <2>1 DEF Exclusion
  <2>5. WordCountsOwners'
    BY <1>1, <1>3, <2>1, <2>2, <2>3 DEF WordCountsOwners
  <2>6. AbstractStep
    <3>1. l \in Lockers \ ReadOwners
      BY <2>1
    <3> QED BY <1>3, <2>1, <3>1 DEF AbstractStep, Abstract!Next, Abstract!Take
  <2> QED BY <2>4, <2>5, <2>6
<1>5. CASE ~shared[l]
  <2>1. WriteOwners' = {l} /\ ReadOwners' = ReadOwners
    BY <1>3, <1>5 DEF WriteOwners, ReadOwners
  <2>2. word'.writer = TRUE /\ word'.readers = word.readers
    BY <1>1, <1>5 DEF Taken, Words
  <2>3. ReadOwners = {}
    BY <1>1, <1>2, <1>5, FS_EmptySet DEF FreeFor, WordCountsOwners
  <2>4. Exclusion'
    BY <2>1, <2>3 DEF Exclusion
  <2>5. WordCountsOwners'
    BY <1>1, <2>1, <2>2 DEF WordCountsOwners
  <2>6. AbstractStep
    BY <1>3, <2>1, <2>3 DEF AbstractStep, Abstract!Next, Abstract!Take, Abstract!Free
  <2> QED BY <2>4, <2>5, <2>6
<1> QED BY <1>4, <1>5

\* An owner lets go, and the word says so.
LEMMA OwnerDrops ==
  ASSUME IInv, NEW l \in Lockers, Owns(l), ~(Owns(l)'), shared' = shared,
         \A k \in Lockers : k # l => (Owns(k)' <=> Owns(k)),
         word'.writer = IF shared[l] THEN word.writer ELSE FALSE,
         word'.readers = IF shared[l] THEN word.readers - 1 ELSE word.readers
  PROVE  Exclusion' /\ WordCountsOwners' /\ AbstractStep
<1>1. Exclusion /\ WordCountsOwners /\ word \in Words
  BY DEF IInv, TypeOK
<1>2. IsFiniteSet(ReadOwners) /\ Cardinality(ReadOwners) \in Nat
  BY OwnersFinite
<1>3. CASE shared[l]
  <2>1. WriteOwners' = WriteOwners /\ ReadOwners' = ReadOwners \ {l} /\ l \in ReadOwners
    BY <1>3 DEF WriteOwners, ReadOwners
  <2>2. Cardinality(ReadOwners') = Cardinality(ReadOwners) - 1
    BY <1>2, <2>1, FS_RemoveElement
  <2>3. Exclusion'
    BY <1>1, <2>1 DEF Exclusion
  <2>4. WordCountsOwners'
    BY <1>1, <1>3, <2>1, <2>2 DEF WordCountsOwners
  <2>5. AbstractStep
    BY <2>1 DEF AbstractStep, Abstract!Next, Abstract!DropRead
  <2> QED BY <2>3, <2>4, <2>5
<1>4. CASE ~shared[l]
  <2>1. WriteOwners' = {} /\ ReadOwners' = ReadOwners
    BY <1>1, <1>4 DEF WriteOwners, ReadOwners, Exclusion
  <2>2. Exclusion'
    BY <2>1 DEF Exclusion
  <2>3. WordCountsOwners'
    BY <1>1, <1>4, <2>1 DEF WordCountsOwners
  <2>4. AbstractStep
    <3>1. l \in WriteOwners
      BY <1>4 DEF WriteOwners
    <3> QED BY <2>1, <3>1 DEF AbstractStep, Abstract!Next, Abstract!DropWrite
  <2> QED BY <2>2, <2>3, <2>4
<1> QED BY <1>3, <1>4

\* Owners that take the lock where RwLockSpec lets them, or none at all.
LEMMA OwnersTake ==
  ASSUME NEW W \in SUBSET Lockers, NEW R \in SUBSET Lockers, ReadOwners \cap R = {},
         WriteOwners' = WriteOwners \cup W, ReadOwners' = ReadOwners \cup R,
         \/ W = {} /\ R = {}
         \/ WriteOwners = {} /\ ReadOwners = {} /\ R = {} /\ \E m : W = {m}
         \/ WriteOwners = {} /\ W = {}
  PROVE  AbstractStep
<1>1. CASE W = {} /\ R = {}
  <2>1. WriteOwners' = WriteOwners /\ ReadOwners' = ReadOwners
    BY <1>1
  <2> QED BY <2>1 DEF AbstractStep, Abstract!vars
<1>2. CASE WriteOwners = {} /\ ReadOwners = {} /\ R = {} /\ \E m : W = {m}
  <2>1. PICK m \in Lockers : W = {m}
    BY <1>2
  <2>2. WriteOwners' = {m} /\ ReadOwners' = ReadOwners
    BY <1>2, <2>1
  <2>3. Abstract!Take
    BY <1>2, <2>2 DEF Abstract!Take, Abstract!Free
  <2> QED BY <2>3 DEF AbstractStep, Abstract!Next
<1>3. CASE WriteOwners = {} /\ W = {}
  <2>1. R \in SUBSET (Lockers \ ReadOwners) /\ WriteOwners' = WriteOwners
    BY <1>3
  <2>2. Abstract!Take
    BY <1>3, <2>1 DEF Abstract!Take
  <2> QED BY <2>2 DEF AbstractStep, Abstract!Next
<1> QED BY <1>1, <1>2, <1>3

\* The writer that lets go hands the lock over as RwLockSpec lets it.
LEMMA WriterHandsOver ==
  ASSUME NEW l \in Lockers, WriteOwners = {l}, ReadOwners = {},
         NEW W \in SUBSET Lockers, NEW R \in SUBSET Lockers, l \notin W, l \notin R,
         WriteOwners' = W, ReadOwners' = R,
         \/ W = {} /\ R = {}
         \/ R = {} /\ \E m : W = {m}
         \/ W = {}
  PROVE  AbstractStep
<1>1. CASE R = {} /\ \E m : W = {m}
  <2>1. PICK m \in Lockers \ {l} : W = {m}
    BY <1>1
  <2>2. WriteOwners' = {m} /\ ReadOwners' = ReadOwners
    BY <1>1, <2>1
  <2>3. Abstract!HandOver(l)
    BY <2>2 DEF Abstract!HandOver
  <2> QED BY <2>3 DEF AbstractStep, Abstract!Next
<1>2. CASE W = {}
  <2>1. R \in SUBSET (Lockers \ {l}) /\ WriteOwners' = {} /\ ReadOwners' = R
    BY <1>2
  <2>2. Abstract!HandOver(l)
    BY <2>1 DEF Abstract!HandOver
  <2> QED BY <2>2 DEF AbstractStep, Abstract!Next
<1> QED BY <1>1, <1>2

\* No step gives the lock to two that exclude each other, or miscounts, or does
\* to the owners what RwLockSpec does not do.
LEMMA OwnersStep ==
  ASSUME IInv, [Next]_vars PROVE Exclusion' /\ WordCountsOwners' /\ AbstractStep
<1> USE  DEF IInv
<1>1. ASSUME NEW l \in Lockers, NEW mode \in Modes[l], Start(l, mode)
      PROVE  Exclusion' /\ WordCountsOwners' /\ AbstractStep
  <2>1. /\ word' = word
        /\ \A k \in Lockers : Owns(k)' <=> Owns(k)
        /\ \A k \in Lockers : Owns(k) => shared'[k] = shared[k]
    BY <1>1, PickedWait DEF Start, Goto, GrantVars, Owns, TypeOK, WaitPCs, Lockers, FreshOK, ClearOK
  <2> QED BY <2>1, OwnersKept
<1>2. ASSUME NEW l \in Lockers, TryLock(l) PROVE Exclusion' /\ WordCountsOwners' /\ AbstractStep
  <2>1. CASE FreeFor(word, l) /\ word' = Taken(word, l) /\ Goto(l, "held")
    <3>1. /\ ~Owns(l) /\ Owns(l)' /\ shared' = shared /\ l \in Lockers
          /\ \A k \in Lockers : k # l => (Owns(k)' <=> Owns(k))
      BY <1>2, <2>1, PickedWait DEF TryLock, Goto, GrantVars, Owns, TypeOK, WaitPCs, Lockers
    <3> QED BY <2>1, <3>1, OwnerTakes
  <2>2. CASE ~(FreeFor(word, l) /\ word' = Taken(word, l) /\ Goto(l, "held"))
    <3>1. /\ word'.writer = word.writer /\ word'.readers = word.readers
          /\ \A k \in Lockers : Owns(k)' <=> Owns(k)
          /\ \A k \in Lockers : Owns(k) => shared'[k] = shared[k]
      BY <1>2, <2>2, PickedWait DEF TryLock, Goto, GrantVars, Owns, TypeOK, Words, WaitPCs,
         FreshOK, Lockers
    <3> QED BY <3>1, OwnersKept
  <2> QED BY <2>1, <2>2
<1>3. ASSUME NEW l \in Lockers, Enqueue(l) PROVE Exclusion' /\ WordCountsOwners' /\ AbstractStep
  <2>1. CASE FreeFor(word, l) /\ word' = Taken(word, l) /\ Goto(l, "held")
    <3>1. /\ ~Owns(l) /\ Owns(l)' /\ shared' = shared /\ l \in Lockers
          /\ \A k \in Lockers : k # l => (Owns(k)' <=> Owns(k))
      BY <1>3, <2>1, PickedWait DEF Enqueue, Goto, GrantVars, Owns, TypeOK, WaitPCs, Lockers
    <3> QED BY <2>1, <3>1, OwnerTakes
  <2>2. CASE ~(FreeFor(word, l) /\ word' = Taken(word, l) /\ Goto(l, "held"))
    <3>2. word'.writer = word.writer /\ word'.readers = word.readers
      BY <1>3, <2>2 DEF Enqueue, TypeOK, Words
    <3>1. /\ \A k \in Lockers : Owns(k)' <=> Owns(k)
          /\ \A k \in Lockers : Owns(k) => shared'[k] = shared[k]
      BY <1>3, <2>2, PickedWait DEF Enqueue, Goto, GrantVars, Owns, TypeOK, WaitPCs, FreshOK,
         Lockers
    <3> QED BY <3>1, <3>2, OwnersKept
  <2> QED BY <2>1, <2>2
<1>4. ASSUME NEW l \in Lockers, Age(l) PROVE Exclusion' /\ WordCountsOwners' /\ AbstractStep
  <2>1. /\ word' = word
        /\ \A k \in Lockers : Owns(k)' <=> Owns(k)
        /\ \A k \in Lockers : Owns(k) => shared'[k] = shared[k]
    BY <1>4, PickedWait DEF Age, Goto, GrantVars, Owns, TypeOK, WaitPCs, Lockers, FreshOK, ClearOK
  <2> QED BY <2>1, OwnersKept
<1>5. ASSUME NEW l \in Lockers, Unlock(l) PROVE Exclusion' /\ WordCountsOwners' /\ AbstractStep
  <2> DEFINE defers == ~shared[l] /\ (word.parked \/ word.writerParked)
  <2>0. l \in Lockers /\ Owns(l)
    BY <1>5 DEF Unlock, Owns, WaitPCs, Lockers
  <2>1. CASE ~defers
    <3>1. /\ ~(Owns(l)') /\ shared' = shared
          /\ \A k \in Lockers : k # l => (Owns(k)' <=> Owns(k))
      BY <1>5, <2>0, <2>1, PickedWait DEF Unlock, UnlockStep, Goto, Owns, TypeOK, WaitPCs,
         ClearOK, FreshOK
    <3>2. /\ word'.writer = IF shared[l] THEN word.writer ELSE FALSE
          /\ word'.readers = IF shared[l] THEN word.readers - 1 ELSE word.readers
      BY <1>5, <2>0, <2>1 DEF Unlock, UnlockStep, TypeOK, Words
    <3> QED BY <2>0, <2>1, <3>1, <3>2, OwnerDrops
  <2>2. CASE defers
    <3>1. /\ word' = word
          /\ \A k \in Lockers : Owns(k)' <=> Owns(k)
          /\ \A k \in Lockers : Owns(k) => shared'[k] = shared[k]
      BY <1>5, <2>0, <2>2, PickedWait DEF Unlock, UnlockStep, Goto, Owns, TypeOK, WaitPCs,
         ClearOK, FreshOK
    <3> QED BY <3>1, OwnersKept
  <2> QED BY <2>1, <2>2
<1>6. ASSUME NEW l \in Lockers, Grant(l) PROVE Exclusion' /\ WordCountsOwners' /\ AbstractStep
  <2> DEFINE held == IF clear[l] THEN [word EXCEPT !.writer = FALSE] ELSE word
             H == Handed(Picks(held))
  <2>1. /\ held \in Words /\ queue \in Seq(Lockers)
        /\ held.writer = (word.writer /\ ~clear[l]) /\ held.readers = word.readers
    BY DEF TypeOK, Words
  <2>2. /\ H \subseteq Picks(held)
        /\ Picks(held) \subseteq {queue[i] : i \in DOMAIN queue}
        /\ \/ Picks(held) = {}
           \/ ~held.writer /\ held.readers = 0 /\ \E m \in DOMAIN queue : Picks(held) = {queue[m]}
           \/ ~held.writer /\ \A k \in Picks(held) : shared[k]
    BY <2>1, PicksQueued DEF Handed
  <2>3. /\ given' = H /\ shared' = shared /\ wst' = wst /\ pc' = [pc EXCEPT ![l] = "grant"]
        /\ clear' = [clear EXCEPT ![l] = FALSE] /\ given = {} /\ pc[l] = "release"
        /\ word'.writer = (held.writer \/ \E w \in H : ~shared[w])
        /\ word'.readers = held.readers + Cardinality({w \in H : shared[w]})
    BY <1>6 DEF Grant, Goto, SectionOK, TypeOK
  <2> HIDE DEF held, H
  <2>4. \A k \in H : k \in Lockers /\ k # l /\ pc[k] \in WaitPCs /\ wst[k] = "WAITING"
    BY <2>1, <2>2, <2>3 DEF WaitersLinked, WaitPCs
  <2>5. /\ Owns(l) <=> clear[l]
        /\ ~(Owns(l)')
        /\ \A k \in H : ~Owns(k) /\ Owns(k)'
        /\ \A k \in Lockers \ H : k # l => (Owns(k)' <=> Owns(k))
    BY <2>3, <2>4 DEF Owns, TypeOK, WaitPCs, ClearOK
  <2> DEFINE HW == {w \in H : ~shared[w]}
             HR == {w \in H : shared[w]}
  <2>6. /\ ReadOwners' = ReadOwners \cup HR /\ ReadOwners \cap HR = {}
        /\ WriteOwners' = (WriteOwners \ {l}) \cup HW
    BY <2>3, <2>4, <2>5 DEF ReadOwners, WriteOwners, ClearOK
  <2>7. clear[l] => WriteOwners = {l} /\ word.writer
    BY <2>5 DEF WriteOwners, ClearOK, Exclusion, WordCountsOwners
  <2>8. /\ IsFiniteSet(ReadOwners) /\ IsFiniteSet(HR)
        /\ Cardinality(ReadOwners) \in Nat /\ Cardinality(HR) \in Nat
    BY <2>4, OwnersFinite
  <2>9. Cardinality(ReadOwners') = Cardinality(ReadOwners) + Cardinality(HR)
    <3>1. Cardinality(ReadOwners \cap HR) = 0
      BY <2>6, FS_EmptySet
    <3> HIDE DEF HR
    <3>2. Cardinality(ReadOwners \cup HR) =
            Cardinality(ReadOwners) + Cardinality(HR) - Cardinality(ReadOwners \cap HR)
      BY <2>8, FS_Union
    <3>3. ReadOwners' = ReadOwners \cup HR
      BY <2>6
    <3>4. Cardinality(ReadOwners') = Cardinality(ReadOwners \cup HR)
      BY <3>3
    <3> QED BY <2>8, <3>1, <3>2, <3>4
  <2>10. held.readers = Cardinality(ReadOwners) /\ (held.writer <=> WriteOwners \ {l} # {})
    <3>1. ~clear[l] => l \notin WriteOwners
      BY <2>5 DEF WriteOwners
    <3> QED BY <2>1, <2>7, <3>1 DEF WordCountsOwners, TypeOK, Words
  <2>11. \/ H = {}
         \/ ~held.writer /\ ReadOwners = {} /\ HR = {} /\ \E m : HW = {m}
         \/ ~held.writer /\ HW = {}
    <3>1. held.readers = 0 => ReadOwners = {}
      BY <2>8, <2>10, FS_EmptySet
    <3>2. CASE \E m \in DOMAIN queue : Picks(held) = {queue[m]} /\ ~held.writer /\ held.readers = 0
      <4>1. PICK k : H = {} \/ H = {k}
        BY <2>2, <3>2
      <4>2. shared[k] \in BOOLEAN \/ H = {}
        BY <2>4, <4>1 DEF TypeOK
      <4> QED BY <3>1, <3>2, <4>1, <4>2
    <3> QED BY <2>2, <3>2
  <2>12. Exclusion'
    BY <2>6, <2>10, <2>11 DEF Exclusion
  <2>13. WordCountsOwners'
    BY <2>3, <2>6, <2>9, <2>10 DEF WordCountsOwners
  <2>14. HW \in SUBSET Lockers /\ HR \in SUBSET Lockers /\ l \notin HW /\ l \notin HR
    BY <2>4
  <2>15. H = {} => HW = {} /\ HR = {}
    OBVIOUS
  <2> HIDE DEF HW, HR
  <2>16. CASE clear[l]
    <3>1. WriteOwners = {l} /\ ReadOwners = {} /\ WriteOwners' = HW /\ ReadOwners' = HR
      BY <2>6, <2>7, <2>14, <2>16 DEF Exclusion
    <3>2. \/ HW = {} /\ HR = {}
          \/ HR = {} /\ \E m : HW = {m}
          \/ HW = {}
      BY <2>11, <2>15
    <3> QED BY <2>12, <2>13, <2>14, <3>1, <3>2, WriterHandsOver
  <2>17. CASE ~clear[l]
    <3>1. WriteOwners' = WriteOwners \cup HW /\ ReadOwners' = ReadOwners \cup HR
      BY <2>5, <2>6, <2>17 DEF WriteOwners
    <3>2. ~held.writer => WriteOwners = {}
      BY <2>5, <2>10, <2>17 DEF WriteOwners
    <3>3. \/ HW = {} /\ HR = {}
          \/ WriteOwners = {} /\ ReadOwners = {} /\ HR = {} /\ \E m : HW = {m}
          \/ WriteOwners = {} /\ HW = {}
      BY <2>11, <2>15, <3>2
    <3> QED BY <2>6, <2>12, <2>13, <2>14, <3>1, <3>3, OwnersTake
  <2> QED BY <2>12, <2>13, <2>16, <2>17
<1>7. ASSUME NEW l \in Lockers, NEW w \in Lockers, GrantOne(l, w)
      PROVE  Exclusion' /\ WordCountsOwners' /\ AbstractStep
  <2>1. /\ word' = word
        /\ \A k \in Lockers : Owns(k)' <=> Owns(k)
        /\ \A k \in Lockers : Owns(k) => shared'[k] = shared[k]
    BY <1>7, PickedWait DEF GrantOne, Goto, GrantVars, Owns, TypeOK, WaitPCs, Lockers, ClearOK
  <2> QED BY <2>1, OwnersKept
<1>8. ASSUME NEW l \in Lockers, GrantDone(l) PROVE Exclusion' /\ WordCountsOwners' /\ AbstractStep
  <2>1. /\ word' = word
        /\ \A k \in Lockers : Owns(k)' <=> Owns(k)
        /\ \A k \in Lockers : Owns(k) => shared'[k] = shared[k]
    BY <1>8, PickedWait DEF GrantDone, Goto, GrantVars, Owns, TypeOK, WaitPCs, Lockers,
       SectionOK, ClearOK
  <2> QED BY <2>1, OwnersKept
<1>9. ASSUME NEW l \in Lockers, NEW w \in Lockers, Wake(l, w)
      PROVE  Exclusion' /\ WordCountsOwners' /\ AbstractStep
  <2>1. /\ word' = word
        /\ \A k \in Lockers : Owns(k)' <=> Owns(k)
        /\ \A k \in Lockers : Owns(k) => shared'[k] = shared[k]
    BY <1>9, PickedWait DEF Wake, Goto, GrantVars, Owns, TypeOK, WaitPCs, Lockers, FreshOK, ClearOK
  <2> QED BY <2>1, OwnersKept
<1>10. ASSUME NEW l \in Lockers, WakesDone(l) PROVE Exclusion' /\ WordCountsOwners' /\ AbstractStep
  <2>1. /\ word' = word
        /\ \A k \in Lockers : Owns(k)' <=> Owns(k)
        /\ \A k \in Lockers : Owns(k) => shared'[k] = shared[k]
    BY <1>10, PickedWait DEF WakesDone, Goto, GrantVars, Owns, TypeOK, WaitPCs, Lockers,
       FreshOK, ClearOK
  <2> QED BY <2>1, OwnersKept
<1>11. ASSUME NEW l \in Threads, Spin(l) PROVE Exclusion' /\ WordCountsOwners' /\ AbstractStep
  <2>1. CASE FreeFor(word, l) /\ word' = Taken(word, l) /\ Goto(l, "held")
    <3>1. /\ ~Owns(l) /\ Owns(l)' /\ shared' = shared /\ l \in Lockers
          /\ \A k \in Lockers : k # l => (Owns(k)' <=> Owns(k))
      BY <1>11, <2>1, PickedWait DEF Spin, Goto, GrantVars, Owns, TypeOK, WaitPCs, Lockers
    <3> QED BY <2>1, <3>1, OwnerTakes
  <2>2. CASE ~(FreeFor(word, l) /\ word' = Taken(word, l) /\ Goto(l, "held"))
    <3>1. /\ word'.writer = word.writer /\ word'.readers = word.readers
          /\ \A k \in Lockers : Owns(k)' <=> Owns(k)
          /\ \A k \in Lockers : Owns(k) => shared'[k] = shared[k]
      BY <1>11, <2>2, PickedWait DEF Spin, Goto, GrantVars, Owns, TypeOK, Words, WaitPCs,
         FreshOK, Lockers
    <3> QED BY <3>1, OwnersKept
  <2> QED BY <2>1, <2>2
<1>12. ASSUME NEW l \in Threads, Check(l) PROVE Exclusion' /\ WordCountsOwners' /\ AbstractStep
  <2>1. /\ word' = word
        /\ \A k \in Lockers : Owns(k)' <=> Owns(k)
        /\ \A k \in Lockers : Owns(k) => shared'[k] = shared[k]
    BY <1>12, PickedWait DEF Check, Goto, GrantVars, Owns, TypeOK, WaitPCs, Lockers, FreshOK,
       ClearOK
  <2> QED BY <2>1, OwnersKept
<1>13. ASSUME NEW l \in Threads, Park(l) PROVE Exclusion' /\ WordCountsOwners' /\ AbstractStep
  <2>1. /\ word' = word
        /\ \A k \in Lockers : Owns(k)' <=> Owns(k)
        /\ \A k \in Lockers : Owns(k) => shared'[k] = shared[k]
    BY <1>13, PickedWait DEF Park, Goto, GrantVars, Owns, TypeOK, WaitPCs, Lockers, FreshOK, ClearOK
  <2> QED BY <2>1, OwnersKept
<1>14. ASSUME NEW l \in Threads, ParkSpurious(l)
       PROVE  Exclusion' /\ WordCountsOwners' /\ AbstractStep
  <2>1. /\ word' = word
        /\ \A k \in Lockers : Owns(k)' <=> Owns(k)
        /\ \A k \in Lockers : Owns(k) => shared'[k] = shared[k]
    BY <1>14, PickedWait DEF ParkSpurious, Goto, GrantVars, Owns, TypeOK, WaitPCs, Lockers,
       FreshOK, ClearOK
  <2> QED BY <2>1, OwnersKept
<1>15. ASSUME NEW l \in Threads, End(l) PROVE Exclusion' /\ WordCountsOwners' /\ AbstractStep
  <2>1. /\ word' = word
        /\ \A k \in Lockers : Owns(k)' <=> Owns(k)
        /\ \A k \in Lockers : Owns(k) => shared'[k] = shared[k]
    BY <1>15, PickedWait DEF End, Goto, GrantVars, Owns, TypeOK, WaitPCs, Lockers, FreshOK, ClearOK
  <2> QED BY <2>1, OwnersKept
<1>16. ASSUME NEW l \in Futures, Poll(l) PROVE Exclusion' /\ WordCountsOwners' /\ AbstractStep
  <2>1. /\ word' = word
        /\ \A k \in Lockers : Owns(k)' <=> Owns(k)
        /\ \A k \in Lockers : Owns(k) => shared'[k] = shared[k]
    BY <1>16, PickedWait DEF Poll, Goto, GrantVars, Owns, TypeOK, WaitPCs, Lockers, FreshOK, ClearOK
  <2> QED BY <2>1, OwnersKept
<1>17. ASSUME NEW l \in Futures, Recheck(l) PROVE Exclusion' /\ WordCountsOwners' /\ AbstractStep
  <2>1. /\ word' = word
        /\ \A k \in Lockers : Owns(k)' <=> Owns(k)
        /\ \A k \in Lockers : Owns(k) => shared'[k] = shared[k]
    BY <1>17, PickedWait DEF Recheck, Goto, GrantVars, Owns, TypeOK, WaitPCs, Lockers, FreshOK,
       ClearOK
  <2> QED BY <2>1, OwnersKept
<1>18. ASSUME NEW l \in Futures, Relink(l) PROVE Exclusion' /\ WordCountsOwners' /\ AbstractStep
  <2>1. /\ word' = word
        /\ \A k \in Lockers : Owns(k)' <=> Owns(k)
        /\ \A k \in Lockers : Owns(k) => shared'[k] = shared[k]
    BY <1>18, PickedWait DEF Relink, Goto, GrantVars, Owns, TypeOK, WaitPCs, Lockers, FreshOK,
       ClearOK
  <2> QED BY <2>1, OwnersKept
<1>19. ASSUME NEW l \in Futures, Move(l) PROVE Exclusion' /\ WordCountsOwners' /\ AbstractStep
  <2>1. /\ word' = word
        /\ \A k \in Lockers : Owns(k)' <=> Owns(k)
        /\ \A k \in Lockers : Owns(k) => shared'[k] = shared[k]
    BY <1>19, PickedWait DEF Move, Goto, GrantVars, Owns, TypeOK, WaitPCs, Lockers, FreshOK, ClearOK
  <2> QED BY <2>1, OwnersKept
<1>20. ASSUME NEW l \in Futures, Cancel(l) PROVE Exclusion' /\ WordCountsOwners' /\ AbstractStep
  <2>1. /\ word' = word
        /\ \A k \in Lockers : Owns(k)' <=> Owns(k)
        /\ \A k \in Lockers : Owns(k) => shared'[k] = shared[k]
    BY <1>20, PickedWait DEF Cancel, Goto, GrantVars, Owns, TypeOK, WaitPCs, Lockers, FreshOK,
       ClearOK
  <2> QED BY <2>1, OwnersKept
<1>21. ASSUME NEW l \in Futures, Unlink(l) PROVE Exclusion' /\ WordCountsOwners' /\ AbstractStep
  <2>1. word'.writer = word.writer /\ word'.readers = word.readers
    <3>1. word' \in {word, Flagged(word, queue')}
      BY <1>21 DEF Unlink
    <3> QED BY <3>1 DEF Flagged, TypeOK, Words
  <2>2. /\ \A k \in Lockers : Owns(k)' <=> Owns(k)
        /\ \A k \in Lockers : Owns(k) => shared'[k] = shared[k]
    BY <1>21, PickedWait DEF Unlink, AfterUnlink, Goto, GrantVars, Owns, TypeOK,
       WaitPCs, ClearOK, WaitersLinked, Linked, SectionOK, Lockers
  <2> QED BY <2>1, <2>2, OwnersKept
<1>22. ASSUME NEW l \in Futures, PassOn(l) PROVE Exclusion' /\ WordCountsOwners' /\ AbstractStep
  <2> DEFINE defers == ~shared[l] /\ (word.parked \/ word.writerParked)
  <2>0. l \in Lockers /\ (wst[l] = "GRANTED" => Owns(l))
    BY <1>22 DEF PassOn, Owns, WaitPCs, Lockers
  <2>1. CASE ~defers /\ wst[l] = "GRANTED"
    <3>1. /\ ~(Owns(l)') /\ shared' = shared
          /\ \A k \in Lockers : k # l => (Owns(k)' <=> Owns(k))
      BY <1>22, <2>0, <2>1, PickedWait DEF PassOn, UnlockStep, Goto, Owns, TypeOK, WaitPCs,
         ClearOK, FreshOK
    <3>2. /\ word'.writer = IF shared[l] THEN word.writer ELSE FALSE
          /\ word'.readers = IF shared[l] THEN word.readers - 1 ELSE word.readers
      BY <1>22, <2>0, <2>1 DEF PassOn, UnlockStep, TypeOK, Words
    <3> QED BY <2>0, <2>1, <3>1, <3>2, OwnerDrops
  <2>2. CASE ~(~defers /\ wst[l] = "GRANTED")
    <3>1. /\ word' = word
          /\ \A k \in Lockers : Owns(k)' <=> Owns(k)
          /\ \A k \in Lockers : Owns(k) => shared'[k] = shared[k]
      BY <1>22, <2>0, <2>2, PickedWait DEF PassOn, UnlockStep, Goto, Owns, TypeOK, WaitPCs,
         ClearOK, FreshOK
    <3> QED BY <3>1, OwnersKept
  <2> QED BY <2>1, <2>2
<1>23. CASE UNCHANGED vars
  <2>1. /\ word' = word
        /\ \A k \in Lockers : Owns(k)' <=> Owns(k)
        /\ \A k \in Lockers : Owns(k) => shared'[k] = shared[k]
    BY <1>23 DEF vars, Owns
  <2> QED BY <2>1, OwnersKept
<1> QED
  BY <1>1, <1>2, <1>3, <1>4, <1>5, <1>6, <1>7, <1>8, <1>9, <1>10, <1>11, <1>12,
     <1>13, <1>14, <1>15, <1>16, <1>17, <1>18, <1>19, <1>20, <1>21, <1>22, <1>23
     DEF Next, LockerStep, ThreadStep, FutureStep

\* Nothing the flags depend on changes.
LEMMA FlagsKept ==
  ASSUME IInv, queue' = queue, picked' = picked,
         word'.parked = word.parked, word'.writerParked = word.writerParked,
         \A i \in DOMAIN queue : shared'[queue[i]] = shared[queue[i]]
  PROVE  FlagsOK'
BY DEF IInv, FlagsOK

\* The flags say who stays queued.
LEMMA FlagsStep ==
  ASSUME IInv, [Next]_vars PROVE FlagsOK'
<1> DEFINE Kept == /\ queue' = queue /\ picked' = picked
                   /\ word'.parked = word.parked /\ word'.writerParked = word.writerParked
                   /\ \A i \in DOMAIN queue : shared'[queue[i]] = shared[queue[i]]
<1>0. Kept => FlagsOK'
  BY FlagsKept
<1>t. /\ word \in Words /\ queue \in Seq(Lockers)
      /\ pc \in [Lockers -> PCs] /\ shared \in [Lockers -> BOOLEAN]
  BY DEF IInv, TypeOK
<1>1. ASSUME NEW l \in Lockers, NEW mode \in Modes[l], Start(l, mode) PROVE FlagsOK'
  <2>1. \A i \in DOMAIN queue : queue[i] # l /\ queue[i] \in Lockers
    BY <1>1, <1>t DEF Start, IInv, WaitersLinked, WaitPCs
  <2> QED BY <1>1, <2>1, <1>0, <1>t DEF Start, GrantVars
<1>2. ASSUME NEW l \in Lockers, TryLock(l) PROVE FlagsOK'
  BY <1>2, <1>0, <1>t DEF TryLock, Taken, Words, GrantVars
<1>3. ASSUME NEW l \in Lockers, Enqueue(l) PROVE FlagsOK'
  <2>1. CASE FreeFor(word, l)
    BY <1>3, <2>1, <1>0, <1>t DEF Enqueue, Taken, Words, GrantVars
  <2>2. CASE ~FreeFor(word, l)
    <3> DEFINE k == Position(queue, l)
    <3>1. /\ queue' = InsertAt(queue, k, l) /\ picked' = {} /\ picked = {} /\ shared' = shared
          /\ word'.parked = TRUE /\ word'.writerParked = (word.writerParked \/ ~shared[l])
      BY <1>3, <2>2, <1>t DEF Enqueue, GrantVars, IInv, SectionOK, Words
    <3>2. k \in 1 .. Len(queue) + 1
      BY <1>t, PositionProperty
    <3> HIDE DEF k
    <3>3. /\ DOMAIN queue' = 1 .. Len(queue) + 1 /\ DOMAIN queue = 1 .. Len(queue)
          /\ \A i \in 1 .. Len(queue) + 1 :
               queue'[i] = IF i < k THEN queue[i] ELSE IF i = k THEN l ELSE queue[i - 1]
      BY SMTT(40), <3>1, <3>2, <1>t, InsertAtProperty
    <3>4. k \in DOMAIN queue' /\ queue'[k] = l
      BY <3>2, <3>3
    <3>5. \A i \in DOMAIN queue' : queue'[i] = l \/ \E j \in DOMAIN queue : queue'[i] = queue[j]
      BY <3>2, <3>3, <1>t
    <3>6. \A j \in DOMAIN queue : \E i \in DOMAIN queue' : queue'[i] = queue[j]
      <4> SUFFICES ASSUME NEW j \in DOMAIN queue
                   PROVE  \E i \in DOMAIN queue' : queue'[i] = queue[j]
        OBVIOUS
      <4>1. CASE j < k
        BY <3>2, <3>3, <1>t, <4>1
      <4>2. CASE j >= k
        <5>1. j + 1 \in DOMAIN queue' /\ queue'[j + 1] = queue[j]
          BY <3>2, <3>3, <1>t, <4>2
        <5> QED BY <5>1
      <4> QED BY <4>1, <4>2, <3>2, <3>3, <1>t
    <3>7. word.writerParked <=> \E i \in DOMAIN queue : ~shared[queue[i]]
      BY <3>1 DEF IInv, FlagsOK
    <3>8. word'.writerParked <=> \E i \in DOMAIN queue' : ~shared[queue'[i]]
      BY ZenonT(40), <3>1, <3>4, <3>5, <3>6, <3>7
    <3>9. word'.parked /\ \E i \in DOMAIN queue' : TRUE
      BY <3>1, <3>4
    <3> QED BY <3>1, <3>8, <3>9 DEF FlagsOK
  <2> QED BY <2>1, <2>2
<1>4. ASSUME NEW l \in Lockers, Age(l) PROVE FlagsOK'
  BY <1>4, <1>0 DEF Age, GrantVars
<1>5. ASSUME NEW l \in Lockers, Unlock(l) PROVE FlagsOK'
  BY <1>5, <1>0, <1>t DEF Unlock, UnlockStep, Words, GrantVars
<1>6. ASSUME NEW l \in Lockers, Grant(l) PROVE FlagsOK'
  <2> DEFINE held == IF clear[l] THEN [word EXCEPT !.writer = FALSE] ELSE word
             stay == {i \in DOMAIN queue : queue[i] \notin Picks(held)}
  <2>1. /\ picked' = Picks(held) /\ queue' = queue /\ shared' = shared
        /\ word'.parked = (stay # {})
        /\ word'.writerParked = (\E i \in stay : ~shared[queue[i]])
    BY <1>6 DEF Grant
  <2> HIDE DEF held
  <2> QED BY <2>1 DEF FlagsOK
<1>7. ASSUME NEW l \in Lockers, NEW w \in Lockers, GrantOne(l, w) PROVE FlagsOK'
  <2> DEFINE q == Without(queue, w)
  <2>1. /\ queue' = q /\ picked' = picked \ {w} /\ w \in picked /\ word' = word
        /\ shared' = shared
    BY <1>7 DEF GrantOne
  <2>2. /\ \A i \in DOMAIN q : q[i] # w /\ \E a \in DOMAIN queue : q[i] = queue[a]
        /\ \A a \in DOMAIN queue : queue[a] # w => \E i \in DOMAIN q : q[i] = queue[a]
    BY <1>t, WithoutProperty DEF IInv, WaitersLinked
  <2> HIDE DEF q
  <2>3. FlagsOK
    BY DEF IInv
  <2>4. (\E i \in DOMAIN q : q[i] \notin picked \ {w})
          <=> \E a \in DOMAIN queue : queue[a] \notin picked
    BY <2>1, <2>2
  <2>5. (\E i \in DOMAIN q : q[i] \notin picked \ {w} /\ ~shared[q[i]])
          <=> \E a \in DOMAIN queue : queue[a] \notin picked /\ ~shared[queue[a]]
    BY <2>1, <2>2
  <2> QED BY <2>1, <2>3, <2>4, <2>5 DEF FlagsOK
<1>8. ASSUME NEW l \in Lockers, GrantDone(l) PROVE FlagsOK'
  BY <1>8, <1>0 DEF GrantDone, GrantVars
<1>9. ASSUME NEW l \in Lockers, NEW w \in Lockers, Wake(l, w) PROVE FlagsOK'
  BY <1>9, <1>0 DEF Wake, GrantVars
<1>10. ASSUME NEW l \in Lockers, WakesDone(l) PROVE FlagsOK'
  BY <1>10, <1>0 DEF WakesDone, GrantVars
<1>11. ASSUME NEW l \in Threads, Spin(l) PROVE FlagsOK'
  BY <1>11, <1>0, <1>t DEF Spin, Taken, Words, GrantVars
<1>12. ASSUME NEW l \in Threads, Check(l) PROVE FlagsOK'
  BY <1>12, <1>0 DEF Check, GrantVars
<1>13. ASSUME NEW l \in Threads, Park(l) PROVE FlagsOK'
  BY <1>13, <1>0 DEF Park, GrantVars
<1>14. ASSUME NEW l \in Threads, ParkSpurious(l) PROVE FlagsOK'
  BY <1>14, <1>0 DEF ParkSpurious, GrantVars
<1>15. ASSUME NEW l \in Threads, End(l) PROVE FlagsOK'
  BY <1>15, <1>0 DEF End, GrantVars
<1>16. ASSUME NEW l \in Futures, Poll(l) PROVE FlagsOK'
  BY <1>16, <1>0 DEF Poll, GrantVars
<1>17. ASSUME NEW l \in Futures, Recheck(l) PROVE FlagsOK'
  BY <1>17, <1>0 DEF Recheck, GrantVars
<1>18. ASSUME NEW l \in Futures, Relink(l) PROVE FlagsOK'
  BY <1>18, <1>0 DEF Relink, GrantVars
<1>19. ASSUME NEW l \in Futures, Move(l) PROVE FlagsOK'
  BY <1>19, <1>0 DEF Move, GrantVars
<1>20. ASSUME NEW l \in Futures, Cancel(l) PROVE FlagsOK'
  BY <1>20, <1>0 DEF Cancel, GrantVars
<1>21. ASSUME NEW l \in Futures, Unlink(l) PROVE FlagsOK'
  <2>1. CASE ~Linked(l)
    BY <1>21, <2>1, <1>0 DEF Unlink, GrantVars
  <2>2. CASE Linked(l)
    <3>1. /\ word' = Flagged(word, queue') /\ picked' = {} /\ shared' = shared
          /\ queue' = Without(queue, l) /\ l \in Lockers
      BY <1>21, <2>2 DEF Unlink, GrantVars, IInv, SectionOK, Lockers
    <3>2. queue' \in Seq(Lockers)
      BY <3>1, <1>t, WithoutProperty DEF IInv, WaitersLinked
    <3>3. /\ word'.parked = (queue' # <<>>)
          /\ word'.writerParked = (\E i \in DOMAIN queue' : ~shared[queue'[i]])
      BY <3>1, <1>t DEF Flagged, Words
    <3>4. (queue' # <<>>) <=> \E i \in DOMAIN queue' : TRUE
      BY <3>2, NonEmptyProperty
    <3> QED BY <3>1, <3>3, <3>4 DEF FlagsOK
  <2> QED BY <2>1, <2>2
<1>22. ASSUME NEW l \in Futures, PassOn(l) PROVE FlagsOK'
  BY <1>22, <1>0, <1>t DEF PassOn, UnlockStep, Words, GrantVars
<1>23. CASE UNCHANGED vars
  BY <1>23, <1>0 DEF vars
<1> QED
  BY <1>1, <1>2, <1>3, <1>4, <1>5, <1>6, <1>7, <1>8, <1>9, <1>10, <1>11, <1>12,
     <1>13, <1>14, <1>15, <1>16, <1>17, <1>18, <1>19, <1>20, <1>21, <1>22, <1>23
     DEF Next, LockerStep, ThreadStep, FutureStep

\* An unlocked lock satisfies the invariant.
LEMMA InitIInv == Init => IInv
<1> SUFFICES ASSUME Init PROVE IInv
  OBVIOUS
<1>1. TypeOK /\ SectionOK /\ ClearOK /\ FreshOK
  BY LockersAssumption DEF Init, TypeOK, Words, PCs, SectionOK, ClearOK, FreshOK, Lockers
<1>2. WaitersLinked
  BY DEF Init, WaitersLinked, WaitPCs
<1>3. WriteOwners = {} /\ ReadOwners = {}
  BY DEF Init, WriteOwners, ReadOwners, Owns, WaitPCs
<1>4. Exclusion
  BY <1>3 DEF Exclusion
<1>5. WordCountsOwners
  BY <1>3, FS_EmptySet DEF Init, WordCountsOwners
<1>6. FlagsOK
  BY DEF Init, FlagsOK
<1> QED BY <1>1, <1>2, <1>4, <1>5, <1>6 DEF IInv

\* IInv is inductive.
THEOREM Inductive == Spec => []IInv
<1>1. IInv /\ [Next]_vars => IInv'
  BY TypeStep, SectionStep, ClearStep, FreshStep, WaitersStep, OwnersStep, FlagsStep
     DEF IInv
<1> QED BY InitIInv, <1>1, PTL DEF Spec

\* Every reachable state is well typed; that releases never underflow the count
\* of readers in the word is part of it.
THEOREM TypeCorrect == Spec => []TypeOK
BY Inductive, PTL DEF IInv

\* RawLock excludes: at most one writer owns the lock, and no reader with it,
\* whether taken or handed over, by threads and futures alike.
THEOREM LockExcludes == Spec => []Exclusion
BY Inductive, PTL DEF IInv

\* Between critical sections the flags are those of the queue.
LEMMA FlagsTrue == IInv => FlagsMatchQueue
<1> SUFFICES ASSUME IInv, crit = Nobody
             PROVE  /\ word.parked <=> queue # <<>>
                    /\ word.writerParked <=> QueuedWriters # {}
  BY DEF FlagsMatchQueue
<1>1. picked = {} /\ FlagsOK /\ queue \in Seq(Lockers)
  BY DEF IInv, SectionOK, TypeOK
<1>2. (queue # <<>>) <=> \E i \in DOMAIN queue : TRUE
  BY <1>1, NonEmptyProperty
<1>3. QueuedWriters # {} <=> \E i \in DOMAIN queue : ~shared[queue[i]]
  BY DEF QueuedWriters
<1> QED BY <1>1, <1>2, <1>3 DEF FlagsOK

\* The lock word counts exactly the owners, and outside the critical section
\* its flags say exactly what the queue holds.
THEOREM WordIsTheState == Spec => []WordMatches
<1>1. IInv => WordMatches
  BY FlagsTrue DEF IInv, WordMatches
<1> QED BY Inductive, <1>1, PTL

\* No waiter is linked once its owner has gone.
THEOREM LinkedWaitersLive == Spec => []WaitersLinked
BY Inductive, PTL DEF IInv

\* RawLock is a lock for one writer or many readers: every swap, hand-over and
\* dropped future is a step of RwLockSpec, or changes no owner.
THEOREM LockIsALock == Spec => Implements
<1>1. Init => Abstract!Init
  BY DEF Init, Abstract!Init, WriteOwners, ReadOwners, Owns, WaitPCs
<1>2. IInv /\ [Next]_vars => [Abstract!Next]_(Abstract!vars)
  BY OwnersStep DEF AbstractStep
<1> QED BY Inductive, <1>1, <1>2, PTL DEF Spec, Implements, Abstract!Spec

-----------------------------------------------------------------------------
(* Order and service: the queue stays in order, somebody always attends to *)
(* waiters that could have the lock, every waiter let out is woken, and no *)
(* unpark is owed to a task that has ended.                                *)

\* l is on the way to look at the queue, or is a writer on the way to take the
\* lock: a reader on that way does not count, because it may have to queue
\* behind a writer that is there already.
Attends(l) ==
  \/ pc[l] = "release"
  \/ pc[l] \in {"grant", "wake"} /\ more[l]
  \/ /\ ~shared[l]
     /\ \/ pc[l] \in {"try", "spin", "enqueue"}
        \/ pc[l] \in WaitPCs /\ wst[l] = "RETRY"
        \/ l \in picked /\ l \notin given

\* As the lock word has it: waiters stay queued that could have the lock, since
\* nobody has it or they and its owners are all readers.
Servable ==
  word.parked /\ ~word.writer /\ (word.readers = 0 \/ ~word.writerParked)

Attended == Servable => \E l \in Lockers : Attends(l)

\* A future's stored waker is the one it is polled by, or the executor polls it
\* anyway, and while it is queued it has stored one.  It never parks.
WakersStored ==
  \A f \in Futures : /\ pc[f] # "park"
                     /\ Linked(f) => slot[f] # "none"
                     /\ pc[f] = "pending" /\ slot[f] = "stale" => signal[f]

\* The unparks owed, each with who owes it.
Owed == {p \in Lockers \X Threads : p[2] \in wakes[p[1]]}

\* unparking counts the unparks owed, which only a releaser in its section or
\* behind it owes, and no waiter twice.
UnparkingCounts ==
  /\ unparking = Cardinality(Owed)
  /\ \A l \in Lockers : wakes[l] # {} => pc[l] \in {"grant", "wake"}
  /\ \A l \in Lockers : pc[l] = "grant" => wakes[l] \cap picked = {}

\* What the service of the waiters rests on.
SInv == QueueByPriority /\ Attended /\ WakersStored /\ WakeupsLand /\ UnparkingCounts

-----------------------------------------------------------------------------
(* The queue is in order. *)

\* A step leaves the queue alone, puts a locker at its place, or takes one out.
LEMMA QueueStep ==
  ASSUME IInv, [Next]_vars
  PROVE  \/ queue' = queue
         \/ \E l \in Lockers : queue' = InsertAt(queue, Position(queue, l), l)
         \/ \E l \in Lockers : queue' = Without(queue, l)
<1> USE DEF Lockers
<1>1. ASSUME NEW l \in Lockers, LockerStep(l)
      PROVE  \/ queue' = queue
             \/ queue' = InsertAt(queue, Position(queue, l), l)
             \/ \E w \in Lockers : queue' = Without(queue, w)
  BY <1>1 DEF LockerStep, Start, TryLock, Enqueue, Age, Unlock, Grant, GrantOne,
              GrantDone, Wake, WakesDone
<1>2. ASSUME NEW t \in Threads, ThreadStep(t) PROVE queue' = queue
  BY <1>2 DEF ThreadStep, Spin, Check, Park, ParkSpurious, End
<1>3. ASSUME NEW f \in Futures, FutureStep(f)
      PROVE  queue' = queue \/ queue' = Without(queue, f)
  BY <1>3 DEF FutureStep, Poll, Recheck, Relink, Move, Cancel, Unlink, PassOn
<1>4. CASE UNCHANGED vars
  BY <1>4 DEF vars
<1> QED BY <1>1, <1>2, <1>3, <1>4 DEF Next

\* A waiter is linked behind those of its priority, and leaves no gap in the order.
LEMMA OrderStep ==
  ASSUME IInv, QueueByPriority, [Next]_vars PROVE QueueByPriority'
<1>1. /\ queue \in Seq(Lockers) /\ Priority \in [Lockers -> Nat]
      /\ \A i, j \in DOMAIN queue : queue[i] = queue[j] => i = j
      /\ \A i \in DOMAIN queue : Priority[queue[i]] \in Nat
  BY LockersAssumption DEF IInv, TypeOK, WaitersLinked
<1>2. CASE queue' = queue
  BY <1>2 DEF QueueByPriority
<1>3. ASSUME NEW l \in Lockers, queue' = InsertAt(queue, Position(queue, l), l)
      PROVE  QueueByPriority'
  <2> DEFINE k == Position(queue, l)
  <2>1. /\ k \in 1 .. Len(queue) + 1
        /\ \A i \in DOMAIN queue : i >= k => Priority[queue[i]] < Priority[l]
        /\ k > 1 => Priority[queue[k - 1]] >= Priority[l]
    BY <1>1, PositionProperty
  <2>2. queue' = InsertAt(queue, k, l)
    BY <1>3
  <2> HIDE DEF k
  <2>3. /\ DOMAIN queue' = 1 .. Len(queue) + 1 /\ DOMAIN queue = 1 .. Len(queue)
        /\ \A i \in 1 .. Len(queue) + 1 :
             queue'[i] = IF i < k THEN queue[i] ELSE IF i = k THEN l ELSE queue[i - 1]
    <3>1. queue \in Seq(Lockers) /\ k \in 1 .. Len(queue) + 1
      BY <1>1, <2>1
    <3>2. /\ InsertAt(queue, k, l) \in Seq(Lockers)
          /\ Len(InsertAt(queue, k, l)) = Len(queue) + 1
          /\ \A i \in 1 .. Len(queue) + 1 : InsertAt(queue, k, l)[i] =
                IF i < k THEN queue[i] ELSE IF i = k THEN l ELSE queue[i - 1]
      BY ONLY <3>1, l \in Lockers, InsertAtProperty
    <3> QED BY ONLY <2>2, <3>1, <3>2
  <2>4. \A i \in DOMAIN queue : i < k => Priority[queue[i]] >= Priority[l]
    <3> SUFFICES ASSUME NEW i \in DOMAIN queue, i < k
                 PROVE  Priority[queue[i]] >= Priority[l]
      OBVIOUS
    <3>1. k > 1 /\ k - 1 \in DOMAIN queue /\ (i < k - 1 \/ i = k - 1)
      BY <1>1, <2>1, <2>3
    <3>2. Priority[queue[i]] >= Priority[queue[k - 1]]
      BY <1>1, <3>1 DEF QueueByPriority
    <3> QED BY <1>1, <2>1, <3>1, <3>2
  <2> SUFFICES ASSUME NEW i \in DOMAIN queue', NEW j \in DOMAIN queue', i < j
               PROVE  Priority[queue'[i]] >= Priority[queue'[j]]
    BY DEF QueueByPriority
  <2>5. i \in 1 .. Len(queue) + 1 /\ j \in 1 .. Len(queue) + 1 /\ Len(queue) \in Nat
    BY <1>1, <2>3
  <2>6. CASE j < k
    <3>1. i \in DOMAIN queue /\ j \in DOMAIN queue /\ queue'[i] = queue[i] /\ queue'[j] = queue[j]
      BY <2>1, <2>3, <2>5, <2>6
    <3> QED BY <3>1 DEF QueueByPriority
  <2>7. CASE j = k
    <3>1. i \in DOMAIN queue /\ queue'[i] = queue[i] /\ queue'[j] = l
      BY <2>1, <2>3, <2>5, <2>7
    <3> QED BY <2>4, <2>7, <3>1
  <2>8. CASE j > k
    <3>1. j - 1 \in DOMAIN queue /\ queue'[j] = queue[j - 1] /\ j - 1 >= k
      BY <2>1, <2>3, <2>5, <2>8
    <3>2. Priority[queue[j - 1]] < Priority[l]
      BY <2>1, <3>1
    <3>3. CASE i < k
      <4>1. i \in DOMAIN queue /\ queue'[i] = queue[i] /\ i < j - 1
        BY <2>1, <2>3, <2>5, <2>8, <3>3
      <4> QED BY <3>1, <4>1 DEF QueueByPriority
    <3>4. CASE i = k
      <4>1. queue'[i] = l
        BY <2>1, <2>3, <2>5, <3>4
      <4> QED BY <1>1, <3>1, <3>2, <4>1
    <3>5. CASE i > k
      <4>1. i - 1 \in DOMAIN queue /\ queue'[i] = queue[i - 1] /\ i - 1 < j - 1
        BY <2>1, <2>3, <2>5, <3>5
      <4> QED BY <3>1, <4>1 DEF QueueByPriority
    <3> QED BY <2>1, <2>5, <3>3, <3>4, <3>5
  <2> QED BY <2>1, <2>5, <2>6, <2>7, <2>8
<1>4. ASSUME NEW l \in Lockers, queue' = Without(queue, l) PROVE QueueByPriority'
  <2> DEFINE q == Without(queue, l)
  <2>1. \A i, j \in DOMAIN q : i < j => \E a, b \in DOMAIN queue :
                                        a < b /\ q[i] = queue[a] /\ q[j] = queue[b]
    BY <1>1, WithoutProperty
  <2>2. queue' = q
    BY <1>4
  <2> HIDE DEF q
  <2> QED BY <2>1, <2>2 DEF QueueByPriority
<1> QED BY <1>2, <1>3, <1>4, QueueStep

\* k stays ahead of l, or is ahead of l that comes.
KeepsTurn(k, l) ==
  /\ Linked(k) /\ Linked(k)' /\ Linked(l)' /\ k # l
  /\ IF Linked(l) THEN Ahead(k, l) ELSE Priority[k] >= Priority[l]
  => Ahead(k, l)'

\* A newcomer is put behind all who are as urgent, and who is put in or taken
\* out leaves the others in their order.
LEMMA TurnsStep ==
  ASSUME IInv, [Next]_vars, NEW k \in Lockers, NEW l \in Lockers
  PROVE  KeepsTurn(k, l)
<1>1. /\ queue \in Seq(Lockers) /\ Priority \in [Lockers -> Nat]
      /\ \A i, j \in DOMAIN queue : queue[i] = queue[j] => i = j
  BY LockersAssumption DEF IInv, TypeOK, WaitersLinked
<1>2. CASE queue' = queue
  BY <1>2 DEF KeepsTurn, Linked, Ahead
<1>3. ASSUME NEW n \in Lockers, queue' = InsertAt(queue, Position(queue, n), n)
      PROVE  KeepsTurn(k, l)
  <2> DEFINE p == Position(queue, n)
  <2>1. /\ p \in 1 .. Len(queue) + 1
        /\ \A i \in DOMAIN queue : i >= p => Priority[queue[i]] < Priority[n]
    BY <1>1, PositionProperty
  <2>2. queue' = InsertAt(queue, p, n)
    BY <1>3
  <2> HIDE DEF p
  <2>3. /\ DOMAIN queue' = 1 .. Len(queue) + 1 /\ DOMAIN queue = 1 .. Len(queue)
        /\ \A i \in 1 .. Len(queue) + 1 :
             queue'[i] = IF i < p THEN queue[i] ELSE IF i = p THEN n ELSE queue[i - 1]
    <3>1. /\ InsertAt(queue, p, n) \in Seq(Lockers)
          /\ Len(InsertAt(queue, p, n)) = Len(queue) + 1
          /\ \A i \in 1 .. Len(queue) + 1 : InsertAt(queue, p, n)[i] =
                IF i < p THEN queue[i] ELSE IF i = p THEN n ELSE queue[i - 1]
      BY ONLY <1>1, <2>1, n \in Lockers, InsertAtProperty
    <3> QED BY ONLY <1>1, <2>2, <3>1
  <2> DEFINE To(i) == IF i < p THEN i ELSE i + 1
  <2>4. Len(queue) \in Nat /\ p \in Nat
    BY <1>1, <2>1
  <2>5. \A i \in DOMAIN queue : To(i) \in DOMAIN queue' /\ queue'[To(i)] = queue[i]
    BY <2>1, <2>3, <2>4
  <2>6. \A i, j \in DOMAIN queue : i < j => To(i) < To(j)
    BY <2>1, <2>3, <2>4
  <2>7. \A j \in DOMAIN queue' : queue'[j] = n \/ \E i \in DOMAIN queue : queue'[j] = queue[i]
    BY <2>1, <2>3, <2>4
  <2>8. \A i \in DOMAIN queue : i < p => To(i) < p
    OBVIOUS
  <2>9. p \in DOMAIN queue' /\ queue'[p] = n
    BY <2>1, <2>3, <2>4
  <2> HIDE DEF To
  <2>10. Ahead(k, l) => Ahead(k, l)'
    BY <2>5, <2>6 DEF Ahead
  <2>11. Linked(l)' /\ ~Linked(l) => l = n
    BY <2>7 DEF Linked
  <2>12. ASSUME Linked(k), l = n, Priority[k] >= Priority[n] PROVE Ahead(k, l)'
    <3>1. PICK i \in DOMAIN queue : queue[i] = k
      BY <2>12 DEF Linked
    <3>2. Priority[k] \in Nat /\ Priority[n] \in Nat
      BY <1>1
    <3>3. i < p
      <4>1. ~(i >= p)
        BY <2>1, <2>12, <3>1, <3>2
      <4> QED BY <2>3, <2>4, <4>1
    <3> QED BY <2>5, <2>8, <2>9, <2>12, <3>1, <3>3 DEF Ahead
  <2> QED BY <2>10, <2>11, <2>12 DEF KeepsTurn
<1>4. ASSUME NEW n \in Lockers, queue' = Without(queue, n) PROVE KeepsTurn(k, l)
  <2> DEFINE q == Without(queue, n)
  <2>1. /\ \A i \in DOMAIN q : \E a \in DOMAIN queue : q[i] = queue[a]
        /\ \A i, j \in DOMAIN q : i < j => \E a, b \in DOMAIN queue :
                                        a < b /\ q[i] = queue[a] /\ q[j] = queue[b]
        /\ q \in Seq(Lockers)
    BY <1>1, WithoutProperty
  <2>2. queue' = q
    BY <1>4
  <2> HIDE DEF q
  <2> SUFFICES ASSUME Linked(k)', Linked(l)', k # l,
                      IF Linked(l) THEN Ahead(k, l) ELSE Priority[k] >= Priority[l]
               PROVE  Ahead(k, l)'
    BY DEF KeepsTurn
  <2>3. Linked(l)
    BY <2>1, <2>2 DEF Linked
  <2>4. PICK a \in DOMAIN queue, b \in DOMAIN queue : a < b /\ queue[a] = k /\ queue[b] = l
    BY <2>3 DEF Ahead
  <2>5. PICK i \in DOMAIN q, j \in DOMAIN q : q[i] = k /\ q[j] = l
    BY <2>2 DEF Linked
  <2>6. a \in Nat /\ b \in Nat /\ i \in Nat /\ j \in Nat
    <3>1. DOMAIN queue = 1 .. Len(queue) /\ Len(queue) \in Nat
      BY <1>1
    <3>2. DOMAIN q = 1 .. Len(q) /\ Len(q) \in Nat
      BY <2>1
    <3> QED BY <3>1, <3>2
  <2>7. ~(j < i)
    <3> SUFFICES ASSUME j < i PROVE FALSE
      OBVIOUS
    <3>1. PICK c \in DOMAIN queue, d \in DOMAIN queue : c < d /\ queue[c] = l /\ queue[d] = k
      BY <2>1, <2>5
    <3>2. c = b /\ d = a
      BY <1>1, <2>4, <3>1
    <3> QED BY <2>4, <2>6, <3>1, <3>2
  <2>8. i < j
    BY <2>5, <2>6, <2>7
  <2> QED BY <2>2, <2>5, <2>8 DEF Ahead
<1> QED BY <1>2, <1>3, <1>4, QueueStep

-----------------------------------------------------------------------------
(* Somebody attends to waiters that could have the lock. *)

\* Who attended still does, and no more waiters can be served.
LEMMA StillAttended ==
  ASSUME Attended, Servable' => Servable,
         \A k \in Lockers : Attends(k) => Attends(k)'
  PROVE  Attended'
BY DEF Attended

\* Once l attends it does not matter who else does.
LEMMA NowAttended == ASSUME NEW l \in Lockers, Attends(l)' PROVE Attended'
BY DEF Attended

\* A locker that takes the lock was a reader, or leaves nobody to serve.
LEMMA TakerAttended ==
  ASSUME IInv, Attended, NEW l \in Lockers, FreeFor(word, l), word' = Taken(word, l),
         pc[l] \in {"try", "spin", "enqueue"}, pc' = [pc EXCEPT ![l] = "held"],
         UNCHANGED <<shared, wst, more, picked, given>>
  PROVE  Attended'
<1>1. /\ word \in Words /\ pc \in [Lockers -> PCs] /\ shared \in [Lockers -> BOOLEAN]
      /\ l \notin picked
  BY PickedWait DEF IInv, TypeOK, WaitPCs
<1>2. CASE shared[l]
  <2>1. Servable' => Servable
    BY <1>1, <1>2 DEF Servable, FreeFor, Taken, Words
  <2>2. \A k \in Lockers : Attends(k) => Attends(k)'
    BY <1>1, <1>2 DEF Attends, WaitPCs
  <2> QED BY <2>1, <2>2, StillAttended
<1>3. CASE ~shared[l]
  <2>1. ~Servable'
    BY <1>1, <1>3 DEF Servable, Taken, Words
  <2> QED BY <2>1 DEF Attended
<1> QED BY <1>2, <1>3

\* An owner that lets go attends, unless nobody can be served now that could not
\* be before.
LEMMA DropperAttended ==
  ASSUME IInv, Attended, NEW l \in Lockers, Owns(l), l \notin picked,
         pc[l] = "held" \/ (pc[l] = "dropped" /\ wst[l] = "GRANTED"), UnlockStep(l),
         UNCHANGED <<shared, wst, more, picked, given>>
  PROVE  Attended'
<1>1. /\ word \in Words /\ pc \in [Lockers -> PCs] /\ shared \in [Lockers -> BOOLEAN]
      /\ (shared[l] => word.readers - 1 \in Nat)
  BY ReaderCounted DEF IInv, TypeOK
<1>2. CASE pc' = [pc EXCEPT ![l] = "release"]
  <2>1. Attends(l)'
    BY <1>1, <1>2 DEF Attends
  <2> QED BY <2>1, NowAttended
<1>3. CASE pc' # [pc EXCEPT ![l] = "release"]
  <2>1. pc' = [pc EXCEPT ![l] = "idle"]
    BY <1>3 DEF UnlockStep, Goto
  <2>2. \A k \in Lockers : Attends(k) => Attends(k)'
    BY <1>1, <2>1 DEF Attends, WaitPCs
  <2>3. Servable' => Servable
    BY <1>1, <1>3 DEF UnlockStep, Goto, Servable, Words
  <2> QED BY <2>2, <2>3, StillAttended
<1> QED BY <1>2, <1>3

\* The first n elements of a sequence without repetition are n elements.
LEMMA FirstAreMany ==
  ASSUME NEW S, NEW q \in Seq(S), \A i, j \in DOMAIN q : q[i] = q[j] => i = j,
         NEW n \in Nat, n <= Len(q)
  PROVE  Cardinality({q[i] : i \in {j \in DOMAIN q : j <= n}}) = n
<1> DEFINE T == {q[i] : i \in {j \in DOMAIN q : j <= n}}
           f == [i \in 1 .. n |-> q[i]]
<1>1. {j \in DOMAIN q : j <= n} = 1 .. n
  OBVIOUS
<1>2. f \in Bijection(1 .. n, T)
  <2>1. f \in [1 .. n -> T]
    BY <1>1
  <2>2. \A i, j \in 1 .. n : f[i] = f[j] => i = j
    BY <1>1
  <2>3. \A y \in T : \E i \in 1 .. n : f[i] = y
    BY <1>1
  <2> HIDE DEF T, f
  <2> QED BY <2>1, <2>2, <2>3 DEF Bijection, Injection, Surjection, IsInjective
<1>3. ExistsBijection(1 .. n, T)
  BY <1>2 DEF ExistsBijection
<1> HIDE DEF T
<1> QED BY <1>3, FS_CountingElements DEF T

\* No step leaves waiters that could have the lock to themselves.
LEMMA AttendedStep ==
  ASSUME IInv, Attended, [Next]_vars PROVE Attended'
<1>t. /\ word \in Words /\ queue \in Seq(Lockers) /\ pc \in [Lockers -> PCs]
      /\ shared \in [Lockers -> BOOLEAN] /\ more \in [Lockers -> BOOLEAN]
      /\ wst \in [Lockers -> {"WAITING", "RETRY", "GRANTED"}]
      /\ SectionOK /\ FreshOK /\ ClearOK
  BY DEF IInv, TypeOK
<1>1. ASSUME NEW l \in Lockers, NEW mode \in Modes[l], Start(l, mode) PROVE Attended'
  <2>1. Servable' => Servable
    BY <1>1 DEF Start, Servable, GrantVars
  <2>2. \A k \in Lockers : Attends(k) => Attends(k)'
    BY <1>1, <1>t, PickedWait DEF Start, Attends, Servable, WaitPCs, Goto, GrantVars, Lockers
  <2> QED BY <2>1, <2>2, StillAttended
<1>2. ASSUME NEW l \in Lockers, TryLock(l) PROVE Attended'
  <2>1. CASE FreeFor(word, l) /\ word' = Taken(word, l) /\ Goto(l, "held")
    BY <1>2, <2>1, TakerAttended DEF TryLock, Goto, GrantVars
  <2>2. CASE ~(FreeFor(word, l) /\ word' = Taken(word, l) /\ Goto(l, "held"))
    <3>1. Servable' => Servable
      BY <1>2, <2>2 DEF TryLock, Servable
    <3>2. \A k \in Lockers : Attends(k) => Attends(k)'
      BY <1>2, <1>t, <2>2, PickedWait DEF TryLock, Attends, WaitPCs, Goto, GrantVars
    <3> QED BY <3>1, <3>2, StillAttended
  <2> QED BY <2>1, <2>2
<1>3. ASSUME NEW l \in Lockers, Enqueue(l) PROVE Attended'
  <2>1. CASE FreeFor(word, l)
    BY <1>3, <2>1, TakerAttended DEF Enqueue, Goto, GrantVars
  <2>2. CASE ~FreeFor(word, l)
    <3>1. /\ word' = [word EXCEPT !.parked = TRUE, !.writerParked = @ \/ ~shared[l]]
          /\ picked = {} /\ picked' = {} /\ given' = given /\ more' = more
          /\ shared' = shared /\ wst' = wst
          /\ \A k \in Lockers : k # l => pc'[k] = pc[k]
          /\ pc[l] = "enqueue"
      BY <1>3, <1>t, <2>2 DEF Enqueue, Goto, GrantVars, SectionOK
    <3>2. CASE shared[l]
      <4>1. Servable' => Servable
        <5>1. word.writerParked => word.parked
          BY DEF IInv, FlagsOK
        <5> QED BY <1>t, <2>2, <3>1, <3>2, <5>1 DEF Servable, FreeFor, Words
      <4>2. \A k \in Lockers : Attends(k) => Attends(k)'
        BY <1>t, <3>1, <3>2 DEF Attends, WaitPCs
      <4> QED BY <4>1, <4>2, StillAttended
    <3>3. CASE ~shared[l]
      <4>1. ~Servable'
        BY <1>t, <2>2, <3>1, <3>3 DEF Servable, FreeFor, Words
      <4> QED BY <4>1 DEF Attended
    <3> QED BY <3>2, <3>3
  <2> QED BY <2>1, <2>2
<1>4. ASSUME NEW l \in Lockers, Age(l) PROVE Attended'
  <2>1. Servable' => Servable
    BY <1>4 DEF Age, Servable, GrantVars
  <2>2. \A k \in Lockers : Attends(k) => Attends(k)'
    BY <1>4, <1>t, PickedWait DEF Age, Attends, Servable, WaitPCs, Goto, GrantVars, Lockers
  <2> QED BY <2>1, <2>2, StillAttended
<1>5. ASSUME NEW l \in Lockers, Unlock(l) PROVE Attended'
  <2>1. Owns(l) /\ l \notin picked /\ pc[l] = "held"
    BY <1>5, PickedWait DEF Unlock, Owns, WaitPCs
  <2>2. UnlockStep(l) /\ UNCHANGED <<shared, wst, more, picked, given>>
    BY <1>5 DEF Unlock
  <2> QED BY <2>1, <2>2, DropperAttended
<1>6. ASSUME NEW l \in Lockers, Grant(l) PROVE Attended'
  <2> DEFINE held == IF clear[l] THEN [word EXCEPT !.writer = FALSE] ELSE word
             picks == Picks(held)
             stay == {i \in DOMAIN queue : queue[i] \notin picks}
  <2>1. /\ picked' = picks /\ given' = Handed(picks) /\ shared' = shared
        /\ word' = [writer |-> held.writer \/ (\E w \in Handed(picks) : ~shared[w]),
                    readers |-> held.readers + Cardinality({w \in Handed(picks) : shared[w]}),
                    parked |-> (stay # {}),
                    writerParked |-> (\E i \in stay : ~shared[queue[i]])]
        /\ more'[l] = (Cardinality(picks) = Batch /\ stay # {} /\ \A i \in stay : shared[queue[i]])
        /\ pc'[l] = "grant"
    BY <1>6, <1>t DEF Grant, Goto
  <2>2. held \in Words
    BY <1>t DEF Words
  <2> HIDE DEF held
  <2> SUFFICES ASSUME Servable' PROVE \E k \in Lockers : Attends(k)'
    BY DEF Attended
  <2>3. /\ ~held.writer /\ \A w \in Handed(picks) : shared[w]
        /\ stay # {}
        /\ word'.readers = 0 \/ \A i \in stay : shared[queue[i]]
    BY <2>1, <2>2 DEF Servable, Words
  <2>4. CASE QueuedWriters # {} /\ held.readers = 0
    <3>1. picks = {queue[Min(QueuedWriters)]} /\ Min(QueuedWriters) \in QueuedWriters
      <4>0. queue \in Seq(Lockers)
        BY <1>t
      <4>1. QueuedWriters \in SUBSET Nat
        BY ONLY <4>0 DEF QueuedWriters
      <4>2. Min(QueuedWriters) \in QueuedWriters
        BY ONLY <2>4, <4>1, MinProperty
      <4> QED BY <2>3, <2>4, <4>2 DEF Picks
    <3> DEFINE w == queue[Min(QueuedWriters)]
    <3>2. w \in Lockers /\ ~shared[w] /\ w \in picks
      BY <1>t, <3>1 DEF QueuedWriters
    <3> HIDE DEF w
    <3>3. w \in picked' /\ w \notin given' /\ ~shared'[w]
      BY <2>1, <2>3, <3>2
    <3> QED BY <3>2, <3>3 DEF Attends
  <2>5. CASE QueuedWriters # {} /\ held.readers # 0
    <3>1. picks = {}
      BY <2>5 DEF Picks
    <3>2. Handed(picks) = {}
      BY <3>1 DEF Handed
    <3>3. word'.readers = held.readers
      <4>1. {w \in Handed(picks) : shared[w]} = {}
        BY <3>2
      <4>2. Cardinality({w \in Handed(picks) : shared[w]}) = 0
        BY <4>1, FS_EmptySet
      <4>3. held.readers \in Nat
        BY <2>2 DEF Words
      <4>4. word'.readers = held.readers + Cardinality({w \in Handed(picks) : shared[w]})
        BY <2>1
      <4> HIDE DEF picks
      <4> QED BY <4>2, <4>3, <4>4
    <3>4. \E i \in stay : ~shared[queue[i]]
      BY <2>5, <3>1 DEF QueuedWriters
    <3> QED BY <2>3, <2>5, <3>3, <3>4
  <2>6. CASE QueuedWriters = {}
    <3>1. picks = {queue[i] : i \in {j \in DOMAIN queue : j <= Batch}}
      BY <2>3, <2>6 DEF Picks
    <3>2. \A i \in DOMAIN queue : shared[queue[i]]
      BY <2>6 DEF QueuedWriters
    <3>3. Batch \in Nat /\ Len(queue) > Batch
      <4>1. PICK i \in DOMAIN queue : queue[i] \notin picks
        BY <2>3
      <4>2. ~(i <= Batch)
        BY <3>1, <4>1
      <4> QED BY <1>t, <4>2, LockersAssumption
    <3>4. Cardinality(picks) = Batch
      BY <1>t, <3>1, <3>3, FirstAreMany DEF IInv, WaitersLinked
    <3>5. more'[l]
      BY <2>1, <2>3, <3>2, <3>4
    <3> QED BY <2>1, <3>5 DEF Attends
  <2> QED BY <2>4, <2>5, <2>6
<1>7. ASSUME NEW l \in Lockers, NEW w \in Lockers, GrantOne(l, w) PROVE Attended'
  <2>1. Servable' => Servable
    BY <1>7 DEF GrantOne, Servable
  <2>2. \A k \in Lockers : Attends(k) => Attends(k)'
    <3> SUFFICES ASSUME NEW k \in Lockers, Attends(k) PROVE Attends(k)'
      OBVIOUS
    <3>1. /\ w \in picked /\ pc[w] \in WaitPCs /\ wst[w] = "WAITING"
          /\ pc' = pc /\ more' = more /\ shared' = shared
          /\ picked' = picked \ {w} /\ given' = given \ {w}
          /\ wst' = [wst EXCEPT ![w] = IF w \in given THEN "GRANTED" ELSE "RETRY"]
      BY <1>7, PickedWait DEF GrantOne
    <3>2. CASE k = w
      BY <1>t, <3>1, <3>2 DEF Attends, WaitPCs
    <3>3. CASE k # w
      BY <1>t, <3>1, <3>3 DEF Attends, WaitPCs
    <3> QED BY <3>2, <3>3
  <2> QED BY <2>1, <2>2, StillAttended
<1>8. ASSUME NEW l \in Lockers, GrantDone(l) PROVE Attended'
  <2>1. Servable' => Servable
    BY <1>8 DEF GrantDone, Servable, GrantVars
  <2>2. \A k \in Lockers : Attends(k) => Attends(k)'
    BY <1>8, <1>t, PickedWait DEF GrantDone, SectionOK, Attends, Servable, WaitPCs, Goto,
       GrantVars, Lockers
  <2> QED BY <2>1, <2>2, StillAttended
<1>9. ASSUME NEW l \in Lockers, NEW w \in Lockers, Wake(l, w) PROVE Attended'
  <2>1. Servable' => Servable
    BY <1>9 DEF Wake, Servable, GrantVars
  <2>2. \A k \in Lockers : Attends(k) => Attends(k)'
    BY <1>9, <1>t, PickedWait DEF Wake, Attends, Servable, WaitPCs, Goto, GrantVars, Lockers
  <2> QED BY <2>1, <2>2, StillAttended
<1>10. ASSUME NEW l \in Lockers, WakesDone(l) PROVE Attended'
  <2>1. Servable' => Servable
    BY <1>10 DEF WakesDone, Servable, GrantVars
  <2>2. \A k \in Lockers : Attends(k) => Attends(k)'
    BY <1>10, <1>t, PickedWait DEF WakesDone, Attends, Servable, WaitPCs, Goto, GrantVars, Lockers
  <2> QED BY <2>1, <2>2, StillAttended
<1>11. ASSUME NEW l \in Threads, Spin(l) PROVE Attended'
  <2>0. l \in Lockers
    BY DEF Lockers
  <2>1. CASE FreeFor(word, l) /\ word' = Taken(word, l) /\ Goto(l, "held")
    BY <1>11, <2>0, <2>1, TakerAttended DEF Spin, Goto, GrantVars
  <2>2. CASE ~(FreeFor(word, l) /\ word' = Taken(word, l) /\ Goto(l, "held"))
    <3>1. Servable' => Servable
      BY <1>11, <2>2 DEF Spin, Servable
    <3>2. \A k \in Lockers : Attends(k) => Attends(k)'
      BY <1>11, <1>t, <2>0, <2>2, PickedWait DEF Spin, Attends, WaitPCs, Goto, GrantVars
    <3> QED BY <3>1, <3>2, StillAttended
  <2> QED BY <2>1, <2>2
<1>12. ASSUME NEW l \in Threads, Check(l) PROVE Attended'
  <2>1. Servable' => Servable
    BY <1>12 DEF Check, Servable, GrantVars
  <2>2. \A k \in Lockers : Attends(k) => Attends(k)'
    BY <1>12, <1>t, PickedWait DEF Check, Attends, Servable, WaitPCs, Goto, GrantVars, Lockers
  <2> QED BY <2>1, <2>2, StillAttended
<1>13. ASSUME NEW l \in Threads, Park(l) PROVE Attended'
  <2>1. Servable' => Servable
    BY <1>13 DEF Park, Servable, GrantVars
  <2>2. \A k \in Lockers : Attends(k) => Attends(k)'
    BY <1>13, <1>t, PickedWait DEF Park, Attends, Servable, WaitPCs, Goto, GrantVars, Lockers
  <2> QED BY <2>1, <2>2, StillAttended
<1>14. ASSUME NEW l \in Threads, ParkSpurious(l) PROVE Attended'
  <2>1. Servable' => Servable
    BY <1>14 DEF ParkSpurious, Servable, GrantVars
  <2>2. \A k \in Lockers : Attends(k) => Attends(k)'
    BY <1>14, <1>t, PickedWait DEF ParkSpurious, Attends, Servable, WaitPCs, Goto, GrantVars,
       Lockers
  <2> QED BY <2>1, <2>2, StillAttended
<1>15. ASSUME NEW l \in Threads, End(l) PROVE Attended'
  <2>1. Servable' => Servable
    BY <1>15 DEF End, Servable, GrantVars
  <2>2. \A k \in Lockers : Attends(k) => Attends(k)'
    BY <1>15, <1>t, PickedWait DEF End, Attends, Servable, WaitPCs, Goto, GrantVars, Lockers
  <2> QED BY <2>1, <2>2, StillAttended
<1>16. ASSUME NEW l \in Futures, Poll(l) PROVE Attended'
  <2>1. Servable' => Servable
    BY <1>16 DEF Poll, Servable, GrantVars
  <2>2. \A k \in Lockers : Attends(k) => Attends(k)'
    BY <1>16, <1>t, PickedWait DEF Poll, Attends, Servable, WaitPCs, Goto, GrantVars, Lockers
  <2> QED BY <2>1, <2>2, StillAttended
<1>17. ASSUME NEW l \in Futures, Recheck(l) PROVE Attended'
  <2>1. Servable' => Servable
    BY <1>17 DEF Recheck, Servable, GrantVars
  <2>2. \A k \in Lockers : Attends(k) => Attends(k)'
    BY <1>17, <1>t, PickedWait DEF Recheck, Attends, Servable, WaitPCs, Goto, GrantVars, Lockers
  <2> QED BY <2>1, <2>2, StillAttended
<1>18. ASSUME NEW l \in Futures, Relink(l) PROVE Attended'
  <2>1. Servable' => Servable
    BY <1>18 DEF Relink, Servable, GrantVars
  <2>2. \A k \in Lockers : Attends(k) => Attends(k)'
    BY <1>18, <1>t, PickedWait DEF Relink, Attends, Servable, WaitPCs, Goto, GrantVars, Lockers
  <2> QED BY <2>1, <2>2, StillAttended
<1>19. ASSUME NEW l \in Futures, Move(l) PROVE Attended'
  <2>1. Servable' => Servable
    BY <1>19 DEF Move, Servable, GrantVars
  <2>2. \A k \in Lockers : Attends(k) => Attends(k)'
    BY <1>19, <1>t, PickedWait DEF Move, Attends, Servable, WaitPCs, Goto, GrantVars, Lockers
  <2> QED BY <2>1, <2>2, StillAttended
<1>20. ASSUME NEW l \in Futures, Cancel(l) PROVE Attended'
  <2>1. Servable' => Servable
    BY <1>20 DEF Cancel, Servable, GrantVars
  <2>2. \A k \in Lockers : Attends(k) => Attends(k)'
    BY <1>20, <1>t, PickedWait DEF Cancel, Attends, Servable, WaitPCs, Goto, GrantVars, Lockers
  <2> QED BY <2>1, <2>2, StillAttended
<1>21. ASSUME NEW l \in Futures, Unlink(l) PROVE Attended'
  <2>0. l \in Lockers
    BY DEF Lockers
  <2>1. CASE ~Linked(l)
    <3>1. Servable' => Servable
      BY <1>21, <2>1 DEF Unlink, Servable
    <3>2. \A k \in Lockers : Attends(k) => Attends(k)'
      BY <1>21, <1>t, <2>0, <2>1, PickedWait DEF Unlink, Attends, WaitPCs, Goto, GrantVars
    <3> QED BY <3>1, <3>2, StillAttended
  <2>2. CASE Linked(l) /\ ~shared[l]
    <3>1. Attends(l)'
      BY <1>21, <1>t, <2>0, <2>2 DEF Unlink, AfterUnlink, Goto, Attends
    <3> QED BY <2>0, <3>1, NowAttended
  <2>3. CASE Linked(l) /\ shared[l]
    <3>1. /\ queue' = Without(queue, l) /\ word' = Flagged(word, queue')
          /\ shared' = shared /\ wst' = wst /\ pc' = [pc EXCEPT ![l] = "idle"]
          /\ picked = {} /\ picked' = {} /\ given' = given /\ more' = more
          /\ pc[l] = "drop"
      BY <1>21, <1>t, <2>3 DEF Unlink, AfterUnlink, Goto, GrantVars, SectionOK
    <3>2. \A k \in Lockers : Attends(k) => Attends(k)'
      BY <1>t, <2>3, <3>1 DEF Attends, WaitPCs
    <3>3. /\ queue' \in Seq(Lockers)
          /\ \A a \in DOMAIN queue : queue[a] # l => \E i \in DOMAIN queue' : queue'[i] = queue[a]
      BY <1>t, <2>0, <3>1, WithoutProperty DEF IInv, WaitersLinked
    <3>4. /\ word'.parked => queue' # <<>>
          /\ word'.writerParked <=> \E i \in DOMAIN queue' : ~shared[queue'[i]]
          /\ word'.writer = word.writer /\ word'.readers = word.readers
      BY <1>t, <3>1 DEF Flagged, Words
    <3>5. word.parked /\ (word.writerParked => word'.writerParked)
      BY <2>3, <3>1, <3>3, <3>4 DEF IInv, FlagsOK, Linked
    <3>6. Servable' => Servable
      BY <3>4, <3>5 DEF Servable
    <3> QED BY <3>2, <3>6, StillAttended
  <2> QED BY <2>1, <2>2, <2>3
<1>22. ASSUME NEW l \in Futures, PassOn(l) PROVE Attended'
  <2>0. l \in Lockers /\ pc[l] = "dropped" /\ l \notin picked
    BY <1>22, <1>t, PickedWait DEF PassOn, FreshOK, Lockers
  <2>1. CASE wst[l] = "GRANTED"
    <3>1. Owns(l)
      BY <2>0, <2>1 DEF Owns, WaitPCs
    <3> QED BY <1>22, <2>0, <2>1, <3>1, DropperAttended DEF PassOn
  <2>2. CASE wst[l] # "GRANTED"
    <3>1. Attends(l)'
      BY <1>22, <1>t, <2>0, <2>2 DEF PassOn, Goto, Attends
    <3> QED BY <2>0, <3>1, NowAttended
  <2> QED BY <2>1, <2>2
<1>23. CASE UNCHANGED vars
  <2>1. (Servable' <=> Servable) /\ \A k \in Lockers : Attends(k) <=> Attends(k)'
    BY <1>23 DEF vars, Servable, Attends
  <2> QED BY <2>1, StillAttended
<1> QED
  BY <1>1, <1>2, <1>3, <1>4, <1>5, <1>6, <1>7, <1>8, <1>9, <1>10, <1>11, <1>12,
     <1>13, <1>14, <1>15, <1>16, <1>17, <1>18, <1>19, <1>20, <1>21, <1>22, <1>23
     DEF Next, LockerStep, ThreadStep, FutureStep

\* With waiters that could have the lock, as the owners tell, goes somebody who
\* will look at the queue or take the lock.
LEMMA AttendedServes == IInv /\ Attended => NoLostWakeup
<1> SUFFICES ASSUME IInv, Attended, queue # <<>>, WriteOwners = {},
                    ReadOwners = {} \/ QueuedWriters = {}
             PROVE  \E l \in Lockers :
                      \/ pc[l] \in {"try", "spin", "enqueue", "release", "grant"}
                      \/ pc[l] = "wake" /\ more[l]
                      \/ pc[l] \in WaitPCs /\ wst[l] = "RETRY"
  BY DEF NoLostWakeup
<1>t. /\ word \in Words /\ queue \in Seq(Lockers) /\ crit \in Lockers \cup {Nobody}
      /\ SectionOK /\ FlagsOK /\ WordCountsOwners
  BY DEF IInv, TypeOK
<1>1. CASE crit # Nobody
  <2>1. crit \in Lockers /\ pc[crit] = "grant"
    BY <1>1, <1>t DEF SectionOK
  <2> QED BY <2>1
<1>2. CASE crit = Nobody
  <2>1. picked = {}
    BY <1>2, <1>t DEF SectionOK
  <2>2. word.parked /\ (word.writerParked => QueuedWriters # {})
    BY <1>t, <2>1, NonEmptyProperty DEF FlagsOK, QueuedWriters
  <2>3. ~word.writer /\ (ReadOwners = {} => word.readers = 0)
    BY <1>t, FS_EmptySet DEF WordCountsOwners
  <2>4. PICK l \in Lockers : Attends(l)
    BY <2>2, <2>3 DEF Attended, Servable
  <2> QED BY <2>1, <2>4 DEF Attends
<1> QED BY <1>1, <1>2

-----------------------------------------------------------------------------
(* Whoever is let out is woken. *)

\* A future is linked with its waker, which only its own poll and its end change.
LEMMA WakersStep ==
  ASSUME IInv, WakersStored, [Next]_vars PROVE WakersStored'
<1>t. /\ pc \in [Lockers -> PCs] /\ slot \in [Futures -> {"none", "current", "stale"}]
      /\ signal \in [Lockers -> BOOLEAN] /\ queue \in Seq(Lockers)
      /\ \A i, j \in DOMAIN queue : queue[i] = queue[j] => i = j
      /\ \A f \in Futures : f \in Lockers /\ f \notin Threads
      /\ WakersStored
  BY LockersAssumption DEF IInv, TypeOK, WaitersLinked, Lockers
<1>1. ASSUME NEW l \in Lockers, NEW mode \in Modes[l], Start(l, mode) PROVE WakersStored'
  BY <1>1, <1>t DEF Start, WakersStored, Linked, Goto, GrantVars
<1>2. ASSUME NEW l \in Lockers, TryLock(l) PROVE WakersStored'
  BY <1>2, <1>t DEF TryLock, WakersStored, Linked, Goto, GrantVars
<1>3. ASSUME NEW l \in Lockers, Enqueue(l) PROVE WakersStored'
  <2>1. CASE queue' = queue /\ Goto(l, "held")
    <3>1. ~Linked(l)
      BY <1>3 DEF Enqueue, IInv, WaitersLinked, Linked, WaitPCs
    <3> QED BY <1>3, <1>t, <2>1, <3>1 DEF Enqueue, WakersStored, Linked, Goto, GrantVars
  <2>2. CASE ~(queue' = queue /\ Goto(l, "held"))
    <3> DEFINE k == Position(queue, l)
    <3>1. /\ queue' = InsertAt(queue, k, l) /\ signal' = signal
          /\ pc' = [pc EXCEPT ![l] = IF l \in Threads THEN "check" ELSE "pending"]
          /\ slot' = [f \in Futures |-> IF f = l THEN "current" ELSE slot[f]]
      BY <1>3, <2>2 DEF Enqueue, Goto
    <3>2. queue \in Seq(Lockers) /\ k \in 1 .. Len(queue) + 1
      BY <1>t, PositionProperty
    <3> HIDE DEF k
    <3>3. \A f \in Futures : Linked(f)' => f = l \/ Linked(f)
      <4>1. /\ InsertAt(queue, k, l) \in Seq(Lockers)
            /\ Len(InsertAt(queue, k, l)) = Len(queue) + 1
            /\ \A i \in 1 .. Len(queue) + 1 : InsertAt(queue, k, l)[i] =
                  IF i < k THEN queue[i] ELSE IF i = k THEN l ELSE queue[i - 1]
        BY ONLY <3>2, l \in Lockers, InsertAtProperty
      <4>2. \A i \in DOMAIN queue' : queue'[i] = l \/ \E j \in DOMAIN queue : queue'[i] = queue[j]
        BY SMTT(30), <1>t, <3>1, <3>2, <4>1
      <4> QED BY <4>2 DEF Linked
    <3> QED BY <1>t, <3>1, <3>3 DEF WakersStored
  <2> QED BY <2>1, <2>2
<1>4. ASSUME NEW l \in Lockers, Age(l) PROVE WakersStored'
  BY <1>4, <1>t DEF Age, WakersStored, Linked, Goto, GrantVars
<1>5. ASSUME NEW l \in Lockers, Unlock(l) PROVE WakersStored'
  BY <1>5, <1>t DEF Unlock, UnlockStep, WakersStored, Linked, Goto, GrantVars
<1>6. ASSUME NEW l \in Lockers, Grant(l) PROVE WakersStored'
  BY <1>6, <1>t DEF Grant, WakersStored, Linked, Goto, GrantVars
<1>7. ASSUME NEW l \in Lockers, NEW w \in Lockers, GrantOne(l, w) PROVE WakersStored'
  <2>1. \A f \in Futures : Linked(f)' => f # w /\ Linked(f)
    BY <1>7, <1>t, WithoutProperty DEF GrantOne, Linked
  <2> QED BY <1>7, <1>t, <2>1 DEF GrantOne, WakersStored
<1>8. ASSUME NEW l \in Lockers, GrantDone(l) PROVE WakersStored'
  BY <1>8, <1>t DEF GrantDone, WakersStored, Linked, Goto, GrantVars
<1>9. ASSUME NEW l \in Lockers, NEW w \in Lockers, Wake(l, w) PROVE WakersStored'
  BY <1>9, <1>t DEF Wake, WakersStored, Linked, Goto, GrantVars
<1>10. ASSUME NEW l \in Lockers, WakesDone(l) PROVE WakersStored'
  BY <1>10, <1>t DEF WakesDone, WakersStored, Linked, Goto, GrantVars
<1>11. ASSUME NEW l \in Threads, Spin(l) PROVE WakersStored'
  BY <1>11, <1>t DEF Spin, WakersStored, Linked, Goto, GrantVars
<1>12. ASSUME NEW l \in Threads, Check(l) PROVE WakersStored'
  BY <1>12, <1>t DEF Check, WakersStored, Linked, Goto, GrantVars
<1>13. ASSUME NEW l \in Threads, Park(l) PROVE WakersStored'
  BY <1>13, <1>t DEF Park, WakersStored, Linked, Goto, GrantVars
<1>14. ASSUME NEW l \in Threads, ParkSpurious(l) PROVE WakersStored'
  BY <1>14, <1>t DEF ParkSpurious, WakersStored, Linked, Goto, GrantVars
<1>15. ASSUME NEW l \in Threads, End(l) PROVE WakersStored'
  BY <1>15, <1>t DEF End, WakersStored, Linked, Goto, GrantVars
<1>16. ASSUME NEW l \in Futures, Poll(l) PROVE WakersStored'
  BY <1>16, <1>t DEF Poll, WakersStored, Linked, Goto, GrantVars
<1>17. ASSUME NEW l \in Futures, Recheck(l) PROVE WakersStored'
  BY <1>17, <1>t DEF Recheck, WakersStored, Linked, Goto, GrantVars
<1>18. ASSUME NEW l \in Futures, Relink(l) PROVE WakersStored'
  BY <1>18, <1>t DEF Relink, WakersStored, Linked, Goto, GrantVars
<1>19. ASSUME NEW l \in Futures, Move(l) PROVE WakersStored'
  BY <1>19, <1>t DEF Move, WakersStored, Linked, Goto, GrantVars
<1>20. ASSUME NEW l \in Futures, Cancel(l) PROVE WakersStored'
  BY <1>20, <1>t DEF Cancel, WakersStored, Linked, Goto, GrantVars
<1>21. ASSUME NEW l \in Futures, Unlink(l) PROVE WakersStored'
  <2>1. CASE Linked(l)
    <3>1. \A f \in Futures : Linked(f)' => f # l /\ Linked(f)
      BY <1>21, <1>t, <2>1, WithoutProperty DEF Unlink, Linked
    <3> QED BY <1>21, <1>t, <2>1, <3>1 DEF Unlink, AfterUnlink, WakersStored, Goto
  <2>2. CASE ~Linked(l)
    BY <1>21, <1>t, <2>2 DEF Unlink, WakersStored, Linked, Goto
  <2> QED BY <2>1, <2>2
<1>22. ASSUME NEW l \in Futures, PassOn(l) PROVE WakersStored'
  BY <1>22, <1>t DEF PassOn, UnlockStep, WakersStored, Linked, Goto, GrantVars
<1>23. CASE UNCHANGED vars
  BY <1>23 DEF vars, WakersStored, Linked, Goto, GrantVars
<1> QED
  BY <1>1, <1>2, <1>3, <1>4, <1>5, <1>6, <1>7, <1>8, <1>9, <1>10, <1>11, <1>12,
     <1>13, <1>14, <1>15, <1>16, <1>17, <1>18, <1>19, <1>20, <1>21, <1>22, <1>23
     DEF Next, LockerStep, ThreadStep, FutureStep

\* The wakeups that are due are kept, passed on as signals, or used up.
LEMMA ReleasedStep ==
  ASSUME IInv, WakersStored, ReleasedAreWoken, [Next]_vars PROVE ReleasedAreWoken'
<1>t. /\ pc \in [Lockers -> PCs] /\ slot \in [Futures -> {"none", "current", "stale"}]
      /\ signal \in [Lockers -> BOOLEAN] /\ wakes \in [Lockers -> SUBSET Lockers]
      /\ wst \in [Lockers -> {"WAITING", "RETRY", "GRANTED"}]
      /\ \A f \in Futures : f \in Lockers /\ f \notin Threads
      /\ \A k \in Lockers : k \in Threads \/ k \in Futures
      /\ \A k \in Lockers : Linked(k) => wst[k] = "WAITING"
      /\ FreshOK
  BY LockersAssumption DEF IInv, TypeOK, WaitersLinked, Lockers, Linked
<1>1. ASSUME NEW l \in Lockers, NEW mode \in Modes[l], Start(l, mode) PROVE ReleasedAreWoken'
  BY <1>1, <1>t DEF Start, ReleasedAreWoken, Goto, GrantVars, FreshOK
<1>2. ASSUME NEW l \in Lockers, TryLock(l) PROVE ReleasedAreWoken'
  BY <1>2, <1>t DEF TryLock, ReleasedAreWoken, Goto, GrantVars, FreshOK
<1>3. ASSUME NEW l \in Lockers, Enqueue(l) PROVE ReleasedAreWoken'
  BY <1>3, <1>t DEF Enqueue, ReleasedAreWoken, Goto, GrantVars, FreshOK
<1>4. ASSUME NEW l \in Lockers, Age(l) PROVE ReleasedAreWoken'
  BY <1>4, <1>t DEF Age, ReleasedAreWoken, Goto, GrantVars, FreshOK
<1>5. ASSUME NEW l \in Lockers, Unlock(l) PROVE ReleasedAreWoken'
  BY <1>5, <1>t DEF Unlock, UnlockStep, ReleasedAreWoken, Goto, GrantVars, FreshOK
<1>6. ASSUME NEW l \in Lockers, Grant(l) PROVE ReleasedAreWoken'
  BY <1>6, <1>t DEF Grant, ReleasedAreWoken, Goto, GrantVars, FreshOK
<1>7. ASSUME NEW l \in Lockers, NEW w \in Lockers, GrantOne(l, w) PROVE ReleasedAreWoken'
  <2>1. /\ pc' = pc /\ signal' = signal
        /\ \A k \in Lockers : k # w => wst'[k] = wst[k]
        /\ \A r \in Lockers : wakes[r] \subseteq wakes'[r]
    BY <1>7, <1>t DEF GrantOne
  <2>2. Linked(w)
    BY <1>7, PickedWait DEF GrantOne, Linked
  <2>3. CASE w \in Threads \/ slot[w] = "current"
    <3>1. w \in wakes'[l]
      BY <1>7, <1>t, <2>3 DEF GrantOne
    <3> QED BY <2>1, <3>1 DEF ReleasedAreWoken
  <2>4. CASE w \notin Threads /\ slot[w] # "current"
    <3>1. w \in Futures /\ slot[w] = "stale"
      BY <1>t, <2>2, <2>4 DEF WakersStored
    <3>2. pc[w] = "pending" => signal[w]
      BY <3>1 DEF WakersStored
    <3>3. pc[w] # "park"
      BY <3>1 DEF WakersStored
    <3> QED BY <2>1, <3>2, <3>3 DEF ReleasedAreWoken
  <2> QED BY <2>3, <2>4
<1>8. ASSUME NEW l \in Lockers, GrantDone(l) PROVE ReleasedAreWoken'
  BY <1>8, <1>t DEF GrantDone, ReleasedAreWoken, Goto, GrantVars, FreshOK
<1>9. ASSUME NEW l \in Lockers, NEW w \in Lockers, Wake(l, w) PROVE ReleasedAreWoken'
  BY <1>9, <1>t DEF Wake, ReleasedAreWoken, Goto, GrantVars, FreshOK
<1>10. ASSUME NEW l \in Lockers, WakesDone(l) PROVE ReleasedAreWoken'
  BY <1>10, <1>t DEF WakesDone, ReleasedAreWoken, Goto, GrantVars, FreshOK
<1>11. ASSUME NEW l \in Threads, Spin(l) PROVE ReleasedAreWoken'
  BY <1>11, <1>t DEF Spin, ReleasedAreWoken, Goto, GrantVars, FreshOK
<1>12. ASSUME NEW l \in Threads, Check(l) PROVE ReleasedAreWoken'
  BY <1>12, <1>t DEF Check, ReleasedAreWoken, Goto, GrantVars, FreshOK
<1>13. ASSUME NEW l \in Threads, Park(l) PROVE ReleasedAreWoken'
  BY <1>13, <1>t DEF Park, ReleasedAreWoken, Goto, GrantVars, FreshOK
<1>14. ASSUME NEW l \in Threads, ParkSpurious(l) PROVE ReleasedAreWoken'
  BY <1>14, <1>t DEF ParkSpurious, ReleasedAreWoken, Goto, GrantVars, FreshOK
<1>15. ASSUME NEW l \in Threads, End(l) PROVE ReleasedAreWoken'
  BY <1>15, <1>t DEF End, ReleasedAreWoken, Goto, GrantVars, FreshOK
<1>16. ASSUME NEW l \in Futures, Poll(l) PROVE ReleasedAreWoken'
  BY <1>16, <1>t DEF Poll, ReleasedAreWoken, Goto, GrantVars, FreshOK
<1>17. ASSUME NEW l \in Futures, Recheck(l) PROVE ReleasedAreWoken'
  BY <1>17, <1>t DEF Recheck, ReleasedAreWoken, Goto, GrantVars, FreshOK
<1>18. ASSUME NEW l \in Futures, Relink(l) PROVE ReleasedAreWoken'
  BY <1>18, <1>t DEF Relink, ReleasedAreWoken, Goto, GrantVars, FreshOK
<1>19. ASSUME NEW l \in Futures, Move(l) PROVE ReleasedAreWoken'
  BY <1>19, <1>t DEF Move, ReleasedAreWoken, Goto, GrantVars, FreshOK
<1>20. ASSUME NEW l \in Futures, Cancel(l) PROVE ReleasedAreWoken'
  BY <1>20, <1>t DEF Cancel, ReleasedAreWoken, Goto, GrantVars, FreshOK
<1>21. ASSUME NEW l \in Futures, Unlink(l) PROVE ReleasedAreWoken'
  BY <1>21, <1>t DEF Unlink, AfterUnlink, ReleasedAreWoken, Goto, GrantVars, FreshOK
<1>22. ASSUME NEW l \in Futures, PassOn(l) PROVE ReleasedAreWoken'
  BY <1>22, <1>t DEF PassOn, UnlockStep, ReleasedAreWoken, Goto, GrantVars, FreshOK
<1>23. CASE UNCHANGED vars
  BY <1>23 DEF vars, ReleasedAreWoken, Goto, GrantVars, FreshOK
<1> QED
  BY <1>1, <1>2, <1>3, <1>4, <1>5, <1>6, <1>7, <1>8, <1>9, <1>10, <1>11, <1>12,
     <1>13, <1>14, <1>15, <1>16, <1>17, <1>18, <1>19, <1>20, <1>21, <1>22, <1>23
     DEF Next, LockerStep, ThreadStep, FutureStep

-----------------------------------------------------------------------------
(* No unpark is owed to a task that has ended. *)

\* What Owed pairs.
LEMMA OwedProperty ==
  \A r \in Lockers, t \in Threads : <<r, t>> \in Owed <=> t \in wakes[r]
BY DEF Owed

\* There are as many at most as there are lockers and threads.
LEMMA OwedFinite == IsFiniteSet(Owed) /\ Cardinality(Owed) \in Nat
<1>1. IsFiniteSet(Lockers) /\ IsFiniteSet(Threads)
  BY LockersAssumption, OwnersFinite
<1>2. IsFiniteSet(Lockers \X Threads)
  BY <1>1, FS_Product
<1>3. Owed \in SUBSET (Lockers \X Threads)
  BY DEF Owed
<1>4. IsFiniteSet(Owed)
  BY <1>2, <1>3, FS_Subset
<1> QED BY <1>4, FS_CardinalityType

\* unparking goes up with the unparks owed and down with each delivered.
LEMMA UnparkingStep ==
  ASSUME IInv, UnparkingCounts, [Next]_vars
  PROVE  unparking' = Cardinality(Owed')
<1>t. /\ wakes \in [Lockers -> SUBSET Lockers] /\ Threads \subseteq Lockers
      /\ IsFiniteSet(Owed) /\ Cardinality(Owed) \in Nat
      /\ unparking = Cardinality(Owed)
  BY OwedFinite DEF IInv, TypeOK, Lockers, UnparkingCounts
<1> DEFINE Kept == wakes' = wakes /\ unparking' = unparking
<1>1. ASSUME NEW l \in Lockers, LockerStep(l),
             ~ \E w \in Lockers : GrantOne(l, w) \/ Wake(l, w)
      PROVE  Kept
  BY <1>1 DEF LockerStep, Start, TryLock, Enqueue, Age, Unlock, Grant, GrantDone,
              WakesDone, GrantVars
<1>2. ASSUME NEW t \in Threads, ThreadStep(t) PROVE Kept
  BY <1>2 DEF ThreadStep, Spin, Check, Park, ParkSpurious, End, GrantVars
<1>3. ASSUME NEW f \in Futures, FutureStep(f) PROVE Kept
  BY <1>3 DEF FutureStep, Poll, Recheck, Relink, Move, Cancel, Unlink, PassOn, GrantVars
<1>4. ASSUME UNCHANGED vars PROVE Kept
  BY <1>4 DEF vars
<1>5. ASSUME Kept PROVE unparking' = Cardinality(Owed')
  <2>1. Owed' = Owed
    BY <1>5 DEF Owed
  <2> QED BY <1>t, <1>5, <2>1
<1>6. ASSUME NEW l \in Lockers, NEW w \in Lockers, GrantOne(l, w)
      PROVE  unparking' = Cardinality(Owed')
  <2>1. CASE w \in Threads
    <3>1. /\ wakes' = [wakes EXCEPT ![l] = @ \cup {w}] /\ unparking' = unparking + 1
      BY <1>6, <2>1 DEF GrantOne, AfterHold
    <3>2. Owed' = Owed \cup {<<l, w>>}
      BY <1>t, <2>1, <3>1 DEF Owed
    <3>3. w \notin wakes[l]
      BY <1>6 DEF GrantOne, UnparkingCounts, IInv, SectionOK
    <3>4. <<l, w>> \notin Owed
      BY <3>3 DEF Owed
    <3>5. Cardinality(Owed') = Cardinality(Owed) + 1
      BY <1>t, <3>2, <3>4, FS_AddElement
    <3> QED BY <1>t, <3>1, <3>5
  <2>2. CASE w \notin Threads
    <3>1. /\ unparking' = unparking
          /\ wakes' \in {wakes, [wakes EXCEPT ![l] = @ \cup {w}]}
      BY <1>6, <2>2 DEF GrantOne, AfterHold
    <3>2. Owed' = Owed
      BY <1>t, <2>2, <3>1 DEF Owed
    <3> QED BY <1>t, <3>1, <3>2
  <2> QED BY <2>1, <2>2
<1>7. ASSUME NEW l \in Lockers, NEW w \in Lockers, Wake(l, w)
      PROVE  unparking' = Cardinality(Owed')
  <2>1. wakes' = [wakes EXCEPT ![l] = @ \ {w}] /\ w \in wakes[l]
    BY <1>7 DEF Wake
  <2>2. CASE w \in Threads
    <3>1. Owed' = Owed \ {<<l, w>>}
      BY <1>t, <2>1, <2>2 DEF Owed
    <3>2. <<l, w>> \in Owed
      BY <2>1, <2>2, OwedProperty
    <3>3. Cardinality(Owed') = Cardinality(Owed) - 1
      <4>1. Cardinality(Owed \ {<<l, w>>}) = Cardinality(Owed) - 1
        BY <1>t, <3>2, FS_RemoveElement
      <4> QED BY <3>1, <4>1
    <3> QED BY <1>t, <1>7, <2>2, <3>3 DEF Wake
  <2>3. CASE w \notin Threads
    <3>1. Owed' = Owed
      BY <1>t, <2>1, <2>3 DEF Owed
    <3> QED BY <1>t, <1>7, <2>3, <3>1 DEF Wake
  <2> QED BY <2>2, <2>3
<1> QED BY <1>1, <1>2, <1>3, <1>4, <1>5, <1>6, <1>7 DEF Next

\* Who owes wakeups is in its section or behind it, and ended tasks are owed none.
LEMMA WakesStep ==
  ASSUME IInv, UnparkingCounts, EndedNotUnparked, [Next]_vars
  PROVE  UnparkingCounts' /\ EndedNotUnparked'
<1> DEFINE Owing == /\ \A l \in Lockers : wakes[l] # {} => pc[l] \in {"grant", "wake"}
                    /\ \A l \in Lockers : pc[l] = "grant" => wakes[l] \cap picked = {}
                    /\ \A r \in Lockers : \A w \in wakes[r] : pc[w] # "ended"
<1>t. /\ pc \in [Lockers -> PCs] /\ wakes \in [Lockers -> SUBSET Lockers]
      /\ more \in [Lockers -> BOOLEAN]
      /\ Threads \subseteq Lockers /\ Futures \subseteq Lockers
      /\ \A l \in Lockers : pc[l] = "grant" <=> crit = l
      /\ crit = Nobody => picked = {}
      /\ \A k \in picked : k \in Lockers /\ pc[k] \in WaitPCs
      /\ Nobody \notin Lockers
      /\ Owing
  BY LockersAssumption, PickedWait
     DEF IInv, TypeOK, SectionOK, Lockers, UnparkingCounts, EndedNotUnparked
<1>p. unparking' = Cardinality(Owed')
  BY UnparkingStep DEF UnparkingCounts
<1>o. Owing' => UnparkingCounts' /\ EndedNotUnparked'
  BY <1>p DEF UnparkingCounts, EndedNotUnparked
<1>e. ASSUME NEW t \in Threads, End(t) PROVE \A r \in Lockers : t \notin wakes[r]
  <2>1. Cardinality(Owed) = 0
    BY <1>e DEF End, UnparkingCounts
  <2>2. Owed = {}
    BY <2>1, OwedFinite, FS_EmptySet
  <2> QED BY <2>2, OwedProperty
<1>1. ASSUME NEW l \in Lockers, NEW mode \in Modes[l], Start(l, mode) PROVE Owing'
  BY <1>1, <1>t DEF Start, Goto, GrantVars, WaitPCs
<1>2. ASSUME NEW l \in Lockers, TryLock(l) PROVE Owing'
  BY <1>2, <1>t DEF TryLock, Goto, GrantVars, WaitPCs
<1>3. ASSUME NEW l \in Lockers, Enqueue(l) PROVE Owing'
  BY <1>3, <1>t DEF Enqueue, Goto, GrantVars, WaitPCs
<1>4. ASSUME NEW l \in Lockers, Age(l) PROVE Owing'
  BY <1>4, <1>t DEF Age, Goto, GrantVars, WaitPCs
<1>5. ASSUME NEW l \in Lockers, Unlock(l) PROVE Owing'
  BY <1>5, <1>t DEF Unlock, UnlockStep, Goto, GrantVars, WaitPCs
<1>6. ASSUME NEW l \in Lockers, Grant(l) PROVE Owing'
  BY <1>6, <1>t DEF Grant, Goto, GrantVars, WaitPCs
<1>7. ASSUME NEW l \in Lockers, NEW w \in Lockers, GrantOne(l, w) PROVE Owing'
  BY <1>7, <1>t DEF GrantOne, Goto, GrantVars, WaitPCs
<1>8. ASSUME NEW l \in Lockers, GrantDone(l) PROVE Owing'
  BY <1>8, <1>t DEF GrantDone, Goto, GrantVars, WaitPCs
<1>9. ASSUME NEW l \in Lockers, NEW w \in Lockers, Wake(l, w) PROVE Owing'
  BY <1>9, <1>t DEF Wake, Goto, GrantVars, WaitPCs
<1>10. ASSUME NEW l \in Lockers, WakesDone(l) PROVE Owing'
  BY <1>10, <1>t DEF WakesDone, Goto, GrantVars, WaitPCs
<1>11. ASSUME NEW l \in Threads, Spin(l) PROVE Owing'
  BY <1>11, <1>t DEF Spin, Goto, GrantVars, WaitPCs
<1>12. ASSUME NEW l \in Threads, Check(l) PROVE Owing'
  BY <1>12, <1>t DEF Check, Goto, GrantVars, WaitPCs
<1>13. ASSUME NEW l \in Threads, Park(l) PROVE Owing'
  BY <1>13, <1>t DEF Park, Goto, GrantVars, WaitPCs
<1>14. ASSUME NEW l \in Threads, ParkSpurious(l) PROVE Owing'
  BY <1>14, <1>t DEF ParkSpurious, Goto, GrantVars, WaitPCs
<1>15. ASSUME NEW l \in Threads, End(l) PROVE Owing'
  BY <1>15, <1>e, <1>t DEF End, Goto, GrantVars, WaitPCs
<1>16. ASSUME NEW l \in Futures, Poll(l) PROVE Owing'
  BY <1>16, <1>t DEF Poll, Goto, GrantVars, WaitPCs
<1>17. ASSUME NEW l \in Futures, Recheck(l) PROVE Owing'
  BY <1>17, <1>t DEF Recheck, Goto, GrantVars, WaitPCs
<1>18. ASSUME NEW l \in Futures, Relink(l) PROVE Owing'
  BY <1>18, <1>t DEF Relink, Goto, GrantVars, WaitPCs
<1>19. ASSUME NEW l \in Futures, Move(l) PROVE Owing'
  BY <1>19, <1>t DEF Move, Goto, GrantVars, WaitPCs
<1>20. ASSUME NEW l \in Futures, Cancel(l) PROVE Owing'
  BY <1>20, <1>t DEF Cancel, Goto, GrantVars, WaitPCs
<1>21. ASSUME NEW l \in Futures, Unlink(l) PROVE Owing'
  BY <1>21, <1>t DEF Unlink, AfterUnlink, Goto, GrantVars, WaitPCs
<1>22. ASSUME NEW l \in Futures, PassOn(l) PROVE Owing'
  BY <1>22, <1>t DEF PassOn, UnlockStep, Goto, GrantVars, WaitPCs
<1>23. ASSUME UNCHANGED vars PROVE Owing'
  BY <1>23, <1>t DEF vars
<1> QED
  BY <1>o, <1>1, <1>2, <1>3, <1>4, <1>5, <1>6, <1>7, <1>8, <1>9, <1>10, <1>11, <1>12,
     <1>13, <1>14, <1>15, <1>16, <1>17, <1>18, <1>19, <1>20, <1>21, <1>22, <1>23
     DEF Next, LockerStep, ThreadStep, FutureStep

-----------------------------------------------------------------------------
(* What follows. *)

\* SInv is inductive, given IInv.
THEOREM ServedInductive == Spec => []SInv
<1>1. Init => SInv
  <2> SUFFICES ASSUME Init PROVE SInv
    OBVIOUS
  <2>1. QueueByPriority /\ Attended /\ WakersStored /\ WakeupsLand
    BY DEF Init, QueueByPriority, Attended, Servable, WakersStored, Linked, WakeupsLand,
           ReleasedAreWoken, EndedNotUnparked, Lockers
  <2>2. Owed = {}
    BY DEF Init, Owed
  <2>3. UnparkingCounts
    BY <2>2, FS_EmptySet DEF Init, UnparkingCounts
  <2> QED BY <2>1, <2>3 DEF SInv
<1>2. IInv /\ SInv /\ [Next]_vars => SInv'
  BY OrderStep, AttendedStep, WakersStep, ReleasedStep, WakesStep DEF SInv, WakeupsLand
<1> QED BY Inductive, <1>1, <1>2, PTL DEF Spec

\* Waiters are served in turn: the queue is sorted by priority, and of two that
\* are as urgent who came first stays ahead until one of them leaves, whoever
\* else is queued, granted or dropped.
THEOREM QueueSorted == Spec => QueueInTurn
<1> DEFINE Turns == \A k, l \in Lockers :
             /\ Linked(k) /\ Linked(k)' /\ Linked(l)' /\ k # l
             /\ IF Linked(l) THEN Ahead(k, l) ELSE Priority[k] >= Priority[l]
             => Ahead(k, l)'
<1>1. SInv => QueueByPriority
  BY DEF SInv
<1>2. IInv /\ [Next]_vars => [Turns]_vars
  BY TurnsStep DEF KeepsTurn
<1> QED BY Inductive, ServedInductive, <1>1, <1>2, PTL DEF Spec, QueueInTurn

\* No waiter is forgotten: somebody is on the way to waiters that could have the
\* lock, and every wakeup that is due is under way to a living task.
THEOREM NobodyForgotten == Spec => []WaitersServed
<1>1. IInv /\ SInv => WaitersServed
  BY AttendedServes DEF SInv, WaitersServed
<1> QED BY Inductive, ServedInductive, <1>1, PTL
=============================================================================
