----------------------------- MODULE TimersProofs -----------------------------
(***************************************************************************)
(* Proofs about Timers, for any tasks, runners and range of the clock: the *)
(* list holds live timers, each linked timer has a runner that knows of    *)
(* it, and a sleep shorter than half the range does not end early.         *)
(***************************************************************************)
EXTENDS Timers, FiniteSetTheorems, WellFoundedInduction, TLAPS

-----------------------------------------------------------------------------
(* Facts about numbers and sequences. *)

LessOnNat == {ss \in Nat \X Nat : ss[1] < ss[2]}

\* < on the naturals as a set of pairs, the form WFMin takes.
LEMMA LessWellFounded == IsWellFoundedOn(LessOnNat, Nat)
BY NatLessThanWellFounded DEF OpToRel, LessOnNat

\* Min(S) is what it says for every nonempty set of naturals.
LEMMA MinProperty ==
  ASSUME NEW S \in SUBSET Nat, S # {}
  PROVE  Min(S) \in S /\ \A y \in S : Min(S) <= y
<1>1. PICK m \in S : \A y \in S : <<y, m>> \notin LessOnNat
  BY LessWellFounded, WFMin
<1>2. \A y \in S : m <= y
  <2> SUFFICES ASSUME NEW y \in S PROVE m <= y
    OBVIOUS
  <2>1. <<y, m>> \notin LessOnNat /\ y \in Nat /\ m \in Nat
    BY <1>1
  <2>2. <<y, m>> \in LessOnNat <=> y < m
    BY <2>1 DEF LessOnNat
  <2> QED BY <2>1, <2>2
<1> QED BY <1>2 DEF Min

\* What a remainder is, where the difference is at most one span off.
LEMMA ModProperty ==
  ASSUME NEW a \in Int, NEW n \in Nat \ {0}
  PROVE  /\ (a % n) \in 0 .. n - 1
         /\ a \in 0 .. n - 1 => a % n = a
         /\ a \in n .. 2 * n - 1 => a % n = a - n
         /\ a \in -n .. -1 => a % n = a + n
OBVIOUS

\* A sequence that is not empty has an index.
LEMMA NonEmptyProperty ==
  ASSUME NEW S, NEW q \in Seq(S)
  PROVE  (q # <<>>) <=> \E i \in DOMAIN q : TRUE
<1>1. CASE Len(q) = 0
  BY <1>1
<1>2. CASE Len(q) > 0
  <2>1. 1 \in DOMAIN q
    BY <1>2
  <2>2. q # <<>>
    BY <1>2
  <2> QED BY <2>1, <2>2
<1> QED BY <1>1, <1>2

\* What a concatenation holds.
LEMMA ConcatProperty ==
  ASSUME NEW S, NEW s \in Seq(S), NEW t \in Seq(S)
  PROVE  /\ s \o t \in Seq(S)
         /\ Len(s \o t) = Len(s) + Len(t)
         /\ \A i \in 1 .. Len(s) + Len(t) :
              (s \o t)[i] = IF i <= Len(s) THEN s[i] ELSE t[i - Len(s)]
OBVIOUS

\* RemoveAt drops the element at place k and moves those after it by one.
LEMMA RemoveAtProperty ==
  ASSUME NEW S, NEW q \in Seq(S), NEW k \in 1 .. Len(q)
  PROVE  /\ RemoveAt(q, k) \in Seq(S)
         /\ Len(RemoveAt(q, k)) = Len(q) - 1
         /\ \A i \in 1 .. Len(q) - 1 :
              RemoveAt(q, k)[i] = IF i < k THEN q[i] ELSE q[i + 1]
<1> DEFINE front == SubSeq(q, 1, k - 1)
           back  == SubSeq(q, k + 1, Len(q))
<1>1. /\ front \in Seq(S) /\ Len(front) = k - 1
      /\ \A i \in 1 .. k - 1 : front[i] = q[i]
  OBVIOUS
<1>2. /\ back \in Seq(S) /\ Len(back) = Len(q) - k
      /\ \A i \in 1 .. Len(q) - k : back[i] = q[k + i]
  OBVIOUS
<1>3. RemoveAt(q, k) = front \o back
  BY DEF RemoveAt
<1> HIDE DEF front, back
<1>4. /\ front \o back \in Seq(S)
      /\ Len(front \o back) = Len(q) - 1
      /\ \A i \in 1 .. Len(q) - 1 :
            (front \o back)[i] = IF i < k THEN front[i] ELSE back[i - (k - 1)]
  <2>1. /\ front \o back \in Seq(S)
        /\ Len(front \o back) = Len(front) + Len(back)
        /\ \A i \in 1 .. Len(front) + Len(back) : (front \o back)[i] =
              IF i <= Len(front) THEN front[i] ELSE back[i - Len(front)]
    BY <1>1, <1>2, ConcatProperty
  <2>2. Len(front) = k - 1 /\ Len(back) = Len(q) - k /\ k \in Nat /\ Len(q) \in Nat
    BY <1>1, <1>2
  <2> QED BY <2>1, <2>2
<1>5. \A i \in 1 .. Len(q) - 1 : RemoveAt(q, k)[i] = IF i < k THEN q[i] ELSE q[i + 1]
  <2> SUFFICES ASSUME NEW i \in 1 .. Len(q) - 1
               PROVE  RemoveAt(q, k)[i] = IF i < k THEN q[i] ELSE q[i + 1]
    OBVIOUS
  <2>1. CASE i < k
    BY <1>1, <1>3, <1>4, <2>1
  <2>2. CASE i >= k
    <3>1. i - (k - 1) \in 1 .. Len(q) - k /\ k + (i - (k - 1)) = i + 1
      BY <2>2
    <3> QED BY <1>2, <1>3, <1>4, <2>2, <3>1
  <2> QED BY <2>1, <2>2
<1> QED BY <1>3, <1>4, <1>5

\* From a sequence of different elements RemoveAt takes one out for good and
\* leaves the others, in their order.
LEMMA RemovedProperty ==
  ASSUME NEW S, NEW q \in Seq(S), NEW k \in DOMAIN q,
         \A i, j \in DOMAIN q : q[i] = q[j] => i = j
  PROVE  /\ RemoveAt(q, k) \in Seq(S)
         /\ \A i \in DOMAIN RemoveAt(q, k) :
              /\ RemoveAt(q, k)[i] # q[k]
              /\ \E a \in DOMAIN q : RemoveAt(q, k)[i] = q[a]
         /\ \A i, j \in DOMAIN RemoveAt(q, k) :
              i < j => \E a, b \in DOMAIN q :
                         a < b /\ RemoveAt(q, k)[i] = q[a] /\ RemoveAt(q, k)[j] = q[b]
         /\ \A a \in DOMAIN q :
              a # k => \E i \in DOMAIN RemoveAt(q, k) : RemoveAt(q, k)[i] = q[a]
<1> DEFINE r == RemoveAt(q, k)
<1>1. k \in 1 .. Len(q)
  OBVIOUS
<1>2. /\ r \in Seq(S) /\ Len(r) = Len(q) - 1
      /\ \A i \in 1 .. Len(q) - 1 : r[i] = IF i < k THEN q[i] ELSE q[i + 1]
  BY <1>1, RemoveAtProperty
<1> HIDE DEF r
<1>3. DOMAIN r = 1 .. Len(q) - 1 /\ DOMAIN q = 1 .. Len(q) /\ Len(q) \in Nat
  BY <1>2
<1> DEFINE From(i) == IF i < k THEN i ELSE i + 1
<1>4. \A i \in DOMAIN r : From(i) \in DOMAIN q /\ From(i) # k /\ r[i] = q[From(i)]
  BY <1>1, <1>2, <1>3
<1>5. \A i, j \in DOMAIN r : i < j => From(i) < From(j)
  BY <1>1, <1>3
<1>6. \A a \in DOMAIN q : a # k => \E i \in DOMAIN r : From(i) = a
  <2> SUFFICES ASSUME NEW a \in DOMAIN q, a # k PROVE \E i \in DOMAIN r : From(i) = a
    OBVIOUS
  <2>1. CASE a < k
    BY <1>1, <1>3, <2>1
  <2>2. CASE a > k
    <3>1. a - 1 \in DOMAIN r /\ From(a - 1) = a
      BY <1>1, <1>3, <2>2
    <3> QED BY <3>1
  <2> QED BY <1>1, <1>3, <2>1, <2>2
<1> HIDE DEF From
<1>7. \A i \in DOMAIN r : r[i] # q[k]
  BY <1>1, <1>3, <1>4
<1>8. \A a \in DOMAIN q : a # k => \E i \in DOMAIN r : r[i] = q[a]
  BY <1>4, <1>6
<1> QED BY <1>2, <1>4, <1>5, <1>7, <1>8 DEF r

\* Append adds one element behind the others.
LEMMA AppendedProperty ==
  ASSUME NEW S, NEW q \in Seq(S), NEW e \in S
  PROVE  /\ Append(q, e) \in Seq(S) /\ Append(q, e) # <<>>
         /\ Len(Append(q, e)) = Len(q) + 1
         /\ Head(Append(q, e)) = IF q = <<>> THEN e ELSE Head(q)
         /\ ToSet(Append(q, e)) = ToSet(q) \cup {e}
         /\ IsInjective(q) /\ e \notin ToSet(q) => IsInjective(Append(q, e))
<1> DEFINE r == Append(q, e)
<1>1. /\ r \in Seq(S) /\ Len(r) = Len(q) + 1 /\ r[Len(q) + 1] = e
      /\ \A i \in 1 .. Len(q) : r[i] = q[i]
      /\ r # <<>> /\ Head(r) = IF q = <<>> THEN e ELSE Head(q)
  OBVIOUS
<1> HIDE DEF r
<1>2. Len(q) \in Nat /\ DOMAIN q = 1 .. Len(q) /\ DOMAIN r = 1 .. Len(q) + 1
  BY <1>1
<1>3. ToSet(r) = ToSet(q) \cup {e}
  <2>1. ASSUME NEW x \in ToSet(r) PROVE x \in ToSet(q) \cup {e}
    BY <1>1, <1>2, <2>1 DEF ToSet
  <2>2. ASSUME NEW x \in ToSet(q) \cup {e} PROVE x \in ToSet(r)
    <3>1. CASE x = e
      BY <1>1, <1>2, <3>1 DEF ToSet
    <3>2. CASE x \in ToSet(q)
      <4>1. PICK i \in 1 .. Len(q) : x = q[i]
        BY <1>2, <3>2 DEF ToSet
      <4>2. i \in DOMAIN r /\ r[i] = x
        BY <1>1, <1>2, <4>1
      <4> QED BY <4>2 DEF ToSet
    <3> QED BY <2>2, <3>1, <3>2
  <2> QED BY <2>1, <2>2
<1>4. ASSUME IsInjective(q), e \notin ToSet(q) PROVE IsInjective(r)
  <2>1. \A i \in 1 .. Len(q) : r[i] # e
    BY <1>1, <1>2, <1>4 DEF ToSet
  <2>2. \A i, j \in 1 .. Len(q) : r[i] = r[j] => i = j
    BY <1>1, <1>2, <1>4 DEF IsInjective
  <2> QED BY <1>1, <1>2, <2>1, <2>2 DEF IsInjective
<1> QED BY <1>1, <1>3, <1>4 DEF r

\* Tail drops the first element, which is nowhere else if all are different.
LEMMA TailProperty ==
  ASSUME NEW S, NEW q \in Seq(S), q # <<>>
  PROVE  /\ Head(q) \in ToSet(q) /\ Head(q) \in S
         /\ Tail(q) \in Seq(S) /\ Len(Tail(q)) = Len(q) - 1
         /\ ToSet(q) = ToSet(Tail(q)) \cup {Head(q)}
         /\ IsInjective(q) => IsInjective(Tail(q)) /\ Head(q) \notin ToSet(Tail(q))
<1> DEFINE r == Tail(q)
<1>1. /\ r \in Seq(S) /\ Len(r) = Len(q) - 1 /\ Head(q) = q[1]
      /\ \A i \in 1 .. Len(q) - 1 : r[i] = q[i + 1]
  OBVIOUS
<1>2. Len(q) \in Nat \ {0} /\ DOMAIN q = 1 .. Len(q)
  OBVIOUS
<1> HIDE DEF r
<1>3. DOMAIN r = 1 .. Len(q) - 1
  BY <1>1, <1>2
<1>4. ASSUME NEW x \in ToSet(q) PROVE x \in ToSet(r) \cup {q[1]}
  <2>1. PICK i \in 1 .. Len(q) : x = q[i]
    BY <1>2 DEF ToSet
  <2>2. CASE i # 1
    <3>1. i - 1 \in DOMAIN r /\ r[i - 1] = x
      BY <1>1, <1>2, <1>3, <2>1, <2>2
    <3> QED BY <3>1 DEF ToSet
  <2> QED BY <2>1, <2>2
<1>5. ASSUME NEW x \in ToSet(r) \cup {q[1]} PROVE x \in ToSet(q)
  <2>1. CASE x = q[1]
    BY <1>2, <2>1 DEF ToSet
  <2>2. CASE x \in ToSet(r)
    <3>1. PICK i \in 1 .. Len(q) - 1 : x = r[i]
      BY <1>3, <2>2 DEF ToSet
    <3>2. i + 1 \in DOMAIN q /\ q[i + 1] = x
      BY <1>1, <1>2, <3>1
    <3> QED BY <3>2 DEF ToSet
  <2> QED BY <1>5, <2>1, <2>2
<1>6. ASSUME IsInjective(q) PROVE IsInjective(r) /\ q[1] \notin ToSet(r)
  <2>1. \A i \in 1 .. Len(q) - 1 : i + 1 \in DOMAIN q /\ i + 1 # 1 /\ r[i] = q[i + 1]
    BY <1>1, <1>2
  <2>2. q[1] \notin ToSet(r)
    BY <1>2, <1>3, <1>6, <2>1 DEF ToSet, IsInjective
  <2>3. ASSUME NEW a \in DOMAIN r, NEW b \in DOMAIN r, r[a] = r[b] PROVE a = b
    <3>1. a + 1 = b + 1 /\ a \in Nat /\ b \in Nat
      BY SMTT(30), <1>2, <1>3, <1>6, <2>1, <2>3 DEF IsInjective
    <3> QED BY <3>1
  <2>4. IsInjective(r)
    BY <2>3 DEF IsInjective
  <2> QED BY <2>2, <2>4
<1>7. ToSet(q) = ToSet(r) \cup {q[1]}
  BY <1>4, <1>5
<1>8. Head(q) = q[1] /\ q[1] \in ToSet(q) /\ q[1] \in S
  BY <1>1, <1>2, <1>7
<1> QED BY <1>1, <1>6, <1>7, <1>8 DEF r

-----------------------------------------------------------------------------
\* A task is queued once or run by one runner; what is queued is scheduled.
TasksApart ==
  /\ IsInjective(queue) /\ ToSet(queue) \subseteq scheduled \ Running
  /\ \A r, s \in Runners :
       runner[r].task = runner[s].task /\ runner[r].task # None => r = s

\* A runner has a task in a poll and none in a park, and the task whose timer it
\* looks at has one.
PlacesOK ==
  \A r \in Runners :
    /\ runner[r].at \in {"poll", "timer", "polled"} => runner[r].task # None
    /\ runner[r].at \in {"next", "park", "parked"} => runner[r].task = None
    /\ runner[r].at = "timer" => runner[r].task \in armed

\* The wrapped deadline is the true one.
ClocksAgree == \A t \in armed : deadline[t] = (now + left[t]) % Span

\* What a runner read from the clock, and how long ago.
Reads(r) == runner[r].at \in {"fire", "timer", "park"}
Age(r) == Minus(now, runner[r].now)
ReadsFresh == \A r \in Runners : Reads(r) => Age(r) <= Slack

\* What Covers says of a park, and before it: the wait was long enough when it
\* was computed, and the clock has moved since.
Knows(r, t) ==
  \/ runner[r].at \notin {"park", "parked"}
  \/ runner[r].token
  \/ /\ runner[r].at = "park" /\ runner[r].wait # None
     /\ runner[r].wait = 0 \/ runner[r].wait <= left[t] + Age(r)
  \/ /\ runner[r].at = "parked" /\ runner[r].rest # None
     /\ runner[r].rest = 0 \/ runner[r].rest <= left[t] + Slack
Known == \A t \in ToSet(timers) : \E r \in Runners : Knows(r, t)

IInv ==
  /\ TypeOK /\ TasksApart /\ PlacesOK /\ ClocksAgree /\ ReadsFresh /\ LinkedLive /\ Known

\* Of sleeps shorter than half the clock's range: what is left of one is, too,
\* also as a poll has it that read the clock before.
ShortSleeps ==
  /\ \A t \in armed : left[t] < Half
  /\ \A r \in Runners :
       runner[r].at = "timer" => left[runner[r].task] + Age(r) < Half

-----------------------------------------------------------------------------
(* The runners. *)

\* The assumptions, apart.
LEMMA Constants ==
  /\ NumRunners \in Nat \ {0} /\ Runners = 0 .. NumRunners - 1
  /\ Span \in Nat \ {0} /\ Half \in Nat /\ Span = 2 * Half /\ Half > 1
  /\ Slack \in Nat /\ Slack >= 1 /\ Slack < Half
  /\ Ticks = 0 .. Span - 1 /\ 0 \in Ticks /\ Sleeps \subseteq Ticks
  /\ None \notin Tasks /\ None \notin Ticks /\ Callers \subseteq Tasks /\ IsFiniteSet(Tasks)
<1>1. Half \in Int
  BY TimersAssumption DEF Half
<1> QED BY <1>1, TimersAssumption DEF Runners, Ticks

\* claim_idle takes an idle runner when there is one.
LEMMA FirstIdleProperty ==
  ASSUME TypeOK
  PROVE  /\ Idle # {} => FirstIdle \in Idle /\ FirstIdle \in Runners
         /\ ClaimedNext \in Runners
<1>1. NumRunners \in Nat \ {0} /\ nextClaim \in Nat /\ Runners = 0 .. NumRunners - 1
  BY Constants DEF TypeOK
<1>2. \A n \in Int : (n % NumRunners) \in Runners
  BY <1>1
<1>3. ASSUME Idle # {} PROVE FirstIdle \in Idle
  <2> DEFINE S == {Turn(r) : r \in Idle}
  <2>1. \A r \in Idle : Turn(r) \in Nat
    BY <1>1, <1>2 DEF Turn, Idle
  <2>2. S \in SUBSET Nat /\ S # {}
    BY <1>3, <2>1
  <2>3. Min(S) \in S /\ \A y \in S : Min(S) <= y
    <3> HIDE DEF S
    <3> QED BY <2>2, MinProperty
  <2>4. \E r \in Idle : \A o \in Idle : Turn(r) <= Turn(o)
    BY <2>3
  <2> QED BY <2>4 DEF FirstIdle
<1>4. Idle \subseteq Runners
  BY DEF Idle
<1>5. ASSUME Idle # {} PROVE (FirstIdle + 1) % NumRunners \in Runners
  <2>1. \A x \in Runners : x + 1 \in Int
    BY <1>1
  <2> QED BY <1>2, <1>3, <1>4, <1>5, <2>1
<1>6. nextClaim \in Runners
  BY DEF TypeOK
<1> QED BY <1>3, <1>4, <1>5, <1>6 DEF ClaimedNext

\* A runner stays where it is; a claim may give it its token.
AlikeIn(rs, s) ==
  /\ rs[s].at = runner[s].at /\ rs[s].task = runner[s].task /\ rs[s].now = runner[s].now
  /\ rs[s].wait = runner[s].wait /\ rs[s].rest = runner[s].rest
  /\ runner[s].token => rs[s].token
Alike(s) == AlikeIn(runner', s)
Others(r) == \A s \in Runners \ {r} : Alike(s)

\* Whoever is claimed stays where it is.
LEMMA ClaimedProperty ==
  ASSUME TypeOK, NEW rs \in [Runners -> RunnerStates]
  PROVE  /\ Claimed(rs) \in [Runners -> RunnerStates]
         /\ \A s \in Runners :
              LET c == Claimed(rs)[s]
              IN  /\ c.at = rs[s].at /\ c.task = rs[s].task /\ c.now = rs[s].now
                  /\ c.wait = rs[s].wait /\ c.rest = rs[s].rest
                  /\ rs[s].token => c.token
<1>1. CASE Idle = {}
  BY <1>1 DEF Claimed
<1>2. CASE Idle # {}
  <2>1. FirstIdle \in Runners
    BY <1>2, FirstIdleProperty
  <2>2. Claimed(rs) = [rs EXCEPT ![FirstIdle] = [@ EXCEPT !.idle = FALSE, !.token = TRUE]]
    BY <1>2 DEF Claimed
  <2> DEFINE f == FirstIdle
             c == [rs[f] EXCEPT !.idle = FALSE, !.token = TRUE]
  <2>3. f \in Runners /\ Claimed(rs) = [rs EXCEPT ![f] = c]
    BY <2>1, <2>2
  <2>4. rs[f] \in RunnerStates
    BY <2>1
  <2>5. /\ c \in RunnerStates /\ c.at = rs[f].at /\ c.task = rs[f].task /\ c.now = rs[f].now
        /\ c.wait = rs[f].wait /\ c.rest = rs[f].rest /\ c.token
    BY <2>4 DEF RunnerStates
  <2> HIDE DEF f, c
  <2> QED BY <2>3, <2>5
<1> QED BY <1>1, <1>2

\* A wake moves nobody, and queues a task that is neither scheduled nor run.
LEMMA WakeEffect ==
  ASSUME TypeOK, NEW t \in Tasks, Wake(t, runner)
  PROVE  /\ runner' \in [Runners -> RunnerStates] /\ nextClaim' \in Runners
         /\ \A s \in Runners : Alike(s)
         /\ scheduled' = scheduled \cup {t}
         /\ \/ queue' = queue
            \/ t \notin scheduled \cup Running /\ queue' = Append(queue, t)
<1>1. runner \in [Runners -> RunnerStates] /\ nextClaim \in Runners
  BY DEF TypeOK
<1>2. CASE t \in scheduled \cup Running
  BY <1>1, <1>2 DEF Wake, Alike, AlikeIn
<1>3. CASE t \notin scheduled \cup Running
  <2>1. /\ scheduled' = scheduled \cup {t} /\ queue' = Append(queue, t)
        /\ runner' = Claimed(runner) /\ nextClaim' = ClaimedNext
    BY <1>3 DEF Wake, Enqueue
  <2>2. runner' \in [Runners -> RunnerStates] /\ \A s \in Runners : Alike(s)
    BY <1>1, <2>1, ClaimedProperty DEF Alike, AlikeIn
  <2> QED BY <1>3, <2>1, <2>2, FirstIdleProperty
<1> QED BY <1>2, <1>3

\* Where each step of a runner takes it; the others stay where they are.
LEMMA Steps ==
  ASSUME TypeOK, NEW r \in Runners
  PROVE  /\ runner[r] \in RunnerStates
         /\ TakeTask(r) =>
              /\ runner'[r].at = "look" /\ Others(r)
              /\ runner'[r].task = IF queue = <<>> THEN None ELSE Head(queue)
         /\ Look(r) =>
              /\ runner'[r].at = "fire" /\ Others(r)
              /\ runner'[r].now = now /\ runner'[r].task = runner[r].task
         /\ FireDone(r) =>
              /\ Others(r) /\ runner'[r].task = runner[r].task
              /\ IF runner[r].task = None
                 THEN /\ runner'[r].at = "park" /\ runner'[r].now = runner[r].now
                      /\ runner'[r].wait = Waits(r)
                 ELSE runner'[r].at = "poll"
         /\ Park(r) =>
              /\ runner'[r].at = "parked" /\ Others(r)
              /\ runner'[r].rest = runner[r].wait /\ runner'[r].task = runner[r].task
              /\ runner'[r].token = runner[r].token
         /\ ParkEnds(r) =>
              runner'[r].at = "next" /\ Others(r) /\ runner'[r].task = runner[r].task
         /\ FirstPoll(r) \/ PollAgain(r) =>
              /\ runner'[r].at = "timer" /\ Others(r)
              /\ runner'[r].now = now /\ runner'[r].task = runner[r].task
         /\ TimerReady(r) =>
              runner'[r].at = "poll" /\ Others(r) /\ runner'[r].task = runner[r].task
         /\ TimerPending(r) \/ PollOther(r) =>
              runner'[r].at = "polled" /\ Others(r) /\ runner'[r].task = runner[r].task
         /\ Polled(r) =>
              runner'[r].at = "next" /\ Others(r) /\ runner'[r].task = None
<1>1. runner \in [Runners -> RunnerStates] /\ runner[r] \in RunnerStates
  BY DEF TypeOK
<1>2. ASSUME NEW e, runner' = [runner EXCEPT ![r] = e] PROVE runner'[r] = e /\ Others(r)
  BY <1>1, <1>2 DEF Others, Alike, AlikeIn
<1>3. ASSUME NEW place, runner' = Go(r, place)
      PROVE  runner'[r].at = place /\ runner'[r].task = runner[r].task /\ Others(r)
  <2>1. runner' = [runner EXCEPT ![r] = [runner[r] EXCEPT !.at = place, !.now = 0]]
    BY <1>1, <1>3 DEF Go
  <2> QED BY <1>1, <1>2, <2>1 DEF RunnerStates
<1>4. ASSUME TakeTask(r)
      PROVE  /\ runner'[r].at = "look" /\ Others(r)
             /\ runner'[r].task = IF queue = <<>> THEN None ELSE Head(queue)
  <2>1. runner' = [runner EXCEPT ![r] =
          [runner[r] EXCEPT !.at = "look", !.task = IF queue = <<>> THEN None ELSE Head(queue),
                            !.idle = queue = <<>>]]
    BY <1>1, <1>4 DEF TakeTask
  <2> QED BY <1>1, <1>2, <2>1 DEF RunnerStates
<1>5. ASSUME Look(r)
      PROVE  /\ runner'[r].at = "fire" /\ Others(r)
             /\ runner'[r].now = now /\ runner'[r].task = runner[r].task
  <2>1. runner' = [runner EXCEPT ![r] = [runner[r] EXCEPT !.at = "fire", !.now = now]]
    BY <1>1, <1>5 DEF Look
  <2> QED BY <1>1, <1>2, <2>1 DEF RunnerStates
<1>6. ASSUME FireDone(r)
      PROVE  /\ Others(r) /\ runner'[r].task = runner[r].task
             /\ IF runner[r].task = None
                THEN /\ runner'[r].at = "park" /\ runner'[r].now = runner[r].now
                     /\ runner'[r].wait = Waits(r)
                ELSE runner'[r].at = "poll"
  <2>1. CASE runner[r].task = None
    <3>1. runner' = [runner EXCEPT ![r] = [runner[r] EXCEPT !.at = "park", !.wait = Waits(r)]]
      BY <1>1, <1>6, <2>1 DEF FireDone
    <3> QED BY <1>1, <1>2, <2>1, <3>1 DEF RunnerStates
  <2>2. CASE runner[r].task # None
    BY <1>3, <1>6, <2>2 DEF FireDone
  <2> QED BY <2>1, <2>2
<1>7. ASSUME Park(r)
      PROVE  /\ runner'[r].at = "parked" /\ Others(r)
             /\ runner'[r].rest = runner[r].wait /\ runner'[r].task = runner[r].task
             /\ runner'[r].token = runner[r].token
  <2>1. runner' = [runner EXCEPT ![r] =
          [runner[r] EXCEPT !.at = "parked", !.now = 0, !.wait = None, !.rest = runner[r].wait]]
    BY <1>1, <1>7 DEF Park
  <2> QED BY <1>1, <1>2, <2>1 DEF RunnerStates
<1>8. ASSUME ParkEnds(r)
      PROVE  runner'[r].at = "next" /\ Others(r) /\ runner'[r].task = runner[r].task
  <2>1. runner' = [runner EXCEPT ![r] =
          [runner[r] EXCEPT !.at = "next", !.token = FALSE, !.idle = FALSE, !.rest = None]]
    BY <1>1, <1>8 DEF ParkEnds, Unparked
  <2> QED BY <1>1, <1>2, <2>1 DEF RunnerStates
<1>9. ASSUME FirstPoll(r) \/ PollAgain(r)
      PROVE  /\ runner'[r].at = "timer" /\ Others(r)
             /\ runner'[r].now = now /\ runner'[r].task = runner[r].task
  <2>1. runner' = [runner EXCEPT ![r] = [runner[r] EXCEPT !.at = "timer", !.now = now]]
    BY <1>1, <1>9 DEF FirstPoll, PollAgain, PollTimer
  <2> QED BY <1>1, <1>2, <2>1 DEF RunnerStates
<1>10. ASSUME Polled(r)
       PROVE  runner'[r].at = "next" /\ Others(r) /\ runner'[r].task = None
  <2> DEFINE e == [runner[r] EXCEPT !.at = "next", !.task = None]
             back == [runner EXCEPT ![r] = e]
  <2>1. runner' \in {back, Claimed(back)}
    BY <1>1, <1>10 DEF Polled, Enqueue
  <2>2. e \in RunnerStates /\ e.at = "next" /\ e.task = None
    BY <1>1 DEF RunnerStates, Places
  <2> HIDE DEF e
  <2>3. /\ back \in [Runners -> RunnerStates] /\ back[r] = e
        /\ \A s \in Runners \ {r} : back[s] = runner[s]
    BY <1>1, <2>2
  <2> HIDE DEF back
  <2>4. \A s \in Runners \ {r} : AlikeIn(Claimed(back), s)
    BY <2>3, ClaimedProperty DEF AlikeIn
  <2>5. Claimed(back)[r].at = "next" /\ Claimed(back)[r].task = None
    BY <2>2, <2>3, ClaimedProperty
  <2>6. CASE runner' = back
    BY <2>2, <2>3, <2>6 DEF Others, Alike, AlikeIn
  <2>7. CASE runner' = Claimed(back)
    BY <2>4, <2>5, <2>7 DEF Others, Alike
  <2> QED BY <2>1, <2>6, <2>7
<1>11. TimerReady(r) =>
         runner'[r].at = "poll" /\ Others(r) /\ runner'[r].task = runner[r].task
  BY <1>3 DEF TimerReady
<1>12. TimerPending(r) \/ PollOther(r) =>
         runner'[r].at = "polled" /\ Others(r) /\ runner'[r].task = runner[r].task
  BY <1>3 DEF TimerPending, PollOther
<1> QED BY <1>1, <1>4, <1>5, <1>6, <1>7, <1>8, <1>9, <1>10, <1>11, <1>12

-----------------------------------------------------------------------------
(* The list of timers. *)

\* What is taken out of the list is gone, and the rest stays.
LEMMA Unlinked ==
  ASSUME TypeOK, IsInjective(timers), NEW i \in DOMAIN timers
  PROVE  /\ RemoveAt(timers, i) \in Seq(Tasks) /\ IsInjective(RemoveAt(timers, i))
         /\ ToSet(RemoveAt(timers, i)) \subseteq ToSet(timers) \ {timers[i]}
<1> DEFINE q == RemoveAt(timers, i)
<1>1. timers \in Seq(Tasks) /\ \A a, b \in DOMAIN timers : timers[a] = timers[b] => a = b
  BY DEF TypeOK, IsInjective
<1>2. /\ q \in Seq(Tasks)
      /\ \A a \in DOMAIN q : q[a] # timers[i] /\ \E b \in DOMAIN timers : q[a] = timers[b]
      /\ \A a, b \in DOMAIN q :
           a < b => \E c, d \in DOMAIN timers : c < d /\ q[a] = timers[c] /\ q[b] = timers[d]
  BY <1>1, RemovedProperty
<1> HIDE DEF q
<1>3. ASSUME NEW a \in DOMAIN q, NEW b \in DOMAIN q, a < b PROVE q[a] # q[b]
  <2>1. PICK c \in DOMAIN timers, d \in DOMAIN timers :
          c < d /\ q[a] = timers[c] /\ q[b] = timers[d]
    BY <1>2, <1>3
  <2>2. c \in Nat /\ d \in Nat
    BY <1>1
  <2>3. c # d
    BY <2>1, <2>2
  <2> QED BY <1>1, <2>1, <2>3
<1>4. DOMAIN q \subseteq Nat
  BY <1>2
<1>5. \A a, b \in DOMAIN q : q[a] = q[b] => a = b
  <2>1. \A a, b \in Nat : a # b => a < b \/ b < a
    OBVIOUS
  <2> QED BY <1>3, <1>4, <2>1
<1>6. IsInjective(q) /\ ToSet(q) \subseteq ToSet(timers) \ {timers[i]}
  BY <1>2, <1>5 DEF IsInjective, ToSet
<1> QED BY <1>2, <1>6 DEF q

\* unlink_timer takes the node of t out, if it is in the list.
LEMMA WithoutProperty ==
  ASSUME TypeOK, IsInjective(timers), NEW t
  PROVE  /\ Without(t) \in Seq(Tasks) /\ IsInjective(Without(t))
         /\ ToSet(Without(t)) \subseteq ToSet(timers) \ {t}
<1>1. CASE t \in ToSet(timers)
  <2> DEFINE i == CHOOSE i \in DOMAIN timers : timers[i] = t
  <2>1. \E k \in DOMAIN timers : timers[k] = t
    BY <1>1 DEF ToSet
  <2>2. i \in DOMAIN timers /\ timers[i] = t
    BY <2>1
  <2>3. Without(t) = RemoveAt(timers, i)
    BY <1>1 DEF Without
  <2> HIDE DEF i
  <2> QED BY <2>2, <2>3, Unlinked
<1>2. CASE t \notin ToSet(timers)
  BY <1>2 DEF Without, TypeOK
<1> QED BY <1>1, <1>2

\* A node comes to the front once.
LEMMA LinkProperty ==
  ASSUME TypeOK, IsInjective(timers), NEW t \in Tasks
  PROVE  /\ Link(t) \in Seq(Tasks) /\ IsInjective(Link(t))
         /\ ToSet(Link(t)) \subseteq ToSet(timers) \cup {t}
<1>1. CASE t \in ToSet(timers)
  BY <1>1 DEF Link, TypeOK
<1>2. CASE t \notin ToSet(timers)
  <2> DEFINE q == <<t>> \o timers
  <2>1. timers \in Seq(Tasks) /\ <<t>> \in Seq(Tasks) /\ Len(<<t>>) = 1 /\ <<t>>[1] = t
    BY DEF TypeOK
  <2>2. /\ q \in Seq(Tasks) /\ Len(q) = 1 + Len(timers)
        /\ \A i \in 1 .. 1 + Len(timers) :
             q[i] = IF i <= 1 THEN <<t>>[i] ELSE timers[i - 1]
    BY <2>1, ConcatProperty
  <2> HIDE DEF q
  <2>3. Len(timers) \in Nat /\ DOMAIN timers = 1 .. Len(timers)
    BY <2>1
  <2>4. /\ DOMAIN q = 1 .. 1 + Len(timers) /\ q[1] = t
        /\ \A i \in 2 .. 1 + Len(timers) : i - 1 \in DOMAIN timers /\ q[i] = timers[i - 1]
    BY <2>1, <2>2, <2>3
  <2>5. \A i \in DOMAIN q : i = 1 \/ i \in 2 .. 1 + Len(timers)
    BY <2>3, <2>4
  <2>6. ToSet(q) \subseteq ToSet(timers) \cup {t}
    BY <2>4, <2>5 DEF ToSet
  <2>7. \A i \in 2 .. 1 + Len(timers) : q[i] # t
    BY <1>2, <2>4 DEF ToSet
  <2>8. \A i, j \in 2 .. 1 + Len(timers) : q[i] = q[j] => i = j
    <3>1. \A i, j \in 2 .. 1 + Len(timers) : q[i] = q[j] => i - 1 = j - 1
      BY <2>4 DEF LinkedLive, IsInjective
    <3>2. \A i, j \in 2 .. 1 + Len(timers) : i - 1 = j - 1 => i = j
      BY <2>3
    <3> QED BY <3>1, <3>2
  <2>9. IsInjective(q)
    BY <2>4, <2>5, <2>7, <2>8 DEF IsInjective
  <2> QED BY <1>2, <2>2, <2>6, <2>9 DEF Link, q
<1> QED BY <1>1, <1>2

\* The list holds each live timer once, whoever links, unlinks and drops.
LEMMA LinkedStep ==
  ASSUME IInv, [Next]_vars PROVE timers' \in Seq(Tasks) /\ LinkedLive'
<1>t. TypeOK /\ PlacesOK /\ IsInjective(timers) /\ ToSet(timers) \subseteq armed
      /\ timers \in Seq(Tasks) /\ Runners = 0 .. NumRunners - 1
      /\ runner \in [Runners -> RunnerStates]
  BY Constants DEF IInv, LinkedLive, TypeOK
<1>1. ASSUME timers' = timers, armed \subseteq armed'
      PROVE  timers' \in Seq(Tasks) /\ LinkedLive'
  BY <1>t, <1>1 DEF LinkedLive
<1>2. ASSUME NEW t, DropTimer(t) PROVE timers' \in Seq(Tasks) /\ LinkedLive'
  <2>1. timers' = Without(t) /\ armed' = armed \ {t}
    BY <1>2 DEF DropTimer, Unlink
  <2> QED BY <1>t, <2>1, WithoutProperty DEF LinkedLive
<1>3. ASSUME NEW r \in Runners, FireDue(r) PROVE timers' \in Seq(Tasks) /\ LinkedLive'
  <2>1. PICK i \in DOMAIN timers : timers' = RemoveAt(timers, i) /\ armed' = armed
    BY <1>3 DEF FireDue, Due
  <2> QED BY <1>t, <2>1, Unlinked DEF LinkedLive
<1>4. ASSUME NEW r \in Runners, TimerPending(r) PROVE timers' \in Seq(Tasks) /\ LinkedLive'
  <2> DEFINE t == runner[r].task
  <2>1. timers' = Link(t) /\ armed' = armed /\ t \in armed
    BY <1>4, <1>t DEF TimerPending, PlacesOK
  <2>2. t \in Tasks
    BY <2>1 DEF IInv, TypeOK
  <2> HIDE DEF t
  <2> QED BY <1>t, <2>1, <2>2, LinkProperty DEF LinkedLive
<1>5. ASSUME NEW r \in Runners, RunnerStep(r) \/ ParkEnds(r)
      PROVE  timers' \in Seq(Tasks) /\ LinkedLive'
  <2>1. CASE TimerReady(r) \/ DropArmed(r)
    BY <1>2, <2>1 DEF TimerReady, DropArmed
  <2>2. CASE FirstPoll(r)
    BY <1>1, <2>2 DEF FirstPoll, PollTimer
  <2>3. CASE PollAgain(r)
    BY <1>1, <2>3 DEF PollAgain, PollTimer
  <2>4. CASE \/ TakeTask(r) \/ Look(r) \/ FireDone(r) \/ Park(r) \/ PollOther(r) \/ Polled(r)
             \/ ParkEnds(r)
    BY <1>1, <2>4 DEF TakeTask, Look, FireDone, Park, PollOther, Polled, ParkEnds
  <2> QED BY <1>3, <1>4, <1>5, <2>1, <2>2, <2>3, <2>4 DEF RunnerStep
<1>6. CASE \E t \in Callers : Event(t)
  BY <1>1, <1>6 DEF Event
<1>7. CASE Tick \/ UNCHANGED vars
  BY <1>1, <1>7 DEF Tick, vars
<1> QED BY <1>5, <1>6, <1>7 DEF Next

-----------------------------------------------------------------------------
(* The clock. *)

\* A tick moves no runner and runs down the park of a runner that has a timeout.
LEMMA TickRunners ==
  ASSUME TypeOK, Tick
  PROVE  /\ runner' \in [Runners -> RunnerStates]
         /\ \A s \in Runners :
              /\ runner'[s].at = runner[s].at /\ runner'[s].task = runner[s].task
              /\ runner'[s].now = runner[s].now /\ runner'[s].wait = runner[s].wait
              /\ runner'[s].token = runner[s].token
              /\ IF runner[s].rest \in {None, 0} THEN runner'[s].rest = runner[s].rest
                 ELSE runner[s].rest \in Nat /\ runner'[s].rest = runner[s].rest - 1
<1>1. runner \in [Runners -> RunnerStates]
  BY DEF TypeOK
<1> SUFFICES ASSUME NEW s \in Runners
    PROVE  /\ runner'[s] \in RunnerStates
           /\ runner'[s].at = runner[s].at /\ runner'[s].task = runner[s].task
           /\ runner'[s].now = runner[s].now /\ runner'[s].wait = runner[s].wait
           /\ runner'[s].token = runner[s].token
           /\ IF runner[s].rest \in {None, 0} THEN runner'[s].rest = runner[s].rest
              ELSE runner[s].rest \in Nat /\ runner'[s].rest = runner[s].rest - 1
  BY DEF Tick
<1>2. runner'[s] = IF runner[s].rest \in {None, 0} THEN runner[s]
                   ELSE [runner[s] EXCEPT !.rest = @ - 1]
  BY DEF Tick
<1>3. CASE runner[s].rest \in {None, 0}
  BY <1>1, <1>2, <1>3
<1>4. CASE runner[s].rest \notin {None, 0}
  <2> DEFINE c == runner[s]
             n == c.rest - 1
  <2>1. c \in RunnerStates /\ c.rest \in Ticks /\ c.rest # 0
    BY <1>1, <1>4 DEF RunnerStates
  <2>2. n \in Ticks /\ c.rest \in Nat
    BY <2>1, Constants
  <2>3. runner'[s] = [c EXCEPT !.rest = n]
    BY <1>2, <1>4
  <2> HIDE DEF n
  <2>4. /\ runner'[s] \in RunnerStates /\ runner'[s].rest = n
        /\ runner'[s].at = c.at /\ runner'[s].task = c.task /\ runner'[s].now = c.now
        /\ runner'[s].wait = c.wait /\ runner'[s].token = c.token
    BY <2>1, <2>2, <2>3 DEF RunnerStates
  <2> QED BY <1>4, <2>2, <2>4 DEF n
<1> QED BY <1>3, <1>4

-----------------------------------------------------------------------------
(* The run queue. *)

\* Whoever's task stays, the running ones stay.
LEMMA TasksStay ==
  ASSUME \A s \in Runners : runner'[s].task = runner[s].task
  PROVE  Running' = Running
BY DEF Running

\* A task is in the queue once or run by one runner, and scheduled in the queue.
LEMMA ApartStep ==
  ASSUME IInv, [Next]_vars
  PROVE  TasksApart' /\ queue' \in Seq(Tasks) /\ scheduled' \subseteq Tasks
<1>t. /\ TypeOK /\ PlacesOK /\ queue \in Seq(Tasks) /\ scheduled \subseteq Tasks
      /\ IsInjective(queue) /\ ToSet(queue) \subseteq scheduled \ Running
      /\ \A r, s \in Runners :
           runner[r].task = runner[s].task /\ runner[r].task # None => r = s
  BY DEF IInv, TasksApart, TypeOK
<1>p. \A r \in Runners : runner[r].task \in Tasks \cup {None}
  BY <1>t DEF TypeOK, RunnerStates
<1>1. ASSUME queue' = queue, scheduled' = scheduled,
             \A s \in Runners : runner'[s].task = runner[s].task
      PROVE  TasksApart' /\ queue' \in Seq(Tasks) /\ scheduled' \subseteq Tasks
  BY <1>t, <1>1, TasksStay DEF TasksApart
<1>2. ASSUME NEW t \in Tasks, Wake(t, runner)
      PROVE  TasksApart' /\ queue' \in Seq(Tasks) /\ scheduled' \subseteq Tasks
  <2>1. /\ \A s \in Runners : runner'[s].task = runner[s].task
        /\ scheduled' = scheduled \cup {t}
        /\ queue' = queue \/ (t \notin scheduled \cup Running /\ queue' = Append(queue, t))
    BY <1>t, <1>2, WakeEffect DEF Alike, AlikeIn
  <2>2. Running' = Running
    BY <2>1, TasksStay
  <2>3. CASE queue' = queue
    BY <1>t, <2>1, <2>2, <2>3 DEF TasksApart
  <2>4. CASE t \notin scheduled \cup Running /\ queue' = Append(queue, t)
    <3>1. /\ queue' \in Seq(Tasks) /\ ToSet(queue') = ToSet(queue) \cup {t}
          /\ IsInjective(queue')
      BY <1>t, <2>4, AppendedProperty
    <3> QED BY <1>t, <2>1, <2>2, <2>4, <3>1 DEF TasksApart
  <2> QED BY <2>1, <2>3, <2>4
<1>3. ASSUME NEW r \in Runners, TakeTask(r)
      PROVE  TasksApart' /\ queue' \in Seq(Tasks) /\ scheduled' \subseteq Tasks
  <2>1. /\ \A s \in Runners \ {r} : runner'[s].task = runner[s].task
        /\ runner'[r].task = IF queue = <<>> THEN None ELSE Head(queue)
        /\ runner[r].task = None /\ scheduled' = scheduled
        /\ queue' = IF queue = <<>> THEN queue ELSE Tail(queue)
    BY <1>t, <1>3, Steps DEF Others, Alike, AlikeIn, PlacesOK, TakeTask
  <2>2. CASE queue = <<>>
    BY <1>1, <2>1, <2>2
  <2>3. CASE queue # <<>>
    <3> DEFINE h == Head(queue)
    <3>1. /\ h \in ToSet(queue) /\ h \in Tasks /\ queue' \in Seq(Tasks)
          /\ ToSet(queue) = ToSet(queue') \cup {h}
          /\ IsInjective(queue') /\ h \notin ToSet(queue')
      BY <1>t, <2>1, <2>3, TailProperty
    <3>2. runner'[r].task = h /\ h \notin Running
      BY <1>t, <2>1, <2>3, <3>1
    <3> HIDE DEF h
    <3>3. Running' \subseteq Running \cup {h}
      BY <2>1, <3>2 DEF Running
    <3>4. \A s \in Runners \ {r} : runner[s].task # None => runner[s].task # h
      BY <3>2 DEF Running
    <3> QED BY <1>t, <2>1, <3>1, <3>2, <3>3, <3>4 DEF TasksApart
  <2> QED BY <2>2, <2>3
<1>4. ASSUME NEW r \in Runners, FireDone(r)
      PROVE  TasksApart' /\ queue' \in Seq(Tasks) /\ scheduled' \subseteq Tasks
  <2>1. \A s \in Runners : runner'[s].task = runner[s].task
    BY <1>t, <1>4, Steps DEF Others, Alike, AlikeIn
  <2>2. CASE runner[r].task = None
    BY <1>1, <1>4, <2>1, <2>2 DEF FireDone
  <2>3. CASE runner[r].task # None
    <3>1. queue' = queue /\ scheduled' = scheduled \ {runner[r].task}
      BY <1>4, <2>3 DEF FireDone
    <3>2. runner[r].task \in Running
      BY <2>3 DEF Running
    <3> QED BY <1>t, <2>1, <3>1, <3>2, TasksStay DEF TasksApart
  <2> QED BY <2>2, <2>3
<1>5. ASSUME NEW r \in Runners, Polled(r)
      PROVE  TasksApart' /\ queue' \in Seq(Tasks) /\ scheduled' \subseteq Tasks
  <2> DEFINE t == runner[r].task
  <2>1. /\ \A s \in Runners \ {r} : runner'[s].task = runner[s].task
        /\ runner'[r].task = None /\ runner[r].at = "polled"
    BY <1>t, <1>5, Steps DEF Others, Alike, AlikeIn, Polled
  <2>2. t \in Tasks /\ t \in Running
    BY <1>t, <1>p, <2>1 DEF PlacesOK, Running
  <2>3. Running' \subseteq Running \ {t}
    BY <1>t, <2>1, <2>2 DEF Running
  <2>4. scheduled' = scheduled
    BY <1>5 DEF Polled
  <2>5. CASE t \in scheduled
    <3>1. queue' = Append(queue, t) /\ t \notin ToSet(queue)
      BY <1>t, <1>5, <2>2, <2>5 DEF Polled, Enqueue
    <3> HIDE DEF t
    <3>2. /\ queue' \in Seq(Tasks) /\ ToSet(queue') = ToSet(queue) \cup {t}
          /\ IsInjective(queue')
      BY <1>t, <2>2, <3>1, AppendedProperty
    <3> QED BY <1>t, <2>1, <2>3, <2>4, <2>5, <3>2 DEF TasksApart
  <2>6. CASE t \notin scheduled
    <3>1. queue' = queue
      BY <1>5, <2>6 DEF Polled
    <3> QED BY <1>t, <2>1, <2>3, <2>4, <3>1 DEF TasksApart
  <2> QED BY <2>5, <2>6
<1>6. ASSUME NEW r \in Runners, RunnerStep(r) \/ ParkEnds(r)
      PROVE  TasksApart' /\ queue' \in Seq(Tasks) /\ scheduled' \subseteq Tasks
  <2>1. CASE FireDue(r)
    <3>1. PICK i \in DOMAIN timers : Wake(timers[i], runner)
      BY <2>1 DEF FireDue, Due
    <3>2. timers[i] \in Tasks
      BY <1>t DEF TypeOK
    <3> QED BY <1>2, <3>1, <3>2
  <2>2. CASE Look(r) \/ Park(r) \/ ParkEnds(r)
    <3>1. queue' = queue /\ scheduled' = scheduled
      BY <2>2 DEF Look, Park, ParkEnds
    <3> QED BY <1>1, <1>t, <2>2, <3>1, Steps DEF Others, Alike, AlikeIn
  <2>3. CASE \/ FirstPoll(r) \/ PollAgain(r) \/ TimerReady(r) \/ TimerPending(r) \/ PollOther(r)
    <3>1. queue' = queue /\ scheduled' = scheduled
      BY <2>3 DEF FirstPoll, PollAgain, PollTimer, TimerReady, TimerPending, PollOther
    <3> QED BY <1>1, <1>t, <2>3, <3>1, Steps DEF Others, Alike, AlikeIn
  <2>4. CASE DropArmed(r)
    BY <1>1, <2>4 DEF DropArmed
  <2> QED BY <1>3, <1>4, <1>5, <1>6, <2>1, <2>2, <2>3, <2>4 DEF RunnerStep
<1>7. CASE \E t \in Callers : Event(t)
  BY <1>2, <1>7, Constants DEF Event
<1>8. CASE Tick
  <2>1. \A s \in Runners : runner'[s].task = runner[s].task
    BY <1>8, TickRunners, <1>t
  <2> QED BY <1>1, <1>8, <2>1 DEF Tick
<1>9. CASE UNCHANGED vars
  BY <1>1, <1>9 DEF vars
<1> QED BY <1>6, <1>7, <1>8, <1>9 DEF Next

\* The place a runner is at fits its task, which no other runner can disarm.
LEMMA PlacesStep ==
  ASSUME IInv, [Next]_vars PROVE PlacesOK'
<1>t. /\ TypeOK /\ PlacesOK
      /\ \A r, s \in Runners :
           runner[r].task = runner[s].task /\ runner[r].task # None => r = s
  BY DEF IInv, TasksApart
<1>1. ASSUME \A s \in Runners : Alike(s), armed' = armed PROVE PlacesOK'
  BY <1>t, <1>1 DEF PlacesOK, Alike, AlikeIn
<1>2. ASSUME NEW r \in Runners, Others(r), armed \ {runner[r].task} \subseteq armed',
             armed' # armed => runner[r].task # None,
             runner'[r].at \in {"poll", "timer", "polled"} => runner'[r].task # None,
             runner'[r].at \in {"next", "park", "parked"} => runner'[r].task = None,
             runner'[r].at = "timer" => runner'[r].task \in armed'
      PROVE  PlacesOK'
  <2>1. ASSUME NEW s \in Runners \ {r}, runner[s].at = "timer"
        PROVE  runner'[s].task \in armed'
    <3>1. runner[s].task \in armed /\ runner[s].task # None
      BY <1>t, <2>1 DEF PlacesOK
    <3>2. runner[s].task # runner[r].task
      BY <1>t, <3>1
    <3> QED BY <1>2, <3>1, <3>2 DEF Others, Alike, AlikeIn
  <2> QED BY <1>t, <1>2, <2>1 DEF PlacesOK, Others, Alike, AlikeIn
<1>3. ASSUME NEW r \in Runners, RunnerStep(r) \/ ParkEnds(r) PROVE PlacesOK'
  <2>p. /\ runner[r].at \in {"poll", "timer", "polled"} => runner[r].task # None
        /\ runner[r].at \in {"next", "park", "parked"} => runner[r].task = None
    BY <1>t DEF PlacesOK
  <2>1. CASE TakeTask(r)
    <3>1. armed' = armed
      BY <2>1 DEF TakeTask
    <3> QED BY <1>t, <1>2, <2>1, <3>1, Steps
  <2>2. CASE Look(r)
    <3>1. armed' = armed
      BY <2>2 DEF Look
    <3> QED BY <1>t, <1>2, <2>2, <3>1, Steps
  <2>3. CASE FireDue(r)
    <3>1. PICK i \in DOMAIN timers : Wake(timers[i], runner) /\ armed' = armed
      BY <2>3 DEF FireDue, Due
    <3>2. timers[i] \in Tasks
      BY <1>t DEF TypeOK
    <3> QED BY <1>t, <1>1, <3>1, <3>2, WakeEffect
  <2>4. CASE FireDone(r)
    <3>1. armed' = armed
      BY <2>4 DEF FireDone
    <3> QED BY <1>t, <1>2, <2>4, <3>1, Steps
  <2>5. CASE Park(r)
    <3>1. armed' = armed /\ runner[r].task = None
      BY <2>p, <2>5 DEF Park
    <3> QED BY <1>t, <1>2, <2>5, <3>1, Steps
  <2>6. CASE ParkEnds(r)
    <3>1. armed' = armed /\ runner[r].task = None
      BY <2>p, <2>6 DEF ParkEnds
    <3> QED BY <1>t, <1>2, <2>6, <3>1, Steps
  <2>7. CASE FirstPoll(r) \/ PollAgain(r)
    <3>1. armed' = armed \cup {runner[r].task} /\ runner[r].task # None
      BY <2>p, <2>7 DEF FirstPoll, PollAgain, PollTimer
    <3> QED BY <1>t, <1>2, <2>7, <3>1, Steps
  <2>8. CASE TimerReady(r)
    <3>1. armed' = armed \ {runner[r].task} /\ runner[r].task # None
      BY <2>p, <2>8 DEF TimerReady, DropTimer
    <3> QED BY <1>t, <1>2, <2>8, <3>1, Steps
  <2>9. CASE TimerPending(r) \/ PollOther(r)
    <3>1. armed' = armed /\ runner[r].task # None
      BY <2>p, <2>9 DEF TimerPending, PollOther
    <3> QED BY <1>t, <1>2, <2>9, <3>1, Steps
  <2>10. CASE DropArmed(r)
    <3>1. /\ armed' = armed \ {runner[r].task} /\ runner[r].task # None
          /\ runner' = runner /\ runner[r].at = "poll"
      BY <2>p, <2>10 DEF DropArmed, DropTimer
    <3>2. Others(r)
      BY <3>1 DEF Others, Alike, AlikeIn
    <3> QED BY <1>t, <1>2, <3>1, <3>2
  <2>11. CASE Polled(r)
    <3>1. armed' = armed
      BY <2>11 DEF Polled
    <3> QED BY <1>t, <1>2, <2>11, <3>1, Steps
  <2> QED BY <1>3, <2>1, <2>2, <2>3, <2>4, <2>5, <2>6, <2>7, <2>8, <2>9, <2>10, <2>11
          DEF RunnerStep
<1>4. CASE \E t \in Callers : Event(t)
  <2>1. PICK t \in Tasks : Wake(t, runner) /\ armed' = armed
    BY <1>4, Constants DEF Event
  <2> QED BY <1>t, <1>1, <2>1, WakeEffect
<1>5. CASE Tick
  <2>1. armed' = armed
    BY <1>5 DEF Tick
  <2> QED BY <1>t, <1>5, <2>1, TickRunners DEF PlacesOK
<1>6. CASE UNCHANGED vars
  BY <1>1, <1>6 DEF vars, Alike, AlikeIn
<1> QED BY <1>3, <1>4, <1>5, <1>6 DEF Next

\* The ticks to the next deadline are those to one of them, and to none fewer.
LEMMA NextDueProperty ==
  ASSUME TypeOK, NEW r \in Runners
  PROVE  /\ NextDue(r) \in Ticks \cup {None}
         /\ \A t \in ToSet(timers) :
              NextDue(r) \in Ticks /\ NextDue(r) <= Minus(deadline[t], runner[r].now)
<1> DEFINE D(t) == Minus(deadline[t], runner[r].now)
           S == {D(t) : t \in ToSet(timers)}
<1>1. /\ deadline \in [Tasks -> Ticks] /\ runner[r].now \in Ticks /\ timers \in Seq(Tasks)
      /\ Span \in Nat \ {0} /\ Ticks = 0 .. Span - 1
  BY Constants DEF TypeOK, RunnerStates
<1>2. ToSet(timers) \subseteq Tasks
  BY <1>1 DEF ToSet
<1>3. \A a, b \in Ticks : Minus(a, b) \in Ticks
  <2> SUFFICES ASSUME NEW a \in Ticks, NEW b \in Ticks PROVE Minus(a, b) \in Ticks
    OBVIOUS
  <2>1. a - b \in Int
    BY <1>1
  <2> QED BY <1>1, <2>1, ModProperty DEF Minus
<1>4. \A t \in ToSet(timers) : D(t) \in Ticks
  BY <1>1, <1>2, <1>3
<1>5. Ticks \subseteq Nat
  BY <1>1
<1>6. NextDue(r) = IF timers = <<>> THEN None ELSE Min(S)
  BY DEF NextDue
<1> HIDE DEF D
<1>7. CASE timers = <<>>
  BY <1>6, <1>7 DEF ToSet
<1>8. CASE timers # <<>>
  <2>1. S \in SUBSET Nat /\ S \subseteq Ticks
    BY <1>4, <1>5
  <2>2. S # {}
    <3>1. PICK i \in DOMAIN timers : TRUE
      BY <1>1, <1>8, NonEmptyProperty
    <3> QED BY <3>1 DEF ToSet
  <2>3. Min(S) \in S /\ \A y \in S : Min(S) <= y
    <3> HIDE DEF S
    <3> QED BY <2>1, <2>2, MinProperty
  <2>4. NextDue(r) = Min(S)
    BY <1>6, <1>8
  <2>5. NextDue(r) \in Ticks /\ \A t \in ToSet(timers) : NextDue(r) <= D(t)
    <3>1. \A t \in ToSet(timers) : D(t) \in S
      OBVIOUS
    <3> HIDE DEF S
    <3> QED BY <2>1, <2>3, <2>4, <3>1
  <2> QED BY <2>5 DEF D
<1> QED BY <1>7, <1>8

\* The runners stay what they are.
LEMMA RunnersStep ==
  ASSUME IInv, [Next]_vars
  PROVE  runner' \in [Runners -> RunnerStates] /\ nextClaim' \in Runners
<1>t. /\ TypeOK /\ runner \in [Runners -> RunnerStates] /\ nextClaim \in Runners
      /\ now \in Ticks /\ 0 \in Ticks /\ queue \in Seq(Tasks) /\ timers \in Seq(Tasks)
  BY Constants DEF IInv, TypeOK
<1>1. ASSUME NEW r \in Runners, NEW e \in RunnerStates,
             runner' = [runner EXCEPT ![r] = e] \/ runner' = Claimed([runner EXCEPT ![r] = e])
      PROVE  runner' \in [Runners -> RunnerStates]
  BY <1>t, <1>1, ClaimedProperty
<1>2. ASSUME NEW t \in Tasks, Wake(t, runner)
      PROVE  runner' \in [Runners -> RunnerStates] /\ nextClaim' \in Runners
  BY <1>t, <1>2, WakeEffect
<1>3. ASSUME NEW r \in Runners, NEW place \in Places, runner' = Go(r, place)
      PROVE  runner' \in [Runners -> RunnerStates]
  <2> DEFINE e == [runner[r] EXCEPT !.at = place, !.now = 0]
  <2>1. e \in RunnerStates
    BY <1>t DEF RunnerStates
  <2>2. runner' = [runner EXCEPT ![r] = e]
    BY <1>t, <1>3 DEF Go
  <2> HIDE DEF e
  <2> QED BY <1>1, <2>1, <2>2
<1>4. ASSUME NEW r \in Runners, RunnerStep(r) \/ ParkEnds(r)
      PROVE  runner' \in [Runners -> RunnerStates] /\ nextClaim' \in Runners
  <2>c. runner[r] \in RunnerStates
    BY <1>t
  <2>1. CASE TakeTask(r)
    <3> DEFINE h == IF queue = <<>> THEN None ELSE Head(queue)
               e == [runner[r] EXCEPT !.at = "look", !.task = h, !.idle = queue = <<>>]
    <3>1. h \in Tasks \cup {None}
      BY <1>t
    <3>2. (queue = <<>>) \in BOOLEAN
      OBVIOUS
    <3>3. runner' = [runner EXCEPT ![r] = e] /\ nextClaim' = nextClaim
      BY <1>t, <2>1 DEF TakeTask
    <3> HIDE DEF h
    <3>4. e \in RunnerStates
      BY <2>c, <3>1, <3>2 DEF RunnerStates, Places
    <3> HIDE DEF e
    <3> QED BY <1>t, <1>1, <3>3, <3>4
  <2>2. CASE Look(r)
    <3> DEFINE e == [runner[r] EXCEPT !.at = "fire", !.now = now]
    <3>1. runner' = [runner EXCEPT ![r] = e] /\ nextClaim' = nextClaim
      BY <1>t, <2>2 DEF Look
    <3>2. e \in RunnerStates
      BY <1>t, <2>c DEF RunnerStates, Places
    <3> HIDE DEF e
    <3> QED BY <1>t, <1>1, <3>1, <3>2
  <2>3. CASE FireDue(r)
    <3>1. PICK i \in DOMAIN timers : Wake(timers[i], runner)
      BY <2>3 DEF FireDue, Due
    <3>2. timers[i] \in Tasks
      BY <1>t
    <3> QED BY <1>2, <3>1, <3>2
  <2>4. CASE FireDone(r)
    <3>n. nextClaim' = nextClaim
      BY <2>4 DEF FireDone
    <3>1. CASE runner[r].task = None
      <4> DEFINE e == [runner[r] EXCEPT !.at = "park", !.wait = Waits(r)]
      <4>1. runner' = [runner EXCEPT ![r] = e]
        BY <1>t, <2>4, <3>1 DEF FireDone
      <4>2. Waits(r) \in Ticks \cup {None}
        BY <1>t, NextDueProperty DEF Waits
      <4>3. e \in RunnerStates
        BY <2>c, <4>2 DEF RunnerStates, Places
      <4> HIDE DEF e
      <4> QED BY <1>t, <1>1, <3>n, <4>1, <4>3
    <3>2. CASE runner[r].task # None
      BY <1>t, <1>3, <2>4, <3>n, <3>2 DEF FireDone, Places
    <3> QED BY <3>1, <3>2
  <2>5. CASE Park(r)
    <3> DEFINE e == [runner[r] EXCEPT !.at = "parked", !.now = 0, !.wait = None,
                                      !.rest = runner[r].wait]
    <3>1. runner' = [runner EXCEPT ![r] = e] /\ nextClaim' = nextClaim
      BY <1>t, <2>5 DEF Park
    <3>2. e \in RunnerStates
      BY <1>t, <2>c DEF RunnerStates, Places
    <3> HIDE DEF e
    <3> QED BY <1>t, <1>1, <3>1, <3>2
  <2>6. CASE ParkEnds(r)
    <3> DEFINE e == [runner[r] EXCEPT !.at = "next", !.token = FALSE, !.idle = FALSE,
                                      !.rest = None]
    <3>1. runner' = [runner EXCEPT ![r] = e] /\ nextClaim' = nextClaim
      BY <1>t, <2>6 DEF ParkEnds, Unparked
    <3>2. e \in RunnerStates
      BY <1>t, <2>c DEF RunnerStates, Places
    <3> HIDE DEF e
    <3> QED BY <1>t, <1>1, <3>1, <3>2
  <2>7. CASE FirstPoll(r) \/ PollAgain(r)
    <3> DEFINE e == [runner[r] EXCEPT !.at = "timer", !.now = now]
    <3>1. runner' = [runner EXCEPT ![r] = e] /\ nextClaim' = nextClaim
      BY <1>t, <2>7 DEF FirstPoll, PollAgain, PollTimer
    <3>2. e \in RunnerStates
      BY <1>t, <2>c DEF RunnerStates, Places
    <3> HIDE DEF e
    <3> QED BY <1>t, <1>1, <3>1, <3>2
  <2>8. CASE TimerReady(r) \/ TimerPending(r) \/ PollOther(r)
    <3>1. nextClaim' = nextClaim /\ \E place \in Places : runner' = Go(r, place)
      BY <2>8 DEF TimerReady, TimerPending, PollOther, Places
    <3> QED BY <1>t, <1>3, <3>1
  <2>9. CASE DropArmed(r)
    BY <1>t, <2>9 DEF DropArmed
  <2>10. CASE Polled(r)
    <3> DEFINE e == [runner[r] EXCEPT !.at = "next", !.task = None]
               back == [runner EXCEPT ![r] = e]
    <3>1. /\ runner' = back \/ runner' = Claimed(back)
          /\ nextClaim' \in {nextClaim, ClaimedNext}
      BY <1>t, <2>10 DEF Polled, Enqueue
    <3>2. e \in RunnerStates
      BY <2>c DEF RunnerStates, Places
    <3>3. nextClaim' \in Runners
      BY <1>t, <3>1, FirstIdleProperty
    <3> HIDE DEF e
    <3> QED BY <1>1, <3>1, <3>2, <3>3
  <2> QED BY <1>4, <2>1, <2>2, <2>3, <2>4, <2>5, <2>6, <2>7, <2>8, <2>9, <2>10 DEF RunnerStep
<1>5. CASE \E t \in Callers : Event(t)
  BY <1>2, <1>5, Constants DEF Event
<1>6. CASE Tick
  <2>1. nextClaim' = nextClaim
    BY <1>6 DEF Tick
  <2> QED BY <1>t, <1>6, <2>1, TickRunners
<1>7. CASE UNCHANGED vars
  BY <1>t, <1>7 DEF vars
<1> QED BY <1>4, <1>5, <1>6, <1>7 DEF Next

-----------------------------------------------------------------------------
(* Wrapping ticks. *)

\* A difference of ticks is one.
LEMMA MinusProperty ==
  ASSUME NEW a \in Ticks, NEW b \in Ticks
  PROVE  /\ Minus(a, b) \in Ticks
         /\ Minus(a, b) = IF a >= b THEN a - b ELSE a - b + Span
<1>1. Span \in Nat \ {0} /\ Ticks = 0 .. Span - 1
  BY Constants
<1>2. /\ a - b \in Int /\ (a - b \in 0 .. Span - 1 \/ a - b \in -Span .. -1)
      /\ a >= b <=> a - b \in 0 .. Span - 1
  BY <1>1
<1> DEFINE d == a - b
<1>3. Minus(a, b) = d % Span
  BY DEF Minus
<1>4. /\ (d % Span) \in 0 .. Span - 1
      /\ d \in 0 .. Span - 1 => d % Span = d
      /\ d \in -Span .. -1 => d % Span = d + Span
  <2>1. d \in Int /\ Span \in Nat \ {0}
    BY <1>1, <1>2
  <2> HIDE DEF d
  <2> QED BY <2>1, ModProperty
<1> QED BY <1>1, <1>2, <1>3, <1>4

\* A sum of a tick and what is left, wrapped.
LEMMA PlusProperty ==
  ASSUME NEW a \in Ticks, NEW l \in (1 - Half) .. (Span - 1)
  PROVE  /\ (a + l) % Span \in Ticks
         /\ (a + l) % Span = IF a + l < 0 THEN a + l + Span
                             ELSE IF a + l >= Span THEN a + l - Span ELSE a + l
<1>1. /\ Span \in Nat \ {0} /\ Ticks = 0 .. Span - 1 /\ Half \in Nat
      /\ Span = 2 * Half /\ Half > 1
  BY Constants
<1>2. a + l \in Int /\ a + l >= -Span /\ a + l <= 2 * Span - 1
  BY <1>1
<1>3. ASSUME NEW s \in Int, s >= -Span, s <= 2 * Span - 1
      PROVE  /\ (s % Span) \in Ticks
             /\ (s % Span) = IF s < 0 THEN s + Span ELSE IF s >= Span THEN s - Span ELSE s
  <2>1. Span \in Nat \ {0}
    BY <1>1
  <2>2. /\ (s % Span) \in 0 .. Span - 1
        /\ s \in 0 .. Span - 1 => s % Span = s
        /\ s \in Span .. 2 * Span - 1 => s % Span = s - Span
        /\ s \in -Span .. -1 => s % Span = s + Span
    BY <1>3, <2>1, ModProperty
  <2> QED BY <1>1, <1>3, <2>2
<1>4. a \in Int /\ l \in Int /\ Span \in Int
  BY <1>1
<1> QED BY <1>2, <1>3, <1>4

\* A tick brings each deadline one tick closer and makes each reading older by one.
LEMMA TickProperty ==
  ASSUME NEW a \in Ticks
  PROVE  /\ (a + 1) % Span \in Ticks
         /\ \A b \in Ticks : Minus(a, b) < Slack => Minus((a + 1) % Span, b) = Minus(a, b) + 1
         /\ \A l \in (2 - Half) .. (Span - 1) : (((a + 1) % Span) + (l - 1)) % Span = (a + l) % Span
<1>1. /\ Span \in Nat \ {0} /\ Ticks = 0 .. Span - 1 /\ Half \in Nat
      /\ Span = 2 * Half /\ Half > 1 /\ Slack \in Nat /\ Slack < Half
  BY Constants
<1> DEFINE c == (a + 1) % Span
<1>2. c \in Ticks /\ c = IF a + 1 >= Span THEN a + 1 - Span ELSE a + 1
  <2>1. 1 \in (1 - Half) .. (Span - 1) /\ ~(a + 1 < 0)
    BY <1>1
  <2> QED BY <2>1, PlusProperty
<1> HIDE DEF c
<1>3. ASSUME NEW b \in Ticks, Minus(a, b) < Slack PROVE Minus(c, b) = Minus(a, b) + 1
  <2>1. /\ Minus(a, b) = IF a >= b THEN a - b ELSE a - b + Span
        /\ Minus(c, b) = IF c >= b THEN c - b ELSE c - b + Span
    BY <1>2, MinusProperty
  <2> QED BY <1>1, <1>2, <1>3, <2>1
<1>4. ASSUME NEW l \in (2 - Half) .. (Span - 1) PROVE (c + (l - 1)) % Span = (a + l) % Span
  <2> DEFINE k == l - 1
  <2>1. k \in (1 - Half) .. (Span - 1) /\ l \in (1 - Half) .. (Span - 1)
    BY <1>1
  <2>2. (a + l) % Span = IF a + l < 0 THEN a + l + Span
                         ELSE IF a + l >= Span THEN a + l - Span ELSE a + l
    BY <2>1, PlusProperty
  <2>3. (c + k) % Span = IF c + k < 0 THEN c + k + Span
                         ELSE IF c + k >= Span THEN c + k - Span ELSE c + k
    <3> HIDE DEF k
    <3> QED BY <1>2, <2>1, PlusProperty
  <2>4. (IF c + k < 0 THEN c + k + Span ELSE IF c + k >= Span THEN c + k - Span ELSE c + k)
        = (IF a + l < 0 THEN a + l + Span ELSE IF a + l >= Span THEN a + l - Span ELSE a + l)
    BY <1>1, <1>2, <2>1
  <2> QED BY <2>2, <2>3, <2>4
<1> QED BY <1>2, <1>3, <1>4 DEF c

\* What the comparison of wrapped ticks says of what was left when the clock was
\* read: a deadline that is not reached is no further off than that, and one
\* within half the range is reached when nothing was left.
LEMMA ReachedProperty ==
  ASSUME NEW a \in Ticks, NEW b \in Ticks, NEW l \in (1 - Half) .. (Span - 1),
         Minus(a, b) <= Slack
  PROVE  LET d == (a + l) % Span
         IN  /\ ~Reached(b, d) => Minus(d, b) <= l + Minus(a, b)
             /\ Reached(b, d) /\ l + Minus(a, b) < Half => l <= 0
<1>1. /\ Span \in Nat \ {0} /\ Ticks = 0 .. Span - 1 /\ Half \in Nat
      /\ Span = 2 * Half /\ Half > 1 /\ Slack \in Nat /\ Slack < Half
  BY Constants
<1> DEFINE d == (a + l) % Span
<1>2. d \in Ticks /\ d = IF a + l < 0 THEN a + l + Span
                         ELSE IF a + l >= Span THEN a + l - Span ELSE a + l
  BY PlusProperty
<1> HIDE DEF d
<1>3. /\ Minus(a, b) = IF a >= b THEN a - b ELSE a - b + Span
      /\ Minus(d, b) = IF d >= b THEN d - b ELSE d - b + Span
  BY <1>2, MinusProperty
<1> DEFINE g == Minus(a, b)
           m == Minus(d, b)
<1>4. g \in Int /\ g >= 0 /\ g <= Slack /\ m \in Int /\ m >= 0 /\ m < Span
  <2>1. g \in Ticks /\ m \in Ticks
    BY <1>2, MinusProperty
  <2>2. g <= Slack
    OBVIOUS
  <2> HIDE DEF g, m
  <2> QED BY <1>1, <2>1, <2>2
<1>5. m = l + g \/ m = l + g + Span \/ m = l + g - Span
  <2>1. m = d - b \/ m = d - b + Span
    BY <1>3
  <2>2. g = a - b \/ g = a - b + Span
    BY <1>3
  <2> HIDE DEF m, g
  <2> QED BY <1>1, <1>2, <1>4, <2>1, <2>2
<1> HIDE DEF m, g
<1>6. ASSUME ~(m = 0 \/ m >= Half) PROVE m <= l + g
  BY <1>1, <1>4, <1>5, <1>6
<1>7. ASSUME m = 0 \/ m >= Half, l + g < Half PROVE l <= 0
  BY <1>1, <1>4, <1>5, <1>7
<1> QED BY <1>6, <1>7 DEF m, g, d, Reached

\* The wrapped deadline of a live timer stays the true one.
LEMMA ClockStep ==
  ASSUME IInv, [Next]_vars
  PROVE  /\ now' \in Ticks /\ deadline' \in [Tasks -> Ticks] /\ armed' \subseteq Tasks
         /\ left' \in [Tasks -> (1 - Half) .. (Span - 1)]
         /\ ClocksAgree'
<1> DEFINE Lefts == (1 - Half) .. (Span - 1)
<1>t. /\ TypeOK /\ PlacesOK
      /\ now \in Ticks /\ deadline \in [Tasks -> Ticks] /\ armed \subseteq Tasks
      /\ left \in [Tasks -> Lefts]
      /\ \A t \in armed : deadline[t] = (now + left[t]) % Span
      /\ \A r \in Runners : runner[r].task \in Tasks \cup {None}
  BY DEF IInv, TypeOK, ClocksAgree, RunnerStates
<1>c. 0 \in Ticks /\ 0 \in Lefts /\ Ticks \subseteq Lefts /\ Sleeps \subseteq Ticks
  BY Constants
<1> DEFINE Goal == /\ now' \in Ticks /\ deadline' \in [Tasks -> Ticks] /\ armed' \subseteq Tasks
                   /\ left' \in [Tasks -> Lefts] /\ ClocksAgree'
<1>1. ASSUME now' = now, deadline' = deadline, armed' = armed, left' = left PROVE Goal
  BY <1>t, <1>1 DEF ClocksAgree
<1>2. ASSUME NEW t, DropTimer(t), now' = now PROVE Goal
  <2>1. /\ armed' = armed \ {t} /\ left' = [left EXCEPT ![t] = 0]
        /\ deadline' = [deadline EXCEPT ![t] = 0]
    BY <1>2 DEF DropTimer
  <2>2. left' \in [Tasks -> Lefts] /\ deadline' \in [Tasks -> Ticks]
    <3> HIDE DEF Lefts
    <3> QED BY <1>t, <1>c, <2>1
  <2>3. \A u \in armed' : left'[u] = left[u] /\ deadline'[u] = deadline[u]
    BY <1>t, <2>1
  <2> QED BY <1>t, <1>2, <2>1, <2>2, <2>3 DEF ClocksAgree
<1>3. ASSUME NEW r \in Runners, FirstPoll(r) PROVE Goal
  <2> DEFINE t == runner[r].task
  <2>1. t \in Tasks
    BY <1>t, <1>3 DEF FirstPoll, PlacesOK
  <2>2. PICK n \in Sleeps : left' = [left EXCEPT ![t] = n] /\ PollTimer(r, t, DeadlineIn(n))
    BY <1>3 DEF FirstPoll
  <2>3. n \in Ticks /\ n \in Lefts
    BY <1>c
  <2>4. /\ deadline' = [deadline EXCEPT ![t] = (now + n) % Span] /\ now' = now
        /\ armed' = armed \cup {t}
    BY <1>3, <2>2 DEF FirstPoll, PollTimer, DeadlineIn
  <2>5. (now + n) % Span \in Ticks
    BY <1>t, <2>3, PlusProperty
  <2> HIDE DEF t
  <2>6. left' \in [Tasks -> Lefts] /\ deadline' \in [Tasks -> Ticks]
    <3> HIDE DEF Lefts
    <3> QED BY <1>t, <2>2, <2>3, <2>4, <2>5
  <2>7. /\ left'[t] = n /\ deadline'[t] = (now + n) % Span
        /\ \A u \in armed \ {t} : left'[u] = left[u] /\ deadline'[u] = deadline[u]
    BY <1>t, <2>1, <2>2, <2>4
  <2> QED BY <1>t, <2>1, <2>4, <2>6, <2>7 DEF ClocksAgree
<1>4. ASSUME NEW r \in Runners, PollAgain(r) PROVE Goal
  <2>1. /\ deadline' = [deadline EXCEPT ![runner[r].task] = deadline[runner[r].task]]
        /\ now' = now /\ armed' = armed /\ left' = left
    BY <1>4 DEF PollAgain, PollTimer
  <2>2. deadline' = deadline
    BY <1>t, <2>1
  <2> QED BY <1>1, <2>1, <2>2
<1>5. ASSUME NEW r \in Runners, RunnerStep(r) \/ ParkEnds(r) PROVE Goal
  <2>1. CASE TimerReady(r) \/ DropArmed(r)
    BY <1>2, <2>1 DEF TimerReady, DropArmed
  <2>2. CASE TakeTask(r) \/ Look(r) \/ FireDue(r) \/ FireDone(r) \/ Park(r) \/ ParkEnds(r)
    BY <1>1, <2>2 DEF TakeTask, Look, FireDue, FireDone, Park, ParkEnds
  <2>3. CASE TimerPending(r) \/ PollOther(r) \/ Polled(r)
    BY <1>1, <2>3 DEF TimerPending, PollOther, Polled
  <2> HIDE DEF Goal
  <2> QED BY <1>3, <1>4, <1>5, <2>1, <2>2, <2>3 DEF RunnerStep
<1>6. CASE \E t \in Callers : Event(t)
  BY <1>1, <1>6 DEF Event
<1>7. CASE Tick
  <2>1. /\ now' = (now + 1) % Span /\ armed' = armed /\ deadline' = deadline
        /\ left' = [t \in Tasks |-> IF t \in armed THEN left[t] - 1 ELSE 0]
        /\ \A t \in armed : left[t] > 1 - Half
    BY <1>7 DEF Tick, Prompt
  <2>2. ASSUME NEW t \in armed PROVE left[t] \in (2 - Half) .. (Span - 1) /\ left[t] - 1 \in Lefts
    <3>1. left[t] \in Lefts /\ left[t] > 1 - Half /\ Half \in Nat /\ Span \in Nat
      BY <1>t, <2>1, Constants
    <3> QED BY <3>1
  <2>3. now' \in Ticks
    BY <1>t, <2>1, TickProperty
  <2>4. left' \in [Tasks -> Lefts]
    <3> HIDE DEF Lefts
    <3> QED BY <1>c, <2>1, <2>2
  <2>5. ASSUME NEW t \in armed PROVE (now' + left'[t]) % Span = (now + left[t]) % Span
    <3>1. left'[t] = left[t] - 1
      BY <1>t, <2>1, <2>5
    <3> QED BY <1>t, <2>1, <2>2, <3>1, TickProperty
  <2> QED BY <1>t, <2>1, <2>3, <2>4, <2>5 DEF ClocksAgree
<1>8. CASE UNCHANGED vars
  BY <1>1, <1>8 DEF vars
<1> QED BY <1>5, <1>6, <1>7, <1>8 DEF Next

\* What a runner holds of the clock is at most Slack ticks old.
LEMMA FreshStep ==
  ASSUME IInv, [Next]_vars PROVE ReadsFresh'
<1>t. /\ TypeOK /\ now \in Ticks /\ runner \in [Runners -> RunnerStates]
      /\ \A s \in Runners : Reads(s) => Minus(now, runner[s].now) <= Slack
  BY DEF IInv, TypeOK, ReadsFresh, Age
<1>c. Slack \in Nat /\ Slack >= 1 /\ Minus(now, now) = 0
  <2>1. Slack \in Nat /\ Slack >= 1 /\ Ticks \subseteq Int
    BY Constants
  <2>2. Minus(now, now) = IF now >= now THEN now - now ELSE now - now + Span
    BY <1>t, MinusProperty
  <2>3. now \in Int
    BY <1>t, <2>1
  <2> QED BY <2>1, <2>2, <2>3
<1>1. ASSUME now' = now, \A s \in Runners : Alike(s) PROVE ReadsFresh'
  BY <1>t, <1>1 DEF ReadsFresh, Reads, Age, Alike, AlikeIn
<1>2. ASSUME NEW r \in Runners, now' = now, Others(r),
             \/ runner'[r].at \notin {"fire", "timer", "park"}
             \/ runner'[r].now = now
             \/ Reads(r) /\ runner'[r].now = runner[r].now
      PROVE  ReadsFresh'
  <2>1. ASSUME NEW s \in Runners, Reads(s)' PROVE Minus(now', runner'[s].now) <= Slack
    <3>1. CASE s # r
      BY <1>t, <1>2, <2>1, <3>1 DEF Others, Alike, AlikeIn, Reads
    <3>2. CASE s = r /\ runner'[r].now = now
      BY <1>c, <1>2, <3>2
    <3>3. CASE s = r /\ Reads(r) /\ runner'[r].now = runner[r].now
      BY <1>t, <1>2, <3>3
    <3> QED BY <1>2, <2>1, <3>1, <3>2, <3>3 DEF Reads
  <2> QED BY <2>1 DEF ReadsFresh, Age
<1>3. ASSUME NEW r \in Runners, RunnerStep(r) \/ ParkEnds(r) PROVE ReadsFresh'
  <2>1. CASE TakeTask(r)
    <3>1. now' = now
      BY <2>1 DEF TakeTask
    <3> QED BY <1>t, <1>2, <2>1, <3>1, Steps
  <2>2. CASE Look(r)
    <3>1. now' = now
      BY <2>2 DEF Look
    <3> QED BY <1>t, <1>2, <2>2, <3>1, Steps
  <2>3. CASE FireDue(r)
    <3>1. PICK i \in DOMAIN timers : Wake(timers[i], runner) /\ now' = now
      BY <2>3 DEF FireDue, Due
    <3>2. timers[i] \in Tasks
      BY <1>t DEF TypeOK
    <3> QED BY <1>t, <1>1, <3>1, <3>2, WakeEffect
  <2>4. CASE FireDone(r)
    <3>1. now' = now /\ Reads(r)
      BY <2>4 DEF FireDone, Reads
    <3>2. CASE runner[r].task = None
      BY <1>t, <1>2, <2>4, <3>1, <3>2, Steps
    <3>3. CASE runner[r].task # None
      BY <1>t, <1>2, <2>4, <3>1, <3>3, Steps
    <3> QED BY <3>2, <3>3
  <2>5. CASE Park(r) \/ ParkEnds(r)
    <3>1. now' = now
      BY <2>5 DEF Park, ParkEnds
    <3> QED BY <1>t, <1>2, <2>5, <3>1, Steps
  <2>6. CASE FirstPoll(r) \/ PollAgain(r)
    <3>1. now' = now
      BY <2>6 DEF FirstPoll, PollAgain, PollTimer
    <3> QED BY <1>t, <1>2, <2>6, <3>1, Steps
  <2>7. CASE TimerReady(r) \/ TimerPending(r) \/ PollOther(r) \/ Polled(r)
    <3>1. now' = now
      BY <2>7 DEF TimerReady, TimerPending, PollOther, Polled
    <3> QED BY <1>t, <1>2, <2>7, <3>1, Steps
  <2>8. CASE DropArmed(r)
    BY <1>1, <2>8 DEF DropArmed, Alike, AlikeIn
  <2> QED BY <1>3, <2>1, <2>2, <2>3, <2>4, <2>5, <2>6, <2>7, <2>8 DEF RunnerStep
<1>4. CASE \E t \in Callers : Event(t)
  <2>1. PICK t \in Tasks : Wake(t, runner) /\ now' = now
    BY <1>4, Constants DEF Event
  <2> QED BY <1>t, <1>1, <2>1, WakeEffect
<1>5. CASE Tick
  <2>1. ASSUME NEW s \in Runners, Reads(s) PROVE Minus(now', runner[s].now) <= Slack
    <3>1. runner[s].now \in Ticks /\ Minus(now, runner[s].now) < Slack
      BY <1>t, <1>5, <2>1 DEF RunnerStates, Reads, Tick, Prompt
    <3>2. Minus(now', runner[s].now) = Minus(now, runner[s].now) + 1
      BY <1>t, <1>5, <3>1, TickProperty DEF Tick
    <3>3. Minus(now, runner[s].now) \in Ticks
      BY <1>t, <3>1, MinusProperty
    <3>4. Ticks \subseteq Int
      BY Constants
    <3>5. ASSUME NEW g \in Int, g < Slack PROVE g + 1 <= Slack
      BY <1>c, <3>5
    <3> QED BY <3>1, <3>2, <3>3, <3>4, <3>5
  <2> QED BY <1>t, <1>5, <2>1, TickRunners DEF ReadsFresh, Reads, Age
<1>6. CASE UNCHANGED vars
  BY <1>1, <1>6 DEF vars, Alike, AlikeIn
<1> QED BY <1>3, <1>4, <1>5, <1>6 DEF Next

-----------------------------------------------------------------------------
(* The parks. *)

\* A runner that finds no timer due has a wait that is long enough for none.
LEMMA WaitProperty ==
  ASSUME IInv, NEW r \in Runners, runner[r].at = "fire", Due(r) = {}, NEW t \in ToSet(timers)
  PROVE  Waits(r) \in Ticks /\ Waits(r) <= left[t] + Age(r)
<1> DEFINE b == runner[r].now
<1>1. /\ TypeOK /\ now \in Ticks /\ b \in Ticks /\ timers \in Seq(Tasks)
      /\ left \in [Tasks -> (1 - Half) .. (Span - 1)] /\ Minus(now, b) <= Slack
  BY DEF IInv, TypeOK, RunnerStates, ReadsFresh, Reads, Age
<1>2. PICK i \in DOMAIN timers : timers[i] = t
  BY DEF ToSet
<1>3. t \in Tasks /\ deadline[t] = (now + left[t]) % Span
  BY <1>1, <1>2 DEF IInv, ClocksAgree, LinkedLive
<1>4. ~Reached(b, deadline[t])
  BY <1>2 DEF Due
<1>5. Waits(r) \in Ticks /\ Waits(r) <= Minus(deadline[t], b)
  BY <1>1, NextDueProperty DEF Waits
<1> HIDE DEF b
<1>6. left[t] \in (1 - Half) .. (Span - 1)
  BY <1>1, <1>3
<1>7. Minus(deadline[t], b) <= left[t] + Minus(now, b)
  BY <1>1, <1>3, <1>4, <1>6, ReachedProperty
<1>8. deadline[t] \in Ticks
  BY <1>1, <1>3, <1>6, PlusProperty
<1>9. /\ Minus(deadline[t], b) \in Int /\ Minus(now, b) \in Int /\ left[t] \in Int
      /\ Ticks \subseteq Int
  <2>1. Minus(deadline[t], b) \in Ticks /\ Minus(now, b) \in Ticks
    BY <1>1, <1>8, MinusProperty
  <2>2. Ticks \subseteq Int /\ Half \in Int /\ Span \in Int
    BY Constants
  <2> QED BY <1>6, <2>1, <2>2
<1>10. Waits(r) <= left[t] + Minus(now, b)
  <2> DEFINE w == Waits(r)
             m == Minus(deadline[t], b)
             g == Minus(now, b)
             l == left[t]
  <2>1. w \in Int /\ m \in Int /\ g \in Int /\ l \in Int /\ w <= m /\ m <= l + g
    BY <1>5, <1>7, <1>9
  <2> HIDE DEF w, m, g, l
  <2>2. w <= l + g
    BY <2>1
  <2> QED BY <2>2 DEF w, g, l
<1> QED BY <1>5, <1>10 DEF Age, b

\* Each linked timer keeps a runner that knows of it: who computed its wait
\* before the timer was linked is not the one that linked it.
LEMMA KnownStep ==
  ASSUME IInv, [Next]_vars PROVE Known'
<1>t. /\ TypeOK /\ timers \in Seq(Tasks) /\ IsInjective(timers) /\ ToSet(timers) \subseteq armed
      /\ now \in Ticks /\ left \in [Tasks -> (1 - Half) .. (Span - 1)] /\ armed \subseteq Tasks
      /\ \A s \in Runners : Reads(s) => Age(s) <= Slack
      /\ \A t \in ToSet(timers) : \E r \in Runners : Knows(r, t)
      /\ \A s \in Runners : runner[s] \in RunnerStates
  BY DEF IInv, TypeOK, LinkedLive, ReadsFresh, Known
<1>c. /\ Slack \in Nat /\ Ticks \subseteq Int /\ Ticks \subseteq Nat /\ Half \in Int
      /\ Span \in Int /\ None \notin Ticks
  BY Constants
<1>1. ASSUME NEW s \in Runners, NEW t, Alike(s), now' = now, left'[t] = left[t], Knows(s, t)
      PROVE  Knows(s, t)'
  BY <1>1 DEF Knows, Age, Alike, AlikeIn
<1>2. ASSUME NEW r \in Runners, Others(r), now' = now,
             \A t \in ToSet(timers') :
               Knows(r, t)' \/ (t \in ToSet(timers) /\ left'[t] = left[t] /\ ~Knows(r, t))
      PROVE  Known'
  <2>1. ASSUME NEW t \in ToSet(timers') PROVE \E s \in Runners : Knows(s, t)'
    <3>1. CASE Knows(r, t)'
      BY <3>1
    <3>2. CASE t \in ToSet(timers) /\ left'[t] = left[t] /\ ~Knows(r, t)
      <4>1. PICK s \in Runners : Knows(s, t)
        BY <1>t, <3>2
      <4>2. s # r /\ Alike(s)
        BY <1>2, <3>2, <4>1 DEF Others
      <4> QED BY <1>1, <1>2, <3>2, <4>1, <4>2
    <3> QED BY <1>2, <2>1, <3>1, <3>2
  <2> QED BY <2>1 DEF Known
<1>3. ASSUME \A s \in Runners : Alike(s), now' = now, ToSet(timers') \subseteq ToSet(timers),
             \A t \in ToSet(timers') : left'[t] = left[t]
      PROVE  Known'
  BY <1>t, <1>1, <1>3 DEF Known
<1>4. ASSUME NEW r \in Runners, Others(r), now' = now,
             runner'[r].at \notin {"park", "parked"}
      PROVE  Known'
  BY <1>2, <1>4 DEF Knows
<1>5. ASSUME NEW r \in Runners, FireDone(r) PROVE Known'
  <2>1. now' = now /\ timers' = timers /\ left' = left
    BY <1>5 DEF FireDone
  <2>2. CASE runner[r].task # None
    BY <1>t, <1>4, <1>5, <2>1, <2>2, Steps
  <2>3. CASE runner[r].task = None
    <3>1. /\ Others(r) /\ runner'[r].at = "park" /\ runner'[r].now = runner[r].now
          /\ runner'[r].wait = Waits(r)
      BY <1>t, <1>5, <2>3, Steps
    <3>2. ASSUME NEW t \in ToSet(timers') PROVE Knows(r, t)'
      <4>1. Waits(r) \in Ticks /\ Waits(r) <= left[t] + Age(r)
        BY <1>5, <2>1, <3>2, WaitProperty DEF FireDone
      <4> QED BY <1>c, <2>1, <3>1, <4>1 DEF Knows, Age
    <3> QED BY <1>2, <2>1, <3>1, <3>2
  <2> QED BY <2>2, <2>3
<1>6. ASSUME NEW r \in Runners, Park(r) PROVE Known'
  <2>1. /\ now' = now /\ timers' = timers /\ left' = left /\ runner[r].at = "park"
        /\ Others(r) /\ runner'[r].at = "parked" /\ runner'[r].rest = runner[r].wait
        /\ runner'[r].token = runner[r].token
    BY <1>t, <1>6, Steps DEF Park
  <2>2. ASSUME NEW t \in ToSet(timers), Knows(r, t) PROVE Knows(r, t)'
    <3>1. CASE runner[r].token
      BY <2>1, <3>1 DEF Knows
    <3>2. CASE ~runner[r].token
      <4> DEFINE w == runner[r].wait
                 g == Age(r)
                 l == left[t]
      <4>1. w # None /\ (w = 0 \/ w <= l + g) /\ w \in Ticks \cup {None} /\ g <= Slack
        BY <1>t, <2>1, <2>2, <3>2 DEF Knows, Reads, RunnerStates
      <4>2. g \in Ticks
        <5>1. runner[r].now \in Ticks
          BY <1>t DEF RunnerStates
        <5> QED BY <1>t, <5>1, MinusProperty DEF Age
      <4>3. l \in Int
        <5>1. t \in Tasks
          BY <1>t
        <5> QED BY <1>t, <1>c, <5>1
      <4>4. runner'[r].rest = w /\ left'[t] = l
        BY <2>1
      <4> HIDE DEF w, g, l
      <4>5. w # None /\ (w = 0 \/ w <= l + Slack)
        BY <1>c, <4>1, <4>2, <4>3
      <4> QED BY <2>1, <4>4, <4>5 DEF Knows
    <3> QED BY <3>1, <3>2
  <2> QED BY <1>2, <2>1, <2>2
<1>7. ASSUME NEW r \in Runners, DropArmed(r) PROVE Known'
  <2> DEFINE t == runner[r].task
  <2>1. /\ timers' = Without(t) /\ left' = [left EXCEPT ![t] = 0]
        /\ now' = now /\ runner' = runner
    BY <1>7 DEF DropArmed, DropTimer, Unlink
  <2> HIDE DEF t
  <2>2. ToSet(timers') \subseteq ToSet(timers) \ {t}
    BY <1>t, <2>1, WithoutProperty
  <2>3. \A u \in ToSet(timers') : left'[u] = left[u]
    BY <1>t, <2>1, <2>2
  <2> QED BY <1>3, <2>1, <2>2, <2>3 DEF Alike, AlikeIn
<1>8. ASSUME NEW t \in Tasks, Wake(t, runner), now' = now, left' = left,
             ToSet(timers') \subseteq ToSet(timers)
      PROVE  Known'
  BY <1>t, <1>3, <1>8, WakeEffect
<1>9. ASSUME NEW r \in Runners, RunnerStep(r) \/ ParkEnds(r) PROVE Known'
  <2>1. CASE TakeTask(r)
    <3>1. now' = now
      BY <2>1 DEF TakeTask
    <3> QED BY <1>t, <1>4, <2>1, <3>1, Steps
  <2>2. CASE Look(r)
    <3>1. now' = now
      BY <2>2 DEF Look
    <3> QED BY <1>t, <1>4, <2>2, <3>1, Steps
  <2>3. CASE FireDue(r)
    <3>1. PICK i \in DOMAIN timers : /\ timers' = RemoveAt(timers, i) /\ now' = now
                                     /\ left' = left /\ Wake(timers[i], runner)
      BY <2>3 DEF FireDue, Due
    <3>2. timers[i] \in Tasks
      BY <1>t
    <3>3. ToSet(timers') \subseteq ToSet(timers)
      BY <1>t, <3>1, Unlinked
    <3> QED BY <1>8, <3>1, <3>2, <3>3
  <2>4. CASE ParkEnds(r)
    <3>1. now' = now
      BY <2>4 DEF ParkEnds
    <3> QED BY <1>t, <1>4, <2>4, <3>1, Steps
  <2>5. CASE FirstPoll(r) \/ PollAgain(r)
    <3>1. now' = now
      BY <2>5 DEF FirstPoll, PollAgain, PollTimer
    <3> QED BY <1>t, <1>4, <2>5, <3>1, Steps
  <2>6. CASE TimerReady(r) \/ TimerPending(r) \/ PollOther(r) \/ Polled(r)
    <3>1. now' = now
      BY <2>6 DEF TimerReady, TimerPending, PollOther, Polled
    <3> QED BY <1>t, <1>4, <2>6, <3>1, Steps
  <2> QED BY <1>5, <1>6, <1>7, <1>9, <2>1, <2>2, <2>3, <2>4, <2>5, <2>6 DEF RunnerStep
<1>10. CASE \E t \in Callers : Event(t)
  <2>1. PICK t \in Tasks : Wake(t, runner) /\ now' = now /\ left' = left /\ timers' = timers
    BY <1>10, Constants DEF Event
  <2> QED BY <1>8, <2>1
<1>11. CASE Tick
  <2>1. /\ timers' = timers /\ now' = (now + 1) % Span
        /\ left' = [t \in Tasks |-> IF t \in armed THEN left[t] - 1 ELSE 0]
        /\ \A s \in Runners : runner[s].at = "park" => Minus(now, runner[s].now) < Slack
    BY <1>11 DEF Tick, Prompt
  <2>2. ASSUME NEW t \in ToSet(timers), NEW s \in Runners, Knows(s, t) PROVE Knows(s, t)'
    <3>1. t \in Tasks /\ left[t] \in Int /\ left'[t] = left[t] - 1
      BY <1>t, <1>c, <2>1
    <3>2. /\ runner'[s].at = runner[s].at /\ runner'[s].now = runner[s].now
          /\ runner'[s].wait = runner[s].wait /\ runner'[s].token = runner[s].token
          /\ IF runner[s].rest \in {None, 0} THEN runner'[s].rest = runner[s].rest
             ELSE runner[s].rest \in Nat /\ runner'[s].rest = runner[s].rest - 1
      BY <1>t, <1>11, TickRunners
    <3>3. runner[s].wait \in Ticks \cup {None} /\ runner[s].rest \in Ticks \cup {None}
      BY <1>t DEF RunnerStates
    <3>4. CASE runner[s].at \notin {"park", "parked"} \/ runner[s].token
      BY <3>2, <3>4 DEF Knows
    <3>5. CASE runner[s].at = "park" /\ ~runner[s].token
      <4> DEFINE g == Minus(now, runner[s].now)
      <4>1. /\ runner[s].wait # None
            /\ runner[s].wait = 0 \/ runner[s].wait <= left[t] + g
        BY <2>2, <3>5 DEF Knows, Age
      <4>2. runner[s].now \in Ticks
        BY <1>t DEF RunnerStates
      <4>3. g \in Int /\ Minus(now', runner[s].now) = g + 1
        BY <1>t, <1>c, <2>1, <3>5, <4>2, MinusProperty, TickProperty
      <4> HIDE DEF g
      <4>4. left[t] + g = left'[t] + (g + 1)
        BY <3>1, <4>3
      <4> QED BY <3>2, <3>5, <4>1, <4>3, <4>4 DEF Knows, Age
    <3>6. CASE runner[s].at = "parked" /\ ~runner[s].token
      <4> DEFINE n == runner[s].rest
      <4>1. n # None /\ (n = 0 \/ n <= left[t] + Slack)
        BY <2>2, <3>6 DEF Knows
      <4>2. CASE n = 0
        BY <3>2, <3>6, <4>1, <4>2 DEF Knows
      <4>3. CASE n # 0
        <5>1. n \in Nat /\ runner'[s].rest = n - 1 /\ n <= left[t] + Slack
          BY <3>2, <4>1, <4>3
        <5> HIDE DEF n
        <5>2. n - 1 <= left'[t] + Slack /\ n - 1 \in Int
          BY <1>c, <3>1, <5>1
        <5>3. n - 1 # None
          <6>1. runner'[s].rest \in Ticks \cup {None}
            BY <1>t, <1>11, TickRunners DEF RunnerStates
          <6>2. n \in Ticks /\ n # 0
            BY <3>3, <4>1, <4>3 DEF n
          <6>3. n - 1 \in Ticks
            BY <6>2, Constants
          <6> QED BY <1>c, <6>3
        <5> QED BY <3>2, <3>6, <5>1, <5>2, <5>3 DEF Knows
      <4> QED BY <4>2, <4>3
    <3> QED BY <2>2, <3>4, <3>5, <3>6 DEF Knows
  <2> QED BY <1>t, <2>1, <2>2 DEF Known
<1>12. CASE UNCHANGED vars
  BY <1>3, <1>12 DEF vars, Alike, AlikeIn
<1> QED BY <1>9, <1>10, <1>11, <1>12 DEF Next

-----------------------------------------------------------------------------
(* The theorems. *)

\* All tasks in a queue, each once.
LEMMA AllQueued ==
  SetToSeq(Tasks) \in Seq(Tasks) /\ IsInjective(SetToSeq(Tasks))
<1> DEFINE n == Cardinality(Tasks)
<1>1. n \in Nat /\ ExistsBijection(1 .. n, Tasks)
  BY Constants, FS_CardinalityType
<1> HIDE DEF n
<1>2. PICK f \in Bijection(1 .. n, Tasks) : TRUE
  BY <1>1 DEF ExistsBijection
<1>3. f \in [1 .. n -> Tasks] /\ IsInjective(f)
  BY <1>2 DEF Bijection, Injection
<1>4. SetToSeq(Tasks) \in [1 .. n -> Tasks] /\ IsInjective(SetToSeq(Tasks))
  BY <1>3 DEF n, SetToSeq
<1> QED BY <1>1, <1>4

\* The strengthened invariant holds at the start.
LEMMA Initially == Init => IInv
<1> SUFFICES ASSUME Init PROVE IInv
  OBVIOUS
<1>c. /\ NumRunners \in Nat \ {0} /\ Runners = 0 .. NumRunners - 1 /\ 0 \in Ticks
      /\ Half \in Nat /\ Half > 1 /\ Span \in Nat \ {0} /\ Ticks = 0 .. Span - 1
  BY Constants
<1>1. /\ now \in Ticks /\ timers = <<>> /\ deadline = [t \in Tasks |-> 0] /\ armed = {}
      /\ left = [t \in Tasks |-> 0] /\ scheduled = Tasks /\ nextClaim = 0
      /\ runner = [r \in Runners |-> Loop]
      /\ queue \in Seq(Tasks) /\ IsInjective(queue) /\ ToSet(queue) \subseteq Tasks
  <2>1. queue \in Seq(Tasks) /\ IsInjective(queue)
    BY AllQueued DEF Init
  <2> QED BY <2>1 DEF Init, Ticks, ToSet
<1>2. \A r \in Runners : runner[r] = Loop
  BY <1>1
<1>3. Loop \in RunnerStates /\ Loop.at = "next" /\ Loop.task = None
  BY <1>c DEF Loop, RunnerStates, Places
<1>4. Running = {}
  BY <1>2, <1>3 DEF Running
<1>5. TypeOK
  <2>1. 0 \in (1 - Half) .. (Span - 1) /\ 0 \in Runners
    BY <1>c
  <2>2. timers \in Seq(Tasks)
    BY <1>1
  <2> QED BY <1>c, <1>1, <1>3, <2>1, <2>2 DEF TypeOK
<1>6. TasksApart /\ PlacesOK /\ ClocksAgree /\ ReadsFresh
  BY <1>1, <1>2, <1>3, <1>4 DEF TasksApart, PlacesOK, ClocksAgree, ReadsFresh, Reads
<1>7. LinkedLive /\ Known
  BY <1>1 DEF LinkedLive, Known, IsInjective, ToSet
<1> QED BY <1>5, <1>6, <1>7 DEF IInv

\* Every step keeps it.
LEMMA Step == IInv /\ [Next]_vars => IInv'
<1> SUFFICES ASSUME IInv, [Next]_vars PROVE IInv'
  OBVIOUS
<1>1. TypeOK'
  BY LinkedStep, ApartStep, RunnersStep, ClockStep DEF TypeOK
<1>2. TasksApart' /\ PlacesOK' /\ ClocksAgree' /\ ReadsFresh' /\ LinkedLive' /\ Known'
  BY LinkedStep, ApartStep, PlacesStep, ClockStep, FreshStep, KnownStep
<1> QED BY <1>1, <1>2 DEF IInv

\* So it always holds.
LEMMA Inductive == Spec => []IInv
BY Initially, Step, PTL DEF Spec

\* Every variable keeps to its type: in particular no timer is passed by half the
\* range of the clock or more, and no wait is longer than the range.
THEOREM TypeCorrect == Spec => []TypeOK
<1>1. IInv => TypeOK
  BY DEF IInv
<1> QED BY <1>1, Inductive, PTL

\* The list of timers holds each live timer once and no other, and there is always
\* a runner that will look at the list again, or that sleeps no longer than to the
\* due time of the timer and the ticks that its look is old.
THEOREM TimersNotForgotten == Spec => []TimersKept
<1>1. ASSUME IInv PROVE TimersKept
  <2>1. LinkedLive
    BY <1>1 DEF IInv
  <2>2. ASSUME NEW t \in ToSet(timers), NEW r \in Runners, Knows(r, t) PROVE Covers(r, t)
    <3>1. /\ runner[r] \in RunnerStates /\ now \in Ticks /\ t \in Tasks
          /\ left[t] \in (1 - Half) .. (Span - 1)
          /\ runner[r].at = "park" => Age(r) <= Slack
      BY <1>1 DEF IInv, TypeOK, ReadsFresh, Reads, LinkedLive
    <3>2. CASE runner[r].at \notin {"park", "parked"} \/ runner[r].token
      BY <3>2 DEF Covers
    <3>3. CASE runner[r].at = "park" /\ ~runner[r].token
      <4> DEFINE w == runner[r].wait
                 g == Age(r)
                 l == left[t]
      <4>1. w # None /\ (w = 0 \/ w <= l + g) /\ w \in Ticks \cup {None} /\ g <= Slack
        BY <2>2, <3>1, <3>3 DEF Knows, RunnerStates
      <4>2. g \in Ticks
        <5>1. runner[r].now \in Ticks
          BY <3>1 DEF RunnerStates
        <5> QED BY <3>1, <5>1, MinusProperty DEF Age
      <4>3. /\ l \in (1 - Half) .. (Span - 1) /\ Half \in Int /\ Span \in Int
            /\ Slack \in Int /\ Ticks \subseteq Int
        BY <3>1, Constants
      <4>4. w # None /\ (w = 0 \/ w <= l + Slack)
        <5> HIDE DEF w, g, l
        <5> QED BY <4>1, <4>2, <4>3
      <4> QED BY <3>3, <4>4 DEF Covers
    <3>4. CASE runner[r].at = "parked" /\ ~runner[r].token
      BY <2>2, <3>4 DEF Knows, Covers
    <3> QED BY <3>2, <3>3, <3>4
  <2>3. TimersCovered
    BY <1>1, <2>2 DEF IInv, Known, TimersCovered
  <2> QED BY <2>1, <2>3 DEF TimersKept
<1> QED BY <1>1, Inductive, PTL

\* Sleeps shorter than half the range of the clock are so at the start ...
LEMMA ShortInit ==
  ASSUME Sleeps \subseteq 0 .. (Half - 1) PROVE Init => ShortSleeps
<1> SUFFICES ASSUME Init PROVE ShortSleeps
  OBVIOUS
<1>1. armed = {} /\ \A r \in Runners : runner[r].at = "next"
  BY DEF Init, Loop
<1> QED BY <1>1 DEF ShortSleeps

\* ... and after every step, also by the clock that a poll has read.
LEMMA ShortStep ==
  ASSUME Sleeps \subseteq 0 .. (Half - 1), IInv, [Next]_vars, ShortSleeps
  PROVE  ShortSleeps'
<1>t. /\ TypeOK /\ PlacesOK /\ now \in Ticks /\ armed \subseteq Tasks
      /\ left \in [Tasks -> (1 - Half) .. (Span - 1)]
      /\ \A s \in Runners : runner[s] \in RunnerStates
      /\ \A s \in Runners : runner[s].at = "timer" => runner[s].task \in armed
      /\ \A r, s \in Runners :
           runner[r].task = runner[s].task /\ runner[r].task # None => r = s
      /\ \A t \in armed : left[t] < Half
      /\ \A r \in Runners : runner[r].at = "timer" => left[runner[r].task] + Age(r) < Half
  BY DEF IInv, TypeOK, PlacesOK, TasksApart, ShortSleeps
<1>c. /\ Slack \in Nat /\ Ticks \subseteq Int /\ Half \in Nat /\ Span \in Nat /\ Half > 1
      /\ Minus(now, now) = 0 /\ None \notin Tasks
  <2>1. /\ Slack \in Nat /\ Ticks \subseteq Int /\ Half \in Nat /\ Span \in Nat /\ Half > 1
        /\ None \notin Tasks
    BY Constants
  <2>2. Minus(now, now) = IF now >= now THEN now - now ELSE now - now + Span
    BY <1>t, MinusProperty
  <2>3. now \in Int
    BY <1>t, <2>1
  <2> QED BY <2>1, <2>2, <2>3
<1>1. ASSUME now' = now, armed' \subseteq armed, NEW r \in Runners, Others(r),
             \A t \in Tasks : left'[t] = left[t] \/ (t = runner[r].task /\ t \notin armed'),
             runner'[r].at = "timer" =>
               runner[r].task \in armed /\ runner'[r].now = now
                 /\ runner'[r].task = runner[r].task /\ left' = left
      PROVE  ShortSleeps'
  <2>1. \A t \in armed' : left'[t] < Half
    BY <1>t, <1>1
  <2>2. ASSUME NEW s \in Runners \ {r}, runner'[s].at = "timer"
        PROVE  left'[runner'[s].task] + Age(s)' < Half
    <3>1. /\ runner[s].at = "timer" /\ runner'[s].task = runner[s].task
          /\ runner'[s].now = runner[s].now
      BY <1>1, <2>2 DEF Others, Alike, AlikeIn
    <3>2. runner[s].task \in armed /\ runner[s].task # None
      BY <1>t, <1>c, <3>1
    <3>3. runner[s].task # runner[r].task
      BY <1>t, <3>2
    <3>4. left'[runner[s].task] = left[runner[s].task]
      BY <1>t, <1>1, <3>2, <3>3
    <3> QED BY <1>t, <1>1, <3>1, <3>4 DEF Age
  <2>3. ASSUME runner'[r].at = "timer" PROVE left'[runner'[r].task] + Age(r)' < Half
    <3>1. left'[runner'[r].task] = left[runner[r].task] /\ Age(r)' = 0
      BY <1>c, <1>1, <2>3 DEF Age
    <3>2. left[runner[r].task] < Half /\ left[runner[r].task] \in (1 - Half) .. (Span - 1)
      BY <1>t, <1>1, <2>3
    <3>3. left[runner[r].task] \in Int
      BY <1>c, <3>2
    <3> QED BY <3>1, <3>2, <3>3
  <2> QED BY <2>1, <2>2, <2>3 DEF ShortSleeps
<1>2. ASSUME now' = now, armed' = armed, left' = left, \A s \in Runners : Alike(s)
      PROVE  ShortSleeps'
  BY <1>t, <1>2 DEF ShortSleeps, Age, Alike, AlikeIn
<1>3. ASSUME NEW r \in Runners, FirstPoll(r) PROVE ShortSleeps'
  <2> DEFINE t == runner[r].task
  <2>1. PICK n \in Sleeps : left' = [left EXCEPT ![t] = n]
    BY <1>3 DEF FirstPoll
  <2>2. /\ now' = now /\ armed' = armed \cup {t} /\ t \in Tasks
        /\ t \notin armed
    BY <1>t, <1>3 DEF FirstPoll, PollTimer, PlacesOK, RunnerStates
  <2>3. /\ Others(r) /\ runner'[r].now = now /\ runner'[r].task = t
    BY <1>t, <1>3, Steps
  <2> HIDE DEF t
  <2>4. left'[t] = n /\ n < Half /\ n \in Int /\ \A u \in Tasks \ {t} : left'[u] = left[u]
    BY <1>t, <1>c, <2>1, <2>2
  <2>5. \A u \in armed' : left'[u] < Half
    BY <1>t, <2>2, <2>4
  <2>6. ASSUME NEW s \in Runners \ {r}, runner'[s].at = "timer"
        PROVE  left'[runner'[s].task] + Age(s)' < Half
    <3>1. /\ runner[s].at = "timer" /\ runner'[s].task = runner[s].task
          /\ runner'[s].now = runner[s].now
      BY <2>3, <2>6 DEF Others, Alike, AlikeIn
    <3>2. runner[s].task \in armed /\ runner[s].task # t
      BY <1>t, <2>2, <3>1
    <3>3. left'[runner[s].task] = left[runner[s].task]
      BY <1>t, <2>4, <3>2
    <3> QED BY <1>t, <2>2, <3>1, <3>3 DEF Age
  <2>7. left'[runner'[r].task] + Age(r)' < Half
    <3>1. Age(r)' = 0 /\ left'[runner'[r].task] = n
      BY <1>c, <2>2, <2>3, <2>4 DEF Age
    <3> QED BY <2>4, <3>1
  <2> QED BY <2>5, <2>6, <2>7 DEF ShortSleeps
<1>4. ASSUME NEW r \in Runners, PollAgain(r) PROVE ShortSleeps'
  <2>1. now' = now /\ armed' = armed /\ left' = left /\ runner[r].task \in armed
    BY <1>4 DEF PollAgain, PollTimer
  <2> QED BY <1>t, <1>1, <1>4, <2>1, Steps
<1>5. ASSUME NEW r \in Runners, TimerReady(r) \/ DropArmed(r) PROVE ShortSleeps'
  <2>1. /\ now' = now /\ armed' = armed \ {runner[r].task}
        /\ left' = [left EXCEPT ![runner[r].task] = 0]
    BY <1>5 DEF TimerReady, DropArmed, DropTimer
  <2>2. Others(r) /\ runner'[r].at = "poll"
    <3>1. CASE TimerReady(r)
      BY <1>t, <3>1, Steps
    <3>2. CASE DropArmed(r)
      BY <3>2 DEF DropArmed, Others, Alike, AlikeIn
    <3> QED BY <1>5, <3>1, <3>2
  <2>3. \A t \in Tasks : left'[t] = left[t] \/ (t = runner[r].task /\ t \notin armed')
    BY <1>t, <2>1
  <2> QED BY <1>1, <2>1, <2>2, <2>3
<1>6. ASSUME NEW t \in Tasks, Wake(t, runner), now' = now, armed' = armed, left' = left
      PROVE  ShortSleeps'
  BY <1>t, <1>2, <1>6, WakeEffect
<1>7. ASSUME NEW r \in Runners, RunnerStep(r) \/ ParkEnds(r) PROVE ShortSleeps'
  <2>1. CASE FireDue(r)
    <3>1. PICK i \in DOMAIN timers :
            Wake(timers[i], runner) /\ now' = now /\ armed' = armed /\ left' = left
      BY <2>1 DEF FireDue, Due
    <3>2. timers[i] \in Tasks
      BY <1>t DEF TypeOK
    <3> QED BY <1>6, <3>1, <3>2
  <2>2. CASE \/ TakeTask(r) \/ Look(r) \/ FireDone(r) \/ Park(r) \/ ParkEnds(r)
             \/ TimerPending(r) \/ PollOther(r) \/ Polled(r)
    <3>1. now' = now /\ armed' = armed /\ left' = left
      BY <2>2 DEF TakeTask, Look, FireDone, Park, ParkEnds, TimerPending, PollOther, Polled
    <3>2. Others(r) /\ runner'[r].at # "timer"
      BY <1>t, <2>2, Steps
    <3> QED BY <1>1, <3>1, <3>2
  <2> QED BY <1>3, <1>4, <1>5, <1>7, <2>1, <2>2 DEF RunnerStep
<1>8. CASE \E t \in Callers : Event(t)
  <2>1. PICK t \in Tasks : Wake(t, runner) /\ now' = now /\ armed' = armed /\ left' = left
    BY <1>8, Constants DEF Event
  <2> QED BY <1>6, <2>1
<1>9. CASE Tick
  <2>1. /\ armed' = armed /\ now' = (now + 1) % Span
        /\ left' = [t \in Tasks |-> IF t \in armed THEN left[t] - 1 ELSE 0]
        /\ \A s \in Runners : runner[s].at = "timer" => Minus(now, runner[s].now) < Slack
    BY <1>9 DEF Tick, Prompt
  <2>2. ASSUME NEW t \in armed PROVE left[t] \in Int /\ left'[t] = left[t] - 1
    BY <1>t, <1>c, <2>1
  <2>3. ASSUME NEW t \in armed PROVE left'[t] < Half
    BY <1>t, <1>c, <2>2
  <2>4. ASSUME NEW s \in Runners, runner'[s].at = "timer"
        PROVE  left'[runner'[s].task] + Age(s)' < Half
    <3>1. /\ runner[s].at = "timer" /\ runner'[s].task = runner[s].task
          /\ runner'[s].now = runner[s].now
      BY <1>t, <1>9, <2>4, TickRunners
    <3>2. runner[s].task \in armed /\ runner[s].now \in Ticks
      BY <1>t, <3>1 DEF RunnerStates
    <3> DEFINE g == Age(s)
               l == left[runner[s].task]
    <3>3. Age(s)' = g + 1
      BY <1>t, <2>1, <3>1, <3>2, TickProperty DEF Age
    <3>4. g \in Ticks
      BY <1>t, <3>2, MinusProperty DEF Age
    <3>5. l \in Int /\ left'[runner[s].task] = l - 1 /\ l + g < Half
      BY <1>t, <2>2, <3>1, <3>2
    <3> HIDE DEF g, l
    <3>6. (l - 1) + (g + 1) < Half
      BY <1>c, <3>4, <3>5
    <3> QED BY <3>1, <3>3, <3>5, <3>6
  <2> QED BY <2>1, <2>3, <2>4 DEF ShortSleeps
<1>10. CASE UNCHANGED vars
  BY <1>2, <1>10 DEF vars, Alike, AlikeIn
<1> QED BY <1>7, <1>8, <1>9, <1>10 DEF Next

\* A sleep shorter than half the range of the clock never ends early, wherever in
\* it the counter wraps.  (A longer one ends at once: that is what the code does.)
THEOREM SleepsLast ==
  ASSUME Sleeps \subseteq 0 .. (Half - 1) PROVE Spec => NeverEarly
<1> DEFINE OnTime == \A r \in Runners : TimerReady(r) => left[runner[r].task] <= 0
<1>1. ASSUME IInv, ShortSleeps, NEW r \in Runners, TimerReady(r)
      PROVE  left[runner[r].task] <= 0
  <2> DEFINE t == runner[r].task
  <2>1. /\ now \in Ticks /\ runner[r].now \in Ticks /\ runner[r].at = "timer" /\ t \in armed
        /\ Minus(now, runner[r].now) <= Slack /\ Reached(runner[r].now, deadline[t])
    BY <1>1 DEF IInv, TypeOK, RunnerStates, PlacesOK, ReadsFresh, Reads, Age, TimerReady
  <2>2. left[t] \in (1 - Half) .. (Span - 1) /\ deadline[t] = (now + left[t]) % Span
    BY <1>1, <2>1 DEF IInv, TypeOK, ClocksAgree
  <2>3. left[t] + Minus(now, runner[r].now) < Half
    BY <1>1, <2>1 DEF ShortSleeps, Age
  <2> QED BY <2>1, <2>2, <2>3, ReachedProperty
<1>2. IInv /\ ShortSleeps => OnTime
  BY <1>1
<1>3. IInv /\ ShortSleeps /\ [Next]_vars => ShortSleeps'
  BY ShortStep
<1>4. Init => ShortSleeps
  BY ShortInit
<1>5. IInv /\ ShortSleeps /\ [Next]_vars => [OnTime]_vars
  BY <1>2
<1> QED BY <1>3, <1>4, <1>5, Inductive, PTL DEF Spec, NeverEarly, OnTime

=============================================================================
