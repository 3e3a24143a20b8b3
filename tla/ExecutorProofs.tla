--------------------------- MODULE ExecutorProofs ---------------------------
(***************************************************************************)
(* The executor keeps its tasks, for any number of tasks, runners and      *)
(* contexts: a proof that IInv below is an inductive invariant, and what   *)
(* follows from it.  Every count of the properties is one of things that   *)
(* exist at most once, so IInv speaks of who has what, not of counts.      *)
(* The second half is what the executor owes its tasks: their blocks are   *)
(* freed with the last holder, no wakeup is lost or taken twice, no runner *)
(* sleeps while it is wanted, joiners hear, and tasks get turns as         *)
(* TaskSpec says.                                                          *)
(***************************************************************************)
EXTENDS Executor, FiniteSetTheorems, WellFoundedInduction, TLAPS

-----------------------------------------------------------------------------
(* Facts about numbers and sequences. *)

LessOnNat == {ss \in Nat \X Nat : ss[1] < ss[2]}

\* < on the naturals as a set of pairs, the form WFMin takes.
LEMMA LessWellFounded == IsWellFoundedOn(LessOnNat, Nat)
BY NatLessThanWellFounded DEF OpToRel, LessOnNat

\* Min(S) is what it says for every nonempty set of naturals.
LEMMA MinProperty ==
  ASSUME NEW S \in SUBSET Nat, S # {}
  PROVE  Min(S) \in S /\ \A y \in S : Min(S) <= y
<1>1. PICK m \in S : \A y \in S : <<y, m>> \notin LessOnNat
  BY LessWellFounded, WFMin
<1>2. \A y \in S : m <= y
  <2> SUFFICES ASSUME NEW y \in S PROVE m <= y
    OBVIOUS
  <2>1. <<y, m>> \notin LessOnNat /\ y \in Nat /\ m \in Nat
    BY <1>1
  <2>2. <<y, m>> \in LessOnNat <=> y < m
    BY <2>1 DEF LessOnNat
  <2> QED BY <2>1, <2>2
<1> QED BY <1>2 DEF Min

\* Append adds one element behind the others.
LEMMA AppendedProperty ==
  ASSUME NEW S, NEW q \in Seq(S), NEW e \in S
  PROVE  /\ Append(q, e) \in Seq(S) /\ Append(q, e) # <<>>
         /\ Len(Append(q, e)) = Len(q) + 1
         /\ Head(Append(q, e)) = IF q = <<>> THEN e ELSE Head(q)
         /\ ToSet(Append(q, e)) = ToSet(q) \cup {e}
         /\ IsInjective(q) /\ e \notin ToSet(q) => IsInjective(Append(q, e))
<1> DEFINE r == Append(q, e)
<1>1. /\ r \in Seq(S) /\ Len(r) = Len(q) + 1 /\ r[Len(q) + 1] = e
      /\ \A i \in 1 .. Len(q) : r[i] = q[i]
      /\ r # <<>> /\ Head(r) = IF q = <<>> THEN e ELSE Head(q)
  OBVIOUS
<1> HIDE DEF r
<1>2. Len(q) \in Nat /\ DOMAIN q = 1 .. Len(q) /\ DOMAIN r = 1 .. Len(q) + 1
  BY <1>1
<1>3. ToSet(r) = ToSet(q) \cup {e}
  <2>1. ASSUME NEW x \in ToSet(r) PROVE x \in ToSet(q) \cup {e}
    BY <1>1, <1>2, <2>1 DEF ToSet
  <2>2. ASSUME NEW x \in ToSet(q) \cup {e} PROVE x \in ToSet(r)
    <3>1. CASE x = e
      BY <1>1, <1>2, <3>1 DEF ToSet
    <3>2. CASE x \in ToSet(q)
      <4>1. PICK i \in 1 .. Len(q) : x = q[i]
        BY <1>2, <3>2 DEF ToSet
      <4>2. i \in DOMAIN r /\ r[i] = x
        BY <1>1, <1>2, <4>1
      <4> QED BY <4>2 DEF ToSet
    <3> QED BY <2>2, <3>1, <3>2
  <2> QED BY <2>1, <2>2
<1>4. ASSUME IsInjective(q), e \notin ToSet(q) PROVE IsInjective(r)
  <2>1. \A i \in 1 .. Len(q) : r[i] # e
    BY <1>1, <1>2, <1>4 DEF ToSet
  <2>2. \A i, j \in 1 .. Len(q) : r[i] = r[j] => i = j
    BY <1>1, <1>2, <1>4 DEF IsInjective
  <2> QED BY <1>1, <1>2, <2>1, <2>2 DEF IsInjective
<1> QED BY <1>1, <1>3, <1>4 DEF r

\* Tail drops the first element, which is nowhere else if all are different.
LEMMA TailProperty ==
  ASSUME NEW S, NEW q \in Seq(S), q # <<>>
  PROVE  /\ Head(q) \in ToSet(q) /\ Head(q) \in S
         /\ Tail(q) \in Seq(S) /\ Len(Tail(q)) = Len(q) - 1
         /\ ToSet(q) = ToSet(Tail(q)) \cup {Head(q)}
         /\ IsInjective(q) => IsInjective(Tail(q)) /\ Head(q) \notin ToSet(Tail(q))
<1> DEFINE r == Tail(q)
<1>1. /\ r \in Seq(S) /\ Len(r) = Len(q) - 1 /\ Head(q) = q[1]
      /\ \A i \in 1 .. Len(q) - 1 : r[i] = q[i + 1]
  OBVIOUS
<1>2. Len(q) \in Nat \ {0} /\ DOMAIN q = 1 .. Len(q)
  OBVIOUS
<1> HIDE DEF r
<1>3. DOMAIN r = 1 .. Len(q) - 1
  BY <1>1, <1>2
<1>4. ASSUME NEW x \in ToSet(q) PROVE x \in ToSet(r) \cup {q[1]}
  <2>1. PICK i \in 1 .. Len(q) : x = q[i]
    BY <1>2 DEF ToSet
  <2>2. CASE i # 1
    <3>1. i - 1 \in DOMAIN r /\ r[i - 1] = x
      BY <1>1, <1>2, <1>3, <2>1, <2>2
    <3> QED BY <3>1 DEF ToSet
  <2> QED BY <2>1, <2>2
<1>5. ASSUME NEW x \in ToSet(r) \cup {q[1]} PROVE x \in ToSet(q)
  <2>1. CASE x = q[1]
    BY <1>2, <2>1 DEF ToSet
  <2>2. CASE x \in ToSet(r)
    <3>1. PICK i \in 1 .. Len(q) - 1 : x = r[i]
      BY <1>3, <2>2 DEF ToSet
    <3>2. i + 1 \in DOMAIN q /\ q[i + 1] = x
      BY <1>1, <1>2, <3>1
    <3> QED BY <3>2 DEF ToSet
  <2> QED BY <1>5, <2>1, <2>2
<1>6. ASSUME IsInjective(q) PROVE IsInjective(r) /\ q[1] \notin ToSet(r)
  <2>1. \A i \in 1 .. Len(q) - 1 : i + 1 \in DOMAIN q /\ i + 1 # 1 /\ r[i] = q[i + 1]
    BY <1>1, <1>2
  <2>2. q[1] \notin ToSet(r)
    BY <1>2, <1>3, <1>6, <2>1 DEF ToSet, IsInjective
  <2>3. ASSUME NEW a \in DOMAIN r, NEW b \in DOMAIN r, r[a] = r[b] PROVE a = b
    <3>1. a + 1 = b + 1 /\ a \in Nat /\ b \in Nat
      BY SMTT(30), <1>2, <1>3, <1>6, <2>1, <2>3 DEF IsInjective
    <3> QED BY <3>1
  <2>4. IsInjective(r)
    BY <2>3 DEF IsInjective
  <2> QED BY <2>2, <2>4
<1>7. ToSet(q) = ToSet(r) \cup {q[1]}
  BY <1>4, <1>5
<1>8. Head(q) = q[1] /\ q[1] \in ToSet(q) /\ q[1] \in S
  BY <1>1, <1>2, <1>7
<1> QED BY <1>1, <1>6, <1>7, <1>8 DEF r

-----------------------------------------------------------------------------
\* Where an actor has a task's turn: the reference that goes through the queue.
TurnPCs == {"enqueue", "begin", "poll", "abort", "yield", "finish", "finished", "wakejoin"}

\* Where a runner has the registry's reference.
KeepPCs == {"finished", "wakejoin", "drainstage"}

\* Where a runner has a task that is not complete.
OpenPCs == {"begin", "poll", "abort", "yield", "finish"}

\* The runner's way out, which only a runner in run_until takes.
EndPCs == {"leave", "shutdown", "drainqueue", "drainall", "drainstage", "ended"}

\* The owner of a handle before it detaches.
HandleUpPCs == {"held", "register", "pending", "take", "detach", "enqueue", "unpark"}

HasTurn(a, t) == pc[a] \in TurnPCs /\ task[a] = t
Keeps(r, t) == pc[r] \in KeepPCs /\ task[r] = t
Queued(t) == t \in ToSet(queue)

\* Who is where, and what it works on.
PlacesOK ==
  /\ \A r \in Runners : pc[r] \in RunnerPCs \cup {"enqueue", "unpark"}
  /\ \A x \in Contexts : pc[x] \in {"idle", "enqueue", "unpark"}
  /\ \A t \in Tasks : pc[t] \in HandlePCs \cup {"enqueue", "unpark"} /\ task[t] = t
  /\ \A a \in Actors \ Tasks : task[a] # None <=> pc[a] \in TurnPCs \cup {"drainstage"}
  /\ \A a \in Actors : claimed[a] # None <=> pc[a] = "unpark"
  /\ \A r \in Runners : pc[r] \in EndPCs \cup {"main", "pollmain"} => r = Main

\* Where the runners' entries stand.
EntriesOK ==
  \A r \in Runners :
    /\ runner[r] = "absent" <=> pc[r] \in {"start"} \cup (EndPCs \ {"leave"})
    /\ runner[r] = "idle" => pc[r] \in {"decide", "park", "busy"}

\* The end of the executor: first the queue, then the registry's tasks.
EndOK ==
  /\ shutDown <=> \E r \in Runners : pc[r] \in {"drainqueue", "drainall", "drainstage", "ended"}
  /\ shutDown => all = {}
  /\ (\E r \in Runners : pc[r] \in {"drainall", "drainstage", "ended"}) => queue = <<>>
  /\ drain # {} => shutDown

\* A task has one turn ...
TurnsOnce ==
  /\ IsInjective(queue)
  /\ \A a, b \in Actors : \A t \in Tasks : HasTurn(a, t) /\ HasTurn(b, t) => a = b
  /\ \A a \in Actors : \A t \in Tasks : HasTurn(a, t) => ~Queued(t)

\* ... and one place in the registry.
KeptOnce ==
  /\ all \cap drain = {}
  /\ \A r, s \in Runners : \A t \in Tasks : Keeps(r, t) /\ Keeps(s, t) => r = s
  /\ \A r \in Runners : \A t \in Tasks : Keeps(r, t) => t \notin all \cup drain

\* What is not complete is in the registry.
OpenKept ==
  \A t \in Tasks : pc[t] # "none" /\ "COMPLETE" \notin state[t] => t \in all \cup drain

\* What the state word tells of the turn: a task in the queue, in somebody's
\* hands, and a flag that is up ...
QueueFlags ==
  \A t \in Tasks : Queued(t) => "SCHEDULED" \in state[t] /\ "COMPLETE" \notin state[t]

TurnFlags ==
  \A a \in Actors : \A t \in Tasks : HasTurn(a, t) =>
    /\ pc[a] \in {"enqueue", "begin"} => "SCHEDULED" \in state[t]
    /\ pc[a] \in {"poll", "abort", "yield", "finish"} => "RUNNING" \in state[t]
    /\ pc[a] \in {"finished", "wakejoin"} => "COMPLETE" \in state[t]
    /\ pc[a] \in OpenPCs => "COMPLETE" \notin state[t]
    /\ pc[a] = "enqueue" /\ ~shutDown => "COMPLETE" \notin state[t]

\* ... tells who runs the task, or that it has a turn coming.
RunningFlag ==
  \A t \in Tasks : "RUNNING" \in state[t] /\ "COMPLETE" \notin state[t] =>
    \E r \in Runners : task[r] = t /\ pc[r] \in {"poll", "abort", "yield", "finish"}

ScheduledFlag ==
  \A t \in Tasks :
    "SCHEDULED" \in state[t] /\ "COMPLETE" \notin state[t] /\ ~shutDown =>
      Queued(t) \/ \E a \in Actors : HasTurn(a, t)

FlagsTell == QueueFlags /\ TurnFlags /\ RunningFlag /\ ScheduledFlag

\* What the flags and the stage tell of the handle.
HandlesTell ==
  \A t \in Tasks :
    /\ pc[t] = "none" <=> stage[t] = "none"
    /\ pc[t] = "none" => state[t] = {} /\ refs[t] = 0
    /\ pc[t] \in HandleUpPCs => "HANDLE" \in state[t]
    /\ pc[t] \in {"take", "dropout", "panicked"} => "COMPLETE" \in state[t]
    /\ pc[t] \in {"dropout", "release", "gone"} => "HANDLE" \notin state[t]

One(b) == IF b THEN 1 ELSE 0

Registered(t) == t \in all \cup drain \/ \E r \in Runners : Keeps(r, t)
Turning(t) == Queued(t) \/ \E a \in Actors : HasTurn(a, t)
Handled(t) == pc[t] \notin {"none", "gone"}

\* The references there are.
RefsAdd ==
  \A t \in Tasks :
    refs[t] = One(Registered(t)) + One(Turning(t)) + wakers[t] + One(Handled(t))

\* A step that takes and drops no reference.
RefsStay ==
  /\ UNCHANGED <<refs, wakers>>
  /\ \A t \in Tasks : /\ Registered(t)' <=> Registered(t)
                      /\ Turning(t)' <=> Turning(t)
                      /\ Handled(t)' <=> Handled(t)

\* Who will drop what the block of t holds, or will have dropped it.
Owner(t) ==
  \/ t \in all \cup drain
  \/ \E r \in Runners : Keeps(r, t) /\ (pc[r] = "drainstage" \/ (pc[r] = "finished" /\ ~kept[r]))
  \/ "COMPLETE" \in state[t] /\ pc[t] \in HandleUpPCs \cup {"dropout"}

\* A block is there as long as it is referred to, and what it holds has an owner.
StageKept ==
  \A t \in Tasks :
    /\ stage[t] # "spilt"
    /\ refs[t] = 0 <=> stage[t] \in {"none", "freed"}
    /\ stage[t] \in {"future", "output"} => Owner(t)

IInv ==
  /\ TypeOK /\ PlacesOK /\ EntriesOK /\ EndOK /\ TurnsOnce /\ KeptOnce /\ OpenKept
  /\ FlagsTell /\ HandlesTell /\ RefsAdd /\ StageKept

-----------------------------------------------------------------------------
(* What the lemmas below share. *)

\* claim_idle takes an idle runner when there is one.
LEMMA FirstIdleProperty ==
  ASSUME TypeOK
  PROVE  /\ IdleRunners # {} => FirstIdle \in IdleRunners
         /\ IdleRunners = {} => FirstIdle = None
         /\ FirstIdle \in Runners => (FirstIdle + 1) % NumRunners \in Runners
<1>1. NumRunners \in Nat \ {0} /\ nextClaim \in Nat /\ Runners = 0 .. NumRunners - 1
  BY ExecutorAssumption DEF TypeOK, Runners
<1>2. \A n \in Int : n % NumRunners \in Runners
  BY <1>1
<1>3. ASSUME IdleRunners # {} PROVE FirstIdle \in IdleRunners
  <2> DEFINE S == {Turn(r) : r \in IdleRunners}
  <2>1. \A r \in IdleRunners : Turn(r) \in Nat
    BY <1>1, <1>2 DEF Turn, IdleRunners
  <2>2. S \in SUBSET Nat /\ S # {}
    BY <1>3, <2>1
  <2>3. Min(S) \in S /\ \A y \in S : Min(S) <= y
    <3> HIDE DEF S
    <3> QED BY <2>2, MinProperty
  <2>4. \E r \in IdleRunners : \A o \in IdleRunners : Turn(r) <= Turn(o)
    BY <2>3
  <2> QED BY <1>3, <2>4 DEF FirstIdle
<1>4. ASSUME FirstIdle \in Runners PROVE (FirstIdle + 1) % NumRunners \in Runners
  <2>1. FirstIdle + 1 \in Int
    BY <1>1, <1>4
  <2> QED BY ONLY <1>2, <2>1
<1>5. IdleRunners = {} => FirstIdle = None
  BY DEF FirstIdle
<1> QED BY <1>3, <1>4, <1>5

\* What the types say, in one place.
LEMMA Typing ==
  ASSUME TypeOK
  PROVE  /\ pc \in [Actors -> PCs] /\ task \in [Actors -> Tasks \cup {None}]
         /\ claimed \in [Actors -> Runners \cup {None}]
         /\ state \in [Tasks -> SUBSET Flags] /\ refs \in [Tasks -> Nat]
         /\ DOMAIN stage = Tasks /\ wakers \in [Tasks -> 0 .. MaxWakers] /\ MaxWakers \in Nat
         /\ queue \in Seq(Tasks) /\ all \subseteq Tasks /\ drain \subseteq Tasks
         /\ runner \in [Runners -> {"absent", "busy", "idle"}]
         /\ shutDown \in BOOLEAN /\ woken \in BOOLEAN
         /\ DOMAIN token = Runners /\ DOMAIN kept = Runners /\ DOMAIN owed = Runners
         /\ DOMAIN joinWaker = Tasks /\ DOMAIN joinSignal = Tasks
         /\ FirstIdle \in Runners \cup {None} /\ (FirstIdle # None => runner[FirstIdle] = "idle")
         /\ Actors = Tasks \cup Contexts \cup Runners /\ (Main # None => Main \in Runners)
         /\ Tasks \cap Contexts = {} /\ Tasks \cap Runners = {} /\ Contexts \cap Runners = {}
         /\ None \notin Tasks \cup Contexts \cup Runners
BY FirstIdleProperty, ExecutorAssumption DEF TypeOK, Actors, IdleRunners

\* Who leaves is the only runner there is.
LEMMA Alone ==
  ASSUME PlacesOK, NEW r \in Runners, pc[r] \in EndPCs
  PROVE  r = Main /\ \A s \in Runners : s = r
<1>1. r = Main /\ Main # None
  BY ExecutorAssumption DEF PlacesOK
<1> QED BY <1>1, ExecutorAssumption DEF Runners

\* What a spawn does, whether the executor is still there or not.
LEMMA SpawnEffect ==
  ASSUME TypeOK, HandlesTell, NEW x \in Contexts, NEW t \in Tasks, Spawn(x, t)
  PROVE  /\ pc[x] = "idle" /\ pc[t] = "none" /\ stage[t] = "none" /\ task' = task
         /\ pc' \in [Actors -> PCs] /\ claimed' \in [Actors -> Runners \cup {None}]
         /\ \A a \in Actors \ {x, t} : pc'[a] = pc[a]
         /\ \A a \in Actors \ {x} : claimed'[a] = claimed[a]
         /\ pc'[t] \in {"held", "detach"}
         /\ \/ pc'[x] = "idle" /\ claimed'[x] = claimed[x]
            \/ pc'[x] = "idle" /\ claimed'[x] = FirstIdle /\ FirstIdle = None
            \/ pc'[x] = "unpark" /\ claimed'[x] = FirstIdle /\ FirstIdle # None
         /\ runner' \in [Runners -> {"absent", "busy", "idle"}]
         /\ \A r \in Runners : runner'[r] = IF r = FirstIdle /\ ~shutDown THEN "busy" ELSE runner[r]
         /\ state' = [state EXCEPT ![t] = {"SCHEDULED", "HANDLE"}
                                          \cup IF shutDown THEN {"COMPLETE"} ELSE {}]
         /\ refs' = [refs EXCEPT ![t] = IF shutDown THEN 1 ELSE 3]
         /\ stage' = [stage EXCEPT ![t] = IF shutDown THEN "consumed" ELSE "future"]
         /\ queue' = (IF shutDown THEN queue ELSE Append(queue, t))
         /\ all' = (IF shutDown THEN all ELSE all \cup {t})
         /\ nextClaim' \in Runners
         /\ UNCHANGED <<wakers, shutDown, token, woken, joinVars, localVars>>
<1>t. HandlesTell
  OBVIOUS
<1>n. nextClaim \in Runners
  BY DEF TypeOK
<1>1. CASE shutDown
  <2>1. /\ pc[x] = "idle" /\ pc[t] = "none" /\ stage[t] = "none" /\ task' = task
        /\ state' = [state EXCEPT ![t] = {"SCHEDULED", "HANDLE"} \cup {"COMPLETE"}]
        /\ refs' = [refs EXCEPT ![t] = 1] /\ stage' = [stage EXCEPT ![t] = "consumed"]
        /\ UNCHANGED <<queue, all, runner, nextClaim, claimed>>
        /\ UNCHANGED <<wakers, shutDown, token, woken, joinVars, localVars>>
    BY <1>1, <1>t DEF Spawn, HandlesTell, Consumed, localVars, joinVars
  <2>2. pc' = [pc EXCEPT ![t] = Spawned(t)] /\ Spawned(t) \in {"held", "detach"}
    BY <1>1 DEF Spawn, Spawned
  <2>3. /\ pc' \in [Actors -> PCs] /\ pc'[t] = Spawned(t) /\ pc'[x] = pc[x]
        /\ \A a \in Actors \ {x, t} : pc'[a] = pc[a]
    BY <2>2, Typing DEF PCs, HandlePCs
  <2> QED BY <1>1, <1>n, <2>1, <2>2, <2>3, Typing
<1>2. CASE ~shutDown
  <2>1. /\ pc[x] = "idle" /\ pc[t] = "none" /\ stage[t] = "none" /\ task' = task
        /\ state' = [state EXCEPT ![t] = {"SCHEDULED", "HANDLE"} \cup {}]
        /\ refs' = [refs EXCEPT ![t] = 3] /\ stage' = [stage EXCEPT ![t] = "future"]
        /\ queue' = Append(queue, t) /\ all' = all \cup {t}
        /\ UNCHANGED <<wakers, shutDown, token, woken, joinVars, localVars>>
    BY <1>2, <1>t DEF Spawn, HandlesTell, Pushed, localVars, joinVars
  <2>2. /\ pc' = [pc EXCEPT ![t] = Spawned(t), ![x] = AfterClaim(x)]
        /\ claimed' = [claimed EXCEPT ![x] = FirstIdle]
        /\ runner' = [r \in Runners |-> IF r = FirstIdle THEN "busy" ELSE runner[r]]
        /\ nextClaim' = IF FirstIdle = None THEN nextClaim ELSE (FirstIdle + 1) % NumRunners
    BY <1>2 DEF Spawn, Claim
  <2>3. AfterClaim(x) = (IF FirstIdle = None THEN "idle" ELSE "unpark")
        /\ Spawned(t) \in {"held", "detach"}
    BY Typing DEF AfterClaim, Resume, Spawned
  <2>4. /\ pc' \in [Actors -> PCs] /\ pc'[t] = Spawned(t) /\ pc'[x] = AfterClaim(x)
        /\ \A a \in Actors \ {x, t} : pc'[a] = pc[a]
    BY <2>2, <2>3, Typing DEF PCs, HandlePCs
  <2>5. /\ claimed' \in [Actors -> Runners \cup {None}] /\ claimed'[x] = FirstIdle
        /\ \A a \in Actors \ {x} : claimed'[a] = claimed[a]
    BY <2>2, Typing
  <2>6. /\ runner' \in [Runners -> {"absent", "busy", "idle"}] /\ nextClaim' \in Runners
        /\ \A r \in Runners : runner'[r] = IF r = FirstIdle THEN "busy" ELSE runner[r]
    BY <2>2, <1>n, FirstIdleProperty, Typing
  <2> QED BY <1>2, <2>1, <2>3, <2>4, <2>5, <2>6
<1> QED BY <1>1, <1>2

\* ... and what putting a task into the queue does.
LEMMA EnqueueEffect ==
  ASSUME TypeOK, PlacesOK, NEW a \in Actors, Enqueue(a)
  PROVE  /\ pc[a] = "enqueue" /\ claimed[a] = None
         /\ pc' \in [Actors -> PCs] /\ claimed' \in [Actors -> Runners \cup {None}]
         /\ \A b \in Actors \ {a} : pc'[b] = pc[b] /\ claimed'[b] = claimed[b]
         /\ task' = [task EXCEPT ![a] = IF a \in Tasks THEN a ELSE None]
         /\ \/ pc'[a] = "unpark" /\ claimed'[a] = FirstIdle /\ FirstIdle # None /\ ~shutDown
            \/ /\ claimed'[a] = None /\ (shutDown \/ FirstIdle = None)
               /\ \/ a \in Runners /\ pc'[a] = (IF a = Main THEN "main" ELSE "next")
                  \/ a \in Contexts /\ pc'[a] = "idle"
                  \/ a \in Tasks /\ pc'[a] = "detach"
         /\ runner' \in [Runners -> {"absent", "busy", "idle"}]
         /\ \A r \in Runners : runner'[r] = IF r = FirstIdle /\ ~shutDown THEN "busy" ELSE runner[r]
         /\ IF shutDown THEN Release(task[a], 1, stage) ELSE UNCHANGED <<refs, stage>>
         /\ queue' = (IF shutDown THEN queue ELSE Append(queue, task[a]))
         /\ nextClaim' \in Runners
         /\ UNCHANGED <<state, wakers, all, shutDown, token, woken, joinVars, localVars>>
<1>n. nextClaim \in Runners /\ PlacesOK
  BY DEF TypeOK
<1>1. /\ pc[a] = "enqueue"
      /\ task' = [task EXCEPT ![a] = IF a \in Tasks THEN a ELSE None]
      /\ IF shutDown THEN Release(task[a], 1, stage) ELSE UNCHANGED <<refs, stage>>
      /\ queue' = (IF shutDown THEN queue ELSE Append(queue, task[a]))
      /\ UNCHANGED <<state, wakers, all, shutDown, token, woken, joinVars, localVars>>
  BY DEF Enqueue, Pushed, joinVars, localVars
<1>2. claimed[a] = None
  BY <1>1, <1>n, Typing DEF PlacesOK
<1>r. \/ a \in Runners /\ Resume(a) = (IF a = Main THEN "main" ELSE "next")
      \/ a \in Contexts /\ Resume(a) = "idle"
      \/ a \in Tasks /\ Resume(a) = "detach"
  BY Typing DEF Resume, Loop
<1>3. CASE shutDown
  <2>1. pc' = [pc EXCEPT ![a] = Resume(a)] /\ UNCHANGED <<runner, nextClaim, claimed>>
    BY <1>3 DEF Enqueue, Goto
  <2>2. pc' \in [Actors -> PCs] /\ pc'[a] = Resume(a) /\ \A b \in Actors \ {a} : pc'[b] = pc[b]
    BY <2>1, <1>r, Typing DEF PCs, RunnerPCs, HandlePCs
  <2> QED BY <1>1, <1>2, <1>3, <1>n, <1>r, <2>1, <2>2, Typing
<1>4. CASE ~shutDown
  <2>1. /\ pc' = [pc EXCEPT ![a] = AfterClaim(a)]
        /\ claimed' = [claimed EXCEPT ![a] = FirstIdle]
        /\ runner' = [r \in Runners |-> IF r = FirstIdle THEN "busy" ELSE runner[r]]
        /\ nextClaim' = IF FirstIdle = None THEN nextClaim ELSE (FirstIdle + 1) % NumRunners
    BY <1>4 DEF Enqueue, Goto, Claim
  <2>2. AfterClaim(a) = (IF FirstIdle = None THEN Resume(a) ELSE "unpark")
    BY DEF AfterClaim
  <2>3. /\ pc' \in [Actors -> PCs] /\ pc'[a] = AfterClaim(a)
        /\ \A b \in Actors \ {a} : pc'[b] = pc[b]
    BY <2>1, <2>2, <1>r, Typing DEF PCs, RunnerPCs, HandlePCs
  <2>4. /\ claimed' \in [Actors -> Runners \cup {None}] /\ claimed'[a] = FirstIdle
        /\ \A b \in Actors \ {a} : claimed'[b] = claimed[b]
    BY <2>1, Typing
  <2>5. /\ runner' \in [Runners -> {"absent", "busy", "idle"}] /\ nextClaim' \in Runners
        /\ \A r \in Runners : runner'[r] = IF r = FirstIdle THEN "busy" ELSE runner[r]
    BY <2>1, <1>n, FirstIdleProperty, Typing
  <2> QED BY <1>1, <1>2, <1>4, <1>r, <2>2, <2>3, <2>4, <2>5
<1> QED BY <1>3, <1>4

\* A task whose turn begins is not complete.
LEMMA BeginEffect ==
  ASSUME IInv, NEW r \in Runners, Begin(r)
  PROVE  /\ pc[r] = "begin" /\ task[r] \in Tasks /\ "COMPLETE" \notin state[task[r]]
         /\ pc' = [pc EXCEPT ![r] = IF "ABORTED" \in state[task[r]] THEN "abort" ELSE "poll"]
         /\ state' = [state EXCEPT ![task[r]] = (@ \ {"SCHEDULED"}) \cup {"RUNNING"}]
         /\ UNCHANGED <<refs, stage, wakers, sharedVars, token, woken, joinVars, task, claimed,
                        localVars>>
<1>1. pc[r] = "begin" /\ TypeOK /\ PlacesOK /\ FlagsTell
  BY DEF Begin, IInv
<1>2. task[r] \in Tasks
  BY <1>1, Typing DEF PlacesOK, TurnPCs
<1>3. "COMPLETE" \notin state[task[r]]
  BY <1>1, <1>2, Typing DEF FlagsTell, TurnFlags, HasTurn, TurnPCs, OpenPCs
<1> QED BY <1>1, <1>2, <1>3 DEF Begin, Begun, TurnFor, Goto

\* Steps keep who is where.
LEMMA PlacesStep ==
  ASSUME IInv, [Next]_vars PROVE PlacesOK'
<1>t. /\ pc \in [Actors -> PCs] /\ task \in [Actors -> Tasks \cup {None}]
      /\ claimed \in [Actors -> Runners \cup {None}]
      /\ queue \in Seq(Tasks) /\ drain \subseteq Tasks
      /\ FirstIdle \in Runners \cup {None} /\ (Main # None => Main \in Runners)
      /\ Actors = Tasks \cup Contexts \cup Runners /\ IInv /\ TypeOK /\ PlacesOK /\ HandlesTell
      /\ Tasks \cap Contexts = {} /\ Tasks \cap Runners = {} /\ Contexts \cap Runners = {}
      /\ None \notin Tasks \cup Contexts \cup Runners
  BY FirstIdleProperty, ExecutorAssumption DEF IInv, TypeOK, Actors, IdleRunners
<1>1. ASSUME NEW x \in Contexts, NEW t \in Tasks, Spawn(x, t) PROVE PlacesOK'
  <2>1. /\ pc[x] = "idle" /\ pc[t] = "none" /\ task' = task
        /\ \A a \in Actors \ {x, t} : pc'[a] = pc[a] /\ claimed'[a] = claimed[a]
        /\ pc'[t] \in {"held", "detach"} /\ claimed'[t] = claimed[t]
        /\ \/ pc'[x] = "idle" /\ claimed'[x] = claimed[x]
           \/ pc'[x] = "idle" /\ claimed'[x] = FirstIdle /\ FirstIdle = None
           \/ pc'[x] = "unpark" /\ claimed'[x] = FirstIdle /\ FirstIdle # None
    BY <1>1, <1>t DEF Spawn, Claim, AfterClaim, Resume, Spawned, HandlesTell
  <2> QED BY <1>1, <1>t, <2>1 DEF PlacesOK, TurnPCs, EndPCs, RunnerPCs, HandlePCs
<1>2. ASSUME NEW x \in Contexts, NEW t \in Tasks, Wake(x, t) PROVE PlacesOK'
  BY <1>2, <1>t DEF Wake, SetScheduled, Asleep, Goto, Release, sharedVars, joinVars,
                   localVars, PlacesOK, TurnPCs, EndPCs, RunnerPCs, HandlePCs, HandlesTell
<1>3. ASSUME NEW x \in Contexts, NEW t \in Tasks, WakeByRef(x, t) PROVE PlacesOK'
  BY <1>3, <1>t DEF WakeByRef, SetScheduled, Asleep, Goto, Cloned, sharedVars, joinVars,
                   localVars, PlacesOK, TurnPCs, EndPCs, RunnerPCs, HandlePCs, HandlesTell
<1>4. ASSUME NEW x \in Contexts, NEW t \in Tasks, DropWaker(x, t) PROVE PlacesOK'
  BY <1>4, <1>t DEF DropWaker, Release, sharedVars, joinVars, localVars, PlacesOK, TurnPCs,
                   EndPCs, RunnerPCs, HandlePCs, HandlesTell
<1>5. ASSUME NEW x \in Contexts, WakeMain(x) PROVE PlacesOK'
  BY <1>5, <1>t DEF WakeMain, Goto, taskVars, sharedVars, joinVars, localVars, PlacesOK,
                   TurnPCs, EndPCs, RunnerPCs, HandlePCs, HandlesTell
<1>6. ASSUME NEW a \in Actors, Enqueue(a) PROVE PlacesOK'
  <2>1. /\ pc[a] = "enqueue" /\ task' = [task EXCEPT ![a] = IF a \in Tasks THEN a ELSE None]
        /\ \A b \in Actors \ {a} : pc'[b] = pc[b] /\ claimed'[b] = claimed[b]
        /\ \/ pc'[a] = "unpark" /\ claimed'[a] = FirstIdle /\ FirstIdle # None
           \/ /\ claimed'[a] = None
              /\ \/ a \in Runners /\ pc'[a] = (IF a = Main THEN "main" ELSE "next")
                 \/ a \in Contexts /\ pc'[a] = "idle"
                 \/ a \in Tasks /\ pc'[a] = "detach"
    BY <1>6, <1>t, EnqueueEffect
  <2> QED BY <1>t, <2>1 DEF PlacesOK, TurnPCs, EndPCs, RunnerPCs, HandlePCs
<1>7. ASSUME NEW a \in Actors, Unpark(a) PROVE PlacesOK'
  BY <1>7, <1>t DEF Unpark, Goto, Resume, Loop, taskVars, sharedVars, joinVars, localVars,
                   PlacesOK, TurnPCs, EndPCs, RunnerPCs, HandlePCs, HandlesTell
<1>8. ASSUME NEW r \in Runners, Register(r) PROVE PlacesOK'
  BY <1>8, <1>t DEF Register, Goto, Loop, taskVars, joinVars, localVars, PlacesOK, TurnPCs,
                   EndPCs, RunnerPCs, HandlePCs, HandlesTell
<1>9. ASSUME NEW r \in Runners, LookMain(r) PROVE PlacesOK'
  BY <1>9, <1>t DEF LookMain, Goto, taskVars, sharedVars, joinVars, localVars, PlacesOK,
                   TurnPCs, EndPCs, RunnerPCs, HandlePCs, HandlesTell
<1>10. ASSUME NEW r \in Runners, PollMain(r) PROVE PlacesOK'
  BY <1>10, <1>t DEF PollMain, Goto, taskVars, sharedVars, joinVars, localVars, PlacesOK,
                    TurnPCs, EndPCs, RunnerPCs, HandlePCs, HandlesTell
<1>11. ASSUME NEW r \in Runners, NextTask(r) PROVE PlacesOK'
  BY <1>11, <1>t DEF NextTask, Goto, taskVars, joinVars, localVars, PlacesOK, TurnPCs,
                    EndPCs, RunnerPCs, HandlePCs, HandlesTell
<1>12. ASSUME NEW r \in Runners, Decide(r) PROVE PlacesOK'
  BY <1>12, <1>t DEF Decide, Goto, taskVars, sharedVars, joinVars, localVars, PlacesOK,
                    TurnPCs, EndPCs, RunnerPCs, HandlePCs, HandlesTell
<1>13. ASSUME NEW r \in Runners, Parked(r) PROVE PlacesOK'
  BY <1>13, <1>t DEF Parked, Goto, taskVars, sharedVars, joinVars, localVars, PlacesOK,
                    TurnPCs, EndPCs, RunnerPCs, HandlePCs, HandlesTell
<1>14. ASSUME NEW r \in Runners, ParkTimeout(r) PROVE PlacesOK'
  BY <1>14, <1>t DEF ParkTimeout, Goto, taskVars, sharedVars, joinVars, localVars, PlacesOK,
                    TurnPCs, EndPCs, RunnerPCs, HandlePCs, HandlesTell
<1>15. ASSUME NEW r \in Runners, SetBusy(r) PROVE PlacesOK'
  BY <1>15, <1>t DEF SetBusy, Goto, Loop, taskVars, joinVars, localVars, PlacesOK, TurnPCs,
                    EndPCs, RunnerPCs, HandlePCs, HandlesTell
<1>16. ASSUME NEW r \in Runners, Begin(r) PROVE PlacesOK'
  <2>1. /\ pc[r] = "begin" /\ UNCHANGED <<task, claimed>>
        /\ pc' = [pc EXCEPT ![r] = IF "ABORTED" \in state[task[r]] THEN "abort" ELSE "poll"]
    BY <1>16, <1>t, BeginEffect
  <2> QED BY <1>t, <2>1 DEF PlacesOK, TurnPCs, EndPCs, RunnerPCs, HandlePCs
<1>17. ASSUME NEW r \in Runners, CloneWaker(r) PROVE PlacesOK'
  BY <1>17, <1>t DEF CloneWaker, Cloned, sharedVars, joinVars, localVars, PlacesOK, TurnPCs,
                    EndPCs, RunnerPCs, HandlePCs, HandlesTell
<1>18. ASSUME NEW r \in Runners, PollReady(r) PROVE PlacesOK'
  BY <1>18, <1>t DEF PollReady, Goto, sharedVars, joinVars, localVars, PlacesOK, TurnPCs,
                    EndPCs, RunnerPCs, HandlePCs, HandlesTell
<1>19. ASSUME NEW r \in Runners, PollPending(r) PROVE PlacesOK'
  BY <1>19, <1>t DEF PollPending, Goto, taskVars, sharedVars, joinVars, localVars, PlacesOK,
                    TurnPCs, EndPCs, RunnerPCs, HandlePCs, HandlesTell
<1>20. ASSUME NEW r \in Runners, DropAborted(r) PROVE PlacesOK'
  BY <1>20, <1>t DEF DropAborted, Goto, Consumed, sharedVars, joinVars, localVars, PlacesOK,
                    TurnPCs, EndPCs, RunnerPCs, HandlePCs, HandlesTell
<1>21. ASSUME NEW r \in Runners, Yield(r) PROVE PlacesOK'
  BY <1>21, <1>t DEF Yield, AfterYield, Goto, Release, Loop, sharedVars, joinVars,
                    localVars, PlacesOK, TurnPCs, EndPCs, RunnerPCs, HandlePCs, HandlesTell
<1>22. ASSUME NEW r \in Runners, Finish(r) PROVE PlacesOK'
  BY <1>22, <1>t DEF Finish, Goto, PlacesOK, TurnPCs, EndPCs, RunnerPCs, HandlePCs,
                    HandlesTell
<1>23. ASSUME NEW r \in Runners, FinishDrop(r) PROVE PlacesOK'
  BY <1>23, <1>t DEF FinishDrop, FinishedStage, Consumed, Goto, sharedVars, joinVars,
                    localVars, PlacesOK, TurnPCs, EndPCs, RunnerPCs, HandlePCs, HandlesTell
<1>24. ASSUME NEW r \in Runners, WakeJoin(r) PROVE PlacesOK'
  BY <1>24, <1>t DEF WakeJoin, Release, Goto, Loop, sharedVars, PlacesOK, TurnPCs, EndPCs,
                    RunnerPCs, HandlePCs, HandlesTell
<1>25. ASSUME NEW r \in Runners, Leave(r) PROVE PlacesOK'
  BY <1>25, <1>t DEF Leave, Goto, taskVars, joinVars, localVars, PlacesOK, TurnPCs, EndPCs,
                    RunnerPCs, HandlePCs, HandlesTell
<1>26. ASSUME NEW r \in Runners, ShutDown(r) PROVE PlacesOK'
  BY <1>26, <1>t DEF ShutDown, Goto, taskVars, joinVars, PlacesOK, TurnPCs, EndPCs,
                    RunnerPCs, HandlePCs, HandlesTell
<1>27. ASSUME NEW r \in Runners, DrainQueue(r) PROVE PlacesOK'
  BY <1>27, <1>t DEF DrainQueue, Goto, Release, joinVars, localVars, PlacesOK, TurnPCs,
                    EndPCs, RunnerPCs, HandlePCs, HandlesTell
<1>28. ASSUME NEW r \in Runners, DrainMark(r) PROVE PlacesOK'
  BY <1>28, <1>t DEF DrainMark, Goto, sharedVars, PlacesOK, TurnPCs, EndPCs, RunnerPCs,
                    HandlePCs, HandlesTell
<1>29. ASSUME NEW r \in Runners, DrainStage(r) PROVE PlacesOK'
  BY <1>29, <1>t DEF DrainStage, Release, Consumed, Goto, sharedVars, joinVars, localVars,
                    PlacesOK, TurnPCs, EndPCs, RunnerPCs, HandlePCs, HandlesTell
<1>30. ASSUME NEW t \in Tasks, JoinPoll(t) PROVE PlacesOK'
  BY <1>30, <1>t DEF JoinPoll, Goto, taskVars, sharedVars, localVars, PlacesOK, TurnPCs,
                    EndPCs, RunnerPCs, HandlePCs, HandlesTell
<1>31. ASSUME NEW t \in Tasks, JoinRegister(t) PROVE PlacesOK'
  BY <1>31, <1>t DEF JoinRegister, Goto, taskVars, sharedVars, localVars, PlacesOK, TurnPCs,
                    EndPCs, RunnerPCs, HandlePCs, HandlesTell
<1>32. ASSUME NEW t \in Tasks, JoinTake(t) PROVE PlacesOK'
  BY <1>32, <1>t DEF JoinTake, Goto, Consumed, sharedVars, joinVars, localVars, PlacesOK,
                    TurnPCs, EndPCs, RunnerPCs, HandlePCs, HandlesTell
<1>33. ASSUME NEW t \in Tasks, Abort(t) PROVE PlacesOK'
  BY <1>33, <1>t DEF Abort, Asleep, Cloned, Goto, sharedVars, joinVars, localVars, PlacesOK,
                    TurnPCs, EndPCs, RunnerPCs, HandlePCs, HandlesTell
<1>34. ASSUME NEW t \in Tasks, DropHandle(t) PROVE PlacesOK'
  BY <1>34, <1>t DEF DropHandle, Goto, taskVars, sharedVars, joinVars, localVars, PlacesOK,
                    TurnPCs, EndPCs, RunnerPCs, HandlePCs, HandlesTell
<1>35. ASSUME NEW t \in Tasks, Detach(t) PROVE PlacesOK'
  BY <1>35, <1>t DEF Detach, DetachOwns, Goto, sharedVars, localVars, PlacesOK, TurnPCs,
                    EndPCs, RunnerPCs, HandlePCs, HandlesTell
<1>36. ASSUME NEW t \in Tasks, DropOutput(t) PROVE PlacesOK'
  BY <1>36, <1>t DEF DropOutput, Goto, Consumed, sharedVars, joinVars, localVars, PlacesOK,
                    TurnPCs, EndPCs, RunnerPCs, HandlePCs, HandlesTell
<1>37. ASSUME NEW t \in Tasks, ReleaseHandle(t) PROVE PlacesOK'
  BY <1>37, <1>t DEF ReleaseHandle, Release, Goto, sharedVars, joinVars, localVars,
                    PlacesOK, TurnPCs, EndPCs, RunnerPCs, HandlePCs, HandlesTell
<1>38. CASE UNCHANGED vars
  BY <1>38, <1>t DEF vars, PlacesOK, TurnPCs, EndPCs, RunnerPCs, HandlePCs, HandlesTell
<1> QED BY <1>1, <1>2, <1>3, <1>4, <1>5, <1>6, <1>7, <1>8, <1>9, <1>10, <1>11, <1>12, <1>13,
      <1>14, <1>15, <1>16, <1>17, <1>18, <1>19, <1>20, <1>21, <1>22, <1>23, <1>24, <1>25,
      <1>26, <1>27, <1>28, <1>29, <1>30, <1>31, <1>32, <1>33, <1>34, <1>35, <1>36, <1>37,
      <1>38 DEF Next, ContextStep, RunnerStep, TurnStep, EndStep, PollStep, HandleStep

\* The runners' entries go with where the runners are.
LEMMA EntriesStep ==
  ASSUME IInv, [Next]_vars PROVE EntriesOK'
<1>t. /\ pc \in [Actors -> PCs] /\ runner \in [Runners -> {"absent", "busy", "idle"}]
      /\ FirstIdle \in Runners \cup {None} /\ (FirstIdle # None => runner[FirstIdle] = "idle")
      /\ Actors = Tasks \cup Contexts \cup Runners /\ None \notin Runners
      /\ Tasks \cap Contexts = {} /\ Tasks \cap Runners = {} /\ Contexts \cap Runners = {}
      /\ IInv /\ TypeOK /\ HandlesTell /\ PlacesOK /\ EntriesOK
  BY Typing DEF IInv
<1>1. ASSUME NEW x \in Contexts, NEW t \in Tasks, Spawn(x, t) PROVE EntriesOK'
  <2>1. /\ pc[x] = "idle" /\ pc[t] = "none" /\ \A a \in Actors \ {x, t} : pc'[a] = pc[a]
        /\ \A r \in Runners : runner'[r] = IF r = FirstIdle /\ ~shutDown THEN "busy" ELSE runner[r]
    BY <1>1, <1>t, SpawnEffect
  <2>2. \A r \in Runners : pc'[r] = pc[r]
    BY <1>t, <2>1
  <2> QED BY <1>t, <2>1, <2>2 DEF EntriesOK, EndPCs, TurnPCs
<1>2. ASSUME NEW x \in Contexts, NEW t \in Tasks, Wake(x, t) PROVE EntriesOK'
  BY <1>2, <1>t DEF Wake, SetScheduled, Asleep, Goto, Release, sharedVars, joinVars,
                   localVars, EntriesOK, EndPCs, TurnPCs
<1>3. ASSUME NEW x \in Contexts, NEW t \in Tasks, WakeByRef(x, t) PROVE EntriesOK'
  BY <1>3, <1>t DEF WakeByRef, SetScheduled, Asleep, Goto, Cloned, sharedVars, joinVars,
                   localVars, EntriesOK, EndPCs, TurnPCs
<1>4. ASSUME NEW x \in Contexts, NEW t \in Tasks, DropWaker(x, t) PROVE EntriesOK'
  BY <1>4, <1>t DEF DropWaker, Release, sharedVars, joinVars, localVars, EntriesOK, EndPCs,
                   TurnPCs
<1>5. ASSUME NEW x \in Contexts, WakeMain(x) PROVE EntriesOK'
  BY <1>5, <1>t DEF WakeMain, Goto, taskVars, sharedVars, joinVars, localVars, EntriesOK,
                   EndPCs, TurnPCs
<1>6. ASSUME NEW a \in Actors, Enqueue(a) PROVE EntriesOK'
  <2>1. /\ pc[a] = "enqueue" /\ \A b \in Actors \ {a} : pc'[b] = pc[b]
        /\ \/ pc'[a] = "unpark"
           \/ a \in Runners /\ pc'[a] = (IF a = Main THEN "main" ELSE "next")
           \/ a \in Contexts /\ pc'[a] = "idle"
           \/ a \in Tasks /\ pc'[a] = "detach"
        /\ \A r \in Runners : runner'[r] = IF r = FirstIdle /\ ~shutDown THEN "busy" ELSE runner[r]
    BY <1>6, <1>t, EnqueueEffect
  <2> QED BY <1>t, <2>1 DEF EntriesOK, EndPCs, TurnPCs
<1>7. ASSUME NEW a \in Actors, Unpark(a) PROVE EntriesOK'
  BY <1>7, <1>t DEF Unpark, Goto, Resume, Loop, taskVars, sharedVars, joinVars, localVars,
                   EntriesOK, EndPCs, TurnPCs
<1>8. ASSUME NEW r \in Runners, Register(r) PROVE EntriesOK'
  BY <1>8, <1>t DEF Register, Goto, Loop, taskVars, joinVars, localVars, EntriesOK, EndPCs,
                   TurnPCs
<1>9. ASSUME NEW r \in Runners, LookMain(r) PROVE EntriesOK'
  BY <1>9, <1>t DEF LookMain, Goto, taskVars, sharedVars, joinVars, localVars, EntriesOK,
                   EndPCs, TurnPCs
<1>10. ASSUME NEW r \in Runners, PollMain(r) PROVE EntriesOK'
  BY <1>10, <1>t DEF PollMain, Goto, taskVars, sharedVars, joinVars, localVars, EntriesOK,
                    EndPCs, TurnPCs
<1>11. ASSUME NEW r \in Runners, NextTask(r) PROVE EntriesOK'
  BY <1>11, <1>t DEF NextTask, Goto, taskVars, joinVars, localVars, EntriesOK, EndPCs,
                    TurnPCs
<1>12. ASSUME NEW r \in Runners, Decide(r) PROVE EntriesOK'
  BY <1>12, <1>t DEF Decide, Goto, taskVars, sharedVars, joinVars, localVars, EntriesOK,
                    EndPCs, TurnPCs
<1>13. ASSUME NEW r \in Runners, Parked(r) PROVE EntriesOK'
  BY <1>13, <1>t DEF Parked, Goto, taskVars, sharedVars, joinVars, localVars, EntriesOK,
                    EndPCs, TurnPCs
<1>14. ASSUME NEW r \in Runners, ParkTimeout(r) PROVE EntriesOK'
  BY <1>14, <1>t DEF ParkTimeout, Goto, taskVars, sharedVars, joinVars, localVars,
                    EntriesOK, EndPCs, TurnPCs
<1>15. ASSUME NEW r \in Runners, SetBusy(r) PROVE EntriesOK'
  BY <1>15, <1>t DEF SetBusy, Goto, Loop, taskVars, joinVars, localVars, EntriesOK, EndPCs,
                    TurnPCs
<1>16. ASSUME NEW r \in Runners, Begin(r) PROVE EntriesOK'
  <2>1. /\ pc[r] = "begin"
        /\ pc' = [pc EXCEPT ![r] = IF "ABORTED" \in state[task[r]] THEN "abort" ELSE "poll"]
        /\ UNCHANGED runner
    BY <1>16, <1>t, BeginEffect DEF sharedVars, localVars
  <2> QED BY <1>t, <2>1 DEF EntriesOK, EndPCs, TurnPCs
<1>17. ASSUME NEW r \in Runners, CloneWaker(r) PROVE EntriesOK'
  BY <1>17, <1>t DEF CloneWaker, Cloned, sharedVars, joinVars, localVars, EntriesOK, EndPCs,
                    TurnPCs
<1>18. ASSUME NEW r \in Runners, PollReady(r) PROVE EntriesOK'
  BY <1>18, <1>t DEF PollReady, Goto, sharedVars, joinVars, localVars, EntriesOK, EndPCs,
                    TurnPCs
<1>19. ASSUME NEW r \in Runners, PollPending(r) PROVE EntriesOK'
  BY <1>19, <1>t DEF PollPending, Goto, taskVars, sharedVars, joinVars, localVars,
                    EntriesOK, EndPCs, TurnPCs
<1>20. ASSUME NEW r \in Runners, DropAborted(r) PROVE EntriesOK'
  BY <1>20, <1>t DEF DropAborted, Goto, Consumed, sharedVars, joinVars, localVars,
                    EntriesOK, EndPCs, TurnPCs
<1>21. ASSUME NEW r \in Runners, Yield(r) PROVE EntriesOK'
  BY <1>21, <1>t DEF Yield, AfterYield, Goto, Release, Loop, sharedVars, joinVars,
                    localVars, EntriesOK, EndPCs, TurnPCs
<1>22. ASSUME NEW r \in Runners, Finish(r) PROVE EntriesOK'
  BY <1>22, <1>t DEF Finish, Goto, EntriesOK, EndPCs, TurnPCs
<1>23. ASSUME NEW r \in Runners, FinishDrop(r) PROVE EntriesOK'
  BY <1>23, <1>t DEF FinishDrop, FinishedStage, Consumed, Goto, sharedVars, joinVars,
                    localVars, EntriesOK, EndPCs, TurnPCs
<1>24. ASSUME NEW r \in Runners, WakeJoin(r) PROVE EntriesOK'
  BY <1>24, <1>t DEF WakeJoin, Release, Goto, Loop, sharedVars, EntriesOK, EndPCs, TurnPCs
<1>25. ASSUME NEW r \in Runners, Leave(r) PROVE EntriesOK'
  BY <1>25, <1>t DEF Leave, Goto, taskVars, joinVars, localVars, EntriesOK, EndPCs, TurnPCs
<1>26. ASSUME NEW r \in Runners, ShutDown(r) PROVE EntriesOK'
  BY <1>26, <1>t DEF ShutDown, Goto, taskVars, joinVars, EntriesOK, EndPCs, TurnPCs
<1>27. ASSUME NEW r \in Runners, DrainQueue(r) PROVE EntriesOK'
  BY <1>27, <1>t DEF DrainQueue, Goto, Release, joinVars, localVars, EntriesOK, EndPCs,
                    TurnPCs
<1>28. ASSUME NEW r \in Runners, DrainMark(r) PROVE EntriesOK'
  BY <1>28, <1>t DEF DrainMark, Goto, sharedVars, EntriesOK, EndPCs, TurnPCs
<1>29. ASSUME NEW r \in Runners, DrainStage(r) PROVE EntriesOK'
  BY <1>29, <1>t DEF DrainStage, Release, Consumed, Goto, sharedVars, joinVars, localVars,
                    EntriesOK, EndPCs, TurnPCs
<1>30. ASSUME NEW t \in Tasks, JoinPoll(t) PROVE EntriesOK'
  BY <1>30, <1>t DEF JoinPoll, Goto, taskVars, sharedVars, localVars, EntriesOK, EndPCs,
                    TurnPCs
<1>31. ASSUME NEW t \in Tasks, JoinRegister(t) PROVE EntriesOK'
  BY <1>31, <1>t DEF JoinRegister, Goto, taskVars, sharedVars, localVars, EntriesOK, EndPCs,
                    TurnPCs
<1>32. ASSUME NEW t \in Tasks, JoinTake(t) PROVE EntriesOK'
  BY <1>32, <1>t DEF JoinTake, Goto, Consumed, sharedVars, joinVars, localVars, EntriesOK,
                    EndPCs, TurnPCs
<1>33. ASSUME NEW t \in Tasks, Abort(t) PROVE EntriesOK'
  BY <1>33, <1>t DEF Abort, Asleep, Cloned, Goto, sharedVars, joinVars, localVars,
                    EntriesOK, EndPCs, TurnPCs
<1>34. ASSUME NEW t \in Tasks, DropHandle(t) PROVE EntriesOK'
  BY <1>34, <1>t DEF DropHandle, Goto, taskVars, sharedVars, joinVars, localVars, EntriesOK,
                    EndPCs, TurnPCs
<1>35. ASSUME NEW t \in Tasks, Detach(t) PROVE EntriesOK'
  BY <1>35, <1>t DEF Detach, DetachOwns, Goto, sharedVars, localVars, EntriesOK, EndPCs,
                    TurnPCs
<1>36. ASSUME NEW t \in Tasks, DropOutput(t) PROVE EntriesOK'
  BY <1>36, <1>t DEF DropOutput, Goto, Consumed, sharedVars, joinVars, localVars, EntriesOK,
                    EndPCs, TurnPCs
<1>37. ASSUME NEW t \in Tasks, ReleaseHandle(t) PROVE EntriesOK'
  BY <1>37, <1>t DEF ReleaseHandle, Release, Goto, sharedVars, joinVars, localVars,
                    EntriesOK, EndPCs, TurnPCs
<1>38. CASE UNCHANGED vars
  BY <1>38, <1>t DEF vars, EntriesOK, EndPCs, TurnPCs
<1> QED BY <1>1, <1>2, <1>3, <1>4, <1>5, <1>6, <1>7, <1>8, <1>9, <1>10, <1>11, <1>12, <1>13,
      <1>14, <1>15, <1>16, <1>17, <1>18, <1>19, <1>20, <1>21, <1>22, <1>23, <1>24, <1>25,
      <1>26, <1>27, <1>28, <1>29, <1>30, <1>31, <1>32, <1>33, <1>34, <1>35, <1>36, <1>37,
      <1>38 DEF Next, ContextStep, RunnerStep, TurnStep, EndStep, PollStep, HandleStep

\* The end comes in its order, and once.
LEMMA EndKept ==
  ASSUME IInv, [Next]_vars PROVE EndOK'
<1>t. /\ pc \in [Actors -> PCs] /\ queue \in Seq(Tasks) /\ shutDown \in BOOLEAN
      /\ Actors = Tasks \cup Contexts \cup Runners
      /\ Tasks \cap Contexts = {} /\ Tasks \cap Runners = {} /\ Contexts \cap Runners = {}
      /\ IInv /\ TypeOK /\ HandlesTell /\ PlacesOK /\ EndOK
  BY Typing DEF IInv
<1>1. ASSUME NEW x \in Contexts, NEW t \in Tasks, Spawn(x, t) PROVE EndOK'
  <2>1. /\ pc[x] = "idle" /\ pc[t] = "none" /\ \A a \in Actors \ {x, t} : pc'[a] = pc[a]
        /\ all' = (IF shutDown THEN all ELSE all \cup {t})
        /\ queue' = (IF shutDown THEN queue ELSE Append(queue, t))
        /\ UNCHANGED <<drain, shutDown>>
    BY <1>1, <1>t, SpawnEffect DEF localVars
  <2>2. \A r \in Runners : pc'[r] = pc[r]
    BY <1>t, <2>1
  <2> QED BY <1>t, <2>1, <2>2, Alone DEF EndOK, EndPCs, TurnPCs
<1>2. ASSUME NEW x \in Contexts, NEW t \in Tasks, Wake(x, t) PROVE EndOK'
  BY <1>2, <1>t, Alone DEF Wake, SetScheduled, Asleep, Goto, Release, sharedVars, joinVars,
                          localVars, EndOK, EndPCs
<1>3. ASSUME NEW x \in Contexts, NEW t \in Tasks, WakeByRef(x, t) PROVE EndOK'
  BY <1>3, <1>t, Alone DEF WakeByRef, SetScheduled, Asleep, Goto, Cloned, sharedVars,
                          joinVars, localVars, EndOK, EndPCs
<1>4. ASSUME NEW x \in Contexts, NEW t \in Tasks, DropWaker(x, t) PROVE EndOK'
  BY <1>4, <1>t, Alone DEF DropWaker, Release, sharedVars, joinVars, localVars, EndOK,
                          EndPCs
<1>5. ASSUME NEW x \in Contexts, WakeMain(x) PROVE EndOK'
  BY <1>5, <1>t, Alone DEF WakeMain, Goto, taskVars, sharedVars, joinVars, localVars, EndOK,
                          EndPCs
<1>6. ASSUME NEW a \in Actors, Enqueue(a) PROVE EndOK'
  <2>1. /\ pc[a] = "enqueue" /\ \A b \in Actors \ {a} : pc'[b] = pc[b]
        /\ \/ pc'[a] = "unpark"
           \/ a \in Runners /\ pc'[a] = (IF a = Main THEN "main" ELSE "next")
           \/ a \in Contexts /\ pc'[a] = "idle"
           \/ a \in Tasks /\ pc'[a] = "detach"
        /\ queue' = (IF shutDown THEN queue ELSE Append(queue, task[a]))
        /\ UNCHANGED <<all, drain, shutDown>>
    BY <1>6, <1>t, EnqueueEffect DEF localVars
  <2> QED BY <1>t, <2>1, Alone DEF EndOK, EndPCs, TurnPCs
<1>7. ASSUME NEW a \in Actors, Unpark(a) PROVE EndOK'
  BY <1>7, <1>t, Alone DEF Unpark, Goto, Resume, Loop, taskVars, sharedVars, joinVars,
                          localVars, EndOK, EndPCs
<1>8. ASSUME NEW r \in Runners, Register(r) PROVE EndOK'
  BY <1>8, <1>t, Alone DEF Register, Goto, Loop, taskVars, joinVars, localVars, EndOK,
                          EndPCs
<1>9. ASSUME NEW r \in Runners, LookMain(r) PROVE EndOK'
  BY <1>9, <1>t, Alone DEF LookMain, Goto, taskVars, sharedVars, joinVars, localVars, EndOK,
                          EndPCs
<1>10. ASSUME NEW r \in Runners, PollMain(r) PROVE EndOK'
  BY <1>10, <1>t, Alone DEF PollMain, Goto, taskVars, sharedVars, joinVars, localVars,
                           EndOK, EndPCs
<1>11. ASSUME NEW r \in Runners, NextTask(r) PROVE EndOK'
  BY <1>11, <1>t, Alone DEF NextTask, Goto, taskVars, joinVars, localVars, EndOK, EndPCs
<1>12. ASSUME NEW r \in Runners, Decide(r) PROVE EndOK'
  BY <1>12, <1>t, Alone DEF Decide, Goto, taskVars, sharedVars, joinVars, localVars, EndOK,
                           EndPCs
<1>13. ASSUME NEW r \in Runners, Parked(r) PROVE EndOK'
  BY <1>13, <1>t, Alone DEF Parked, Goto, taskVars, sharedVars, joinVars, localVars, EndOK,
                           EndPCs
<1>14. ASSUME NEW r \in Runners, ParkTimeout(r) PROVE EndOK'
  BY <1>14, <1>t, Alone DEF ParkTimeout, Goto, taskVars, sharedVars, joinVars, localVars,
                           EndOK, EndPCs
<1>15. ASSUME NEW r \in Runners, SetBusy(r) PROVE EndOK'
  BY <1>15, <1>t, Alone DEF SetBusy, Goto, Loop, taskVars, joinVars, localVars, EndOK,
                           EndPCs
<1>16. ASSUME NEW r \in Runners, Begin(r) PROVE EndOK'
  <2>1. /\ pc[r] = "begin"
        /\ pc' = [pc EXCEPT ![r] = IF "ABORTED" \in state[task[r]] THEN "abort" ELSE "poll"]
        /\ UNCHANGED <<shutDown, all, queue, drain>>
    BY <1>16, <1>t, BeginEffect DEF sharedVars, localVars
  <2> QED BY <1>t, <2>1, Alone DEF EndOK, EndPCs, TurnPCs
<1>17. ASSUME NEW r \in Runners, CloneWaker(r) PROVE EndOK'
  BY <1>17, <1>t, Alone DEF CloneWaker, Cloned, sharedVars, joinVars, localVars, EndOK,
                           EndPCs
<1>18. ASSUME NEW r \in Runners, PollReady(r) PROVE EndOK'
  BY <1>18, <1>t, Alone DEF PollReady, Goto, sharedVars, joinVars, localVars, EndOK, EndPCs
<1>19. ASSUME NEW r \in Runners, PollPending(r) PROVE EndOK'
  BY <1>19, <1>t, Alone DEF PollPending, Goto, taskVars, sharedVars, joinVars, localVars,
                           EndOK, EndPCs
<1>20. ASSUME NEW r \in Runners, DropAborted(r) PROVE EndOK'
  BY <1>20, <1>t, Alone DEF DropAborted, Goto, Consumed, sharedVars, joinVars, localVars,
                           EndOK, EndPCs
<1>21. ASSUME NEW r \in Runners, Yield(r) PROVE EndOK'
  BY <1>21, <1>t, Alone DEF Yield, AfterYield, Goto, Release, Loop, sharedVars, joinVars,
                           localVars, EndOK, EndPCs
<1>22. ASSUME NEW r \in Runners, Finish(r) PROVE EndOK'
  BY <1>22, <1>t, Alone DEF Finish, Goto, EndOK, EndPCs
<1>23. ASSUME NEW r \in Runners, FinishDrop(r) PROVE EndOK'
  BY <1>23, <1>t, Alone DEF FinishDrop, FinishedStage, Consumed, Goto, sharedVars, joinVars,
                           localVars, EndOK, EndPCs
<1>24. ASSUME NEW r \in Runners, WakeJoin(r) PROVE EndOK'
  BY <1>24, <1>t, Alone DEF WakeJoin, Release, Goto, Loop, sharedVars, EndOK, EndPCs
<1>25. ASSUME NEW r \in Runners, Leave(r) PROVE EndOK'
  BY <1>25, <1>t, Alone DEF Leave, Goto, taskVars, joinVars, localVars, EndOK, EndPCs
<1>26. ASSUME NEW r \in Runners, ShutDown(r) PROVE EndOK'
  BY <1>26, <1>t, Alone DEF ShutDown, Goto, taskVars, joinVars, EndOK, EndPCs
<1>27. ASSUME NEW r \in Runners, DrainQueue(r) PROVE EndOK'
  BY <1>27, <1>t, Alone DEF DrainQueue, Goto, Release, joinVars, localVars, EndOK, EndPCs
<1>28. ASSUME NEW r \in Runners, DrainMark(r) PROVE EndOK'
  BY <1>28, <1>t, Alone DEF DrainMark, Goto, sharedVars, EndOK, EndPCs
<1>29. ASSUME NEW r \in Runners, DrainStage(r) PROVE EndOK'
  BY <1>29, <1>t, Alone DEF DrainStage, Release, Consumed, Goto, sharedVars, joinVars,
                           localVars, EndOK, EndPCs
<1>30. ASSUME NEW t \in Tasks, JoinPoll(t) PROVE EndOK'
  BY <1>30, <1>t, Alone DEF JoinPoll, Goto, taskVars, sharedVars, localVars, EndOK, EndPCs
<1>31. ASSUME NEW t \in Tasks, JoinRegister(t) PROVE EndOK'
  BY <1>31, <1>t, Alone DEF JoinRegister, Goto, taskVars, sharedVars, localVars, EndOK,
                           EndPCs
<1>32. ASSUME NEW t \in Tasks, JoinTake(t) PROVE EndOK'
  BY <1>32, <1>t, Alone DEF JoinTake, Goto, Consumed, sharedVars, joinVars, localVars,
                           EndOK, EndPCs
<1>33. ASSUME NEW t \in Tasks, Abort(t) PROVE EndOK'
  BY <1>33, <1>t, Alone DEF Abort, Asleep, Cloned, Goto, sharedVars, joinVars, localVars,
                           EndOK, EndPCs
<1>34. ASSUME NEW t \in Tasks, DropHandle(t) PROVE EndOK'
  BY <1>34, <1>t, Alone DEF DropHandle, Goto, taskVars, sharedVars, joinVars, localVars,
                           EndOK, EndPCs
<1>35. ASSUME NEW t \in Tasks, Detach(t) PROVE EndOK'
  BY <1>35, <1>t, Alone DEF Detach, DetachOwns, Goto, sharedVars, localVars, EndOK, EndPCs
<1>36. ASSUME NEW t \in Tasks, DropOutput(t) PROVE EndOK'
  BY <1>36, <1>t, Alone DEF DropOutput, Goto, Consumed, sharedVars, joinVars, localVars,
                           EndOK, EndPCs
<1>37. ASSUME NEW t \in Tasks, ReleaseHandle(t) PROVE EndOK'
  BY <1>37, <1>t, Alone DEF ReleaseHandle, Release, Goto, sharedVars, joinVars, localVars,
                           EndOK, EndPCs
<1>38. CASE UNCHANGED vars
  BY <1>38, <1>t, Alone DEF vars, EndOK, EndPCs
<1> QED BY <1>1, <1>2, <1>3, <1>4, <1>5, <1>6, <1>7, <1>8, <1>9, <1>10, <1>11, <1>12, <1>13,
      <1>14, <1>15, <1>16, <1>17, <1>18, <1>19, <1>20, <1>21, <1>22, <1>23, <1>24, <1>25,
      <1>26, <1>27, <1>28, <1>29, <1>30, <1>31, <1>32, <1>33, <1>34, <1>35, <1>36, <1>37,
      <1>38 DEF Next, ContextStep, RunnerStep, TurnStep, EndStep, PollStep, HandleStep

\* What the state word says of a task that sleeps: nobody has a turn on it.
LEMMA NobodyHas ==
  ASSUME FlagsTell, NEW t \in Tasks, Asleep(state[t])
  PROVE  ~Queued(t) /\ \A a \in Actors : ~HasTurn(a, t)
BY DEF FlagsTell, QueueFlags, TurnFlags, HasTurn, TurnPCs, Asleep

\* A task has one turn at a time: a step gives one only to a task that has none.
LEMMA TurnsStep ==
  ASSUME IInv, [Next]_vars PROVE TurnsOnce'
<1>t. /\ pc \in [Actors -> PCs] /\ task \in [Actors -> Tasks \cup {None}]
      /\ queue \in Seq(Tasks)
      /\ Actors = Tasks \cup Contexts \cup Runners /\ None \notin Tasks
      /\ Tasks \cap Contexts = {} /\ Tasks \cap Runners = {} /\ Contexts \cap Runners = {}
      /\ IInv /\ TypeOK /\ HandlesTell /\ PlacesOK /\ TurnsOnce /\ FlagsTell
      /\ \A u \in Tasks : task[u] = u
  BY Typing DEF IInv, PlacesOK
<1>1. ASSUME NEW x \in Contexts, NEW t \in Tasks, Spawn(x, t) PROVE TurnsOnce'
  <2>1. /\ pc[x] = "idle" /\ pc[t] = "none" /\ \A a \in Actors \ {x, t} : pc'[a] = pc[a]
        /\ pc'[x] \in {"idle", "unpark"} /\ pc'[t] \in {"held", "detach"} /\ task' = task
        /\ queue' = (IF shutDown THEN queue ELSE Append(queue, t))
    BY <1>1, <1>t, SpawnEffect
  <2>2. ~Queued(t) /\ \A a \in Actors : ~HasTurn(a, t)
    <3>1. Asleep(state[t])
      BY <1>t, <2>1 DEF HandlesTell, Asleep
    <3> QED BY <1>t, <3>1, NobodyHas
  <2>3. \A a \in Actors : \A u \in Tasks : HasTurn(a, u)' => HasTurn(a, u)
    BY <1>t, <2>1 DEF HasTurn, TurnPCs
  <2>4. IsInjective(queue') /\ \A u \in Tasks : Queued(u)' => Queued(u) \/ u = t
    <3>1. CASE shutDown
      BY <1>t, <2>1, <3>1 DEF Queued, TurnsOnce
    <3>2. CASE ~shutDown
      BY <1>t, <2>1, <2>2, <3>2, AppendedProperty DEF Queued, TurnsOnce
    <3> QED BY <3>1, <3>2
  <2> QED BY <1>t, <2>2, <2>3, <2>4 DEF TurnsOnce
<1>2. ASSUME NEW x \in Contexts, NEW t \in Tasks, Wake(x, t) PROVE TurnsOnce'
  <2>1. CASE Asleep(state[t])
    <3>1. ~Queued(t) /\ \A a \in Actors : ~HasTurn(a, t)
      BY <1>t, <2>1, NobodyHas
    <3>2. /\ pc' = [pc EXCEPT ![x] = "enqueue"] /\ task' = [task EXCEPT ![x] = t]
          /\ queue' = queue
      BY <1>2, <2>1, <1>t DEF Wake, SetScheduled, Goto, sharedVars
    <3> QED BY <1>t, <1>2, <3>1, <3>2 DEF TurnsOnce, HasTurn, Queued, TurnPCs
  <2>2. CASE ~Asleep(state[t])
    <3>1. /\ pc' = [pc EXCEPT ![x] = "idle"] /\ pc[x] # "enqueue" /\ queue' = queue
          /\ \A a \in Actors \ {x} : task'[a] = task[a]
      BY <1>2, <2>2, <1>t DEF Wake, SetScheduled, Goto, sharedVars
    <3> QED BY <1>t, <1>2, <3>1 DEF TurnsOnce, HasTurn, Queued, TurnPCs
  <2> QED BY <2>1, <2>2
<1>3. ASSUME NEW x \in Contexts, NEW t \in Tasks, WakeByRef(x, t) PROVE TurnsOnce'
  <2>1. CASE Asleep(state[t])
    <3>1. ~Queued(t) /\ \A a \in Actors : ~HasTurn(a, t)
      BY <1>t, <2>1, NobodyHas
    <3>2. /\ pc' = [pc EXCEPT ![x] = "enqueue"] /\ task' = [task EXCEPT ![x] = t]
          /\ queue' = queue
      BY <1>3, <2>1, <1>t DEF WakeByRef, SetScheduled, Goto, sharedVars
    <3> QED BY <1>t, <1>3, <3>1, <3>2 DEF TurnsOnce, HasTurn, Queued, TurnPCs
  <2>2. CASE ~Asleep(state[t])
    <3>1. /\ pc' = [pc EXCEPT ![x] = "idle"] /\ pc[x] # "enqueue" /\ queue' = queue
          /\ \A a \in Actors \ {x} : task'[a] = task[a]
      BY <1>3, <2>2, <1>t DEF WakeByRef, SetScheduled, Goto, sharedVars
    <3> QED BY <1>t, <1>3, <3>1 DEF TurnsOnce, HasTurn, Queued, TurnPCs
  <2> QED BY <2>1, <2>2
<1>4. ASSUME NEW x \in Contexts, NEW t \in Tasks, DropWaker(x, t) PROVE TurnsOnce'
  BY <1>4, <1>t DEF DropWaker, Release, sharedVars, joinVars, localVars, TurnsOnce, HasTurn,
                   Queued, TurnPCs
<1>5. ASSUME NEW x \in Contexts, WakeMain(x) PROVE TurnsOnce'
  BY <1>5, <1>t DEF WakeMain, Goto, taskVars, sharedVars, joinVars, localVars, TurnsOnce,
                   HasTurn, Queued, TurnPCs
<1>6. ASSUME NEW a \in Actors, Enqueue(a) PROVE TurnsOnce'
  <2>1. /\ pc[a] = "enqueue" /\ \A b \in Actors \ {a} : pc'[b] = pc[b] /\ task'[b] = task[b]
        /\ pc'[a] \notin TurnPCs
        /\ queue' = (IF shutDown THEN queue ELSE Append(queue, task[a]))
    BY <1>6, <1>t, EnqueueEffect DEF TurnPCs
  <2>2. PICK u \in Tasks : task[a] = u
    BY <1>t, <2>1 DEF PlacesOK, TurnPCs
  <2>3. HasTurn(a, u) /\ ~Queued(u) /\ \A b \in Actors : HasTurn(b, u) => b = a
    BY <1>t, <2>1, <2>2 DEF HasTurn, TurnPCs, TurnsOnce
  <2>4. \A b \in Actors : \A v \in Tasks : HasTurn(b, v)' => HasTurn(b, v) /\ b # a
    BY <1>t, <2>1 DEF HasTurn
  <2>5. IsInjective(queue') /\ \A v \in Tasks : Queued(v)' => Queued(v) \/ v = u
    <3>1. CASE shutDown
      BY <1>t, <2>1, <3>1 DEF Queued, TurnsOnce
    <3>2. CASE ~shutDown
      BY <1>t, <2>1, <2>2, <2>3, <3>2, AppendedProperty DEF Queued, TurnsOnce
    <3> QED BY <3>1, <3>2
  <2> QED BY <1>t, <2>3, <2>4, <2>5 DEF TurnsOnce
<1>7. ASSUME NEW a \in Actors, Unpark(a) PROVE TurnsOnce'
  BY <1>7, <1>t DEF Unpark, Goto, Resume, Loop, taskVars, sharedVars, joinVars, localVars,
                   TurnsOnce, HasTurn, Queued, TurnPCs
<1>8. ASSUME NEW r \in Runners, Register(r) PROVE TurnsOnce'
  BY <1>8, <1>t DEF Register, Goto, Loop, taskVars, joinVars, localVars, TurnsOnce, HasTurn,
                   Queued, TurnPCs
<1>9. ASSUME NEW r \in Runners, LookMain(r) PROVE TurnsOnce'
  BY <1>9, <1>t DEF LookMain, Goto, taskVars, sharedVars, joinVars, localVars, TurnsOnce,
                   HasTurn, Queued, TurnPCs
<1>10. ASSUME NEW r \in Runners, PollMain(r) PROVE TurnsOnce'
  BY <1>10, <1>t DEF PollMain, Goto, taskVars, sharedVars, joinVars, localVars, TurnsOnce,
                    HasTurn, Queued, TurnPCs
<1>11. ASSUME NEW r \in Runners, NextTask(r) PROVE TurnsOnce'
  <2>1. CASE queue # <<>>
    <3>1. /\ task' = [task EXCEPT ![r] = Head(queue)] /\ queue' = Tail(queue)
          /\ pc' = [pc EXCEPT ![r] = "begin"]
      BY <1>11, <2>1 DEF NextTask, Goto
    <3>2. /\ Head(queue) \in ToSet(queue) /\ ToSet(queue) = ToSet(queue') \cup {Head(queue)}
          /\ IsInjective(queue') /\ Head(queue) \notin ToSet(queue') /\ Head(queue) \in Tasks
      BY <1>t, <2>1, <3>1, TailProperty DEF TurnsOnce
    <3> HIDE <3>1
    <3>3. PICK h \in Tasks : h = Head(queue)
      BY <3>2
    <3>4. task' = [task EXCEPT ![r] = h] /\ pc' = [pc EXCEPT ![r] = "begin"]
      BY <3>1, <3>3
    <3> QED BY ONLY <1>t, <3>2, <3>3, <3>4, r \in Runners DEF TurnsOnce, HasTurn, Queued, TurnPCs
  <2>2. CASE queue = <<>>
    <3>1. pc' = [pc EXCEPT ![r] = "decide"] /\ UNCHANGED <<queue, task>>
      BY <1>11, <2>2 DEF NextTask, Goto
    <3> QED BY <1>t, <3>1 DEF TurnsOnce, HasTurn, Queued, TurnPCs
  <2> QED BY <2>1, <2>2
<1>12. ASSUME NEW r \in Runners, Decide(r) PROVE TurnsOnce'
  BY <1>12, <1>t DEF Decide, Goto, taskVars, sharedVars, joinVars, localVars, TurnsOnce,
                    HasTurn, Queued, TurnPCs
<1>13. ASSUME NEW r \in Runners, Parked(r) PROVE TurnsOnce'
  BY <1>13, <1>t DEF Parked, Goto, taskVars, sharedVars, joinVars, localVars, TurnsOnce,
                    HasTurn, Queued, TurnPCs
<1>14. ASSUME NEW r \in Runners, ParkTimeout(r) PROVE TurnsOnce'
  BY <1>14, <1>t DEF ParkTimeout, Goto, taskVars, sharedVars, joinVars, localVars,
                    TurnsOnce, HasTurn, Queued, TurnPCs
<1>15. ASSUME NEW r \in Runners, SetBusy(r) PROVE TurnsOnce'
  BY <1>15, <1>t DEF SetBusy, Goto, Loop, taskVars, joinVars, localVars, TurnsOnce, HasTurn,
                    Queued, TurnPCs
<1>16. ASSUME NEW r \in Runners, Begin(r) PROVE TurnsOnce'
  <2>1. /\ pc[r] = "begin" /\ UNCHANGED <<queue, task>>
        /\ pc' = [pc EXCEPT ![r] = IF "ABORTED" \in state[task[r]] THEN "abort" ELSE "poll"]
    BY <1>16, <1>t, BeginEffect DEF sharedVars
  <2> QED BY <1>t, <2>1 DEF TurnsOnce, HasTurn, Queued, TurnPCs
<1>17. ASSUME NEW r \in Runners, CloneWaker(r) PROVE TurnsOnce'
  BY <1>17, <1>t DEF CloneWaker, Cloned, sharedVars, joinVars, localVars, TurnsOnce,
                    HasTurn, Queued, TurnPCs
<1>18. ASSUME NEW r \in Runners, PollReady(r) PROVE TurnsOnce'
  BY <1>18, <1>t DEF PollReady, Goto, sharedVars, joinVars, localVars, TurnsOnce, HasTurn,
                    Queued, TurnPCs
<1>19. ASSUME NEW r \in Runners, PollPending(r) PROVE TurnsOnce'
  BY <1>19, <1>t DEF PollPending, Goto, taskVars, sharedVars, joinVars, localVars,
                    TurnsOnce, HasTurn, Queued, TurnPCs
<1>20. ASSUME NEW r \in Runners, DropAborted(r) PROVE TurnsOnce'
  BY <1>20, <1>t DEF DropAborted, Goto, Consumed, sharedVars, joinVars, localVars,
                    TurnsOnce, HasTurn, Queued, TurnPCs
<1>21. ASSUME NEW r \in Runners, Yield(r) PROVE TurnsOnce'
  BY <1>21, <1>t DEF Yield, AfterYield, Goto, Release, Loop, sharedVars, joinVars,
                    localVars, TurnsOnce, HasTurn, Queued, TurnPCs
<1>22. ASSUME NEW r \in Runners, Finish(r) PROVE TurnsOnce'
  BY <1>22, <1>t DEF Finish, Goto, TurnsOnce, HasTurn, Queued, TurnPCs
<1>23. ASSUME NEW r \in Runners, FinishDrop(r) PROVE TurnsOnce'
  BY <1>23, <1>t DEF FinishDrop, FinishedStage, Consumed, Goto, sharedVars, joinVars,
                    localVars, TurnsOnce, HasTurn, Queued, TurnPCs
<1>24. ASSUME NEW r \in Runners, WakeJoin(r) PROVE TurnsOnce'
  BY <1>24, <1>t DEF WakeJoin, Release, Goto, Loop, sharedVars, TurnsOnce, HasTurn, Queued,
                    TurnPCs
<1>25. ASSUME NEW r \in Runners, Leave(r) PROVE TurnsOnce'
  BY <1>25, <1>t DEF Leave, Goto, taskVars, joinVars, localVars, TurnsOnce, HasTurn, Queued,
                    TurnPCs
<1>26. ASSUME NEW r \in Runners, ShutDown(r) PROVE TurnsOnce'
  BY <1>26, <1>t DEF ShutDown, Goto, taskVars, joinVars, TurnsOnce, HasTurn, Queued, TurnPCs
<1>27. ASSUME NEW r \in Runners, DrainQueue(r) PROVE TurnsOnce'
  <2>1. CASE queue # <<>>
    <3>1. queue' = Tail(queue) /\ UNCHANGED <<pc, task>>
      BY <1>27, <2>1 DEF DrainQueue
    <3>2. ToSet(queue) = ToSet(queue') \cup {Head(queue)} /\ IsInjective(queue')
      BY <1>t, <2>1, <3>1, TailProperty DEF TurnsOnce
    <3> QED BY ONLY <1>t, <3>1, <3>2 DEF TurnsOnce, HasTurn, Queued
  <2>2. CASE queue = <<>>
    <3>1. pc' = [pc EXCEPT ![r] = "drainall"] /\ UNCHANGED <<queue, task>>
      BY <1>27, <2>2 DEF DrainQueue, Goto
    <3> QED BY <1>t, <3>1 DEF TurnsOnce, HasTurn, Queued, TurnPCs
  <2> QED BY <2>1, <2>2
<1>28. ASSUME NEW r \in Runners, DrainMark(r) PROVE TurnsOnce'
  BY <1>28, <1>t DEF DrainMark, Goto, sharedVars, TurnsOnce, HasTurn, Queued, TurnPCs
<1>29. ASSUME NEW r \in Runners, DrainStage(r) PROVE TurnsOnce'
  BY <1>29, <1>t DEF DrainStage, Release, Consumed, Goto, sharedVars, joinVars, localVars,
                    TurnsOnce, HasTurn, Queued, TurnPCs
<1>30. ASSUME NEW t \in Tasks, JoinPoll(t) PROVE TurnsOnce'
  BY <1>30, <1>t DEF JoinPoll, Goto, taskVars, sharedVars, localVars, TurnsOnce, HasTurn,
                    Queued, TurnPCs
<1>31. ASSUME NEW t \in Tasks, JoinRegister(t) PROVE TurnsOnce'
  BY <1>31, <1>t DEF JoinRegister, Goto, taskVars, sharedVars, localVars, TurnsOnce,
                    HasTurn, Queued, TurnPCs
<1>32. ASSUME NEW t \in Tasks, JoinTake(t) PROVE TurnsOnce'
  BY <1>32, <1>t DEF JoinTake, Goto, Consumed, sharedVars, joinVars, localVars, TurnsOnce,
                    HasTurn, Queued, TurnPCs
<1>33. ASSUME NEW t \in Tasks, Abort(t) PROVE TurnsOnce'
  <2>1. CASE Asleep(state[t])
    <3>1. ~Queued(t) /\ \A a \in Actors : ~HasTurn(a, t)
      BY <1>t, <2>1, NobodyHas
    <3>2. /\ pc' = [pc EXCEPT ![t] = "enqueue"] /\ task' = [task EXCEPT ![t] = t]
          /\ queue' = queue
      BY <1>33, <2>1, <1>t DEF Abort, SetScheduled, Goto, sharedVars
    <3> QED BY <1>t, <1>33, <3>1, <3>2 DEF TurnsOnce, HasTurn, Queued, TurnPCs
  <2>2. CASE ~Asleep(state[t])
    <3>1. /\ pc' = [pc EXCEPT ![t] = "detach"] /\ pc[t] # "enqueue" /\ queue' = queue
          /\ \A a \in Actors \ {t} : task'[a] = task[a]
      BY <1>33, <2>2, <1>t DEF Abort, SetScheduled, Goto, sharedVars
    <3> QED BY <1>t, <1>33, <3>1 DEF TurnsOnce, HasTurn, Queued, TurnPCs
  <2> QED BY <2>1, <2>2
<1>34. ASSUME NEW t \in Tasks, DropHandle(t) PROVE TurnsOnce'
  BY <1>34, <1>t DEF DropHandle, Goto, taskVars, sharedVars, joinVars, localVars, TurnsOnce,
                    HasTurn, Queued, TurnPCs
<1>35. ASSUME NEW t \in Tasks, Detach(t) PROVE TurnsOnce'
  BY <1>35, <1>t DEF Detach, DetachOwns, Goto, sharedVars, localVars, TurnsOnce, HasTurn,
                    Queued, TurnPCs
<1>36. ASSUME NEW t \in Tasks, DropOutput(t) PROVE TurnsOnce'
  BY <1>36, <1>t DEF DropOutput, Goto, Consumed, sharedVars, joinVars, localVars, TurnsOnce,
                    HasTurn, Queued, TurnPCs
<1>37. ASSUME NEW t \in Tasks, ReleaseHandle(t) PROVE TurnsOnce'
  BY <1>37, <1>t DEF ReleaseHandle, Release, Goto, sharedVars, joinVars, localVars,
                    TurnsOnce, HasTurn, Queued, TurnPCs
<1>38. CASE UNCHANGED vars
  BY <1>38, <1>t DEF vars, TurnsOnce, HasTurn, Queued, TurnPCs
<1> QED BY <1>1, <1>2, <1>3, <1>4, <1>5, <1>6, <1>7, <1>8, <1>9, <1>10, <1>11, <1>12, <1>13,
      <1>14, <1>15, <1>16, <1>17, <1>18, <1>19, <1>20, <1>21, <1>22, <1>23, <1>24, <1>25,
      <1>26, <1>27, <1>28, <1>29, <1>30, <1>31, <1>32, <1>33, <1>34, <1>35, <1>36, <1>37,
      <1>38 DEF Next, ContextStep, RunnerStep, TurnStep, EndStep, PollStep, HandleStep

\* Nobody refers to a task before it is spawned.
LEMMA Unspawned ==
  ASSUME TypeOK, RefsAdd, HandlesTell, NEW t \in Tasks, pc[t] = "none"
  PROVE  ~Registered(t) /\ ~Turning(t) /\ wakers[t] = 0 /\ state[t] = {}
<1>1. refs[t] = 0 /\ state[t] = {} /\ wakers[t] \in Nat
  BY Typing DEF HandlesTell
<1>2. One(Registered(t)) + One(Turning(t)) + wakers[t] + One(Handled(t)) = 0
  BY <1>1 DEF RefsAdd
<1>3. One(Registered(t)) \in {0, 1} /\ One(Turning(t)) \in {0, 1} /\ One(Handled(t)) \in {0, 1}
  BY DEF One
<1>4. One(Registered(t)) = 0 /\ One(Turning(t)) = 0 /\ wakers[t] = 0
  BY <1>1, <1>2, <1>3
<1> QED BY <1>1, <1>4 DEF One

\* A reference of the registry is in one place.
LEMMA KeptStep ==
  ASSUME IInv, [Next]_vars PROVE KeptOnce'
<1>t. /\ pc \in [Actors -> PCs] /\ task \in [Actors -> Tasks \cup {None}]
      /\ all \subseteq Tasks /\ drain \subseteq Tasks
      /\ Actors = Tasks \cup Contexts \cup Runners /\ None \notin Tasks
      /\ Tasks \cap Contexts = {} /\ Tasks \cap Runners = {} /\ Contexts \cap Runners = {}
      /\ IInv /\ TypeOK /\ HandlesTell /\ PlacesOK /\ RefsAdd /\ KeptOnce /\ EndOK /\ TurnsOnce
  BY Typing DEF IInv
<1>1. ASSUME NEW x \in Contexts, NEW t \in Tasks, Spawn(x, t) PROVE KeptOnce'
  <2>1. /\ pc[x] = "idle" /\ pc[t] = "none" /\ \A a \in Actors \ {x, t} : pc'[a] = pc[a]
        /\ task' = task /\ drain' = drain
        /\ all' = (IF shutDown THEN all ELSE all \cup {t})
    BY <1>1, <1>t, SpawnEffect DEF localVars
  <2>2. \A r \in Runners : pc'[r] = pc[r]
    BY <1>t, <2>1
  <2>3. ~Registered(t)
    BY <1>t, <2>1, Unspawned
  <2> QED BY <1>t, <2>1, <2>2, <2>3 DEF KeptOnce, Keeps, Registered
<1>2. ASSUME NEW x \in Contexts, NEW t \in Tasks, Wake(x, t) PROVE KeptOnce'
  BY <1>2, <1>t DEF Wake, SetScheduled, Asleep, Goto, Release, sharedVars, joinVars,
                   localVars, KeptOnce, Keeps, KeepPCs
<1>3. ASSUME NEW x \in Contexts, NEW t \in Tasks, WakeByRef(x, t) PROVE KeptOnce'
  BY <1>3, <1>t DEF WakeByRef, SetScheduled, Asleep, Goto, Cloned, sharedVars, joinVars,
                   localVars, KeptOnce, Keeps, KeepPCs
<1>4. ASSUME NEW x \in Contexts, NEW t \in Tasks, DropWaker(x, t) PROVE KeptOnce'
  BY <1>4, <1>t DEF DropWaker, Release, sharedVars, joinVars, localVars, KeptOnce, Keeps,
                   KeepPCs
<1>5. ASSUME NEW x \in Contexts, WakeMain(x) PROVE KeptOnce'
  BY <1>5, <1>t DEF WakeMain, Goto, taskVars, sharedVars, joinVars, localVars, KeptOnce,
                   Keeps, KeepPCs
<1>6. ASSUME NEW a \in Actors, Enqueue(a) PROVE KeptOnce'
  <2>1. /\ pc[a] = "enqueue" /\ \A b \in Actors \ {a} : pc'[b] = pc[b] /\ task'[b] = task[b]
        /\ pc'[a] \notin KeepPCs /\ UNCHANGED <<all, drain>>
    BY <1>6, <1>t, EnqueueEffect DEF KeepPCs, localVars
  <2> QED BY <1>t, <2>1 DEF KeptOnce, Keeps
<1>7. ASSUME NEW a \in Actors, Unpark(a) PROVE KeptOnce'
  BY <1>7, <1>t DEF Unpark, Goto, Resume, Loop, taskVars, sharedVars, joinVars, localVars,
                   KeptOnce, Keeps, KeepPCs
<1>8. ASSUME NEW r \in Runners, Register(r) PROVE KeptOnce'
  BY <1>8, <1>t DEF Register, Goto, Loop, taskVars, joinVars, localVars, KeptOnce, Keeps,
                   KeepPCs
<1>9. ASSUME NEW r \in Runners, LookMain(r) PROVE KeptOnce'
  BY <1>9, <1>t DEF LookMain, Goto, taskVars, sharedVars, joinVars, localVars, KeptOnce,
                   Keeps, KeepPCs
<1>10. ASSUME NEW r \in Runners, PollMain(r) PROVE KeptOnce'
  BY <1>10, <1>t DEF PollMain, Goto, taskVars, sharedVars, joinVars, localVars, KeptOnce,
                    Keeps, KeepPCs
<1>11. ASSUME NEW r \in Runners, NextTask(r) PROVE KeptOnce'
  BY <1>11, <1>t DEF NextTask, Goto, taskVars, joinVars, localVars, KeptOnce, Keeps, KeepPCs
<1>12. ASSUME NEW r \in Runners, Decide(r) PROVE KeptOnce'
  BY <1>12, <1>t DEF Decide, Goto, taskVars, sharedVars, joinVars, localVars, KeptOnce,
                    Keeps, KeepPCs
<1>13. ASSUME NEW r \in Runners, Parked(r) PROVE KeptOnce'
  BY <1>13, <1>t DEF Parked, Goto, taskVars, sharedVars, joinVars, localVars, KeptOnce,
                    Keeps, KeepPCs
<1>14. ASSUME NEW r \in Runners, ParkTimeout(r) PROVE KeptOnce'
  BY <1>14, <1>t DEF ParkTimeout, Goto, taskVars, sharedVars, joinVars, localVars, KeptOnce,
                    Keeps, KeepPCs
<1>15. ASSUME NEW r \in Runners, SetBusy(r) PROVE KeptOnce'
  BY <1>15, <1>t DEF SetBusy, Goto, Loop, taskVars, joinVars, localVars, KeptOnce, Keeps,
                    KeepPCs
<1>16. ASSUME NEW r \in Runners, Begin(r) PROVE KeptOnce'
  <2>1. /\ UNCHANGED <<all, drain, task>>
        /\ pc' = [pc EXCEPT ![r] = IF "ABORTED" \in state[task[r]] THEN "abort" ELSE "poll"]
    BY <1>16, <1>t, BeginEffect DEF sharedVars, localVars
  <2> QED BY <1>t, <2>1 DEF KeptOnce, Keeps, KeepPCs
<1>17. ASSUME NEW r \in Runners, CloneWaker(r) PROVE KeptOnce'
  BY <1>17, <1>t DEF CloneWaker, Cloned, sharedVars, joinVars, localVars, KeptOnce, Keeps,
                    KeepPCs
<1>18. ASSUME NEW r \in Runners, PollReady(r) PROVE KeptOnce'
  BY <1>18, <1>t DEF PollReady, Goto, sharedVars, joinVars, localVars, KeptOnce, Keeps,
                    KeepPCs
<1>19. ASSUME NEW r \in Runners, PollPending(r) PROVE KeptOnce'
  BY <1>19, <1>t DEF PollPending, Goto, taskVars, sharedVars, joinVars, localVars, KeptOnce,
                    Keeps, KeepPCs
<1>20. ASSUME NEW r \in Runners, DropAborted(r) PROVE KeptOnce'
  BY <1>20, <1>t DEF DropAborted, Goto, Consumed, sharedVars, joinVars, localVars, KeptOnce,
                    Keeps, KeepPCs
<1>21. ASSUME NEW r \in Runners, Yield(r) PROVE KeptOnce'
  BY <1>21, <1>t DEF Yield, AfterYield, Goto, Release, Loop, sharedVars, joinVars,
                    localVars, KeptOnce, Keeps, KeepPCs
<1>22. ASSUME NEW r \in Runners, Finish(r) PROVE KeptOnce'
  <2>1. /\ pc[r] = "finish" /\ all' = all \ {task[r]} /\ UNCHANGED <<task, drain>>
        /\ pc' = [pc EXCEPT ![r] = "finished"]
    BY <1>22 DEF Finish, Goto
  <2>2. \A s \in Runners : pc[s] \notin EndPCs
    BY <2>1, <1>t, Alone DEF EndPCs
  <2>3. drain = {}
    BY <1>t, <2>2 DEF EndOK, EndPCs
  <2>4. \A s \in Runners : s # r => ~Keeps(s, task[r])
    BY <1>t, <2>1, <2>2 DEF TurnsOnce, HasTurn, TurnPCs, Keeps, KeepPCs, EndPCs, PlacesOK
  <2> QED BY <1>t, <2>1, <2>3, <2>4 DEF KeptOnce, Keeps, KeepPCs
<1>23. ASSUME NEW r \in Runners, FinishDrop(r) PROVE KeptOnce'
  BY <1>23, <1>t DEF FinishDrop, FinishedStage, Consumed, Goto, sharedVars, joinVars,
                    localVars, KeptOnce, Keeps, KeepPCs
<1>24. ASSUME NEW r \in Runners, WakeJoin(r) PROVE KeptOnce'
  BY <1>24, <1>t DEF WakeJoin, Release, Goto, Loop, sharedVars, KeptOnce, Keeps, KeepPCs
<1>25. ASSUME NEW r \in Runners, Leave(r) PROVE KeptOnce'
  BY <1>25, <1>t DEF Leave, Goto, taskVars, joinVars, localVars, KeptOnce, Keeps, KeepPCs
<1>26. ASSUME NEW r \in Runners, ShutDown(r) PROVE KeptOnce'
  BY <1>26, <1>t DEF ShutDown, Goto, taskVars, joinVars, KeptOnce, Keeps, KeepPCs
<1>27. ASSUME NEW r \in Runners, DrainQueue(r) PROVE KeptOnce'
  BY <1>27, <1>t DEF DrainQueue, Goto, Release, joinVars, localVars, KeptOnce, Keeps,
                    KeepPCs
<1>28. ASSUME NEW r \in Runners, DrainMark(r) PROVE KeptOnce'
  BY <1>28, <1>t, Alone DEF DrainMark, Goto, sharedVars, KeptOnce, Keeps, KeepPCs, EndPCs
<1>29. ASSUME NEW r \in Runners, DrainStage(r) PROVE KeptOnce'
  BY <1>29, <1>t DEF DrainStage, Release, Consumed, Goto, sharedVars, joinVars, localVars,
                    KeptOnce, Keeps, KeepPCs
<1>30. ASSUME NEW t \in Tasks, JoinPoll(t) PROVE KeptOnce'
  BY <1>30, <1>t DEF JoinPoll, Goto, taskVars, sharedVars, localVars, KeptOnce, Keeps,
                    KeepPCs
<1>31. ASSUME NEW t \in Tasks, JoinRegister(t) PROVE KeptOnce'
  BY <1>31, <1>t DEF JoinRegister, Goto, taskVars, sharedVars, localVars, KeptOnce, Keeps,
                    KeepPCs
<1>32. ASSUME NEW t \in Tasks, JoinTake(t) PROVE KeptOnce'
  BY <1>32, <1>t DEF JoinTake, Goto, Consumed, sharedVars, joinVars, localVars, KeptOnce,
                    Keeps, KeepPCs
<1>33. ASSUME NEW t \in Tasks, Abort(t) PROVE KeptOnce'
  BY <1>33, <1>t DEF Abort, Asleep, Cloned, Goto, sharedVars, joinVars, localVars, KeptOnce,
                    Keeps, KeepPCs
<1>34. ASSUME NEW t \in Tasks, DropHandle(t) PROVE KeptOnce'
  BY <1>34, <1>t DEF DropHandle, Goto, taskVars, sharedVars, joinVars, localVars, KeptOnce,
                    Keeps, KeepPCs
<1>35. ASSUME NEW t \in Tasks, Detach(t) PROVE KeptOnce'
  BY <1>35, <1>t DEF Detach, DetachOwns, Goto, sharedVars, localVars, KeptOnce, Keeps,
                    KeepPCs
<1>36. ASSUME NEW t \in Tasks, DropOutput(t) PROVE KeptOnce'
  BY <1>36, <1>t DEF DropOutput, Goto, Consumed, sharedVars, joinVars, localVars, KeptOnce,
                    Keeps, KeepPCs
<1>37. ASSUME NEW t \in Tasks, ReleaseHandle(t) PROVE KeptOnce'
  BY <1>37, <1>t DEF ReleaseHandle, Release, Goto, sharedVars, joinVars, localVars,
                    KeptOnce, Keeps, KeepPCs
<1>38. CASE UNCHANGED vars
  BY <1>38, <1>t DEF vars, KeptOnce, Keeps, KeepPCs
<1> QED BY <1>1, <1>2, <1>3, <1>4, <1>5, <1>6, <1>7, <1>8, <1>9, <1>10, <1>11, <1>12, <1>13,
      <1>14, <1>15, <1>16, <1>17, <1>18, <1>19, <1>20, <1>21, <1>22, <1>23, <1>24, <1>25,
      <1>26, <1>27, <1>28, <1>29, <1>30, <1>31, <1>32, <1>33, <1>34, <1>35, <1>36, <1>37,
      <1>38 DEF Next, ContextStep, RunnerStep, TurnStep, EndStep, PollStep, HandleStep

\* The flags tell the truth about the turn after every step.
LEMMA FlagsStep ==
  ASSUME IInv, [Next]_vars PROVE FlagsTell'
<1>t. /\ pc \in [Actors -> PCs] /\ task \in [Actors -> Tasks \cup {None}]
      /\ state \in [Tasks -> SUBSET Flags] /\ queue \in Seq(Tasks) /\ drain \subseteq Tasks
      /\ shutDown \in BOOLEAN
      /\ Actors = Tasks \cup Contexts \cup Runners /\ None \notin Tasks
      /\ Tasks \cap Contexts = {} /\ Tasks \cap Runners = {} /\ Contexts \cap Runners = {}
      /\ IInv /\ TypeOK /\ HandlesTell /\ PlacesOK /\ RefsAdd /\ EndOK /\ TurnsOnce /\ FlagsTell
  BY Typing DEF IInv
<1>1. ASSUME NEW x \in Contexts, NEW t \in Tasks, Spawn(x, t) PROVE FlagsTell'
  <2>1. /\ pc[x] = "idle" /\ pc[t] = "none" /\ \A a \in Actors \ {x, t} : pc'[a] = pc[a]
        /\ pc'[x] \in {"idle", "unpark"} /\ pc'[t] \in {"held", "detach"}
        /\ UNCHANGED <<task, shutDown>>
        /\ state' = [state EXCEPT ![t] = {"SCHEDULED", "HANDLE"}
                                         \cup IF shutDown THEN {"COMPLETE"} ELSE {}]
        /\ queue' = (IF shutDown THEN queue ELSE Append(queue, t))
    BY <1>1, <1>t, SpawnEffect
  <2>2. ~Turning(t)
    BY <1>t, <2>1, Unspawned
  <2>3. ~Queued(t) /\ \A a \in Actors : ~HasTurn(a, t)
    BY <2>2 DEF Turning
  <2>4. /\ \A a \in Actors : \A u \in Tasks : HasTurn(a, u)' <=> HasTurn(a, u)
        /\ \A a \in Actors : \A u \in Tasks : HasTurn(a, u) => pc'[a] = pc[a]
        /\ \A r \in Runners : pc'[r] = pc[r]
    BY <1>t, <2>1 DEF HasTurn, TurnPCs
  <2>5. \A u \in Tasks : Queued(u)' <=> Queued(u) \/ (u = t /\ ~shutDown)
    <3>1. CASE shutDown
      BY <1>t, <2>1, <3>1 DEF Queued
    <3>2. CASE ~shutDown
      BY <1>t, <2>1, <3>2, AppendedProperty DEF Queued
    <3> QED BY <3>1, <3>2
  <2>6. /\ \A u \in Tasks : u # t => state'[u] = state[u]
        /\ "SCHEDULED" \in state'[t] /\ "RUNNING" \notin state'[t]
        /\ "COMPLETE" \in state'[t] <=> shutDown
    BY <1>t, <2>1
  <2>p1. QueueFlags'
    BY <1>t, <2>3, <2>5, <2>6 DEF FlagsTell, QueueFlags
  <2>p2. TurnFlags'
    BY <1>t, <2>1, <2>3, <2>4, <2>6 DEF FlagsTell, TurnFlags
  <2>p3. RunningFlag'
    BY <1>t, <2>1, <2>4, <2>6 DEF FlagsTell, RunningFlag
  <2>p4. ScheduledFlag'
    BY <1>t, <2>1, <2>4, <2>5, <2>6 DEF FlagsTell, ScheduledFlag
  <2> QED BY <2>p1, <2>p2, <2>p3, <2>p4 DEF FlagsTell
<1>2. ASSUME NEW x \in Contexts, NEW t \in Tasks, Wake(x, t) PROVE FlagsTell'
  BY <1>2, <1>t DEF Wake, SetScheduled, Asleep, Goto, Release, sharedVars, joinVars,
                   localVars, FlagsTell, QueueFlags, TurnFlags, RunningFlag, ScheduledFlag,
                   HasTurn, Queued, TurnPCs, OpenPCs
<1>3. ASSUME NEW x \in Contexts, NEW t \in Tasks, WakeByRef(x, t) PROVE FlagsTell'
  BY <1>3, <1>t DEF WakeByRef, SetScheduled, Asleep, Goto, Cloned, sharedVars, joinVars,
                   localVars, FlagsTell, QueueFlags, TurnFlags, RunningFlag, ScheduledFlag,
                   HasTurn, Queued, TurnPCs, OpenPCs
<1>4. ASSUME NEW x \in Contexts, NEW t \in Tasks, DropWaker(x, t) PROVE FlagsTell'
  BY <1>4, <1>t DEF DropWaker, Release, sharedVars, joinVars, localVars, FlagsTell,
                   QueueFlags, TurnFlags, RunningFlag, ScheduledFlag, HasTurn, Queued,
                   TurnPCs, OpenPCs
<1>5. ASSUME NEW x \in Contexts, WakeMain(x) PROVE FlagsTell'
  BY <1>5, <1>t DEF WakeMain, Goto, taskVars, sharedVars, joinVars, localVars, FlagsTell,
                   QueueFlags, TurnFlags, RunningFlag, ScheduledFlag, HasTurn, Queued,
                   TurnPCs, OpenPCs
<1>6. ASSUME NEW a \in Actors, Enqueue(a) PROVE FlagsTell'
  <2>1. /\ pc[a] = "enqueue" /\ \A b \in Actors \ {a} : pc'[b] = pc[b] /\ task'[b] = task[b]
        /\ pc'[a] \notin TurnPCs /\ UNCHANGED <<state, shutDown>>
        /\ queue' = (IF shutDown THEN queue ELSE Append(queue, task[a]))
    BY <1>6, <1>t, EnqueueEffect DEF TurnPCs
  <2>2. PICK u \in Tasks : task[a] = u
    BY <1>t, <2>1 DEF PlacesOK, TurnPCs
  <2>3. HasTurn(a, u) /\ ~Queued(u) /\ \A v \in Tasks : HasTurn(a, v) => v = u
    BY <1>t, <2>1, <2>2 DEF HasTurn, TurnPCs, TurnsOnce
  <2>4. \A b \in Actors : \A v \in Tasks : HasTurn(b, v)' <=> (HasTurn(b, v) /\ b # a)
    BY <1>t, <2>1 DEF HasTurn
  <2>5. \A v \in Tasks : Queued(v)' <=> Queued(v) \/ (v = u /\ ~shutDown)
    <3>1. CASE shutDown
      BY <1>t, <2>1, <3>1 DEF Queued
    <3>2. CASE ~shutDown
      BY <1>t, <2>1, <2>2, <2>3, <3>2, AppendedProperty DEF Queued
    <3> QED BY <3>1, <3>2
  <2>6. "SCHEDULED" \in state[u] /\ (~shutDown => "COMPLETE" \notin state[u])
    BY <1>t, <2>1, <2>3 DEF FlagsTell, TurnFlags
  <2>p1. QueueFlags'
    BY <1>t, <2>1, <2>5, <2>6 DEF FlagsTell, QueueFlags
  <2>p2. TurnFlags'
    BY <1>t, <2>1, <2>4 DEF FlagsTell, TurnFlags
  <2>p3. RunningFlag'
    BY <1>t, <2>1 DEF FlagsTell, RunningFlag, TurnPCs
  <2>p4. ScheduledFlag'
    BY <1>t, <2>1, <2>3, <2>4, <2>5 DEF FlagsTell, ScheduledFlag
  <2> QED BY <2>p1, <2>p2, <2>p3, <2>p4 DEF FlagsTell
<1>7. ASSUME NEW a \in Actors, Unpark(a) PROVE FlagsTell'
  BY <1>7, <1>t DEF Unpark, Goto, Resume, Loop, taskVars, sharedVars, joinVars, localVars,
                   FlagsTell, QueueFlags, TurnFlags, RunningFlag, ScheduledFlag, HasTurn,
                   Queued, TurnPCs, OpenPCs
<1>8. ASSUME NEW r \in Runners, Register(r) PROVE FlagsTell'
  BY <1>8, <1>t DEF Register, Goto, Loop, taskVars, joinVars, localVars, FlagsTell,
                   QueueFlags, TurnFlags, RunningFlag, ScheduledFlag, HasTurn, Queued,
                   TurnPCs, OpenPCs
<1>9. ASSUME NEW r \in Runners, LookMain(r) PROVE FlagsTell'
  BY <1>9, <1>t DEF LookMain, Goto, taskVars, sharedVars, joinVars, localVars, FlagsTell,
                   QueueFlags, TurnFlags, RunningFlag, ScheduledFlag, HasTurn, Queued,
                   TurnPCs, OpenPCs
<1>10. ASSUME NEW r \in Runners, PollMain(r) PROVE FlagsTell'
  BY <1>10, <1>t DEF PollMain, Goto, taskVars, sharedVars, joinVars, localVars, FlagsTell,
                    QueueFlags, TurnFlags, RunningFlag, ScheduledFlag, HasTurn, Queued,
                    TurnPCs, OpenPCs
<1>11. ASSUME NEW r \in Runners, NextTask(r) PROVE FlagsTell'
  <2>1. CASE queue # <<>>
    <3>1. /\ task' = [task EXCEPT ![r] = Head(queue)] /\ queue' = Tail(queue)
          /\ pc' = [pc EXCEPT ![r] = "begin"] /\ pc[r] = "next" /\ UNCHANGED <<state, shutDown>>
      BY <1>11, <2>1 DEF NextTask, Goto, taskVars
    <3>2. /\ Head(queue) \in ToSet(queue) /\ ToSet(queue) = ToSet(queue') \cup {Head(queue)}
          /\ Head(queue) \in Tasks
      BY <1>t, <2>1, <3>1, TailProperty
    <3>3. PICK h \in Tasks : h = Head(queue)
      BY <3>2
    <3>4. /\ task' = [task EXCEPT ![r] = h] /\ pc' = [pc EXCEPT ![r] = "begin"]
          /\ pc[r] = "next" /\ UNCHANGED <<state, shutDown>>
      BY <3>1, <3>3
    <3>5. Queued(h) /\ (\A u \in Tasks : Queued(u) <=> Queued(u)' \/ u = h)
      BY <3>2, <3>3 DEF Queued
    <3>6. /\ HasTurn(r, h)' /\ \A u \in Tasks : ~HasTurn(r, u) /\ (HasTurn(r, u)' => u = h)
          /\ \A b \in Actors : b # r => pc'[b] = pc[b] /\ task'[b] = task[b]
          /\ \A b \in Actors : b # r => \A u \in Tasks : HasTurn(b, u)' <=> HasTurn(b, u)
      BY ONLY <1>t, <3>4, r \in Runners DEF HasTurn, TurnPCs
    <3>7. r \in Actors /\ pc'[r] = "begin" /\ pc[r] = "next"
      BY <1>t, <3>4
    <3>8. "SCHEDULED" \in state[h] /\ "COMPLETE" \notin state[h]
      BY <1>t, <3>5 DEF FlagsTell, QueueFlags
    <3> HIDE <2>1, <1>11, <3>1
    <3>a. QueueFlags'
      BY <1>t, <3>4, <3>5 DEF FlagsTell, QueueFlags
    <3>b. TurnFlags'
      BY <1>t, <3>4, <3>6, <3>7, <3>8 DEF FlagsTell, TurnFlags
    <3>c. RunningFlag'
      BY <1>t, <3>4, <3>6, <3>7 DEF FlagsTell, RunningFlag
    <3>d. ScheduledFlag'
      BY <1>t, <3>4, <3>5, <3>6, <3>7 DEF FlagsTell, ScheduledFlag
    <3> QED BY <3>a, <3>b, <3>c, <3>d DEF FlagsTell
  <2>2. CASE queue = <<>>
    <3>1. /\ pc' = [pc EXCEPT ![r] = "decide"] /\ pc[r] = "next"
          /\ UNCHANGED <<queue, task, state, shutDown>>
      BY <1>11, <2>2 DEF NextTask, Goto, taskVars
    <3> QED BY <1>t, <3>1 DEF FlagsTell, QueueFlags, TurnFlags, RunningFlag, ScheduledFlag,
               HasTurn, Queued, TurnPCs, OpenPCs
  <2> QED BY <2>1, <2>2
<1>12. ASSUME NEW r \in Runners, Decide(r) PROVE FlagsTell'
  BY <1>12, <1>t DEF Decide, Goto, taskVars, sharedVars, joinVars, localVars, FlagsTell,
                    QueueFlags, TurnFlags, RunningFlag, ScheduledFlag, HasTurn, Queued,
                    TurnPCs, OpenPCs
<1>13. ASSUME NEW r \in Runners, Parked(r) PROVE FlagsTell'
  BY <1>13, <1>t DEF Parked, Goto, taskVars, sharedVars, joinVars, localVars, FlagsTell,
                    QueueFlags, TurnFlags, RunningFlag, ScheduledFlag, HasTurn, Queued,
                    TurnPCs, OpenPCs
<1>14. ASSUME NEW r \in Runners, ParkTimeout(r) PROVE FlagsTell'
  BY <1>14, <1>t DEF ParkTimeout, Goto, taskVars, sharedVars, joinVars, localVars,
                    FlagsTell, QueueFlags, TurnFlags, RunningFlag, ScheduledFlag, HasTurn,
                    Queued, TurnPCs, OpenPCs
<1>15. ASSUME NEW r \in Runners, SetBusy(r) PROVE FlagsTell'
  BY <1>15, <1>t DEF SetBusy, Goto, Loop, taskVars, joinVars, localVars, FlagsTell,
                    QueueFlags, TurnFlags, RunningFlag, ScheduledFlag, HasTurn, Queued,
                    TurnPCs, OpenPCs
<1>16. ASSUME NEW r \in Runners, Begin(r) PROVE FlagsTell'
  <2>1. /\ pc[r] = "begin" /\ task[r] \in Tasks /\ UNCHANGED <<queue, task, shutDown>>
        /\ pc' = [pc EXCEPT ![r] = IF "ABORTED" \in state[task[r]] THEN "abort" ELSE "poll"]
        /\ state' = [state EXCEPT ![task[r]] = (@ \ {"SCHEDULED"}) \cup {"RUNNING"}]
    BY <1>16, <1>t, BeginEffect DEF sharedVars
  <2>2. PICK u \in Tasks : task[r] = u
    BY <2>1
  <2>3. /\ \A v \in Tasks : v # u => state'[v] = state[v]
        /\ state'[u] = (state[u] \ {"SCHEDULED"}) \cup {"RUNNING"}
        /\ pc'[r] \in {"abort", "poll"} /\ \A b \in Actors : b # r => pc'[b] = pc[b]
    BY <1>t, <2>1, <2>2
  <2>4. HasTurn(r, u) /\ ~Queued(u) /\ \A b \in Actors : HasTurn(b, u) => b = r
    BY <1>t, <2>1, <2>2 DEF HasTurn, TurnPCs, TurnsOnce
  <2>5. \A b \in Actors : \A v \in Tasks : HasTurn(b, v)' <=> HasTurn(b, v)
    BY <1>t, <2>1, <2>3 DEF HasTurn, TurnPCs
  <2>6. \A v \in Tasks : HasTurn(r, v) => v = u
    BY <2>2 DEF HasTurn
  <2>7. Queued(u)' <=> Queued(u)
    BY <2>1 DEF Queued
  <2>p1. QueueFlags'
    BY <1>t, <2>1, <2>3, <2>4, <2>7 DEF FlagsTell, QueueFlags, Queued
  <2>p2. TurnFlags'
    BY <1>t, <2>1, <2>2, <2>3, <2>4, <2>5, <2>6 DEF FlagsTell, TurnFlags, OpenPCs
  <2>p3. RunningFlag'
    BY <1>t, <2>1, <2>2, <2>3 DEF FlagsTell, RunningFlag
  <2>p4. ScheduledFlag'
    BY <1>t, <2>1, <2>3, <2>5 DEF FlagsTell, ScheduledFlag, Queued
  <2> QED BY <2>p1, <2>p2, <2>p3, <2>p4 DEF FlagsTell
<1>17. ASSUME NEW r \in Runners, CloneWaker(r) PROVE FlagsTell'
  BY <1>17, <1>t DEF CloneWaker, Cloned, sharedVars, joinVars, localVars, FlagsTell,
                    QueueFlags, TurnFlags, RunningFlag, ScheduledFlag, HasTurn, Queued,
                    TurnPCs, OpenPCs
<1>18. ASSUME NEW r \in Runners, PollReady(r) PROVE FlagsTell'
  BY <1>18, <1>t DEF PollReady, Goto, sharedVars, joinVars, localVars, FlagsTell,
                    QueueFlags, TurnFlags, RunningFlag, ScheduledFlag, HasTurn, Queued,
                    TurnPCs, OpenPCs
<1>19. ASSUME NEW r \in Runners, PollPending(r) PROVE FlagsTell'
  BY <1>19, <1>t DEF PollPending, Goto, taskVars, sharedVars, joinVars, localVars,
                    FlagsTell, QueueFlags, TurnFlags, RunningFlag, ScheduledFlag, HasTurn,
                    Queued, TurnPCs, OpenPCs
<1>20. ASSUME NEW r \in Runners, DropAborted(r) PROVE FlagsTell'
  BY <1>20, <1>t DEF DropAborted, Goto, Consumed, sharedVars, joinVars, localVars,
                    FlagsTell, QueueFlags, TurnFlags, RunningFlag, ScheduledFlag, HasTurn,
                    Queued, TurnPCs, OpenPCs
<1>21. ASSUME NEW r \in Runners, Yield(r) PROVE FlagsTell'
  <2>1. /\ pc[r] = "yield" /\ UNCHANGED <<queue, shutDown>>
        /\ state' = [state EXCEPT ![task[r]] = @ \ {"RUNNING"}]
        /\ \/ /\ "SCHEDULED" \in state[task[r]] /\ task' = task
              /\ pc' = [pc EXCEPT ![r] = "enqueue"]
           \/ /\ "SCHEDULED" \notin state[task[r]] /\ task' = [task EXCEPT ![r] = None]
              /\ pc' = [pc EXCEPT ![r] = IF r = Main THEN "main" ELSE "next"]
    BY <1>21 DEF Yield, AfterYield, Goto, Loop, sharedVars
  <2>2. PICK u \in Tasks : task[r] = u
    BY <1>t, <2>1 DEF PlacesOK, TurnPCs
  <2>3. HasTurn(r, u) /\ ~Queued(u) /\ \A b \in Actors : HasTurn(b, u) => b = r
    BY <1>t, <2>1, <2>2 DEF HasTurn, TurnPCs, TurnsOnce
  <2>4. /\ r \in Actors /\ \A b \in Actors : b # r => pc'[b] = pc[b] /\ task'[b] = task[b]
        /\ \A b \in Actors : b # r => \A v \in Tasks : HasTurn(b, v)' <=> HasTurn(b, v)
    BY <1>t, <2>1 DEF HasTurn
  <2>5. \A v \in Tasks : HasTurn(r, v) => v = u
    BY <2>2 DEF HasTurn
  <2>6. /\ \A v \in Tasks : v # u => state'[v] = state[v]
        /\ state'[u] = state[u] \ {"RUNNING"}
        /\ \/ "SCHEDULED" \in state[u] /\ task'[r] = u /\ pc'[r] = "enqueue"
           \/ "SCHEDULED" \notin state[u] /\ pc'[r] \in {"main", "next"}
    BY <1>t, <2>1, <2>2
  <2>7. /\ \A v \in Tasks : Queued(v)' <=> Queued(v)
        /\ \A v \in Tasks : HasTurn(r, v)' => v = u /\ pc'[r] = "enqueue"
        /\ "SCHEDULED" \in state[u] => HasTurn(r, u)'
        /\ "COMPLETE" \notin state[u]
    BY <1>t, <2>1, <2>3, <2>4, <2>6 DEF Queued, HasTurn, TurnPCs, FlagsTell, TurnFlags, OpenPCs
  <2>p1. QueueFlags'
    BY <1>t, <2>3, <2>6, <2>7 DEF FlagsTell, QueueFlags
  <2>p2. TurnFlags'
    BY <1>t, <2>1, <2>3, <2>4, <2>6, <2>7 DEF FlagsTell, TurnFlags, OpenPCs
  <2>p3. RunningFlag'
    BY <1>t, <2>2, <2>4, <2>6 DEF FlagsTell, RunningFlag
  <2>p4. ScheduledFlag'
    BY <1>t, <2>1, <2>3, <2>4, <2>5, <2>6, <2>7 DEF FlagsTell, ScheduledFlag
  <2> QED BY <2>p1, <2>p2, <2>p3, <2>p4 DEF FlagsTell
<1>22. ASSUME NEW r \in Runners, Finish(r) PROVE FlagsTell'
  <2>1. /\ pc[r] = "finish" /\ UNCHANGED <<queue, shutDown, task>>
        /\ state' = [state EXCEPT ![task[r]] = (@ \ {"RUNNING", "SCHEDULED"}) \cup {"COMPLETE"}]
        /\ pc' = [pc EXCEPT ![r] = "finished"]
    BY <1>22 DEF Finish, Goto
  <2>2. PICK u \in Tasks : task[r] = u
    BY <1>t, <2>1 DEF PlacesOK, TurnPCs
  <2>3. HasTurn(r, u) /\ ~Queued(u) /\ \A b \in Actors : HasTurn(b, u) => b = r
    BY <1>t, <2>1, <2>2 DEF HasTurn, TurnPCs, TurnsOnce
  <2>4. /\ r \in Actors /\ \A b \in Actors : b # r => pc'[b] = pc[b] /\ task'[b] = task[b]
        /\ \A b \in Actors : b # r => \A v \in Tasks : HasTurn(b, v)' <=> HasTurn(b, v)
    BY <1>t, <2>1 DEF HasTurn
  <2>5. \A v \in Tasks : HasTurn(r, v) => v = u
    BY <2>2 DEF HasTurn
  <2>6. /\ \A v \in Tasks : v # u => state'[v] = state[v]
        /\ "COMPLETE" \in state'[u] /\ pc'[r] = "finished"
    BY <1>t, <2>1, <2>2
  <2>7. /\ \A v \in Tasks : Queued(v)' <=> Queued(v)
        /\ \A v \in Tasks : HasTurn(r, v)' => v = u
    BY <1>t, <2>1, <2>2 DEF Queued, HasTurn
  <2>p1. QueueFlags'
    BY <1>t, <2>3, <2>6, <2>7 DEF FlagsTell, QueueFlags
  <2>p2. TurnFlags'
    BY <1>t, <2>1, <2>3, <2>4, <2>6, <2>7 DEF FlagsTell, TurnFlags, OpenPCs
  <2>p3. RunningFlag'
    BY <1>t, <2>2, <2>4, <2>6 DEF FlagsTell, RunningFlag
  <2>p4. ScheduledFlag'
    BY <1>t, <2>1, <2>3, <2>4, <2>5, <2>6, <2>7 DEF FlagsTell, ScheduledFlag
  <2> QED BY <2>p1, <2>p2, <2>p3, <2>p4 DEF FlagsTell
<1>23. ASSUME NEW r \in Runners, FinishDrop(r) PROVE FlagsTell'
  BY <1>23, <1>t DEF FinishDrop, FinishedStage, Consumed, Goto, sharedVars, joinVars,
                    localVars, FlagsTell, QueueFlags, TurnFlags, RunningFlag, ScheduledFlag,
                    HasTurn, Queued, TurnPCs, OpenPCs
<1>24. ASSUME NEW r \in Runners, WakeJoin(r) PROVE FlagsTell'
  BY <1>24, <1>t DEF WakeJoin, Release, Goto, Loop, sharedVars, FlagsTell, QueueFlags,
                    TurnFlags, RunningFlag, ScheduledFlag, HasTurn, Queued, TurnPCs, OpenPCs
<1>25. ASSUME NEW r \in Runners, Leave(r) PROVE FlagsTell'
  BY <1>25, <1>t DEF Leave, Goto, taskVars, joinVars, localVars, FlagsTell, QueueFlags,
                    TurnFlags, RunningFlag, ScheduledFlag, HasTurn, Queued, TurnPCs, OpenPCs
<1>26. ASSUME NEW r \in Runners, ShutDown(r) PROVE FlagsTell'
  BY <1>26, <1>t DEF ShutDown, Goto, taskVars, joinVars, FlagsTell, QueueFlags, TurnFlags,
                    RunningFlag, ScheduledFlag, HasTurn, Queued, TurnPCs, OpenPCs
<1>27. ASSUME NEW r \in Runners, DrainQueue(r) PROVE FlagsTell'
  <2>1. CASE queue # <<>>
    <3>1. queue' = Tail(queue) /\ pc[r] = "drainqueue" /\ UNCHANGED <<pc, task, state, shutDown>>
      BY <1>27, <2>1 DEF DrainQueue
    <3>2. ToSet(queue) = ToSet(queue') \cup {Head(queue)}
      BY <1>t, <2>1, <3>1, TailProperty
    <3>3. shutDown
      BY <1>t, <3>1 DEF EndOK
    <3> QED BY ONLY <1>t, <3>1, <3>2, <3>3 DEF FlagsTell, QueueFlags, TurnFlags, RunningFlag,
                    ScheduledFlag, HasTurn, Queued, TurnPCs, OpenPCs
  <2>2. CASE queue = <<>>
    <3>1. /\ pc' = [pc EXCEPT ![r] = "drainall"] /\ pc[r] = "drainqueue"
          /\ UNCHANGED <<queue, task, state, shutDown>>
      BY <1>27, <2>2 DEF DrainQueue, Goto
    <3> QED BY <1>t, <3>1 DEF FlagsTell, QueueFlags, TurnFlags, RunningFlag, ScheduledFlag,
               HasTurn, Queued, TurnPCs, OpenPCs
  <2> QED BY <2>1, <2>2
<1>28. ASSUME NEW r \in Runners, DrainMark(r) PROVE FlagsTell'
  <2>1. CASE drain = {}
    <3>1. /\ pc' = [pc EXCEPT ![r] = "ended"] /\ pc[r] = "drainall"
          /\ UNCHANGED <<queue, task, state, shutDown>>
      BY <1>28, <2>1 DEF DrainMark, Goto, sharedVars
    <3> QED BY <1>t, <3>1 DEF FlagsTell, QueueFlags, TurnFlags, RunningFlag, ScheduledFlag,
               HasTurn, Queued, TurnPCs, OpenPCs
  <2>2. ASSUME NEW u \in drain,
               /\ pc[r] = "drainall" /\ pc' = [pc EXCEPT ![r] = "drainstage"]
               /\ state' = [state EXCEPT ![u] = @ \cup {"COMPLETE"}]
               /\ task' = [task EXCEPT ![r] = u] /\ UNCHANGED <<queue, shutDown>>
        PROVE  FlagsTell'
    <3>1. /\ shutDown /\ queue = <<>> /\ u \in Tasks /\ \A s \in Runners : s = r
      BY <1>t, <2>2, Alone DEF EndOK, EndPCs
    <3>2. \A v \in Tasks : ~Queued(v)'
      BY <2>2, <3>1 DEF Queued, ToSet
    <3>3. \A v \in Tasks : state[v] \subseteq state'[v] /\ (v # u => state'[v] = state[v])
          /\ "COMPLETE" \in state'[u]
      BY <1>t, <2>2, <3>1
    <3>4. /\ \A b \in Actors : b # r => pc'[b] = pc[b] /\ task'[b] = task[b]
          /\ pc'[r] = "drainstage" /\ pc[r] = "drainall" /\ shutDown'
      BY <1>t, <2>2, <3>1
    <3>5. QueueFlags' /\ ScheduledFlag'
      BY <3>2, <3>4 DEF QueueFlags, ScheduledFlag
    <3>6. TurnFlags'
      <4>1. \A b \in Actors : pc[b] \in OpenPCs => b = r
        BY <1>t, <3>1 DEF PlacesOK, OpenPCs, HandlePCs
      <4> QED BY <1>t, <3>1, <3>3, <3>4, <4>1 DEF FlagsTell, TurnFlags, HasTurn, TurnPCs, OpenPCs
    <3>7. RunningFlag'
      BY <1>t, <3>3, <3>4 DEF FlagsTell, RunningFlag
    <3> QED BY <3>5, <3>6, <3>7 DEF FlagsTell
  <2> QED BY <1>28, <2>1, <2>2 DEF DrainMark, Goto, sharedVars
<1>29. ASSUME NEW r \in Runners, DrainStage(r) PROVE FlagsTell'
  BY <1>29, <1>t DEF DrainStage, Release, Consumed, Goto, sharedVars, joinVars, localVars,
                    FlagsTell, QueueFlags, TurnFlags, RunningFlag, ScheduledFlag, HasTurn,
                    Queued, TurnPCs, OpenPCs
<1>30. ASSUME NEW t \in Tasks, JoinPoll(t) PROVE FlagsTell'
  BY <1>30, <1>t DEF JoinPoll, Goto, taskVars, sharedVars, localVars, FlagsTell, QueueFlags,
                    TurnFlags, RunningFlag, ScheduledFlag, HasTurn, Queued, TurnPCs, OpenPCs
<1>31. ASSUME NEW t \in Tasks, JoinRegister(t) PROVE FlagsTell'
  BY <1>31, <1>t DEF JoinRegister, Goto, taskVars, sharedVars, localVars, FlagsTell,
                    QueueFlags, TurnFlags, RunningFlag, ScheduledFlag, HasTurn, Queued,
                    TurnPCs, OpenPCs
<1>32. ASSUME NEW t \in Tasks, JoinTake(t) PROVE FlagsTell'
  BY <1>32, <1>t DEF JoinTake, Goto, Consumed, sharedVars, joinVars, localVars, FlagsTell,
                    QueueFlags, TurnFlags, RunningFlag, ScheduledFlag, HasTurn, Queued,
                    TurnPCs, OpenPCs
<1>33. ASSUME NEW t \in Tasks, Abort(t) PROVE FlagsTell'
  <2>1. /\ pc[t] \in {"held", "pending"} /\ task' = task /\ UNCHANGED <<queue, shutDown>>
        /\ state' = [state EXCEPT ![t] = @ \cup {"ABORTED", "SCHEDULED"}]
        /\ pc' = [pc EXCEPT ![t] = IF Asleep(state[t]) THEN "enqueue" ELSE "detach"]
    BY <1>33 DEF Abort, Goto, sharedVars
  <2>2. /\ \A v \in Tasks : v # t => state'[v] = state[v]
        /\ state'[t] = state[t] \cup {"ABORTED", "SCHEDULED"} /\ t \in Actors
        /\ \A b \in Actors : b # t => pc'[b] = pc[b]
        /\ pc'[t] = IF Asleep(state[t]) THEN "enqueue" ELSE "detach"
        /\ task[t] = t /\ \A r \in Runners : r # t
    BY <1>t, <2>1 DEF PlacesOK
  <2>3. /\ \A b \in Actors : b # t => \A v \in Tasks : HasTurn(b, v)' <=> HasTurn(b, v)
        /\ \A v \in Tasks : ~HasTurn(t, v) /\ (HasTurn(t, v)' <=> v = t /\ Asleep(state[t]))
        /\ \A v \in Tasks : Queued(v)' <=> Queued(v)
    BY <1>t, <2>1, <2>2 DEF HasTurn, TurnPCs, Queued
  <2>4. \/ Asleep(state[t]) \/ "COMPLETE" \in state[t] \/ shutDown
        \/ Queued(t) \/ \E a \in Actors : HasTurn(a, t)
    BY <1>t DEF FlagsTell, ScheduledFlag, RunningFlag, HasTurn, TurnPCs, Asleep
  <2>p1. QueueFlags'
    BY <1>t, <2>2, <2>3 DEF FlagsTell, QueueFlags
  <2>p2. TurnFlags'
    BY <1>t, <2>1, <2>2, <2>3 DEF FlagsTell, TurnFlags, OpenPCs, Asleep
  <2>p3. RunningFlag'
    BY <1>t, <2>1, <2>2 DEF FlagsTell, RunningFlag
  <2>p4. ScheduledFlag'
    BY <1>t, <2>1, <2>2, <2>3, <2>4 DEF FlagsTell, ScheduledFlag
  <2> QED BY <2>p1, <2>p2, <2>p3, <2>p4 DEF FlagsTell
<1>34. ASSUME NEW t \in Tasks, DropHandle(t) PROVE FlagsTell'
  BY <1>34, <1>t DEF DropHandle, Goto, taskVars, sharedVars, joinVars, localVars, FlagsTell,
                    QueueFlags, TurnFlags, RunningFlag, ScheduledFlag, HasTurn, Queued,
                    TurnPCs, OpenPCs
<1>35. ASSUME NEW t \in Tasks, Detach(t) PROVE FlagsTell'
  BY <1>35, <1>t DEF Detach, DetachOwns, Goto, sharedVars, localVars, FlagsTell, QueueFlags,
                    TurnFlags, RunningFlag, ScheduledFlag, HasTurn, Queued, TurnPCs, OpenPCs
<1>36. ASSUME NEW t \in Tasks, DropOutput(t) PROVE FlagsTell'
  BY <1>36, <1>t DEF DropOutput, Goto, Consumed, sharedVars, joinVars, localVars, FlagsTell,
                    QueueFlags, TurnFlags, RunningFlag, ScheduledFlag, HasTurn, Queued,
                    TurnPCs, OpenPCs
<1>37. ASSUME NEW t \in Tasks, ReleaseHandle(t) PROVE FlagsTell'
  BY <1>37, <1>t DEF ReleaseHandle, Release, Goto, sharedVars, joinVars, localVars,
                    FlagsTell, QueueFlags, TurnFlags, RunningFlag, ScheduledFlag, HasTurn,
                    Queued, TurnPCs, OpenPCs
<1>38. CASE UNCHANGED vars
  BY <1>38, <1>t DEF vars, FlagsTell, QueueFlags, TurnFlags, RunningFlag, ScheduledFlag,
                    HasTurn, Queued, TurnPCs, OpenPCs
<1> QED BY <1>1, <1>2, <1>3, <1>4, <1>5, <1>6, <1>7, <1>8, <1>9, <1>10, <1>11, <1>12, <1>13,
      <1>14, <1>15, <1>16, <1>17, <1>18, <1>19, <1>20, <1>21, <1>22, <1>23, <1>24, <1>25,
      <1>26, <1>27, <1>28, <1>29, <1>30, <1>31, <1>32, <1>33, <1>34, <1>35, <1>36, <1>37,
      <1>38 DEF Next, ContextStep, RunnerStep, TurnStep, EndStep, PollStep, HandleStep

\* The handle's flag, the stage and the owner of the handle agree.
LEMMA HandlesStep ==
  ASSUME IInv, [Next]_vars PROVE HandlesTell'
<1>t. /\ pc \in [Actors -> PCs] /\ task \in [Actors -> Tasks \cup {None}]
      /\ state \in [Tasks -> SUBSET Flags] /\ queue \in Seq(Tasks) /\ drain \subseteq Tasks
      /\ refs \in [Tasks -> Nat] /\ DOMAIN stage = Tasks
      /\ Actors = Tasks \cup Contexts \cup Runners /\ None \notin Tasks
      /\ Tasks \cap Contexts = {} /\ Tasks \cap Runners = {} /\ Contexts \cap Runners = {}
      /\ IInv /\ TypeOK /\ HandlesTell /\ PlacesOK /\ RefsAdd
  BY Typing DEF IInv
<1>h. \A u \in Tasks : pc[u] = "none" =>
        /\ wakers[u] = 0 /\ u \notin ToSet(queue) /\ u \notin drain
        /\ \A a \in Actors : task[a] = u =>
             /\ pc[a] \notin {"enqueue", "begin", "poll", "abort", "yield", "finish",
                              "finished", "wakejoin"}
             /\ a \in Runners => pc[a] # "drainstage"
  <2> SUFFICES ASSUME NEW u \in Tasks, pc[u] = "none"
               PROVE  /\ wakers[u] = 0 /\ u \notin ToSet(queue) /\ u \notin drain
                      /\ \A a \in Actors : task[a] = u =>
                           /\ pc[a] \notin TurnPCs
                           /\ a \in Runners => pc[a] # "drainstage"
    BY DEF TurnPCs
  <2>1. ~Registered(u) /\ ~Turning(u) /\ wakers[u] = 0
    BY <1>t, Unspawned
  <2> QED BY <2>1 DEF Registered, Turning, Queued, HasTurn, Keeps, KeepPCs
<1>o. \A a \in Actors \ Tasks : pc[a] \in {"begin", "poll", "abort", "yield", "finish", "finished",
                                          "wakejoin", "drainstage"} => task[a] \in Tasks
  BY <1>t DEF PlacesOK, TurnPCs
<1>1. ASSUME NEW x \in Contexts, NEW t \in Tasks, Spawn(x, t) PROVE HandlesTell'
  <2>1. /\ pc[x] = "idle" /\ pc[t] = "none" /\ \A a \in Actors \ {x, t} : pc'[a] = pc[a]
        /\ pc'[t] \in {"held", "detach"}
        /\ state' = [state EXCEPT ![t] = {"SCHEDULED", "HANDLE"}
                                         \cup IF shutDown THEN {"COMPLETE"} ELSE {}]
        /\ refs' = [refs EXCEPT ![t] = IF shutDown THEN 1 ELSE 3]
        /\ stage' = [stage EXCEPT ![t] = IF shutDown THEN "consumed" ELSE "future"]
    BY <1>1, <1>t, SpawnEffect
  <2> QED BY <1>t, <2>1 DEF HandlesTell, HandleUpPCs
<1>2. ASSUME NEW x \in Contexts, NEW t \in Tasks, Wake(x, t) PROVE HandlesTell'
  BY <1>2, <1>t, <1>h, <1>o DEF Wake, SetScheduled, Asleep, Goto, Release, sharedVars,
                               joinVars, localVars, HandlesTell, HandleUpPCs
<1>3. ASSUME NEW x \in Contexts, NEW t \in Tasks, WakeByRef(x, t) PROVE HandlesTell'
  BY <1>3, <1>t, <1>h, <1>o DEF WakeByRef, SetScheduled, Asleep, Goto, Cloned, sharedVars,
                               joinVars, localVars, HandlesTell, HandleUpPCs
<1>4. ASSUME NEW x \in Contexts, NEW t \in Tasks, DropWaker(x, t) PROVE HandlesTell'
  BY <1>4, <1>t, <1>h, <1>o DEF DropWaker, Release, sharedVars, joinVars, localVars,
                               HandlesTell, HandleUpPCs
<1>5. ASSUME NEW x \in Contexts, WakeMain(x) PROVE HandlesTell'
  BY <1>5, <1>t, <1>h, <1>o DEF WakeMain, Goto, taskVars, sharedVars, joinVars, localVars,
                               HandlesTell, HandleUpPCs
<1>6. ASSUME NEW a \in Actors, Enqueue(a) PROVE HandlesTell'
  <2>0. a \in Tasks => pc'[a] \in {"unpark", "detach"}
    BY <1>6, <1>t, EnqueueEffect
  <2>1. /\ pc[a] = "enqueue" /\ \A b \in Actors \ {a} : pc'[b] = pc[b]
        /\ state' = state
        /\ IF shutDown THEN Release(task[a], 1, stage) ELSE UNCHANGED <<refs, stage>>
    BY <1>6, <1>t, EnqueueEffect
  <2>2. PICK t \in Tasks : task[a] = t
    BY <1>t, <2>1 DEF PlacesOK, TurnPCs
  <2>3. a \in Actors /\ pc[t] # "none" /\ stage[t] # "none"
    BY <1>t, <1>h, <2>1, <2>2 DEF HandlesTell
  <2>4. /\ \A u \in Tasks : u # t => refs'[u] = refs[u]
        /\ \A u \in Tasks : stage'[u] = "none" <=> stage[u] = "none"
    BY <1>t, <2>1, <2>2, <2>3 DEF Release
  <2>5. \A u \in Tasks : pc'[u] = pc[u] \/ (pc[u] = "enqueue" /\ pc'[u] \in {"unpark", "detach"})
    BY <1>t, <2>0, <2>1
  <2>6. HandlesTell /\ state' = state
    BY <1>t, <2>1
  <2> QED BY ONLY <2>3, <2>4, <2>5, <2>6 DEF HandlesTell, HandleUpPCs
<1>7. ASSUME NEW a \in Actors, Unpark(a) PROVE HandlesTell'
  BY <1>7, <1>t, <1>h, <1>o DEF Unpark, Goto, Resume, Loop, taskVars, sharedVars, joinVars,
                               localVars, HandlesTell, HandleUpPCs
<1>8. ASSUME NEW r \in Runners, Register(r) PROVE HandlesTell'
  BY <1>8, <1>t, <1>h, <1>o DEF Register, Goto, Loop, taskVars, joinVars, localVars,
                               HandlesTell, HandleUpPCs
<1>9. ASSUME NEW r \in Runners, LookMain(r) PROVE HandlesTell'
  BY <1>9, <1>t, <1>h, <1>o DEF LookMain, Goto, taskVars, sharedVars, joinVars, localVars,
                               HandlesTell, HandleUpPCs
<1>10. ASSUME NEW r \in Runners, PollMain(r) PROVE HandlesTell'
  BY <1>10, <1>t, <1>h, <1>o DEF PollMain, Goto, taskVars, sharedVars, joinVars, localVars,
                                HandlesTell, HandleUpPCs
<1>11. ASSUME NEW r \in Runners, NextTask(r) PROVE HandlesTell'
  BY <1>11, <1>t, <1>h, <1>o DEF NextTask, Goto, taskVars, joinVars, localVars, HandlesTell,
                                HandleUpPCs
<1>12. ASSUME NEW r \in Runners, Decide(r) PROVE HandlesTell'
  BY <1>12, <1>t, <1>h, <1>o DEF Decide, Goto, taskVars, sharedVars, joinVars, localVars,
                                HandlesTell, HandleUpPCs
<1>13. ASSUME NEW r \in Runners, Parked(r) PROVE HandlesTell'
  BY <1>13, <1>t, <1>h, <1>o DEF Parked, Goto, taskVars, sharedVars, joinVars, localVars,
                                HandlesTell, HandleUpPCs
<1>14. ASSUME NEW r \in Runners, ParkTimeout(r) PROVE HandlesTell'
  BY <1>14, <1>t, <1>h, <1>o DEF ParkTimeout, Goto, taskVars, sharedVars, joinVars,
                                localVars, HandlesTell, HandleUpPCs
<1>15. ASSUME NEW r \in Runners, SetBusy(r) PROVE HandlesTell'
  BY <1>15, <1>t, <1>h, <1>o DEF SetBusy, Goto, Loop, taskVars, joinVars, localVars,
                                HandlesTell, HandleUpPCs
<1>16. ASSUME NEW r \in Runners, Begin(r) PROVE HandlesTell'
  <2>1. /\ pc[r] = "begin" /\ task[r] \in Tasks /\ UNCHANGED <<refs, stage>>
        /\ pc' = [pc EXCEPT ![r] = IF "ABORTED" \in state[task[r]] THEN "abort" ELSE "poll"]
        /\ state' = [state EXCEPT ![task[r]] = (@ \ {"SCHEDULED"}) \cup {"RUNNING"}]
    BY <1>16, <1>t, BeginEffect
  <2> QED BY <1>t, <1>h, <2>1 DEF HandlesTell, HandleUpPCs
<1>17. ASSUME NEW r \in Runners, CloneWaker(r) PROVE HandlesTell'
  BY <1>17, <1>t, <1>h, <1>o DEF CloneWaker, Cloned, sharedVars, joinVars, localVars,
                                HandlesTell, HandleUpPCs
<1>18. ASSUME NEW r \in Runners, PollReady(r) PROVE HandlesTell'
  BY <1>18, <1>t, <1>h, <1>o DEF PollReady, Goto, sharedVars, joinVars, localVars,
                                HandlesTell, HandleUpPCs
<1>19. ASSUME NEW r \in Runners, PollPending(r) PROVE HandlesTell'
  BY <1>19, <1>t, <1>h, <1>o DEF PollPending, Goto, taskVars, sharedVars, joinVars,
                                localVars, HandlesTell, HandleUpPCs
<1>20. ASSUME NEW r \in Runners, DropAborted(r) PROVE HandlesTell'
  BY <1>20, <1>t, <1>h, <1>o DEF DropAborted, Goto, Consumed, sharedVars, joinVars,
                                localVars, HandlesTell, HandleUpPCs
<1>21. ASSUME NEW r \in Runners, Yield(r) PROVE HandlesTell'
  BY <1>21, <1>t, <1>h, <1>o DEF Yield, AfterYield, Goto, Release, Loop, sharedVars,
                                joinVars, localVars, HandlesTell, HandleUpPCs
<1>22. ASSUME NEW r \in Runners, Finish(r) PROVE HandlesTell'
  BY <1>22, <1>t, <1>h, <1>o DEF Finish, Goto, HandlesTell, HandleUpPCs
<1>23. ASSUME NEW r \in Runners, FinishDrop(r) PROVE HandlesTell'
  BY <1>23, <1>t, <1>h, <1>o DEF FinishDrop, FinishedStage, Consumed, Goto, sharedVars,
                                joinVars, localVars, HandlesTell, HandleUpPCs
<1>24. ASSUME NEW r \in Runners, WakeJoin(r) PROVE HandlesTell'
  BY <1>24, <1>t, <1>h, <1>o DEF WakeJoin, Release, Goto, Loop, sharedVars, HandlesTell,
                                HandleUpPCs
<1>25. ASSUME NEW r \in Runners, Leave(r) PROVE HandlesTell'
  BY <1>25, <1>t, <1>h, <1>o DEF Leave, Goto, taskVars, joinVars, localVars, HandlesTell,
                                HandleUpPCs
<1>26. ASSUME NEW r \in Runners, ShutDown(r) PROVE HandlesTell'
  BY <1>26, <1>t, <1>h, <1>o DEF ShutDown, Goto, taskVars, joinVars, HandlesTell,
                                HandleUpPCs
<1>27. ASSUME NEW r \in Runners, DrainQueue(r) PROVE HandlesTell'
  <2>1. CASE queue # <<>>
    <3>1. /\ pc[r] = "drainqueue" /\ UNCHANGED <<pc, state>> /\ Release(Head(queue), 1, stage)
          /\ Head(queue) \in Tasks /\ Head(queue) \in ToSet(queue)
      BY <1>27, <1>t, <2>1, TailProperty DEF DrainQueue
    <3>2. PICK h \in Tasks : h = Head(queue) /\ h \in ToSet(queue)
      BY <3>1
    <3>3. pc[h] # "none" /\ Release(h, 1, stage)
      BY <1>h, <3>1, <3>2
    <3> QED BY ONLY <1>t, <3>1, <3>3, h \in Tasks DEF HandlesTell, HandleUpPCs, Release
  <2>2. CASE queue = <<>>
    <3>1. pc' = [pc EXCEPT ![r] = "drainall"] /\ UNCHANGED <<state, refs, stage>>
      BY <1>27, <2>2 DEF DrainQueue, Goto
    <3> QED BY <1>t, <3>1 DEF HandlesTell, HandleUpPCs
  <2> QED BY <2>1, <2>2
<1>28. ASSUME NEW r \in Runners, DrainMark(r) PROVE HandlesTell'
  <2>1. UNCHANGED <<refs, stage>> /\ \A u \in Tasks : pc'[u] = pc[u]
    BY <1>28, <1>t DEF DrainMark, Goto
  <2>2. \A u \in Tasks :
          state'[u] = state[u] \/ (u \in drain /\ state'[u] = state[u] \cup {"COMPLETE"})
    BY <1>28, <1>t DEF DrainMark
  <2> QED BY <1>t, <1>h, <2>1, <2>2 DEF HandlesTell, HandleUpPCs
<1>29. ASSUME NEW r \in Runners, DrainStage(r) PROVE HandlesTell'
  BY <1>29, <1>t, <1>h, <1>o DEF DrainStage, Release, Consumed, Goto, sharedVars, joinVars,
                                localVars, HandlesTell, HandleUpPCs
<1>30. ASSUME NEW t \in Tasks, JoinPoll(t) PROVE HandlesTell'
  BY <1>30, <1>t, <1>h, <1>o DEF JoinPoll, Goto, taskVars, sharedVars, localVars,
                                HandlesTell, HandleUpPCs
<1>31. ASSUME NEW t \in Tasks, JoinRegister(t) PROVE HandlesTell'
  BY <1>31, <1>t, <1>h, <1>o DEF JoinRegister, Goto, taskVars, sharedVars, localVars,
                                HandlesTell, HandleUpPCs
<1>32. ASSUME NEW t \in Tasks, JoinTake(t) PROVE HandlesTell'
  BY <1>32, <1>t, <1>h, <1>o DEF JoinTake, Goto, Consumed, sharedVars, joinVars, localVars,
                                HandlesTell, HandleUpPCs
<1>33. ASSUME NEW t \in Tasks, Abort(t) PROVE HandlesTell'
  BY <1>33, <1>t, <1>h, <1>o DEF Abort, Asleep, Cloned, Goto, sharedVars, joinVars,
                                localVars, HandlesTell, HandleUpPCs
<1>34. ASSUME NEW t \in Tasks, DropHandle(t) PROVE HandlesTell'
  BY <1>34, <1>t, <1>h, <1>o DEF DropHandle, Goto, taskVars, sharedVars, joinVars,
                                localVars, HandlesTell, HandleUpPCs
<1>35. ASSUME NEW t \in Tasks, Detach(t) PROVE HandlesTell'
  BY <1>35, <1>t, <1>h, <1>o DEF Detach, DetachOwns, Goto, sharedVars, localVars,
                                HandlesTell, HandleUpPCs
<1>36. ASSUME NEW t \in Tasks, DropOutput(t) PROVE HandlesTell'
  BY <1>36, <1>t, <1>h, <1>o DEF DropOutput, Goto, Consumed, sharedVars, joinVars,
                                localVars, HandlesTell, HandleUpPCs
<1>37. ASSUME NEW t \in Tasks, ReleaseHandle(t) PROVE HandlesTell'
  BY <1>37, <1>t, <1>h, <1>o DEF ReleaseHandle, Release, Goto, sharedVars, joinVars,
                                localVars, HandlesTell, HandleUpPCs
<1>38. CASE UNCHANGED vars
  BY <1>38, <1>t, <1>h, <1>o DEF vars, HandlesTell, HandleUpPCs
<1> QED BY <1>1, <1>2, <1>3, <1>4, <1>5, <1>6, <1>7, <1>8, <1>9, <1>10, <1>11, <1>12, <1>13,
      <1>14, <1>15, <1>16, <1>17, <1>18, <1>19, <1>20, <1>21, <1>22, <1>23, <1>24, <1>25,
      <1>26, <1>27, <1>28, <1>29, <1>30, <1>31, <1>32, <1>33, <1>34, <1>35, <1>36, <1>37,
      <1>38 DEF Next, ContextStep, RunnerStep, TurnStep, EndStep, PollStep, HandleStep

\* Only a task that is complete leaves the registry.
LEMMA OpenStep ==
  ASSUME IInv, [Next]_vars PROVE OpenKept'
<1>t. /\ pc \in [Actors -> PCs] /\ task \in [Actors -> Tasks \cup {None}]
      /\ state \in [Tasks -> SUBSET Flags] /\ all \subseteq Tasks /\ drain \subseteq Tasks
      /\ Actors = Tasks \cup Contexts \cup Runners /\ None \notin Tasks
      /\ Tasks \cap Contexts = {} /\ Tasks \cap Runners = {} /\ Contexts \cap Runners = {}
      /\ IInv /\ TypeOK /\ HandlesTell /\ PlacesOK /\ EndOK /\ OpenKept
  BY Typing DEF IInv
<1>1. ASSUME NEW x \in Contexts, NEW t \in Tasks, Spawn(x, t) PROVE OpenKept'
  <2>1. /\ pc[x] = "idle" /\ \A a \in Actors \ {x, t} : pc'[a] = pc[a]
        /\ state' = [state EXCEPT ![t] = {"SCHEDULED", "HANDLE"}
                                         \cup IF shutDown THEN {"COMPLETE"} ELSE {}]
        /\ all' = (IF shutDown THEN all ELSE all \cup {t}) /\ drain' = drain
    BY <1>1, <1>t, SpawnEffect DEF localVars
  <2> QED BY <1>t, <2>1 DEF OpenKept
<1>2. ASSUME NEW x \in Contexts, NEW t \in Tasks, Wake(x, t) PROVE OpenKept'
  BY <1>2, <1>t DEF Wake, SetScheduled, Asleep, Goto, Release, sharedVars, joinVars,
                   localVars, OpenKept, PlacesOK, TurnPCs
<1>3. ASSUME NEW x \in Contexts, NEW t \in Tasks, WakeByRef(x, t) PROVE OpenKept'
  BY <1>3, <1>t DEF WakeByRef, SetScheduled, Asleep, Goto, Cloned, sharedVars, joinVars,
                   localVars, OpenKept, PlacesOK, TurnPCs
<1>4. ASSUME NEW x \in Contexts, NEW t \in Tasks, DropWaker(x, t) PROVE OpenKept'
  BY <1>4, <1>t DEF DropWaker, Release, sharedVars, joinVars, localVars, OpenKept, PlacesOK,
                   TurnPCs
<1>5. ASSUME NEW x \in Contexts, WakeMain(x) PROVE OpenKept'
  BY <1>5, <1>t DEF WakeMain, Goto, taskVars, sharedVars, joinVars, localVars, OpenKept,
                   PlacesOK, TurnPCs
<1>6. ASSUME NEW a \in Actors, Enqueue(a) PROVE OpenKept'
  <2>1. /\ pc[a] = "enqueue" /\ \A b \in Actors \ {a} : pc'[b] = pc[b]
        /\ UNCHANGED <<state, all, drain>>
    BY <1>6, <1>t, EnqueueEffect DEF localVars
  <2> QED BY <1>t, <2>1 DEF OpenKept
<1>7. ASSUME NEW a \in Actors, Unpark(a) PROVE OpenKept'
  BY <1>7, <1>t DEF Unpark, Goto, Resume, Loop, taskVars, sharedVars, joinVars, localVars,
                   OpenKept, PlacesOK, TurnPCs
<1>8. ASSUME NEW r \in Runners, Register(r) PROVE OpenKept'
  BY <1>8, <1>t DEF Register, Goto, Loop, taskVars, joinVars, localVars, OpenKept, PlacesOK,
                   TurnPCs
<1>9. ASSUME NEW r \in Runners, LookMain(r) PROVE OpenKept'
  BY <1>9, <1>t DEF LookMain, Goto, taskVars, sharedVars, joinVars, localVars, OpenKept,
                   PlacesOK, TurnPCs
<1>10. ASSUME NEW r \in Runners, PollMain(r) PROVE OpenKept'
  BY <1>10, <1>t DEF PollMain, Goto, taskVars, sharedVars, joinVars, localVars, OpenKept,
                    PlacesOK, TurnPCs
<1>11. ASSUME NEW r \in Runners, NextTask(r) PROVE OpenKept'
  BY <1>11, <1>t DEF NextTask, Goto, taskVars, joinVars, localVars, OpenKept, PlacesOK,
                    TurnPCs
<1>12. ASSUME NEW r \in Runners, Decide(r) PROVE OpenKept'
  BY <1>12, <1>t DEF Decide, Goto, taskVars, sharedVars, joinVars, localVars, OpenKept,
                    PlacesOK, TurnPCs
<1>13. ASSUME NEW r \in Runners, Parked(r) PROVE OpenKept'
  BY <1>13, <1>t DEF Parked, Goto, taskVars, sharedVars, joinVars, localVars, OpenKept,
                    PlacesOK, TurnPCs
<1>14. ASSUME NEW r \in Runners, ParkTimeout(r) PROVE OpenKept'
  BY <1>14, <1>t DEF ParkTimeout, Goto, taskVars, sharedVars, joinVars, localVars, OpenKept,
                    PlacesOK, TurnPCs
<1>15. ASSUME NEW r \in Runners, SetBusy(r) PROVE OpenKept'
  BY <1>15, <1>t DEF SetBusy, Goto, Loop, taskVars, joinVars, localVars, OpenKept, PlacesOK,
                    TurnPCs
<1>16. ASSUME NEW r \in Runners, Begin(r) PROVE OpenKept'
  <2>1. /\ task[r] \in Tasks /\ UNCHANGED <<all, drain>>
        /\ pc' = [pc EXCEPT ![r] = IF "ABORTED" \in state[task[r]] THEN "abort" ELSE "poll"]
        /\ state' = [state EXCEPT ![task[r]] = (@ \ {"SCHEDULED"}) \cup {"RUNNING"}]
    BY <1>16, <1>t, BeginEffect DEF sharedVars, localVars
  <2> QED BY <1>t, <2>1 DEF OpenKept
<1>17. ASSUME NEW r \in Runners, CloneWaker(r) PROVE OpenKept'
  BY <1>17, <1>t DEF CloneWaker, Cloned, sharedVars, joinVars, localVars, OpenKept,
                    PlacesOK, TurnPCs
<1>18. ASSUME NEW r \in Runners, PollReady(r) PROVE OpenKept'
  BY <1>18, <1>t DEF PollReady, Goto, sharedVars, joinVars, localVars, OpenKept, PlacesOK,
                    TurnPCs
<1>19. ASSUME NEW r \in Runners, PollPending(r) PROVE OpenKept'
  BY <1>19, <1>t DEF PollPending, Goto, taskVars, sharedVars, joinVars, localVars, OpenKept,
                    PlacesOK, TurnPCs
<1>20. ASSUME NEW r \in Runners, DropAborted(r) PROVE OpenKept'
  BY <1>20, <1>t DEF DropAborted, Goto, Consumed, sharedVars, joinVars, localVars, OpenKept,
                    PlacesOK, TurnPCs
<1>21. ASSUME NEW r \in Runners, Yield(r) PROVE OpenKept'
  BY <1>21, <1>t DEF Yield, AfterYield, Goto, Release, Loop, sharedVars, joinVars,
                    localVars, OpenKept, PlacesOK, TurnPCs
<1>22. ASSUME NEW r \in Runners, Finish(r) PROVE OpenKept'
  BY <1>22, <1>t DEF Finish, Goto, OpenKept, PlacesOK, TurnPCs
<1>23. ASSUME NEW r \in Runners, FinishDrop(r) PROVE OpenKept'
  BY <1>23, <1>t DEF FinishDrop, FinishedStage, Consumed, Goto, sharedVars, joinVars,
                    localVars, OpenKept, PlacesOK, TurnPCs
<1>24. ASSUME NEW r \in Runners, WakeJoin(r) PROVE OpenKept'
  BY <1>24, <1>t DEF WakeJoin, Release, Goto, Loop, sharedVars, OpenKept, PlacesOK, TurnPCs
<1>25. ASSUME NEW r \in Runners, Leave(r) PROVE OpenKept'
  BY <1>25, <1>t DEF Leave, Goto, taskVars, joinVars, localVars, OpenKept, PlacesOK, TurnPCs
<1>26. ASSUME NEW r \in Runners, ShutDown(r) PROVE OpenKept'
  BY <1>26, <1>t, Alone DEF ShutDown, Goto, taskVars, joinVars, OpenKept, EndOK, EndPCs
<1>27. ASSUME NEW r \in Runners, DrainQueue(r) PROVE OpenKept'
  BY <1>27, <1>t DEF DrainQueue, Goto, Release, joinVars, localVars, OpenKept, PlacesOK,
                    TurnPCs
<1>28. ASSUME NEW r \in Runners, DrainMark(r) PROVE OpenKept'
  BY <1>28, <1>t DEF DrainMark, Goto, sharedVars, OpenKept, PlacesOK, TurnPCs
<1>29. ASSUME NEW r \in Runners, DrainStage(r) PROVE OpenKept'
  BY <1>29, <1>t DEF DrainStage, Release, Consumed, Goto, sharedVars, joinVars, localVars,
                    OpenKept, PlacesOK, TurnPCs
<1>30. ASSUME NEW t \in Tasks, JoinPoll(t) PROVE OpenKept'
  BY <1>30, <1>t DEF JoinPoll, Goto, taskVars, sharedVars, localVars, OpenKept, PlacesOK,
                    TurnPCs
<1>31. ASSUME NEW t \in Tasks, JoinRegister(t) PROVE OpenKept'
  BY <1>31, <1>t DEF JoinRegister, Goto, taskVars, sharedVars, localVars, OpenKept,
                    PlacesOK, TurnPCs
<1>32. ASSUME NEW t \in Tasks, JoinTake(t) PROVE OpenKept'
  BY <1>32, <1>t DEF JoinTake, Goto, Consumed, sharedVars, joinVars, localVars, OpenKept,
                    PlacesOK, TurnPCs
<1>33. ASSUME NEW t \in Tasks, Abort(t) PROVE OpenKept'
  BY <1>33, <1>t DEF Abort, Asleep, Cloned, Goto, sharedVars, joinVars, localVars, OpenKept,
                    PlacesOK, TurnPCs
<1>34. ASSUME NEW t \in Tasks, DropHandle(t) PROVE OpenKept'
  BY <1>34, <1>t DEF DropHandle, Goto, taskVars, sharedVars, joinVars, localVars, OpenKept,
                    PlacesOK, TurnPCs
<1>35. ASSUME NEW t \in Tasks, Detach(t) PROVE OpenKept'
  BY <1>35, <1>t DEF Detach, DetachOwns, Goto, sharedVars, localVars, OpenKept, PlacesOK,
                    TurnPCs
<1>36. ASSUME NEW t \in Tasks, DropOutput(t) PROVE OpenKept'
  BY <1>36, <1>t DEF DropOutput, Goto, Consumed, sharedVars, joinVars, localVars, OpenKept,
                    PlacesOK, TurnPCs
<1>37. ASSUME NEW t \in Tasks, ReleaseHandle(t) PROVE OpenKept'
  BY <1>37, <1>t DEF ReleaseHandle, Release, Goto, sharedVars, joinVars, localVars,
                    OpenKept, PlacesOK, TurnPCs
<1>38. CASE UNCHANGED vars
  BY <1>38, <1>t DEF vars, OpenKept, PlacesOK, TurnPCs
<1> QED BY <1>1, <1>2, <1>3, <1>4, <1>5, <1>6, <1>7, <1>8, <1>9, <1>10, <1>11, <1>12, <1>13,
      <1>14, <1>15, <1>16, <1>17, <1>18, <1>19, <1>20, <1>21, <1>22, <1>23, <1>24, <1>25,
      <1>26, <1>27, <1>28, <1>29, <1>30, <1>31, <1>32, <1>33, <1>34, <1>35, <1>36, <1>37,
      <1>38 DEF Next, ContextStep, RunnerStep, TurnStep, EndStep, PollStep, HandleStep

\* Most steps hand references on, at most.
LEMMA StayStep ==
  ASSUME IInv,
         \/ \E x \in Contexts : WakeMain(x)
         \/ \E a \in Actors : Unpark(a)
         \/ \E r \in Runners :
              \/ Register(r) \/ LookMain(r) \/ PollMain(r) \/ NextTask(r) \/ Decide(r)
              \/ Parked(r) \/ ParkTimeout(r) \/ SetBusy(r) \/ Begin(r) \/ PollReady(r)
              \/ PollPending(r) \/ DropAborted(r) \/ Finish(r) \/ FinishDrop(r) \/ Leave(r)
              \/ ShutDown(r) \/ DrainMark(r)
         \/ \E t \in Tasks : \/ JoinPoll(t) \/ JoinRegister(t) \/ JoinTake(t) \/ DropHandle(t)
                             \/ Detach(t) \/ DropOutput(t)
         \/ UNCHANGED vars
  PROVE  RefsStay
<1>t. /\ pc \in [Actors -> PCs] /\ task \in [Actors -> Tasks \cup {None}]
      /\ state \in [Tasks -> SUBSET Flags] /\ all \subseteq Tasks /\ drain \subseteq Tasks
      /\ queue \in Seq(Tasks)
      /\ Actors = Tasks \cup Contexts \cup Runners /\ None \notin Tasks
      /\ Tasks \cap Contexts = {} /\ Tasks \cap Runners = {} /\ Contexts \cap Runners = {}
      /\ IInv /\ TypeOK /\ HandlesTell /\ PlacesOK /\ EndOK /\ TurnsOnce /\ KeptOnce /\ OpenKept
      /\ FlagsTell
  BY Typing DEF IInv
<1>1. ASSUME NEW x \in Contexts, WakeMain(x) PROVE RefsStay
  BY <1>1, <1>t DEF WakeMain, Goto, taskVars, sharedVars, joinVars, localVars, RefsStay,
                   Registered, Turning, Handled, Keeps, KeepPCs, HasTurn, TurnPCs, Queued
<1>2. ASSUME NEW a \in Actors, Unpark(a) PROVE RefsStay
  BY <1>2, <1>t DEF Unpark, Goto, Resume, Loop, taskVars, sharedVars, joinVars, localVars,
                   RefsStay, Registered, Turning, Handled, Keeps, KeepPCs, HasTurn, TurnPCs,
                   Queued
<1>3. ASSUME NEW r \in Runners, Register(r) PROVE RefsStay
  BY <1>3, <1>t DEF Register, Goto, Loop, taskVars, joinVars, localVars, RefsStay,
                   Registered, Turning, Handled, Keeps, KeepPCs, HasTurn, TurnPCs, Queued
<1>4. ASSUME NEW r \in Runners, LookMain(r) PROVE RefsStay
  BY <1>4, <1>t DEF LookMain, Goto, taskVars, sharedVars, joinVars, localVars, RefsStay,
                   Registered, Turning, Handled, Keeps, KeepPCs, HasTurn, TurnPCs, Queued
<1>5. ASSUME NEW r \in Runners, PollMain(r) PROVE RefsStay
  BY <1>5, <1>t DEF PollMain, Goto, taskVars, sharedVars, joinVars, localVars, RefsStay,
                   Registered, Turning, Handled, Keeps, KeepPCs, HasTurn, TurnPCs, Queued
<1>6. ASSUME NEW r \in Runners, NextTask(r) PROVE RefsStay
  <2>1. CASE queue # <<>>
    <3>1. /\ task' = [task EXCEPT ![r] = Head(queue)] /\ queue' = Tail(queue)
          /\ pc' = [pc EXCEPT ![r] = "begin"] /\ pc[r] = "next"
          /\ UNCHANGED <<refs, wakers, all, drain>>
      BY <1>6, <2>1 DEF NextTask, Goto, taskVars, localVars
    <3>2. /\ Head(queue) \in ToSet(queue) /\ ToSet(queue) = ToSet(queue') \cup {Head(queue)}
          /\ Head(queue) \in Tasks
      BY <1>t, <2>1, <3>1, TailProperty
    <3>3. PICK h \in Tasks : h = Head(queue)
      BY <3>2
    <3>4. task' = [task EXCEPT ![r] = h]
      BY <3>1, <3>3
    <3>5. \A u \in Tasks : Queued(u) <=> Queued(u)' \/ u = h
      BY <3>2, <3>3 DEF Queued
    <3> HIDE <2>1, <1>6
    <3>6. \A u \in Tasks : (\E a \in Actors : HasTurn(a, u)')
                             <=> u = h \/ \E a \in Actors : HasTurn(a, u)
      BY <1>t, <3>1, <3>4 DEF HasTurn, TurnPCs
    <3>7. \A u \in Tasks : Turning(u)' <=> Turning(u)
      BY <3>5, <3>6 DEF Turning
    <3>8. \A u \in Tasks : (Registered(u)' <=> Registered(u)) /\ (Handled(u)' <=> Handled(u))
      BY <1>t, <3>1, <3>4 DEF Registered, Keeps, KeepPCs, Handled
    <3> QED BY <3>1, <3>7, <3>8 DEF RefsStay
  <2>2. CASE queue = <<>>
    <3>1. /\ pc' = [pc EXCEPT ![r] = "decide"] /\ pc[r] = "next"
          /\ UNCHANGED <<queue, task, refs, wakers, all, drain>>
      BY <1>6, <2>2 DEF NextTask, Goto, taskVars, localVars
    <3> QED BY <1>t, <3>1 DEF RefsStay, Registered, Turning, Handled, Keeps, KeepPCs, HasTurn,
               TurnPCs, Queued
  <2> QED BY <2>1, <2>2
<1>7. ASSUME NEW r \in Runners, Decide(r) PROVE RefsStay
  BY <1>7, <1>t DEF Decide, Goto, taskVars, sharedVars, joinVars, localVars, RefsStay,
                   Registered, Turning, Handled, Keeps, KeepPCs, HasTurn, TurnPCs, Queued
<1>8. ASSUME NEW r \in Runners, Parked(r) PROVE RefsStay
  BY <1>8, <1>t DEF Parked, Goto, taskVars, sharedVars, joinVars, localVars, RefsStay,
                   Registered, Turning, Handled, Keeps, KeepPCs, HasTurn, TurnPCs, Queued
<1>9. ASSUME NEW r \in Runners, ParkTimeout(r) PROVE RefsStay
  BY <1>9, <1>t DEF ParkTimeout, Goto, taskVars, sharedVars, joinVars, localVars, RefsStay,
                   Registered, Turning, Handled, Keeps, KeepPCs, HasTurn, TurnPCs, Queued
<1>10. ASSUME NEW r \in Runners, SetBusy(r) PROVE RefsStay
  BY <1>10, <1>t DEF SetBusy, Goto, Loop, taskVars, joinVars, localVars, RefsStay,
                    Registered, Turning, Handled, Keeps, KeepPCs, HasTurn, TurnPCs, Queued
<1>11. ASSUME NEW r \in Runners, Begin(r) PROVE RefsStay
  <2>1. /\ pc[r] = "begin" /\ UNCHANGED <<refs, wakers, all, drain, queue, task>>
        /\ pc' = [pc EXCEPT ![r] = IF "ABORTED" \in state[task[r]] THEN "abort" ELSE "poll"]
    BY <1>11, <1>t, BeginEffect DEF sharedVars, localVars
  <2> QED BY <1>t, <2>1 DEF RefsStay, Registered, Turning, Handled, Keeps, KeepPCs, HasTurn,
             TurnPCs, Queued
<1>12. ASSUME NEW r \in Runners, PollReady(r) PROVE RefsStay
  BY <1>12, <1>t DEF PollReady, Goto, sharedVars, joinVars, localVars, RefsStay, Registered,
                    Turning, Handled, Keeps, KeepPCs, HasTurn, TurnPCs, Queued
<1>13. ASSUME NEW r \in Runners, PollPending(r) PROVE RefsStay
  BY <1>13, <1>t DEF PollPending, Goto, taskVars, sharedVars, joinVars, localVars, RefsStay,
                    Registered, Turning, Handled, Keeps, KeepPCs, HasTurn, TurnPCs, Queued
<1>14. ASSUME NEW r \in Runners, DropAborted(r) PROVE RefsStay
  BY <1>14, <1>t DEF DropAborted, Goto, Consumed, sharedVars, joinVars, localVars, RefsStay,
                    Registered, Turning, Handled, Keeps, KeepPCs, HasTurn, TurnPCs, Queued
<1>15. ASSUME NEW r \in Runners, Finish(r) PROVE RefsStay
  <2>1. /\ pc[r] = "finish" /\ pc' = [pc EXCEPT ![r] = "finished"] /\ all' = all \ {task[r]}
        /\ UNCHANGED <<queue, task, refs, wakers, drain>>
    BY <1>15 DEF Finish, Goto
  <2>2. PICK h \in Tasks : h = task[r]
    BY <1>t, <2>1 DEF PlacesOK, TurnPCs
  <2>3. h \in all \cup drain
    <3>1. "COMPLETE" \notin state[h]
      BY <1>t, <2>1, <2>2 DEF FlagsTell, TurnFlags, HasTurn, TurnPCs, OpenPCs
    <3>2. "RUNNING" \in state[h]
      BY <1>t, <2>1, <2>2 DEF FlagsTell, TurnFlags, HasTurn, TurnPCs
    <3>3. pc[h] # "none"
      BY <1>t, <3>2 DEF HandlesTell
    <3> QED BY <1>t, <3>1, <3>3 DEF OpenKept
  <2>4. \A u \in Tasks : Turning(u)' <=> Turning(u)
    BY <1>t, <2>1 DEF Turning, HasTurn, TurnPCs, Queued
  <2>5. \A u \in Tasks : (\E s \in Runners : Keeps(s, u)')
                           <=> u = h \/ \E s \in Runners : Keeps(s, u)
    BY <1>t, <2>1, <2>2 DEF Keeps, KeepPCs
  <2>6. \A u \in Tasks : Registered(u)' <=> Registered(u)
    BY <2>1, <2>2, <2>3, <2>5 DEF Registered
  <2>7. \A u \in Tasks : Handled(u)' <=> Handled(u)
    BY <1>t, <2>1 DEF Handled
  <2> QED BY <2>1, <2>4, <2>6, <2>7 DEF RefsStay
<1>16. ASSUME NEW r \in Runners, FinishDrop(r) PROVE RefsStay
  BY <1>16, <1>t DEF FinishDrop, FinishedStage, Consumed, Goto, sharedVars, joinVars,
                    localVars, RefsStay, Registered, Turning, Handled, Keeps, KeepPCs,
                    HasTurn, TurnPCs, Queued
<1>17. ASSUME NEW r \in Runners, Leave(r) PROVE RefsStay
  BY <1>17, <1>t DEF Leave, Goto, taskVars, joinVars, localVars, RefsStay, Registered,
                    Turning, Handled, Keeps, KeepPCs, HasTurn, TurnPCs, Queued
<1>18. ASSUME NEW r \in Runners, ShutDown(r) PROVE RefsStay
  <2>1. /\ pc[r] = "shutdown" /\ pc' = [pc EXCEPT ![r] = "drainqueue"]
        /\ drain' = all /\ all' = {} /\ UNCHANGED <<queue, task, refs, wakers>>
    BY <1>18 DEF ShutDown, Goto, taskVars
  <2>2. drain = {}
    BY <1>t, <2>1, Alone DEF EndOK, EndPCs
  <2>3. \A u \in Tasks : Turning(u)' <=> Turning(u)
    BY <1>t, <2>1 DEF Turning, HasTurn, TurnPCs, Queued
  <2> QED BY <1>t, <2>1, <2>2, <2>3 DEF RefsStay, Registered, Keeps, KeepPCs, Handled
<1>19. ASSUME NEW r \in Runners, DrainMark(r) PROVE RefsStay
  BY <1>19, <1>t DEF DrainMark, Goto, sharedVars, RefsStay, Registered, Turning, Handled,
                    Keeps, KeepPCs, HasTurn, TurnPCs, Queued
<1>20. ASSUME NEW t \in Tasks, JoinPoll(t) PROVE RefsStay
  BY <1>20, <1>t DEF JoinPoll, Goto, taskVars, sharedVars, localVars, RefsStay, Registered,
                    Turning, Handled, Keeps, KeepPCs, HasTurn, TurnPCs, Queued
<1>21. ASSUME NEW t \in Tasks, JoinRegister(t) PROVE RefsStay
  BY <1>21, <1>t DEF JoinRegister, Goto, taskVars, sharedVars, localVars, RefsStay,
                    Registered, Turning, Handled, Keeps, KeepPCs, HasTurn, TurnPCs, Queued
<1>22. ASSUME NEW t \in Tasks, JoinTake(t) PROVE RefsStay
  BY <1>22, <1>t DEF JoinTake, Goto, Consumed, sharedVars, joinVars, localVars, RefsStay,
                    Registered, Turning, Handled, Keeps, KeepPCs, HasTurn, TurnPCs, Queued
<1>23. ASSUME NEW t \in Tasks, DropHandle(t) PROVE RefsStay
  BY <1>23, <1>t DEF DropHandle, Goto, taskVars, sharedVars, joinVars, localVars, RefsStay,
                    Registered, Turning, Handled, Keeps, KeepPCs, HasTurn, TurnPCs, Queued
<1>24. ASSUME NEW t \in Tasks, Detach(t) PROVE RefsStay
  BY <1>24, <1>t DEF Detach, DetachOwns, Goto, sharedVars, localVars, RefsStay, Registered,
                    Turning, Handled, Keeps, KeepPCs, HasTurn, TurnPCs, Queued
<1>25. ASSUME NEW t \in Tasks, DropOutput(t) PROVE RefsStay
  BY <1>25, <1>t DEF DropOutput, Goto, Consumed, sharedVars, joinVars, localVars, RefsStay,
                    Registered, Turning, Handled, Keeps, KeepPCs, HasTurn, TurnPCs, Queued
<1>26. CASE UNCHANGED vars
  BY <1>26, <1>t DEF vars, RefsStay, Registered, Turning, Handled, Keeps, KeepPCs, HasTurn,
                    TurnPCs, Queued
<1> QED BY <1>1, <1>2, <1>3, <1>4, <1>5, <1>6, <1>7, <1>8, <1>9, <1>10, <1>11, <1>12, <1>13,
          <1>14, <1>15, <1>16, <1>17, <1>18, <1>19, <1>20, <1>21, <1>22, <1>23, <1>24,
          <1>25, <1>26

\* By how much the references to a task that somebody has change in a step, and
\* that the step leaves the other tasks alone.
Gain(t) ==
    (One(Registered(t)') - One(Registered(t))) + (One(Turning(t)') - One(Turning(t)))
  + (wakers'[t] - wakers[t]) + (One(Handled(t)') - One(Handled(t)))

Others(t) ==
  \A u \in Tasks \ {t} : /\ refs'[u] = refs[u] /\ wakers'[u] = wakers[u]
                         /\ Registered(u)' <=> Registered(u)
                         /\ Turning(u)' <=> Turning(u)
                         /\ Handled(u)' <=> Handled(u)

\* Where only one task's references change, and by as much as its count does,
\* the counts stay right.
LEMMA RefsChange ==
  ASSUME TypeOK, RefsAdd, NEW t \in Tasks, Others(t), refs'[t] - refs[t] = Gain(t),
         wakers'[t] \in Int, refs'[t] \in Int
  PROVE  RefsAdd'
<1>n. \A u \in Tasks : refs[u] \in Nat /\ wakers[u] \in Nat
  BY Typing
<1>1. refs'[t] = One(Registered(t)') + One(Turning(t)') + wakers'[t] + One(Handled(t)')
  <2>1. refs[t] = One(Registered(t)) + One(Turning(t)) + wakers[t] + One(Handled(t))
    BY DEF RefsAdd
  <2>2. /\ One(Registered(t)') \in Int /\ One(Registered(t)) \in Int
        /\ One(Turning(t)') \in Int /\ One(Turning(t)) \in Int
        /\ One(Handled(t)') \in Int /\ One(Handled(t)) \in Int
    BY DEF One
  <2> QED BY <1>n, <2>1, <2>2 DEF Gain
<1>2. ASSUME NEW u \in Tasks, u # t
      PROVE  refs'[u] = One(Registered(u)') + One(Turning(u)') + wakers'[u] + One(Handled(u)')
  <2>1. refs[u] = One(Registered(u)) + One(Turning(u)) + wakers[u] + One(Handled(u))
    BY DEF RefsAdd
  <2>2. /\ refs'[u] = refs[u] /\ wakers'[u] = wakers[u]
        /\ Registered(u)' <=> Registered(u)
        /\ Turning(u)' <=> Turning(u)
        /\ Handled(u)' <=> Handled(u)
    BY <1>2 DEF Others
  <2> QED BY <2>1, <2>2 DEF One
<1>3. RefsAdd' <=> \A u \in Tasks :
        refs'[u] = One(Registered(u)') + One(Turning(u)') + wakers'[u] + One(Handled(u)')
  BY DEF RefsAdd, One
<1> QED BY <1>1, <1>2, <1>3

\* Every step counts the references it takes and drops.
LEMMA RefsStep ==
  ASSUME IInv, [Next]_vars PROVE RefsAdd'
<1>t. /\ pc \in [Actors -> PCs] /\ task \in [Actors -> Tasks \cup {None}]
      /\ state \in [Tasks -> SUBSET Flags] /\ all \subseteq Tasks /\ drain \subseteq Tasks
      /\ queue \in Seq(Tasks)
      /\ Actors = Tasks \cup Contexts \cup Runners /\ None \notin Tasks
      /\ Tasks \cap Contexts = {} /\ Tasks \cap Runners = {} /\ Contexts \cap Runners = {}
      /\ IInv /\ TypeOK /\ HandlesTell /\ PlacesOK /\ EndOK /\ TurnsOnce /\ KeptOnce /\ OpenKept
      /\ FlagsTell /\ RefsAdd /\ refs \in [Tasks -> Nat] /\ wakers \in [Tasks -> 0 .. MaxWakers]
      /\ MaxWakers \in Nat
  BY Typing DEF IInv
<1>n. \A u \in Tasks : refs[u] \in Nat /\ wakers[u] \in Nat
  BY <1>t
<1>d. DOMAIN refs = Tasks /\ DOMAIN wakers = Tasks
  BY <1>t
<1>1. ASSUME NEW x \in Contexts, NEW t \in Tasks, Spawn(x, t) PROVE RefsAdd'
  <2>1. /\ pc[x] = "idle" /\ pc[t] = "none" /\ \A a \in Actors \ {x, t} : pc'[a] = pc[a]
        /\ pc'[x] \in {"idle", "unpark"} /\ pc'[t] \in {"held", "detach"}
        /\ UNCHANGED <<task, wakers, drain>>
        /\ refs' = [refs EXCEPT ![t] = IF shutDown THEN 1 ELSE 3]
        /\ all' = (IF shutDown THEN all ELSE all \cup {t})
        /\ queue' = (IF shutDown THEN queue ELSE Append(queue, t))
    BY <1>1, <1>t, SpawnEffect DEF localVars
  <2>2. ~Registered(t) /\ ~Turning(t) /\ ~Handled(t) /\ wakers[t] = 0
    BY <1>t, <2>1, Unspawned DEF Handled
  <2>3. \A u \in Tasks : Queued(u)' <=> Queued(u) \/ (u = t /\ ~shutDown)
    <3>1. CASE shutDown
      BY <1>t, <2>1, <3>1 DEF Queued
    <3>2. CASE ~shutDown
      BY <1>t, <2>1, <3>2, AppendedProperty DEF Queued
    <3> QED BY <3>1, <3>2
  <2>4. \A u \in Tasks : Turning(u)' <=> Turning(u) \/ (u = t /\ ~shutDown)
    <3>1. \A a \in Actors : \A u \in Tasks : HasTurn(a, u)' <=> HasTurn(a, u)
      BY <1>t, <2>1 DEF HasTurn, TurnPCs
    <3> QED BY <2>3, <3>1 DEF Turning
  <2>5. \A u \in Tasks : Registered(u)' <=> Registered(u) \/ (u = t /\ ~shutDown)
    <3>1. \A r \in Runners : \A u \in Tasks : Keeps(r, u)' <=> Keeps(r, u)
      BY <1>t, <2>1 DEF Keeps
    <3> QED BY <2>1, <3>1 DEF Registered
  <2>6. \A u \in Tasks : Handled(u)' <=> Handled(u) \/ u = t
    BY <1>t, <2>1 DEF Handled
  <2>y. Others(t)
    BY <1>n, <1>d, <2>1, <2>2, <2>4, <2>5, <2>6 DEF Others
  <2>z. refs'[t] - refs[t] = Gain(t) /\ refs'[t] \in Int /\ wakers'[t] \in Int
    <3>1. /\ refs[t] = 0 /\ wakers'[t] = wakers[t] /\ wakers[t] \in Int
          /\ refs'[t] = IF shutDown THEN 1 ELSE 3
      BY <1>t, <1>n, <1>d, <2>1 DEF HandlesTell
    <3>2. /\ Registered(t)' <=> ~shutDown
          /\ Turning(t)' <=> ~shutDown
          /\ Handled(t)'
      BY <2>2, <2>4, <2>5, <2>6
    <3> QED BY <2>2, <3>1, <3>2 DEF Gain, One
  <2> QED BY <1>t, <2>y, <2>z, RefsChange
<1>2. ASSUME NEW x \in Contexts, NEW t \in Tasks, Wake(x, t) PROVE RefsAdd'
  <2>1. CASE Asleep(state[t])
    <3>1. ~Queued(t) /\ \A a \in Actors : ~HasTurn(a, t)
      BY <1>t, <2>1, NobodyHas
    <3>2. /\ pc' = [pc EXCEPT ![x] = "enqueue"] /\ task' = [task EXCEPT ![x] = t]
          /\ UNCHANGED <<queue, all, drain>> /\ refs' = refs
          /\ wakers' = [wakers EXCEPT ![t] = @ - 1]
          /\ pc[x] \in {"idle", "held", "pending"}
      BY <1>2, <2>1, <1>t DEF Wake, SetScheduled, Goto, Cloned, sharedVars, localVars, PlacesOK
    <3>3. \A u \in Tasks : Turning(u)' <=> Turning(u) \/ u = t
      BY <1>t, <1>2, <3>2 DEF Turning, HasTurn, Queued, TurnPCs
    <3>4. \A u \in Tasks : (Registered(u)' <=> Registered(u)) /\ (Handled(u)' <=> Handled(u))
      BY <1>t, <1>2, <3>2 DEF Registered, Keeps, KeepPCs, Handled
    <3>5. ~Turning(t)
      BY <3>1 DEF Turning
    <3> HIDE <2>1, <1>2
    <3>y. Others(t)
      BY <1>n, <1>d, <3>2, <3>3, <3>4, <3>5 DEF Others
    <3>z. refs'[t] - refs[t] = Gain(t) /\ refs'[t] \in Int /\ wakers'[t] \in Int
      BY <1>n, <1>d, <3>2, <3>3, <3>4, <3>5 DEF Gain, One
    <3> QED BY <1>t, <3>y, <3>z, RefsChange
  <2>2. CASE ~Asleep(state[t])
    <3>1. /\ pc' = [pc EXCEPT ![x] = "idle"] /\ pc[x] \in {"idle", "held", "pending"}
          /\ \A a \in Actors \ {x} : task'[a] = task[a]
          /\ UNCHANGED <<queue, all, drain>>
          /\ refs' = [refs EXCEPT ![t] = @ - 1]
          /\ wakers' = [wakers EXCEPT ![t] = @ - 1]
      BY <1>2, <2>2, <1>t DEF Wake, SetScheduled, Goto, Release, sharedVars, localVars
    <3>2. \A u \in Tasks : Turning(u)' <=> Turning(u)
      BY <1>t, <1>2, <3>1 DEF Turning, HasTurn, Queued, TurnPCs
    <3>3. \A u \in Tasks : (Registered(u)' <=> Registered(u)) /\ (Handled(u)' <=> Handled(u))
      BY <1>t, <1>2, <3>1 DEF Registered, Keeps, KeepPCs, Handled
    <3> HIDE <2>2, <1>2
    <3>y. Others(t)
      BY <1>n, <1>d, <3>1, <3>2, <3>3 DEF Others
    <3>z. refs'[t] - refs[t] = Gain(t) /\ refs'[t] \in Int /\ wakers'[t] \in Int
      BY <1>n, <1>d, <3>1, <3>2, <3>3 DEF Gain, One
    <3> QED BY <1>t, <3>y, <3>z, RefsChange
  <2> QED BY <2>1, <2>2
<1>3. ASSUME NEW x \in Contexts, NEW t \in Tasks, WakeByRef(x, t) PROVE RefsAdd'
  <2>1. CASE Asleep(state[t])
    <3>1. ~Queued(t) /\ \A a \in Actors : ~HasTurn(a, t)
      BY <1>t, <2>1, NobodyHas
    <3>2. /\ pc' = [pc EXCEPT ![x] = "enqueue"] /\ task' = [task EXCEPT ![x] = t]
          /\ UNCHANGED <<queue, all, drain>>
          /\ refs' = [refs EXCEPT ![t] = @ + 1]
          /\ wakers' = wakers
          /\ pc[x] \in {"idle", "held", "pending"}
      BY <1>3, <2>1, <1>t DEF WakeByRef, SetScheduled, Goto, Cloned, sharedVars, localVars, PlacesOK
    <3>3. \A u \in Tasks : Turning(u)' <=> Turning(u) \/ u = t
      BY <1>t, <1>3, <3>2 DEF Turning, HasTurn, Queued, TurnPCs
    <3>4. \A u \in Tasks : (Registered(u)' <=> Registered(u)) /\ (Handled(u)' <=> Handled(u))
      BY <1>t, <1>3, <3>2 DEF Registered, Keeps, KeepPCs, Handled
    <3>5. ~Turning(t)
      BY <3>1 DEF Turning
    <3> HIDE <2>1, <1>3
    <3>y. Others(t)
      BY <1>n, <1>d, <3>2, <3>3, <3>4, <3>5 DEF Others
    <3>z. refs'[t] - refs[t] = Gain(t) /\ refs'[t] \in Int /\ wakers'[t] \in Int
      BY <1>n, <1>d, <3>2, <3>3, <3>4, <3>5 DEF Gain, One
    <3> QED BY <1>t, <3>y, <3>z, RefsChange
  <2>2. CASE ~Asleep(state[t])
    <3>1. /\ pc' = [pc EXCEPT ![x] = "idle"] /\ pc[x] \in {"idle", "held", "pending"}
          /\ \A a \in Actors \ {x} : task'[a] = task[a]
          /\ UNCHANGED <<queue, all, drain>> /\ refs' = refs /\ wakers' = wakers
      BY <1>3, <2>2, <1>t DEF WakeByRef, SetScheduled, Goto, Release, sharedVars, localVars
    <3>2. \A u \in Tasks : Turning(u)' <=> Turning(u)
      BY <1>t, <1>3, <3>1 DEF Turning, HasTurn, Queued, TurnPCs
    <3>3. \A u \in Tasks : (Registered(u)' <=> Registered(u)) /\ (Handled(u)' <=> Handled(u))
      BY <1>t, <1>3, <3>1 DEF Registered, Keeps, KeepPCs, Handled
    <3> HIDE <2>2, <1>3
    <3>y. Others(t)
      BY <1>n, <1>d, <3>1, <3>2, <3>3 DEF Others
    <3>z. refs'[t] - refs[t] = Gain(t) /\ refs'[t] \in Int /\ wakers'[t] \in Int
      BY <1>n, <1>d, <3>1, <3>2, <3>3 DEF Gain, One
    <3> QED BY <1>t, <3>y, <3>z, RefsChange
  <2> QED BY <2>1, <2>2
<1>4. ASSUME NEW x \in Contexts, NEW t \in Tasks, DropWaker(x, t) PROVE RefsAdd'
  <2>1. /\ UNCHANGED <<pc, task, queue, all, drain>>
        /\ refs' = [refs EXCEPT ![t] = @ - 1]
        /\ wakers' = [wakers EXCEPT ![t] = @ - 1]
    BY <1>4 DEF DropWaker, Release, Cloned, sharedVars, localVars
  <2>2. \A u \in Tasks : /\ Turning(u)' <=> Turning(u)
                         /\ Registered(u)' <=> Registered(u)
                         /\ Handled(u)' <=> Handled(u)
    BY <2>1 DEF Turning, HasTurn, Queued, Registered, Keeps, Handled
  <2> HIDE <1>4
  <2>y. Others(t)
    BY <1>n, <1>d, <2>2, <2>1 DEF Others
  <2>z. refs'[t] - refs[t] = Gain(t) /\ refs'[t] \in Int /\ wakers'[t] \in Int
    BY <1>n, <1>d, <2>2, <2>1 DEF Gain, One
  <2> QED BY <1>t, <2>y, <2>z, RefsChange
<1>5. ASSUME NEW a \in Actors, Enqueue(a) PROVE RefsAdd'
  <2>0. pc'[a] \in {"unpark", "main", "next", "idle", "detach"}
    BY <1>5, <1>t, EnqueueEffect
  <2>1. /\ pc[a] = "enqueue" /\ \A b \in Actors \ {a} : pc'[b] = pc[b] /\ task'[b] = task[b]
        /\ pc'[a] \notin TurnPCs \cup KeepPCs /\ UNCHANGED <<wakers, all, drain>>
        /\ pc'[a] \notin {"none", "gone"}
        /\ IF shutDown THEN Release(task[a], 1, stage) ELSE UNCHANGED <<refs, stage>>
        /\ queue' = (IF shutDown THEN queue ELSE Append(queue, task[a]))
    BY <1>5, <1>t, <2>0, EnqueueEffect DEF TurnPCs, KeepPCs, localVars
  <2>2. PICK t \in Tasks : task[a] = t
    BY <1>t, <2>1 DEF PlacesOK, TurnPCs
  <2>3. HasTurn(a, t) /\ ~Queued(t) /\ \A b \in Actors : HasTurn(b, t) => b = a
    BY <1>t, <2>1, <2>2 DEF HasTurn, TurnPCs, TurnsOnce
  <2>4. \A b \in Actors : \A v \in Tasks : HasTurn(b, v)' <=> (HasTurn(b, v) /\ b # a)
    BY <1>t, <2>1 DEF HasTurn
  <2>5. \A v \in Tasks : Queued(v)' <=> Queued(v) \/ (v = t /\ ~shutDown)
    <3>1. CASE shutDown
      BY <1>t, <2>1, <3>1 DEF Queued
    <3>2. CASE ~shutDown
      BY <1>t, <2>1, <2>2, <2>3, <3>2, AppendedProperty DEF Queued
    <3> QED BY <3>1, <3>2
  <2>6. \A v \in Tasks : HasTurn(a, v) => v = t
    BY <2>2 DEF HasTurn
  <2>7. \A v \in Tasks : Turning(v)' <=> Turning(v) /\ (v # t \/ ~shutDown)
    BY <2>3, <2>4, <2>5, <2>6 DEF Turning
  <2>8. Turning(t) /\ refs' = [refs EXCEPT ![t] = IF shutDown THEN @ - 1 ELSE @]
    BY <1>t, <2>1, <2>2, <2>3 DEF Turning, Release
  <2>9. \A v \in Tasks : (Registered(v)' <=> Registered(v)) /\ (Handled(v)' <=> Handled(v))
    BY <1>t, <2>1 DEF Registered, Keeps, KeepPCs, Handled
  <2> HIDE <1>5
  <2>y. Others(t)
    BY <1>n, <1>d, <2>1, <2>7, <2>8, <2>9 DEF Others
  <2>z. refs'[t] - refs[t] = Gain(t) /\ refs'[t] \in Int /\ wakers'[t] \in Int
    BY <1>n, <1>d, <2>1, <2>7, <2>8, <2>9 DEF Gain, One
  <2> QED BY <1>t, <2>y, <2>z, RefsChange
<1>6. ASSUME NEW r \in Runners, CloneWaker(r) PROVE RefsAdd'
  <2>0. PICK t \in Tasks : t = task[r]
    BY <1>t, <1>6 DEF CloneWaker, PlacesOK, TurnPCs
  <2>1. /\ UNCHANGED <<pc, task, queue, all, drain>>
        /\ refs' = [refs EXCEPT ![t] = @ + 1]
        /\ wakers' = [wakers EXCEPT ![t] = @ + 1]
    BY <1>6, <2>0 DEF CloneWaker, Release, Cloned, sharedVars, localVars
  <2>2. \A u \in Tasks : /\ Turning(u)' <=> Turning(u)
                         /\ Registered(u)' <=> Registered(u)
                         /\ Handled(u)' <=> Handled(u)
    BY <2>1 DEF Turning, HasTurn, Queued, Registered, Keeps, Handled
  <2> HIDE <1>6
  <2>y. Others(t)
    BY <1>n, <1>d, <2>2, <2>1 DEF Others
  <2>z. refs'[t] - refs[t] = Gain(t) /\ refs'[t] \in Int /\ wakers'[t] \in Int
    BY <1>n, <1>d, <2>2, <2>1 DEF Gain, One
  <2> QED BY <1>t, <2>y, <2>z, RefsChange
<1>7. ASSUME NEW r \in Runners, Yield(r) PROVE RefsAdd'
  <2>1. /\ pc[r] = "yield" /\ UNCHANGED <<queue, all, drain, wakers>>
        /\ \/ /\ "SCHEDULED" \in state[task[r]] /\ task' = task /\ refs' = refs
              /\ pc' = [pc EXCEPT ![r] = "enqueue"]
           \/ /\ "SCHEDULED" \notin state[task[r]] /\ task' = [task EXCEPT ![r] = None]
              /\ pc' = [pc EXCEPT ![r] = IF r = Main THEN "main" ELSE "next"]
              /\ refs' = [refs EXCEPT ![task[r]] = @ - 1]
    BY <1>7 DEF Yield, AfterYield, Goto, Loop, Release, sharedVars, localVars
  <2> HIDE <1>7
  <2>2. PICK t \in Tasks : t = task[r]
    BY <1>t, <2>1 DEF PlacesOK, TurnPCs
  <2>3. HasTurn(r, t) /\ ~Queued(t) /\ \A b \in Actors : HasTurn(b, t) => b = r
    BY <1>t, <2>1, <2>2 DEF HasTurn, TurnPCs, TurnsOnce
  <2>4. \A u \in Tasks : (Registered(u)' <=> Registered(u)) /\ (Handled(u)' <=> Handled(u))
    BY <1>t, <2>1 DEF Registered, Keeps, KeepPCs, Handled
  <2>5. CASE "SCHEDULED" \in state[t]
    <3>1. \A u \in Tasks : Turning(u)' <=> Turning(u)
      BY <1>t, <2>1, <2>2, <2>5 DEF Turning, HasTurn, TurnPCs, Queued
    <3>y. Others(t)
      BY <1>n, <1>d, <2>1, <2>2, <2>4, <2>5, <3>1 DEF Others
    <3>z. refs'[t] - refs[t] = Gain(t) /\ refs'[t] \in Int /\ wakers'[t] \in Int
      BY <1>n, <1>d, <2>1, <2>2, <2>4, <2>5, <3>1 DEF Gain, One
    <3> QED BY <1>t, <3>y, <3>z, RefsChange
  <2>6. CASE "SCHEDULED" \notin state[t]
    <3>1. \A u \in Tasks : Turning(u)' <=> (Turning(u) /\ u # t)
      BY <1>t, <2>1, <2>2, <2>3, <2>6 DEF Turning, HasTurn, TurnPCs, Queued
    <3>2. Turning(t) /\ refs' = [refs EXCEPT ![t] = @ - 1]
      BY <1>t, <2>1, <2>2, <2>3, <2>6 DEF Turning
    <3>y. Others(t)
      BY <1>n, <1>d, <2>1, <2>4, <3>1, <3>2 DEF Others
    <3>z. refs'[t] - refs[t] = Gain(t) /\ refs'[t] \in Int /\ wakers'[t] \in Int
      BY <1>n, <1>d, <2>1, <2>4, <3>1, <3>2 DEF Gain, One
    <3> QED BY <1>t, <3>y, <3>z, RefsChange
  <2> QED BY <2>5, <2>6
<1>8. ASSUME NEW r \in Runners, WakeJoin(r) PROVE RefsAdd'
  <2>1. /\ pc[r] = "wakejoin" /\ UNCHANGED <<queue, all, drain, wakers>>
        /\ task' = [task EXCEPT ![r] = None]
        /\ pc' = [pc EXCEPT ![r] = IF r = Main THEN "main" ELSE "next"]
        /\ refs' = [refs EXCEPT ![task[r]] = @ - 2]
    BY <1>8 DEF WakeJoin, Goto, Loop, Release, sharedVars
  <2> HIDE <1>8
  <2>2. PICK t \in Tasks : t = task[r]
    BY <1>t, <2>1 DEF PlacesOK, TurnPCs
  <2>3. HasTurn(r, t) /\ ~Queued(t) /\ \A b \in Actors : HasTurn(b, t) => b = r
    BY <1>t, <2>1, <2>2 DEF HasTurn, TurnPCs, TurnsOnce
  <2>4. Keeps(r, t) /\ t \notin all \cup drain /\ \A s \in Runners : Keeps(s, t) => s = r
    BY <1>t, <2>1, <2>2 DEF Keeps, KeepPCs, KeptOnce
  <2>5. \A u \in Tasks : Turning(u)' <=> (Turning(u) /\ u # t)
    BY <1>t, <2>1, <2>2, <2>3 DEF Turning, HasTurn, TurnPCs, Queued
  <2>6. \A u \in Tasks : Registered(u)' <=> (Registered(u) /\ u # t)
    BY <1>t, <2>1, <2>2, <2>4 DEF Registered, Keeps, KeepPCs
  <2>7. \A u \in Tasks : Handled(u)' <=> Handled(u)
    BY <1>t, <2>1 DEF Handled
  <2>8. Turning(t) /\ Registered(t) /\ refs' = [refs EXCEPT ![t] = @ - 2]
    BY <1>t, <2>1, <2>2, <2>3, <2>4 DEF Turning, Registered
  <2>y. Others(t)
    BY <1>n, <1>d, <2>1, <2>5, <2>6, <2>7, <2>8 DEF Others
  <2>z. refs'[t] - refs[t] = Gain(t) /\ refs'[t] \in Int /\ wakers'[t] \in Int
    BY <1>n, <1>d, <2>1, <2>5, <2>6, <2>7, <2>8 DEF Gain, One
  <2> QED BY <1>t, <2>y, <2>z, RefsChange
<1>9. ASSUME NEW r \in Runners, DrainQueue(r) PROVE RefsAdd'
  <2>1. CASE queue # <<>>
    <3>1. queue' = Tail(queue) /\ UNCHANGED <<pc, task, all, drain, wakers>>
          /\ refs' = [refs EXCEPT ![Head(queue)] = @ - 1]
      BY <1>9, <2>1 DEF DrainQueue, Release, localVars
    <3>2. /\ Head(queue) \in ToSet(queue) /\ ToSet(queue) = ToSet(queue') \cup {Head(queue)}
          /\ Head(queue) \notin ToSet(queue') /\ Head(queue) \in Tasks
      BY <1>t, <2>1, <3>1, TailProperty DEF TurnsOnce
    <3>3. PICK t \in Tasks : t = Head(queue)
      BY <3>2
    <3>4. Queued(t) /\ ~Queued(t)' /\ \A u \in Tasks : Queued(u) <=> Queued(u)' \/ u = t
      BY <3>2, <3>3 DEF Queued
    <3>5. \A a \in Actors : ~HasTurn(a, t) /\ \A u \in Tasks : HasTurn(a, u)' <=> HasTurn(a, u)
      BY <1>t, <3>1, <3>4 DEF TurnsOnce, HasTurn
    <3>6. Turning(t) /\ \A u \in Tasks : Turning(u)' <=> (Turning(u) /\ u # t)
      BY <3>4, <3>5 DEF Turning
    <3>7. \A u \in Tasks : (Registered(u)' <=> Registered(u)) /\ (Handled(u)' <=> Handled(u))
      BY <3>1 DEF Registered, Keeps, Handled
    <3>8. refs' = [refs EXCEPT ![t] = @ - 1] /\ wakers' = wakers
      BY <3>1, <3>3
    <3> HIDE <2>1, <1>9
    <3>y. Others(t)
      BY <1>n, <1>d, <3>6, <3>7, <3>8 DEF Others
    <3>z. refs'[t] - refs[t] = Gain(t) /\ refs'[t] \in Int /\ wakers'[t] \in Int
      BY <1>n, <1>d, <3>6, <3>7, <3>8 DEF Gain, One
    <3> QED BY <1>t, <3>y, <3>z, RefsChange
  <2>2. CASE queue = <<>>
    <3>1. /\ pc' = [pc EXCEPT ![r] = "drainall"] /\ pc[r] = "drainqueue"
          /\ UNCHANGED <<queue, task, all, drain, wakers, refs>>
      BY <1>9, <2>2 DEF DrainQueue, Goto, localVars
    <3>2. RefsStay
      BY <1>t, <3>1 DEF RefsStay, Registered, Turning, Handled, Keeps, KeepPCs, HasTurn,
         TurnPCs, Queued
    <3> QED BY <1>t, <3>2 DEF RefsStay, RefsAdd, One
  <2> QED BY <2>1, <2>2
<1>10. ASSUME NEW r \in Runners, DrainStage(r) PROVE RefsAdd'
  <2>1. /\ pc[r] = "drainstage" /\ UNCHANGED <<queue, all, drain, wakers>>
        /\ task' = [task EXCEPT ![r] = None] /\ pc' = [pc EXCEPT ![r] = "drainall"]
        /\ refs' = [refs EXCEPT ![task[r]] = @ - 1]
    BY <1>10 DEF DrainStage, Goto, Release, sharedVars, localVars
  <2> HIDE <1>10
  <2>2. PICK t \in Tasks : t = task[r]
    BY <1>t, <2>1 DEF PlacesOK
  <2>3. Keeps(r, t) /\ t \notin all \cup drain /\ \A s \in Runners : Keeps(s, t) => s = r
    BY <1>t, <2>1, <2>2 DEF Keeps, KeepPCs, KeptOnce
  <2>4. \A u \in Tasks : Turning(u)' <=> Turning(u)
    BY <1>t, <2>1 DEF Turning, HasTurn, TurnPCs, Queued
  <2>5. \A u \in Tasks : Registered(u)' <=> (Registered(u) /\ u # t)
    BY <1>t, <2>1, <2>2, <2>3 DEF Registered, Keeps, KeepPCs
  <2>6. \A u \in Tasks : Handled(u)' <=> Handled(u)
    BY <1>t, <2>1 DEF Handled
  <2>7. Registered(t) /\ refs' = [refs EXCEPT ![t] = @ - 1]
    BY <1>t, <2>1, <2>2, <2>3 DEF Registered
  <2>y. Others(t)
    BY <1>n, <1>d, <2>1, <2>4, <2>5, <2>6, <2>7 DEF Others
  <2>z. refs'[t] - refs[t] = Gain(t) /\ refs'[t] \in Int /\ wakers'[t] \in Int
    BY <1>n, <1>d, <2>1, <2>4, <2>5, <2>6, <2>7 DEF Gain, One
  <2> QED BY <1>t, <2>y, <2>z, RefsChange
<1>11. ASSUME NEW t \in Tasks, Abort(t) PROVE RefsAdd'
  <2>1. CASE Asleep(state[t])
    <3>1. ~Queued(t) /\ \A a \in Actors : ~HasTurn(a, t)
      BY <1>t, <2>1, NobodyHas
    <3>2. /\ pc' = [pc EXCEPT ![t] = "enqueue"] /\ task' = [task EXCEPT ![t] = t]
          /\ UNCHANGED <<queue, all, drain>>
          /\ refs' = [refs EXCEPT ![t] = @ + 1]
          /\ wakers' = wakers
          /\ pc[t] \in {"idle", "held", "pending"}
      BY <1>11, <2>1, <1>t DEF Abort, SetScheduled, Goto, Cloned, sharedVars, localVars, PlacesOK
    <3>3. \A u \in Tasks : Turning(u)' <=> Turning(u) \/ u = t
      BY <1>t, <1>11, <3>2 DEF Turning, HasTurn, Queued, TurnPCs
    <3>4. \A u \in Tasks : (Registered(u)' <=> Registered(u)) /\ (Handled(u)' <=> Handled(u))
      BY <1>t, <1>11, <3>2 DEF Registered, Keeps, KeepPCs, Handled
    <3>5. ~Turning(t)
      BY <3>1 DEF Turning
    <3> HIDE <2>1, <1>11
    <3>y. Others(t)
      BY <1>n, <1>d, <3>2, <3>3, <3>4, <3>5 DEF Others
    <3>z. refs'[t] - refs[t] = Gain(t) /\ refs'[t] \in Int /\ wakers'[t] \in Int
      BY <1>n, <1>d, <3>2, <3>3, <3>4, <3>5 DEF Gain, One
    <3> QED BY <1>t, <3>y, <3>z, RefsChange
  <2>2. CASE ~Asleep(state[t])
    <3>1. /\ pc' = [pc EXCEPT ![t] = "detach"] /\ pc[t] \in {"idle", "held", "pending"}
          /\ \A a \in Actors \ {t} : task'[a] = task[a]
          /\ UNCHANGED <<queue, all, drain>> /\ refs' = refs /\ wakers' = wakers
      BY <1>11, <2>2, <1>t DEF Abort, SetScheduled, Goto, Release, sharedVars, localVars
    <3>2. \A u \in Tasks : Turning(u)' <=> Turning(u)
      BY <1>t, <1>11, <3>1 DEF Turning, HasTurn, Queued, TurnPCs
    <3>3. \A u \in Tasks : (Registered(u)' <=> Registered(u)) /\ (Handled(u)' <=> Handled(u))
      BY <1>t, <1>11, <3>1 DEF Registered, Keeps, KeepPCs, Handled
    <3> HIDE <2>2, <1>11
    <3>y. Others(t)
      BY <1>n, <1>d, <3>1, <3>2, <3>3 DEF Others
    <3>z. refs'[t] - refs[t] = Gain(t) /\ refs'[t] \in Int /\ wakers'[t] \in Int
      BY <1>n, <1>d, <3>1, <3>2, <3>3 DEF Gain, One
    <3> QED BY <1>t, <3>y, <3>z, RefsChange
  <2> QED BY <2>1, <2>2
<1>12. ASSUME NEW t \in Tasks, ReleaseHandle(t) PROVE RefsAdd'
  <2>1. /\ pc[t] = "release" /\ pc' = [pc EXCEPT ![t] = "gone"]
        /\ UNCHANGED <<queue, all, drain, wakers, task>> /\ refs' = [refs EXCEPT ![t] = @ - 1]
    BY <1>12 DEF ReleaseHandle, Goto, Release, sharedVars, localVars
  <2> HIDE <1>12
  <2>2. \A u \in Tasks : (Turning(u)' <=> Turning(u)) /\ (Registered(u)' <=> Registered(u))
    BY <1>t, <2>1 DEF Turning, HasTurn, TurnPCs, Queued, Registered, Keeps, KeepPCs
  <2>3. Handled(t) /\ \A u \in Tasks : Handled(u)' <=> (Handled(u) /\ u # t)
    BY <1>t, <2>1 DEF Handled
  <2>y. Others(t)
    BY <1>n, <1>d, <2>1, <2>2, <2>3 DEF Others
  <2>z. refs'[t] - refs[t] = Gain(t) /\ refs'[t] \in Int /\ wakers'[t] \in Int
    BY <1>n, <1>d, <2>1, <2>2, <2>3 DEF Gain, One
  <2> QED BY <1>t, <2>y, <2>z, RefsChange
<1>s. ASSUME RefsStay PROVE RefsAdd'
  BY <1>t, <1>s DEF RefsStay, RefsAdd, One
<1> QED BY <1>s, <1>1, <1>2, <1>3, <1>4, <1>5, <1>6, <1>7, <1>8, <1>9, <1>10, <1>11, <1>12,
          StayStep DEF Next, ContextStep, RunnerStep, TurnStep, EndStep, PollStep,
          HandleStep

\* Who refers to a task is counted.
LEMMA Referred ==
  ASSUME TypeOK, RefsAdd, NEW t \in Tasks,
         Registered(t) \/ Turning(t) \/ Handled(t) \/ wakers[t] > 0
  PROVE  refs[t] > 0
<1>1. wakers[t] \in Nat
  BY Typing
<1>2. refs[t] = One(Registered(t)) + One(Turning(t)) + wakers[t] + One(Handled(t))
  BY DEF RefsAdd
<1> QED BY <1>1, <1>2 DEF One

\* What a release leaves: the block as it was or, with the last reference, the
\* freed block, if nobody owns what it held.
LEMMA Released ==
  ASSUME TypeOK, StageKept, RefsAdd', NEW t \in Tasks, NEW n \in Nat, NEW st,
         Release(t, n, st), DOMAIN st = Tasks, wakers'[t] \in Nat, refs[t] > 0,
         st[t] = stage[t] \/ st[t] = "consumed",
         Owner(t) => Registered(t)' \/ Handled(t)' \/ st[t] = "consumed"
  PROVE  /\ \A u \in Tasks : u # t => stage'[u] = st[u] /\ refs'[u] = refs[u]
         /\ \/ refs'[t] # 0 /\ stage'[t] = st[t]
            \/ refs'[t] = 0 /\ stage'[t] = "freed"
<1>1. /\ refs \in [Tasks -> Nat]
      /\ stage[t] \in {"future", "output", "consumed"}
      /\ stage[t] \in {"future", "output"} => Owner(t)
  <2>1. /\ refs \in [Tasks -> Nat]
        /\ stage[t] \in {"none", "future", "output", "consumed", "freed", "spilt"}
    BY DEF TypeOK
  <2> QED BY <2>1 DEF StageKept
<1>2. refs'[t] = One(Registered(t)') + One(Turning(t)') + wakers'[t] + One(Handled(t)')
  BY DEF RefsAdd, One
<1>3. CASE refs[t] # n
  BY <1>1, <1>3 DEF Release
<1>4. CASE refs[t] = n
  <2>1. refs'[t] = 0 /\ stage' = [st EXCEPT ![t] = IF @ = "consumed" THEN "freed" ELSE "spilt"]
        /\ \A u \in Tasks : u # t => refs'[u] = refs[u]
    BY <1>1, <1>4 DEF Release
  <2>2. One(Registered(t)') = 0 /\ One(Handled(t)') = 0
    <3>1. /\ One(Registered(t)') \in {0, 1} /\ One(Handled(t)') \in {0, 1}
          /\ One(Turning(t)') \in {0, 1}
      BY DEF One
    <3> QED BY ONLY <1>2, <2>1, <3>1, wakers'[t] \in Nat
  <2>3. st[t] = "consumed"
    BY <1>1, <2>2 DEF One
  <2> QED BY <2>1, <2>3
<1> QED BY <1>3, <1>4

\* What a block holds keeps an owner until it is dropped.
LEMMA OwnersStep ==
  ASSUME IInv, [Next]_vars
  PROVE  \A u \in Tasks : Owner(u) => Owner(u)' \/ stage'[u] \notin {"future", "output"}
<1> DEFINE Stay == \A u \in Tasks : Owner(u) => Owner(u)' \/ stage'[u] \notin {"future", "output"}
<1>t. /\ pc \in [Actors -> PCs] /\ task \in [Actors -> Tasks \cup {None}]
      /\ state \in [Tasks -> SUBSET Flags] /\ all \subseteq Tasks /\ drain \subseteq Tasks
      /\ DOMAIN stage = Tasks /\ DOMAIN kept = Runners
      /\ Actors = Tasks \cup Contexts \cup Runners /\ None \notin Tasks
      /\ Tasks \cap Contexts = {} /\ Tasks \cap Runners = {} /\ Contexts \cap Runners = {}
      /\ IInv /\ TypeOK /\ HandlesTell /\ PlacesOK /\ EndOK /\ KeptOnce /\ RefsAdd
      /\ FlagsTell
  BY Typing DEF IInv
<1>o. \A a \in Actors \ Tasks : pc[a] \in {"begin", "poll", "abort", "yield", "finish", "finished",
                                          "wakejoin", "drainstage"} => task[a] \in Tasks
  BY <1>t DEF PlacesOK, TurnPCs
<1>1. ASSUME NEW x \in Contexts, NEW t \in Tasks, Spawn(x, t) PROVE Stay
  <2>1. /\ pc[x] = "idle" /\ pc[t] = "none" /\ \A a \in Actors \ {x, t} : pc'[a] = pc[a]
        /\ task' = task /\ UNCHANGED <<drain, kept>> /\ all \subseteq all'
        /\ \A u \in Tasks \ {t} : state'[u] = state[u]
    BY <1>1, <1>t, SpawnEffect DEF localVars
  <2>2. ~Registered(t)
    BY <1>t, <2>1, Unspawned
  <2> QED BY <1>t, <2>1, <2>2 DEF Owner, Keeps, KeepPCs, HandleUpPCs, Registered
<1>2. ASSUME NEW x \in Contexts, NEW t \in Tasks, Wake(x, t) PROVE Stay
  BY <1>2, <1>t, <1>o DEF Wake, SetScheduled, Asleep, Goto, Release, sharedVars, joinVars,
                         localVars, Owner, Keeps, KeepPCs, HandleUpPCs
<1>3. ASSUME NEW x \in Contexts, NEW t \in Tasks, WakeByRef(x, t) PROVE Stay
  BY <1>3, <1>t, <1>o DEF WakeByRef, SetScheduled, Asleep, Goto, Cloned, sharedVars,
                         joinVars, localVars, Owner, Keeps, KeepPCs, HandleUpPCs
<1>4. ASSUME NEW x \in Contexts, NEW t \in Tasks, DropWaker(x, t) PROVE Stay
  BY <1>4, <1>t, <1>o DEF DropWaker, Release, sharedVars, joinVars, localVars, Owner, Keeps,
                         KeepPCs, HandleUpPCs
<1>5. ASSUME NEW x \in Contexts, WakeMain(x) PROVE Stay
  BY <1>5, <1>t, <1>o DEF WakeMain, Goto, taskVars, sharedVars, joinVars, localVars, Owner,
                         Keeps, KeepPCs, HandleUpPCs
<1>6. ASSUME NEW a \in Actors, Enqueue(a) PROVE Stay
  <2>0. a \in Tasks => pc'[a] \in {"unpark", "detach"}
    BY <1>6, <1>t, EnqueueEffect
  <2>1. /\ pc[a] = "enqueue" /\ \A b \in Actors \ {a} : pc'[b] = pc[b] /\ task'[b] = task[b]
        /\ UNCHANGED <<all, drain, kept, state>>
    BY <1>6, <1>t, EnqueueEffect DEF localVars
  <2> QED BY <1>t, <2>0, <2>1 DEF Owner, Keeps, KeepPCs, HandleUpPCs
<1>7. ASSUME NEW a \in Actors, Unpark(a) PROVE Stay
  BY <1>7, <1>t, <1>o DEF Unpark, Goto, Resume, Loop, taskVars, sharedVars, joinVars,
                         localVars, Owner, Keeps, KeepPCs, HandleUpPCs
<1>8. ASSUME NEW r \in Runners, Register(r) PROVE Stay
  BY <1>8, <1>t, <1>o DEF Register, Goto, Loop, taskVars, joinVars, localVars, Owner, Keeps,
                         KeepPCs, HandleUpPCs
<1>9. ASSUME NEW r \in Runners, LookMain(r) PROVE Stay
  BY <1>9, <1>t, <1>o DEF LookMain, Goto, taskVars, sharedVars, joinVars, localVars, Owner,
                         Keeps, KeepPCs, HandleUpPCs
<1>10. ASSUME NEW r \in Runners, PollMain(r) PROVE Stay
  BY <1>10, <1>t, <1>o DEF PollMain, Goto, taskVars, sharedVars, joinVars, localVars, Owner,
                          Keeps, KeepPCs, HandleUpPCs
<1>11. ASSUME NEW r \in Runners, NextTask(r) PROVE Stay
  BY <1>11, <1>t, <1>o DEF NextTask, Goto, taskVars, joinVars, localVars, Owner, Keeps,
                          KeepPCs, HandleUpPCs
<1>12. ASSUME NEW r \in Runners, Decide(r) PROVE Stay
  BY <1>12, <1>t, <1>o DEF Decide, Goto, taskVars, sharedVars, joinVars, localVars, Owner,
                          Keeps, KeepPCs, HandleUpPCs
<1>13. ASSUME NEW r \in Runners, Parked(r) PROVE Stay
  BY <1>13, <1>t, <1>o DEF Parked, Goto, taskVars, sharedVars, joinVars, localVars, Owner,
                          Keeps, KeepPCs, HandleUpPCs
<1>14. ASSUME NEW r \in Runners, ParkTimeout(r) PROVE Stay
  BY <1>14, <1>t, <1>o DEF ParkTimeout, Goto, taskVars, sharedVars, joinVars, localVars,
                          Owner, Keeps, KeepPCs, HandleUpPCs
<1>15. ASSUME NEW r \in Runners, SetBusy(r) PROVE Stay
  BY <1>15, <1>t, <1>o DEF SetBusy, Goto, Loop, taskVars, joinVars, localVars, Owner, Keeps,
                          KeepPCs, HandleUpPCs
<1>16. ASSUME NEW r \in Runners, Begin(r) PROVE Stay
  <2>1. /\ pc[r] = "begin" /\ task[r] \in Tasks /\ UNCHANGED <<all, drain, kept, task>>
        /\ pc' = [pc EXCEPT ![r] = IF "ABORTED" \in state[task[r]] THEN "abort" ELSE "poll"]
        /\ state' = [state EXCEPT ![task[r]] = (@ \ {"SCHEDULED"}) \cup {"RUNNING"}]
    BY <1>16, <1>t, BeginEffect DEF sharedVars, localVars
  <2> QED BY <1>t, <2>1 DEF Owner, Keeps, KeepPCs, HandleUpPCs
<1>17. ASSUME NEW r \in Runners, CloneWaker(r) PROVE Stay
  BY <1>17, <1>t, <1>o DEF CloneWaker, Cloned, sharedVars, joinVars, localVars, Owner,
                          Keeps, KeepPCs, HandleUpPCs
<1>18. ASSUME NEW r \in Runners, PollReady(r) PROVE Stay
  BY <1>18, <1>t, <1>o DEF PollReady, Goto, sharedVars, joinVars, localVars, Owner, Keeps,
                          KeepPCs, HandleUpPCs
<1>19. ASSUME NEW r \in Runners, PollPending(r) PROVE Stay
  BY <1>19, <1>t, <1>o DEF PollPending, Goto, taskVars, sharedVars, joinVars, localVars,
                          Owner, Keeps, KeepPCs, HandleUpPCs
<1>20. ASSUME NEW r \in Runners, DropAborted(r) PROVE Stay
  BY <1>20, <1>t, <1>o DEF DropAborted, Goto, Consumed, sharedVars, joinVars, localVars,
                          Owner, Keeps, KeepPCs, HandleUpPCs
<1>21. ASSUME NEW r \in Runners, Yield(r) PROVE Stay
  BY <1>21, <1>t, <1>o DEF Yield, AfterYield, Goto, Release, Loop, sharedVars, joinVars,
                          localVars, Owner, Keeps, KeepPCs, HandleUpPCs
<1>22. ASSUME NEW r \in Runners, Finish(r) PROVE Stay
  <2>1. /\ pc[r] = "finish" /\ pc' = [pc EXCEPT ![r] = "finished"]
        /\ state' = [state EXCEPT ![task[r]] = (@ \ {"RUNNING", "SCHEDULED"}) \cup {"COMPLETE"}]
        /\ kept' = [kept EXCEPT ![r] = "HANDLE" \in state[task[r]]]
        /\ all' = all \ {task[r]} /\ UNCHANGED <<task, drain>>
    BY <1>22 DEF Finish, Goto
  <2> HIDE <1>22
  <2>2. PICK t \in Tasks : t = task[r]
    BY <1>o, <1>t, <2>1
  <2>3. /\ "COMPLETE" \in state'[t] /\ kept'[r] = ("HANDLE" \in state[t])
        /\ pc'[r] = "finished" /\ task'[r] = t /\ \A u \in Tasks : pc'[u] = pc[u]
        /\ \A u \in Tasks : u # t => state'[u] = state[u]
        /\ \A s \in Runners : s # r => pc'[s] = pc[s] /\ task'[s] = task[s] /\ kept'[s] = kept[s]
    BY <1>t, <2>1, <2>2
  <2>4. "COMPLETE" \notin state[t]
    BY <1>t, <2>1, <2>2 DEF FlagsTell, TurnFlags, HasTurn, TurnPCs, OpenPCs
  <2>5. "HANDLE" \in state[t] => pc[t] \in HandleUpPCs
    BY <1>t, <2>4 DEF HandlesTell, PlacesOK, HandlePCs, HandleUpPCs
  <2>6. Owner(t)'
    BY <2>3, <2>5 DEF Owner, Keeps, KeepPCs
  <2>7. ASSUME NEW u \in Tasks, u # t, Owner(u) PROVE Owner(u)'
    BY <1>t, <2>1, <2>2, <2>3, <2>7 DEF Owner, Keeps, KeepPCs
  <2> QED BY <2>6, <2>7
<1>23. ASSUME NEW r \in Runners, FinishDrop(r) PROVE Stay
  BY <1>23, <1>t, <1>o DEF FinishDrop, FinishedStage, Consumed, Goto, sharedVars, joinVars,
                          localVars, Owner, Keeps, KeepPCs, HandleUpPCs
<1>24. ASSUME NEW r \in Runners, WakeJoin(r) PROVE Stay
  BY <1>24, <1>t, <1>o DEF WakeJoin, Release, Goto, Loop, sharedVars, Owner, Keeps, KeepPCs,
                          HandleUpPCs
<1>25. ASSUME NEW r \in Runners, Leave(r) PROVE Stay
  BY <1>25, <1>t, <1>o DEF Leave, Goto, taskVars, joinVars, localVars, Owner, Keeps,
                          KeepPCs, HandleUpPCs
<1>26. ASSUME NEW r \in Runners, ShutDown(r) PROVE Stay
  <2>1. /\ pc[r] = "shutdown" /\ pc' = [pc EXCEPT ![r] = "drainqueue"]
        /\ drain' = all /\ UNCHANGED <<task, kept, state>>
    BY <1>26 DEF ShutDown, Goto, taskVars
  <2>2. drain = {}
    BY <1>t, <2>1, Alone DEF EndOK, EndPCs
  <2> QED BY <1>t, <2>1, <2>2 DEF Owner, Keeps, KeepPCs, HandleUpPCs
<1>27. ASSUME NEW r \in Runners, DrainQueue(r) PROVE Stay
  BY <1>27, <1>t, <1>o DEF DrainQueue, Goto, Release, joinVars, localVars, Owner, Keeps,
                          KeepPCs, HandleUpPCs
<1>28. ASSUME NEW r \in Runners, DrainMark(r) PROVE Stay
  BY <1>28, <1>t, <1>o DEF DrainMark, Goto, sharedVars, Owner, Keeps, KeepPCs, HandleUpPCs
<1>29. ASSUME NEW r \in Runners, DrainStage(r) PROVE Stay
  BY <1>29, <1>t, <1>o DEF DrainStage, Release, Consumed, Goto, sharedVars, joinVars,
                          localVars, Owner, Keeps, KeepPCs, HandleUpPCs
<1>30. ASSUME NEW t \in Tasks, JoinPoll(t) PROVE Stay
  BY <1>30, <1>t, <1>o DEF JoinPoll, Goto, taskVars, sharedVars, localVars, Owner, Keeps,
                          KeepPCs, HandleUpPCs
<1>31. ASSUME NEW t \in Tasks, JoinRegister(t) PROVE Stay
  BY <1>31, <1>t, <1>o DEF JoinRegister, Goto, taskVars, sharedVars, localVars, Owner,
                          Keeps, KeepPCs, HandleUpPCs
<1>32. ASSUME NEW t \in Tasks, JoinTake(t) PROVE Stay
  BY <1>32, <1>t, <1>o DEF JoinTake, Goto, Consumed, sharedVars, joinVars, localVars, Owner,
                          Keeps, KeepPCs, HandleUpPCs
<1>33. ASSUME NEW t \in Tasks, Abort(t) PROVE Stay
  BY <1>33, <1>t, <1>o DEF Abort, Asleep, Cloned, Goto, sharedVars, joinVars, localVars,
                          Owner, Keeps, KeepPCs, HandleUpPCs
<1>34. ASSUME NEW t \in Tasks, DropHandle(t) PROVE Stay
  BY <1>34, <1>t, <1>o DEF DropHandle, Goto, taskVars, sharedVars, joinVars, localVars,
                          Owner, Keeps, KeepPCs, HandleUpPCs
<1>35. ASSUME NEW t \in Tasks, Detach(t) PROVE Stay
  BY <1>35, <1>t, <1>o DEF Detach, DetachOwns, Goto, sharedVars, localVars, Owner, Keeps,
                          KeepPCs, HandleUpPCs
<1>36. ASSUME NEW t \in Tasks, DropOutput(t) PROVE Stay
  BY <1>36, <1>t, <1>o DEF DropOutput, Goto, Consumed, sharedVars, joinVars, localVars,
                          Owner, Keeps, KeepPCs, HandleUpPCs
<1>37. ASSUME NEW t \in Tasks, ReleaseHandle(t) PROVE Stay
  BY <1>37, <1>t, <1>o DEF ReleaseHandle, Release, Goto, sharedVars, joinVars, localVars,
                          Owner, Keeps, KeepPCs, HandleUpPCs
<1>38. CASE UNCHANGED vars
  BY <1>38, <1>t, <1>o DEF vars, Owner, Keeps, KeepPCs, HandleUpPCs
<1> QED BY <1>1, <1>2, <1>3, <1>4, <1>5, <1>6, <1>7, <1>8, <1>9, <1>10, <1>11, <1>12, <1>13,
      <1>14, <1>15, <1>16, <1>17, <1>18, <1>19, <1>20, <1>21, <1>22, <1>23, <1>24, <1>25,
      <1>26, <1>27, <1>28, <1>29, <1>30, <1>31, <1>32, <1>33, <1>34, <1>35, <1>36, <1>37,
      <1>38 DEF Next, ContextStep, RunnerStep, TurnStep, EndStep, PollStep, HandleStep

\* A step may change one block, for which this must hold.
StageAt(t) ==
  /\ \A u \in Tasks : u # t => stage'[u] = stage[u] /\ refs'[u] = refs[u]
  /\ refs'[t] = 0 <=> stage'[t] \in {"none", "freed"}
  /\ stage'[t] # "spilt"
  /\ stage'[t] \in {"future", "output"} => stage[t] \in {"future", "output"} \/ Owner(t)'

\* A block that is freed is empty, and what a block holds keeps its owner.
LEMMA StageStep ==
  ASSUME IInv, [Next]_vars PROVE StageKept'
<1>t. /\ pc \in [Actors -> PCs] /\ task \in [Actors -> Tasks \cup {None}]
      /\ refs \in [Tasks -> Nat] /\ wakers \in [Tasks -> 0 .. MaxWakers] /\ MaxWakers \in Nat
      /\ DOMAIN stage = Tasks /\ queue \in Seq(Tasks)
      /\ Actors = Tasks \cup Contexts \cup Runners /\ None \notin Tasks
      /\ Tasks \cap Contexts = {} /\ Tasks \cap Runners = {} /\ Contexts \cap Runners = {}
      /\ IInv /\ TypeOK /\ HandlesTell /\ PlacesOK /\ KeptOnce /\ OpenKept /\ RefsAdd
      /\ StageKept /\ FlagsTell
  BY Typing DEF IInv
<1>r. RefsAdd'
  BY RefsStep
<1>w. \A u \in Tasks : Owner(u) => Owner(u)' \/ stage'[u] \notin {"future", "output"}
  BY OwnersStep
<1>o. \A a \in Actors \ Tasks : pc[a] \in {"begin", "poll", "abort", "yield", "finish", "finished",
                                          "wakejoin", "drainstage"} => task[a] \in Tasks
  BY <1>t DEF PlacesOK, TurnPCs
<1>h. /\ \A u \in Tasks : Turning(u) \/ Handled(u) \/ wakers[u] > 0 => refs[u] > 0
      /\ \A u \in Tasks : refs[u] > 0 => stage[u] \in {"future", "output", "consumed"}
  <2>1. \A u \in Tasks : stage[u] \in {"none", "future", "output", "consumed", "freed", "spilt"}
    BY <1>t DEF TypeOK
  <2> QED BY SMTT(30), <1>t, <2>1, Referred DEF StageKept
<1>n. ASSUME NEW t \in Tasks, StageAt(t) PROVE StageKept'
  BY <1>t, <1>w, <1>n DEF StageKept, StageAt
<1>1. ASSUME NEW x \in Contexts, NEW t \in Tasks, Spawn(x, t) PROVE StageKept'
  <2>1. /\ refs' = [refs EXCEPT ![t] = IF shutDown THEN 1 ELSE 3]
        /\ stage' = [stage EXCEPT ![t] = IF shutDown THEN "consumed" ELSE "future"]
        /\ all' = (IF shutDown THEN all ELSE all \cup {t})
    BY <1>1, <1>t, SpawnEffect
  <2>2. ~shutDown => Owner(t)'
    BY <2>1 DEF Owner
  <2> QED BY <1>t, <1>n, <2>1, <2>2 DEF StageAt
<1>2. ASSUME NEW x \in Contexts, NEW t \in Tasks, Wake(x, t) PROVE StageKept'
  <2>1. CASE Asleep(state[t])
    <3>1. wakers[t] > 0 /\ UNCHANGED <<refs, stage>>
      BY <1>2, <2>1 DEF Wake
    <3> QED BY <1>t, <1>w, <3>1 DEF StageKept
  <2>2. CASE ~Asleep(state[t])
    <3>1. /\ Release(t, 1, stage) /\ wakers[t] > 0 /\ wakers'[t] \in Nat
          /\ pc[x] = "idle" /\ pc' = [pc EXCEPT ![x] = "idle"]
          /\ \A a \in Actors \ {x} : task'[a] = task[a]
          /\ UNCHANGED <<all, drain>>
      BY <1>2, <2>2, <1>t DEF Wake, SetScheduled, Goto, sharedVars, localVars
    <3>2. Owner(t) => Registered(t)' \/ Handled(t)'
      BY <1>t, <1>2, <3>1 DEF Owner, Registered, Handled, Keeps, KeepPCs, HandleUpPCs
    <3>3. /\ \A u \in Tasks : u # t => stage'[u] = stage[u] /\ refs'[u] = refs[u]
          /\ \/ refs'[t] # 0 /\ stage'[t] = stage[t]
             \/ refs'[t] = 0 /\ stage'[t] = "freed"
      BY <1>t, <1>r, <1>h, <3>1, <3>2, Released
    <3> QED BY <1>t, <1>h, <1>n, <3>1, <3>3 DEF StageAt
  <2> QED BY <2>1, <2>2
<1>3. ASSUME NEW x \in Contexts, NEW t \in Tasks, WakeByRef(x, t) PROVE StageKept'
  <2>1. /\ wakers[t] > 0 /\ stage' = stage
        /\ refs' = refs \/ refs' = [refs EXCEPT ![t] = @ + 1]
    BY <1>3 DEF WakeByRef, Cloned
  <2> QED BY SMTT(30), <1>t, <1>h, <1>n, <2>1 DEF StageAt
<1>4. ASSUME NEW x \in Contexts, NEW t \in Tasks, DropWaker(x, t) PROVE StageKept'
  <2>1. /\ Release(t, 1, stage) /\ wakers[t] > 0 /\ wakers'[t] \in Nat
        /\ UNCHANGED <<pc, task, all, drain, state>>
    BY <1>4, <1>t DEF DropWaker, sharedVars, localVars
  <2>2. Owner(t) => Registered(t)' \/ Handled(t)'
    BY <1>t, <2>1 DEF Owner, Registered, Handled, Keeps, KeepPCs, HandleUpPCs
  <2>3. /\ \A u \in Tasks : u # t => stage'[u] = stage[u] /\ refs'[u] = refs[u]
        /\ \/ refs'[t] # 0 /\ stage'[t] = stage[t]
           \/ refs'[t] = 0 /\ stage'[t] = "freed"
    BY <1>t, <1>r, <1>h, <2>1, <2>2, Released
  <2> QED BY <1>t, <1>h, <1>n, <2>1, <2>2, <2>3 DEF StageAt
<1>5. ASSUME NEW x \in Contexts, WakeMain(x) PROVE StageKept'
  <2>1. UNCHANGED <<refs, stage>>
    BY <1>5 DEF WakeMain, taskVars
  <2> QED BY <1>t, <1>w, <2>1 DEF StageKept
<1>6. ASSUME NEW a \in Actors, Enqueue(a) PROVE StageKept'
  <2>0. pc'[a] \notin KeepPCs \cup {"none", "gone"}
    <3>1. pc'[a] \in {"unpark", "main", "next", "idle", "detach"}
      BY <1>6, <1>t, EnqueueEffect
    <3> QED BY <3>1 DEF KeepPCs
  <2>1. /\ pc[a] = "enqueue" /\ \A b \in Actors \ {a} : pc'[b] = pc[b] /\ task'[b] = task[b]
        /\ UNCHANGED <<all, drain, wakers>>
        /\ IF shutDown THEN Release(task[a], 1, stage) ELSE UNCHANGED <<refs, stage>>
    BY <1>6, <1>t, EnqueueEffect DEF localVars
  <2>2. PICK t \in Tasks : task[a] = t
    BY <1>t, <2>1 DEF PlacesOK, TurnPCs
  <2>3. Turning(t) /\ wakers'[t] \in Nat
    BY <1>t, <2>1, <2>2 DEF HasTurn, TurnPCs, Turning
  <2>4. Owner(t) => Registered(t)' \/ Handled(t)'
    BY <1>t, <2>0, <2>1 DEF Owner, Registered, Handled, Keeps, KeepPCs, HandleUpPCs
  <2>5. CASE shutDown
    <3>1. Release(t, 1, stage)
      BY <2>1, <2>2, <2>5
    <3>2. /\ \A u \in Tasks : u # t => stage'[u] = stage[u] /\ refs'[u] = refs[u]
          /\ \/ refs'[t] # 0 /\ stage'[t] = stage[t]
             \/ refs'[t] = 0 /\ stage'[t] = "freed"
      BY <1>t, <1>r, <1>h, <2>3, <2>4, <3>1, Released
    <3> QED BY <1>t, <1>h, <1>n, <2>3, <3>2 DEF StageAt
  <2>6. CASE ~shutDown
    BY <1>t, <1>w, <2>1, <2>6 DEF StageKept
  <2> QED BY <2>5, <2>6
<1>7. ASSUME NEW a \in Actors, Unpark(a) PROVE StageKept'
  <2>1. UNCHANGED <<refs, stage>>
    BY <1>7 DEF Unpark, taskVars
  <2> QED BY <1>t, <1>w, <2>1 DEF StageKept
<1>8. ASSUME NEW r \in Runners, Register(r) PROVE StageKept'
  <2>1. UNCHANGED <<refs, stage>>
    BY <1>8 DEF Register, taskVars
  <2> QED BY <1>t, <1>w, <2>1 DEF StageKept
<1>9. ASSUME NEW r \in Runners, LookMain(r) PROVE StageKept'
  <2>1. UNCHANGED <<refs, stage>>
    BY <1>9 DEF LookMain, taskVars
  <2> QED BY <1>t, <1>w, <2>1 DEF StageKept
<1>10. ASSUME NEW r \in Runners, PollMain(r) PROVE StageKept'
  <2>1. UNCHANGED <<refs, stage>>
    BY <1>10 DEF PollMain, taskVars
  <2> QED BY <1>t, <1>w, <2>1 DEF StageKept
<1>11. ASSUME NEW r \in Runners, NextTask(r) PROVE StageKept'
  <2>1. UNCHANGED <<refs, stage>>
    BY <1>11 DEF NextTask, taskVars
  <2> QED BY <1>t, <1>w, <2>1 DEF StageKept
<1>12. ASSUME NEW r \in Runners, Decide(r) PROVE StageKept'
  <2>1. UNCHANGED <<refs, stage>>
    BY <1>12 DEF Decide, taskVars
  <2> QED BY <1>t, <1>w, <2>1 DEF StageKept
<1>13. ASSUME NEW r \in Runners, Parked(r) PROVE StageKept'
  <2>1. UNCHANGED <<refs, stage>>
    BY <1>13 DEF Parked, taskVars
  <2> QED BY <1>t, <1>w, <2>1 DEF StageKept
<1>14. ASSUME NEW r \in Runners, ParkTimeout(r) PROVE StageKept'
  <2>1. UNCHANGED <<refs, stage>>
    BY <1>14 DEF ParkTimeout, taskVars
  <2> QED BY <1>t, <1>w, <2>1 DEF StageKept
<1>15. ASSUME NEW r \in Runners, SetBusy(r) PROVE StageKept'
  <2>1. UNCHANGED <<refs, stage>>
    BY <1>15 DEF SetBusy, taskVars
  <2> QED BY <1>t, <1>w, <2>1 DEF StageKept
<1>16. ASSUME NEW r \in Runners, Begin(r) PROVE StageKept'
  <2>1. UNCHANGED <<refs, stage>>
    BY <1>16, <1>t, BeginEffect
  <2> QED BY <1>t, <1>w, <2>1 DEF StageKept
<1>17. ASSUME NEW r \in Runners, CloneWaker(r) PROVE StageKept'
  <2>1. pc[r] = "poll" /\ stage' = stage /\ refs' = [refs EXCEPT ![task[r]] = @ + 1]
    BY <1>17 DEF CloneWaker, Cloned
  <2>2. PICK t \in Tasks : t = task[r]
    BY <1>o, <1>t, <2>1
  <2>3. Turning(t)
    BY <1>t, <2>1, <2>2 DEF HasTurn, TurnPCs, Turning
  <2>4. refs[t] > 0 /\ stage' = stage /\ refs' = [refs EXCEPT ![t] = @ + 1]
    BY <1>h, <2>1, <2>2, <2>3
  <2> HIDE <1>17
  <2>5. StageAt(t)
    <3>1. refs'[t] # 0 /\ \A u \in Tasks : u # t => refs'[u] = refs[u]
      BY <1>t, <2>4
    <3>2. stage[t] \in {"future", "output", "consumed"}
      BY <1>h, <2>4
    <3> QED BY <2>4, <3>1, <3>2 DEF StageAt
  <2> QED BY <1>n, <2>5
<1>18. ASSUME NEW r \in Runners, PollReady(r) PROVE StageKept'
  <2>1. /\ pc[r] = "poll" /\ stage' = [stage EXCEPT ![task[r]] = "output"] /\ refs' = refs
    BY <1>18 DEF PollReady, Consumed
  <2>2. PICK t \in Tasks : t = task[r]
    BY <1>o, <1>t, <2>1
  <2>3. HasTurn(r, t) /\ Turning(t)
    BY <1>t, <2>1, <2>2 DEF HasTurn, TurnPCs, Turning
  <2>4. t \in all \cup drain
    <3>1. "COMPLETE" \notin state[t] /\ "RUNNING" \in state[t]
      BY <1>t, <2>1, <2>3 DEF FlagsTell, TurnFlags, HasTurn, OpenPCs
    <3> QED BY <1>t, <3>1 DEF OpenKept, HandlesTell
  <2>5. Owner(t)'
    BY <1>18, <2>4 DEF PollReady, Owner, sharedVars, localVars
  <2> QED BY <1>t, <1>h, <1>n, <2>1, <2>2, <2>3, <2>5 DEF StageAt
<1>19. ASSUME NEW r \in Runners, PollPending(r) PROVE StageKept'
  <2>1. UNCHANGED <<refs, stage>>
    BY <1>19 DEF PollPending, taskVars
  <2> QED BY <1>t, <1>w, <2>1 DEF StageKept
<1>20. ASSUME NEW r \in Runners, DropAborted(r) PROVE StageKept'
  <2>1. /\ pc[r] = "abort" /\ stage' = [stage EXCEPT ![task[r]] = "consumed"] /\ refs' = refs
    BY <1>20 DEF DropAborted, Consumed
  <2>2. PICK t \in Tasks : t = task[r]
    BY <1>o, <1>t, <2>1
  <2>3. HasTurn(r, t) /\ Turning(t)
    BY <1>t, <2>1, <2>2 DEF HasTurn, TurnPCs, Turning
  <2> QED BY <1>t, <1>h, <1>n, <2>1, <2>2, <2>3 DEF StageAt
<1>21. ASSUME NEW r \in Runners, Yield(r) PROVE StageKept'
  <2>1. /\ pc[r] = "yield" /\ UNCHANGED <<all, drain, wakers>>
        /\ \A b \in Actors \ {r} : pc'[b] = pc[b] /\ task'[b] = task[b]
        /\ Release(task[r], 1, stage) \/ UNCHANGED <<refs, stage>>
    BY <1>21, <1>t DEF Yield, Goto, sharedVars, localVars
  <2>2. PICK t \in Tasks : task[r] = t
    BY <1>o, <1>t, <2>1
  <2>3. Turning(t) /\ wakers'[t] \in Nat
    BY <1>t, <2>1, <2>2 DEF HasTurn, TurnPCs, Turning
  <2>4. Owner(t) => Registered(t)' \/ Handled(t)'
    BY <1>t, <2>1 DEF Owner, Registered, Handled, Keeps, KeepPCs, HandleUpPCs
  <2>5. CASE Release(task[r], 1, stage)
    <3>1. Release(t, 1, stage)
      BY <2>2, <2>5
    <3>2. /\ \A u \in Tasks : u # t => stage'[u] = stage[u] /\ refs'[u] = refs[u]
          /\ \/ refs'[t] # 0 /\ stage'[t] = stage[t]
             \/ refs'[t] = 0 /\ stage'[t] = "freed"
      BY <1>t, <1>r, <1>h, <2>3, <2>4, <3>1, Released
    <3> QED BY <1>t, <1>h, <1>n, <2>3, <3>2 DEF StageAt
  <2>6. CASE UNCHANGED <<refs, stage>>
    BY <1>t, <1>w, <2>6 DEF StageKept
  <2> QED BY <2>1, <2>5, <2>6
<1>22. ASSUME NEW r \in Runners, Finish(r) PROVE StageKept'
  <2>1. UNCHANGED <<refs, stage>>
    BY <1>22 DEF Finish
  <2> QED BY <1>t, <1>w, <2>1 DEF StageKept
<1>23. ASSUME NEW r \in Runners, FinishDrop(r) PROVE StageKept'
  <2>1. pc[r] = "finished" /\ refs' = refs /\ stage' = IF kept[r] THEN stage ELSE Consumed(task[r])
    BY <1>23 DEF FinishDrop, FinishedStage
  <2>2. PICK t \in Tasks : t = task[r]
    BY <1>o, <1>t, <2>1
  <2>3. HasTurn(r, t) /\ Turning(t)
    BY <1>t, <2>1, <2>2 DEF HasTurn, TurnPCs, Turning
  <2>4. CASE kept[r]
    BY <1>t, <1>w, <2>1, <2>4 DEF StageKept
  <2>5. CASE ~kept[r]
    <3>1. stage' = [stage EXCEPT ![t] = "consumed"]
      BY <2>1, <2>2, <2>5 DEF Consumed
    <3> QED BY SMTT(30), <1>t, <1>h, <1>n, <2>1, <2>3, <3>1 DEF StageAt
  <2> QED BY <2>4, <2>5
<1>24. ASSUME NEW r \in Runners, WakeJoin(r) PROVE StageKept'
  <2>1. /\ pc[r] = "wakejoin" /\ UNCHANGED <<all, drain, wakers>> /\ Release(task[r], 2, stage)
        /\ \A b \in Actors \ {r} : pc'[b] = pc[b]
    BY <1>24, <1>t DEF WakeJoin, Goto, sharedVars
  <2>2. PICK t \in Tasks : task[r] = t
    BY <1>o, <1>t, <2>1
  <2>3. Turning(t) /\ wakers'[t] \in Nat /\ Release(t, 2, stage)
    BY <1>t, <2>1, <2>2 DEF HasTurn, TurnPCs, Turning
  <2>4. Keeps(r, t) /\ t \notin all \cup drain /\ \A s \in Runners : Keeps(s, t) => s = r
    BY <1>t, <2>1, <2>2 DEF Keeps, KeepPCs, KeptOnce
  <2>5. Owner(t) => Handled(t)'
    BY <1>t, <2>1, <2>4 DEF Owner, Handled, HandleUpPCs
  <2>6. /\ \A u \in Tasks : u # t => stage'[u] = stage[u] /\ refs'[u] = refs[u]
        /\ \/ refs'[t] # 0 /\ stage'[t] = stage[t]
           \/ refs'[t] = 0 /\ stage'[t] = "freed"
    BY <1>t, <1>r, <1>h, <2>3, <2>5, Released
  <2> QED BY <1>t, <1>h, <1>n, <2>3, <2>5, <2>6 DEF StageAt
<1>25. ASSUME NEW r \in Runners, Leave(r) PROVE StageKept'
  <2>1. UNCHANGED <<refs, stage>>
    BY <1>25 DEF Leave, taskVars
  <2> QED BY <1>t, <1>w, <2>1 DEF StageKept
<1>26. ASSUME NEW r \in Runners, ShutDown(r) PROVE StageKept'
  <2>1. UNCHANGED <<refs, stage>>
    BY <1>26 DEF ShutDown, taskVars
  <2> QED BY <1>t, <1>w, <2>1 DEF StageKept
<1>27. ASSUME NEW r \in Runners, DrainQueue(r) PROVE StageKept'
  <2>1. CASE queue # <<>>
    <3>1. /\ Release(Head(queue), 1, stage) /\ UNCHANGED <<pc, task, all, drain, state, wakers>>
          /\ Head(queue) \in Tasks /\ Head(queue) \in ToSet(queue)
      BY <1>27, <1>t, <2>1, TailProperty DEF DrainQueue, localVars
    <3>2. PICK t \in Tasks : t = Head(queue)
      BY <3>1
    <3>3. Turning(t) /\ wakers'[t] \in Nat /\ Release(t, 1, stage)
      BY <1>t, <3>1, <3>2 DEF Turning, Queued
    <3>4. Owner(t) => Registered(t)' \/ Handled(t)'
      BY <1>t, <3>1 DEF Owner, Registered, Handled, Keeps, KeepPCs, HandleUpPCs
    <3>5. /\ \A u \in Tasks : u # t => stage'[u] = stage[u] /\ refs'[u] = refs[u]
          /\ \/ refs'[t] # 0 /\ stage'[t] = stage[t]
             \/ refs'[t] = 0 /\ stage'[t] = "freed"
      BY <1>t, <1>r, <1>h, <3>3, <3>4, Released
    <3> QED BY <1>t, <1>h, <1>n, <3>3, <3>5 DEF StageAt
  <2>2. CASE queue = <<>>
    <3>1. UNCHANGED <<refs, stage>>
      BY <1>27, <2>2 DEF DrainQueue
    <3> QED BY <1>t, <1>w, <3>1 DEF StageKept
  <2> QED BY <2>1, <2>2
<1>28. ASSUME NEW r \in Runners, DrainMark(r) PROVE StageKept'
  <2>1. UNCHANGED <<refs, stage>>
    BY <1>28 DEF DrainMark
  <2> QED BY <1>t, <1>w, <2>1 DEF StageKept
<1>29. ASSUME NEW r \in Runners, DrainStage(r) PROVE StageKept'
  <2>1. /\ pc[r] = "drainstage" /\ UNCHANGED wakers /\ Release(task[r], 1, Consumed(task[r]))
    BY <1>29 DEF DrainStage
  <2>2. PICK t \in Tasks : task[r] = t
    BY <1>o, <1>t, <2>1
  <2> DEFINE st == [stage EXCEPT ![t] = "consumed"]
  <2>3. Registered(t) /\ wakers'[t] \in Nat /\ Release(t, 1, st)
    BY <1>t, <2>1, <2>2 DEF Keeps, KeepPCs, Registered, Consumed
  <2>4. refs[t] > 0
    BY <1>t, <2>3, Referred
  <2>5. DOMAIN st = Tasks /\ st[t] = "consumed" /\ \A u \in Tasks : u # t => st[u] = stage[u]
    BY <1>t
  <2> HIDE DEF st
  <2>6. /\ \A u \in Tasks : u # t => stage'[u] = st[u] /\ refs'[u] = refs[u]
        /\ \/ refs'[t] # 0 /\ stage'[t] = st[t]
           \/ refs'[t] = 0 /\ stage'[t] = "freed"
    BY <1>t, <1>r, <2>3, <2>4, <2>5, Released
  <2> QED BY <1>n, <2>5, <2>6 DEF StageAt
<1>30. ASSUME NEW t \in Tasks, JoinPoll(t) PROVE StageKept'
  <2>1. UNCHANGED <<refs, stage>>
    BY <1>30 DEF JoinPoll, taskVars
  <2> QED BY <1>t, <1>w, <2>1 DEF StageKept
<1>31. ASSUME NEW t \in Tasks, JoinRegister(t) PROVE StageKept'
  <2>1. UNCHANGED <<refs, stage>>
    BY <1>31 DEF JoinRegister, taskVars
  <2> QED BY <1>t, <1>w, <2>1 DEF StageKept
<1>32. ASSUME NEW t \in Tasks, JoinTake(t) PROVE StageKept'
  <2>1. pc[t] = "take" /\ stage' = [stage EXCEPT ![t] = "consumed"] /\ refs' = refs
    BY <1>32 DEF JoinTake, Consumed
  <2>2. Handled(t)
    BY <2>1 DEF Handled
  <2> QED BY <1>t, <1>h, <1>n, <2>1, <2>2 DEF StageAt
<1>33. ASSUME NEW t \in Tasks, Abort(t) PROVE StageKept'
  <2>1. /\ Handled(t) /\ stage' = stage
        /\ refs' = refs \/ refs' = [refs EXCEPT ![t] = @ + 1]
    BY <1>33 DEF Abort, Cloned, Handled
  <2> QED BY SMTT(30), <1>t, <1>h, <1>n, <2>1 DEF StageAt
<1>34. ASSUME NEW t \in Tasks, DropHandle(t) PROVE StageKept'
  <2>1. UNCHANGED <<refs, stage>>
    BY <1>34 DEF DropHandle, taskVars
  <2> QED BY <1>t, <1>w, <2>1 DEF StageKept
<1>35. ASSUME NEW t \in Tasks, Detach(t) PROVE StageKept'
  <2>1. UNCHANGED <<refs, stage>>
    BY <1>35 DEF Detach
  <2> QED BY <1>t, <1>w, <2>1 DEF StageKept
<1>36. ASSUME NEW t \in Tasks, DropOutput(t) PROVE StageKept'
  <2>1. pc[t] = "dropout" /\ stage' = [stage EXCEPT ![t] = "consumed"] /\ refs' = refs
    BY <1>36 DEF DropOutput, Consumed
  <2>2. Handled(t)
    BY <2>1 DEF Handled
  <2> QED BY <1>t, <1>h, <1>n, <2>1, <2>2 DEF StageAt
<1>37. ASSUME NEW t \in Tasks, ReleaseHandle(t) PROVE StageKept'
  <2>1. /\ pc[t] = "release" /\ pc' = [pc EXCEPT ![t] = "gone"]
        /\ UNCHANGED <<all, drain, wakers, task>> /\ Release(t, 1, stage)
    BY <1>37 DEF ReleaseHandle, Goto, sharedVars, localVars
  <2>2. Handled(t) /\ wakers'[t] \in Nat
    BY <1>t, <2>1 DEF Handled
  <2>3. Owner(t) => Registered(t)'
    BY <1>t, <2>1 DEF Owner, Registered, Keeps, KeepPCs, HandleUpPCs
  <2>4. /\ \A u \in Tasks : u # t => stage'[u] = stage[u] /\ refs'[u] = refs[u]
        /\ \/ refs'[t] # 0 /\ stage'[t] = stage[t]
           \/ refs'[t] = 0 /\ stage'[t] = "freed"
    BY <1>t, <1>r, <1>h, <2>1, <2>2, <2>3, Released
  <2> QED BY <1>t, <1>h, <1>n, <2>1, <2>2, <2>3, <2>4 DEF StageAt
<1>38. CASE UNCHANGED vars
  <2>1. UNCHANGED <<refs, stage>>
    BY <1>38 DEF vars
  <2> QED BY <1>t, <1>w, <2>1 DEF StageKept
<1> QED BY <1>1, <1>2, <1>3, <1>4, <1>5, <1>6, <1>7, <1>8, <1>9, <1>10, <1>11, <1>12, <1>13,
      <1>14, <1>15, <1>16, <1>17, <1>18, <1>19, <1>20, <1>21, <1>22, <1>23, <1>24, <1>25,
      <1>26, <1>27, <1>28, <1>29, <1>30, <1>31, <1>32, <1>33, <1>34, <1>35, <1>36, <1>37,
      <1>38 DEF Next, ContextStep, RunnerStep, TurnStep, EndStep, PollStep, HandleStep

\* The counts stay numbers, and the wakers within their bound.
LEMMA CountsTyped ==
  ASSUME IInv, [Next]_vars
  PROVE  refs' \in [Tasks -> Int] /\ wakers' \in [Tasks -> 0 .. MaxWakers]
<1>t. /\ refs \in [Tasks -> Nat] /\ wakers \in [Tasks -> 0 .. MaxWakers] /\ MaxWakers \in Nat
      /\ IInv /\ TypeOK /\ HandlesTell /\ PlacesOK
  BY Typing DEF IInv
<1>a. Actors = Tasks \cup Contexts \cup Runners
  BY DEF Actors
<1>o. \A a \in Actors :
        pc[a] \in {"enqueue", "begin", "poll", "abort", "yield", "finish", "finished",
                                  "wakejoin", "drainstage"} => task[a] \in Tasks
  <2>1. /\ task \in [Actors -> Tasks \cup {None}] /\ Actors = Tasks \cup Contexts \cup Runners
        /\ \A t \in Tasks : task[t] = t
    BY <1>t, Typing DEF PlacesOK
  <2> QED BY <1>t, <2>1 DEF PlacesOK, TurnPCs
<1>1. ASSUME NEW x \in Contexts, NEW t \in Tasks, Spawn(x, t)
      PROVE  refs' \in [Tasks -> Int] /\ wakers' \in [Tasks -> 0 .. MaxWakers]
  <2>1. refs' = [refs EXCEPT ![t] = IF shutDown THEN 1 ELSE 3] /\ wakers' = wakers
    BY <1>1, <1>t, SpawnEffect
  <2> QED BY <1>t, <2>1
<1>2. ASSUME NEW x \in Contexts, NEW t \in Tasks, Wake(x, t)
      PROVE  refs' \in [Tasks -> Int] /\ wakers' \in [Tasks -> 0 .. MaxWakers]
  BY <1>2, <1>t, <1>o, <1>a DEF Wake, SetScheduled, Asleep, Goto, Release, sharedVars,
                               joinVars, localVars
<1>3. ASSUME NEW x \in Contexts, NEW t \in Tasks, WakeByRef(x, t)
      PROVE  refs' \in [Tasks -> Int] /\ wakers' \in [Tasks -> 0 .. MaxWakers]
  BY <1>3, <1>t, <1>o, <1>a DEF WakeByRef, SetScheduled, Asleep, Goto, Cloned, sharedVars,
                               joinVars, localVars
<1>4. ASSUME NEW x \in Contexts, NEW t \in Tasks, DropWaker(x, t)
      PROVE  refs' \in [Tasks -> Int] /\ wakers' \in [Tasks -> 0 .. MaxWakers]
  BY <1>4, <1>t, <1>o, <1>a DEF DropWaker, Release, sharedVars, joinVars, localVars
<1>5. ASSUME NEW x \in Contexts, WakeMain(x)
      PROVE  refs' \in [Tasks -> Int] /\ wakers' \in [Tasks -> 0 .. MaxWakers]
  BY <1>5, <1>t, <1>o, <1>a DEF WakeMain, Goto, taskVars, sharedVars, joinVars, localVars
<1>6. ASSUME NEW a \in Actors, Enqueue(a)
      PROVE  refs' \in [Tasks -> Int] /\ wakers' \in [Tasks -> 0 .. MaxWakers]
  <2>1. /\ IF shutDown THEN Release(task[a], 1, stage) ELSE UNCHANGED <<refs, stage>>
        /\ wakers' = wakers
    BY <1>6, <1>t, EnqueueEffect
  <2> QED BY <1>t, <2>1 DEF Release
<1>7. ASSUME NEW a \in Actors, Unpark(a)
      PROVE  refs' \in [Tasks -> Int] /\ wakers' \in [Tasks -> 0 .. MaxWakers]
  BY <1>7, <1>t, <1>o, <1>a DEF Unpark, Goto, Resume, Loop, taskVars, sharedVars, joinVars,
                               localVars
<1>8. ASSUME NEW r \in Runners, Register(r)
      PROVE  refs' \in [Tasks -> Int] /\ wakers' \in [Tasks -> 0 .. MaxWakers]
  BY <1>8, <1>t, <1>o, <1>a DEF Register, Goto, Loop, taskVars, joinVars, localVars
<1>9. ASSUME NEW r \in Runners, LookMain(r)
      PROVE  refs' \in [Tasks -> Int] /\ wakers' \in [Tasks -> 0 .. MaxWakers]
  BY <1>9, <1>t, <1>o, <1>a DEF LookMain, Goto, taskVars, sharedVars, joinVars, localVars
<1>10. ASSUME NEW r \in Runners, PollMain(r)
       PROVE  refs' \in [Tasks -> Int] /\ wakers' \in [Tasks -> 0 .. MaxWakers]
  BY <1>10, <1>t, <1>o, <1>a DEF PollMain, Goto, taskVars, sharedVars, joinVars, localVars
<1>11. ASSUME NEW r \in Runners, NextTask(r)
       PROVE  refs' \in [Tasks -> Int] /\ wakers' \in [Tasks -> 0 .. MaxWakers]
  BY <1>11, <1>t, <1>o, <1>a DEF NextTask, Goto, taskVars, joinVars, localVars
<1>12. ASSUME NEW r \in Runners, Decide(r)
       PROVE  refs' \in [Tasks -> Int] /\ wakers' \in [Tasks -> 0 .. MaxWakers]
  BY <1>12, <1>t, <1>o, <1>a DEF Decide, Goto, taskVars, sharedVars, joinVars, localVars
<1>13. ASSUME NEW r \in Runners, Parked(r)
       PROVE  refs' \in [Tasks -> Int] /\ wakers' \in [Tasks -> 0 .. MaxWakers]
  BY <1>13, <1>t, <1>o, <1>a DEF Parked, Goto, taskVars, sharedVars, joinVars, localVars
<1>14. ASSUME NEW r \in Runners, ParkTimeout(r)
       PROVE  refs' \in [Tasks -> Int] /\ wakers' \in [Tasks -> 0 .. MaxWakers]
  BY <1>14, <1>t, <1>o, <1>a DEF ParkTimeout, Goto, taskVars, sharedVars, joinVars,
                                localVars
<1>15. ASSUME NEW r \in Runners, SetBusy(r)
       PROVE  refs' \in [Tasks -> Int] /\ wakers' \in [Tasks -> 0 .. MaxWakers]
  BY <1>15, <1>t, <1>o, <1>a DEF SetBusy, Goto, Loop, taskVars, joinVars, localVars
<1>16. ASSUME NEW r \in Runners, Begin(r)
       PROVE  refs' \in [Tasks -> Int] /\ wakers' \in [Tasks -> 0 .. MaxWakers]
  <2>1. UNCHANGED <<refs, wakers>>
    BY <1>16, <1>t, BeginEffect
  <2> QED BY <1>t, <2>1
<1>17. ASSUME NEW r \in Runners, CloneWaker(r)
       PROVE  refs' \in [Tasks -> Int] /\ wakers' \in [Tasks -> 0 .. MaxWakers]
  BY <1>17, <1>t, <1>o, <1>a DEF CloneWaker, Cloned, sharedVars, joinVars, localVars
<1>18. ASSUME NEW r \in Runners, PollReady(r)
       PROVE  refs' \in [Tasks -> Int] /\ wakers' \in [Tasks -> 0 .. MaxWakers]
  BY <1>18, <1>t, <1>o, <1>a DEF PollReady, Goto, sharedVars, joinVars, localVars
<1>19. ASSUME NEW r \in Runners, PollPending(r)
       PROVE  refs' \in [Tasks -> Int] /\ wakers' \in [Tasks -> 0 .. MaxWakers]
  BY <1>19, <1>t, <1>o, <1>a DEF PollPending, Goto, taskVars, sharedVars, joinVars,
                                localVars
<1>20. ASSUME NEW r \in Runners, DropAborted(r)
       PROVE  refs' \in [Tasks -> Int] /\ wakers' \in [Tasks -> 0 .. MaxWakers]
  BY <1>20, <1>t, <1>o, <1>a DEF DropAborted, Goto, Consumed, sharedVars, joinVars,
                                localVars
<1>21. ASSUME NEW r \in Runners, Yield(r)
       PROVE  refs' \in [Tasks -> Int] /\ wakers' \in [Tasks -> 0 .. MaxWakers]
  BY <1>21, <1>t, <1>o, <1>a DEF Yield, AfterYield, Goto, Release, Loop, sharedVars,
                                joinVars, localVars
<1>22. ASSUME NEW r \in Runners, Finish(r)
       PROVE  refs' \in [Tasks -> Int] /\ wakers' \in [Tasks -> 0 .. MaxWakers]
  BY <1>22, <1>t, <1>o, <1>a DEF Finish, Goto
<1>23. ASSUME NEW r \in Runners, FinishDrop(r)
       PROVE  refs' \in [Tasks -> Int] /\ wakers' \in [Tasks -> 0 .. MaxWakers]
  BY <1>23, <1>t, <1>o, <1>a DEF FinishDrop, FinishedStage, Consumed, Goto, sharedVars,
                                joinVars, localVars
<1>24. ASSUME NEW r \in Runners, WakeJoin(r)
       PROVE  refs' \in [Tasks -> Int] /\ wakers' \in [Tasks -> 0 .. MaxWakers]
  BY <1>24, <1>t, <1>o, <1>a DEF WakeJoin, Release, Goto, Loop, sharedVars
<1>25. ASSUME NEW r \in Runners, Leave(r)
       PROVE  refs' \in [Tasks -> Int] /\ wakers' \in [Tasks -> 0 .. MaxWakers]
  BY <1>25, <1>t, <1>o, <1>a DEF Leave, Goto, taskVars, joinVars, localVars
<1>26. ASSUME NEW r \in Runners, ShutDown(r)
       PROVE  refs' \in [Tasks -> Int] /\ wakers' \in [Tasks -> 0 .. MaxWakers]
  BY <1>26, <1>t, <1>o, <1>a DEF ShutDown, Goto, taskVars, joinVars
<1>27. ASSUME NEW r \in Runners, DrainQueue(r)
       PROVE  refs' \in [Tasks -> Int] /\ wakers' \in [Tasks -> 0 .. MaxWakers]
  BY <1>27, <1>t, <1>o, <1>a DEF DrainQueue, Goto, Release, joinVars, localVars
<1>28. ASSUME NEW r \in Runners, DrainMark(r)
       PROVE  refs' \in [Tasks -> Int] /\ wakers' \in [Tasks -> 0 .. MaxWakers]
  BY <1>28, <1>t, <1>o, <1>a DEF DrainMark, Goto, sharedVars
<1>29. ASSUME NEW r \in Runners, DrainStage(r)
       PROVE  refs' \in [Tasks -> Int] /\ wakers' \in [Tasks -> 0 .. MaxWakers]
  BY <1>29, <1>t, <1>o, <1>a DEF DrainStage, Release, Consumed, Goto, sharedVars, joinVars,
                                localVars
<1>30. ASSUME NEW t \in Tasks, JoinPoll(t)
       PROVE  refs' \in [Tasks -> Int] /\ wakers' \in [Tasks -> 0 .. MaxWakers]
  BY <1>30, <1>t, <1>o, <1>a DEF JoinPoll, Goto, taskVars, sharedVars, localVars
<1>31. ASSUME NEW t \in Tasks, JoinRegister(t)
       PROVE  refs' \in [Tasks -> Int] /\ wakers' \in [Tasks -> 0 .. MaxWakers]
  BY <1>31, <1>t, <1>o, <1>a DEF JoinRegister, Goto, taskVars, sharedVars, localVars
<1>32. ASSUME NEW t \in Tasks, JoinTake(t)
       PROVE  refs' \in [Tasks -> Int] /\ wakers' \in [Tasks -> 0 .. MaxWakers]
  BY <1>32, <1>t, <1>o, <1>a DEF JoinTake, Goto, Consumed, sharedVars, joinVars, localVars
<1>33. ASSUME NEW t \in Tasks, Abort(t)
       PROVE  refs' \in [Tasks -> Int] /\ wakers' \in [Tasks -> 0 .. MaxWakers]
  BY <1>33, <1>t, <1>o, <1>a DEF Abort, Asleep, Cloned, Goto, sharedVars, joinVars,
                                localVars
<1>34. ASSUME NEW t \in Tasks, DropHandle(t)
       PROVE  refs' \in [Tasks -> Int] /\ wakers' \in [Tasks -> 0 .. MaxWakers]
  BY <1>34, <1>t, <1>o, <1>a DEF DropHandle, Goto, taskVars, sharedVars, joinVars, localVars
<1>35. ASSUME NEW t \in Tasks, Detach(t)
       PROVE  refs' \in [Tasks -> Int] /\ wakers' \in [Tasks -> 0 .. MaxWakers]
  BY <1>35, <1>t, <1>o, <1>a DEF Detach, DetachOwns, Goto, sharedVars, localVars
<1>36. ASSUME NEW t \in Tasks, DropOutput(t)
       PROVE  refs' \in [Tasks -> Int] /\ wakers' \in [Tasks -> 0 .. MaxWakers]
  BY <1>36, <1>t, <1>o, <1>a DEF DropOutput, Goto, Consumed, sharedVars, joinVars, localVars
<1>37. ASSUME NEW t \in Tasks, ReleaseHandle(t)
       PROVE  refs' \in [Tasks -> Int] /\ wakers' \in [Tasks -> 0 .. MaxWakers]
  BY <1>37, <1>t, <1>o, <1>a DEF ReleaseHandle, Release, Goto, sharedVars, joinVars,
                                localVars
<1>38. CASE UNCHANGED vars
  BY <1>38, <1>t, <1>o, <1>a DEF vars
<1> QED BY <1>1, <1>2, <1>3, <1>4, <1>5, <1>6, <1>7, <1>8, <1>9, <1>10, <1>11, <1>12, <1>13,
      <1>14, <1>15, <1>16, <1>17, <1>18, <1>19, <1>20, <1>21, <1>22, <1>23, <1>24, <1>25,
      <1>26, <1>27, <1>28, <1>29, <1>30, <1>31, <1>32, <1>33, <1>34, <1>35, <1>36, <1>37,
      <1>38 DEF Next, ContextStep, RunnerStep, TurnStep, EndStep, PollStep, HandleStep

\* Every variable keeps its type.
LEMMA TypeStep ==
  ASSUME IInv, [Next]_vars PROVE TypeOK'
<1>t. /\ IInv /\ TypeOK /\ HandlesTell /\ PlacesOK
      /\ Actors = Tasks \cup Contexts \cup Runners /\ (Main # None => Main \in Runners)
  BY Typing DEF IInv
<1>o. \A a \in Actors :
        pc[a] \in {"enqueue", "begin", "poll", "abort", "yield", "finish", "finished",
                                  "wakejoin", "drainstage"} => task[a] \in Tasks
  <2>1. /\ task \in [Actors -> Tasks \cup {None}] /\ Actors = Tasks \cup Contexts \cup Runners
        /\ \A t \in Tasks : task[t] = t
    BY <1>t, Typing DEF PlacesOK
  <2> QED BY <1>t, <2>1 DEF PlacesOK, TurnPCs
<1>c. refs' \in [Tasks -> Nat] /\ wakers' \in [Tasks -> 0 .. MaxWakers]
  <2>1. refs' \in [Tasks -> Int] /\ wakers' \in [Tasks -> 0 .. MaxWakers] /\ MaxWakers \in Nat
    BY CountsTyped, ExecutorAssumption
  <2>2. RefsAdd'
    BY RefsStep
  <2>3. ASSUME NEW u \in Tasks PROVE refs'[u] \in Nat
    <3>1. refs'[u] = One(Registered(u)') + One(Turning(u)') + wakers'[u] + One(Handled(u)')
      BY <2>2 DEF RefsAdd, One
    <3>2. wakers'[u] \in Nat
      BY <2>1
    <3> QED BY <3>1, <3>2 DEF One
  <2> QED BY <2>1, <2>3
<1>1. ASSUME NEW x \in Contexts, NEW t \in Tasks, Spawn(x, t) PROVE TypeOK'
  <2>1. /\ pc' \in [Actors -> PCs] /\ claimed' \in [Actors -> Runners \cup {None}]
        /\ state' = [state EXCEPT ![t] = {"SCHEDULED", "HANDLE"}
                                         \cup IF shutDown THEN {"COMPLETE"} ELSE {}]
        /\ stage' = [stage EXCEPT ![t] = IF shutDown THEN "consumed" ELSE "future"]
    BY <1>1, <1>t, SpawnEffect
  <2>2. /\ queue' = (IF shutDown THEN queue ELSE Append(queue, t))
        /\ all' = (IF shutDown THEN all ELSE all \cup {t})
        /\ nextClaim' \in Runners /\ runner' \in [Runners -> {"absent", "busy", "idle"}]
        /\ UNCHANGED <<task, shutDown, token, woken, joinWaker, joinSignal, kept, owed, drain>>
    BY <1>1, <1>t, SpawnEffect DEF joinVars, localVars
  <2> QED BY <1>t, <1>c, <2>1, <2>2 DEF TypeOK, Flags
<1>2. ASSUME NEW x \in Contexts, NEW t \in Tasks, Wake(x, t) PROVE TypeOK'
  BY <1>2, <1>t, <1>c, <1>o DEF Wake, SetScheduled, Asleep, Goto, Release, sharedVars,
                               joinVars, localVars, TypeOK, PCs, RunnerPCs, HandlePCs, Flags
<1>3. ASSUME NEW x \in Contexts, NEW t \in Tasks, WakeByRef(x, t) PROVE TypeOK'
  BY <1>3, <1>t, <1>c, <1>o DEF WakeByRef, SetScheduled, Asleep, Goto, Cloned, sharedVars,
                               joinVars, localVars, TypeOK, PCs, RunnerPCs, HandlePCs, Flags
<1>4. ASSUME NEW x \in Contexts, NEW t \in Tasks, DropWaker(x, t) PROVE TypeOK'
  BY <1>4, <1>t, <1>c, <1>o DEF DropWaker, Release, sharedVars, joinVars, localVars, TypeOK,
                               PCs, RunnerPCs, HandlePCs, Flags
<1>5. ASSUME NEW x \in Contexts, WakeMain(x) PROVE TypeOK'
  BY <1>5, <1>t, <1>c, <1>o DEF WakeMain, Goto, taskVars, sharedVars, joinVars, localVars,
                               TypeOK, PCs, RunnerPCs, HandlePCs, Flags
<1>6. ASSUME NEW a \in Actors, Enqueue(a) PROVE TypeOK'
  <2>1. /\ pc' \in [Actors -> PCs] /\ claimed' \in [Actors -> Runners \cup {None}]
        /\ task' = [task EXCEPT ![a] = IF a \in Tasks THEN a ELSE None] /\ pc[a] = "enqueue"
        /\ IF shutDown THEN Release(task[a], 1, stage) ELSE UNCHANGED <<refs, stage>>
        /\ queue' = (IF shutDown THEN queue ELSE Append(queue, task[a]))
        /\ nextClaim' \in Runners /\ runner' \in [Runners -> {"absent", "busy", "idle"}]
        /\ UNCHANGED <<state, all, shutDown, token, woken, joinWaker, joinSignal, kept, owed,
                       drain>>
    BY <1>6, <1>t, EnqueueEffect DEF joinVars, localVars
  <2>2. PICK t \in Tasks : task[a] = t
    BY <1>o, <2>1
  <2>3. stage' \in [Tasks -> {"none", "future", "output", "consumed", "freed", "spilt"}]
    <3>1. \/ stage' = stage \/ stage' = [stage EXCEPT ![t] = "freed"]
          \/ stage' = [stage EXCEPT ![t] = "spilt"]
      BY <2>1, <2>2 DEF Release
    <3> QED BY <1>t, <3>1 DEF TypeOK
  <2>4. queue' \in Seq(Tasks) /\ task' \in [Actors -> Tasks \cup {None}]
    BY <1>t, <2>1, <2>2 DEF TypeOK
  <2> QED BY <1>t, <1>c, <2>1, <2>3, <2>4 DEF TypeOK
<1>7. ASSUME NEW a \in Actors, Unpark(a) PROVE TypeOK'
  BY <1>7, <1>t, <1>c, <1>o DEF Unpark, Goto, Resume, Loop, taskVars, sharedVars, joinVars,
                               localVars, TypeOK, PCs, RunnerPCs, HandlePCs, Flags
<1>8. ASSUME NEW r \in Runners, Register(r) PROVE TypeOK'
  BY <1>8, <1>t, <1>c, <1>o DEF Register, Goto, Loop, taskVars, joinVars, localVars, TypeOK,
                               PCs, RunnerPCs, HandlePCs, Flags
<1>9. ASSUME NEW r \in Runners, LookMain(r) PROVE TypeOK'
  BY <1>9, <1>t, <1>c, <1>o DEF LookMain, Goto, taskVars, sharedVars, joinVars, localVars,
                               TypeOK, PCs, RunnerPCs, HandlePCs, Flags
<1>10. ASSUME NEW r \in Runners, PollMain(r) PROVE TypeOK'
  BY <1>10, <1>t, <1>c, <1>o DEF PollMain, Goto, taskVars, sharedVars, joinVars, localVars,
                                TypeOK, PCs, RunnerPCs, HandlePCs, Flags
<1>11. ASSUME NEW r \in Runners, NextTask(r) PROVE TypeOK'
  <2>1. queue \in Seq(Tasks)
    BY <1>t DEF TypeOK
  <2>2. queue' \in Seq(Tasks) /\ task' \in [Actors -> Tasks \cup {None}]
    <3>1. CASE queue = <<>>
      BY <1>11, <1>t, <3>1 DEF NextTask, TypeOK
    <3>2. CASE queue # <<>>
      <4>1. Head(queue) \in Tasks /\ Tail(queue) \in Seq(Tasks)
        BY <2>1, <3>2, TailProperty
      <4> QED BY <1>11, <1>t, <3>2, <4>1 DEF NextTask, TypeOK
    <3> QED BY <3>1, <3>2
  <2>3. pc' \in [Actors -> PCs] /\ runner' \in [Runners -> {"absent", "busy", "idle"}]
    BY <1>11, <1>t DEF NextTask, Goto, TypeOK, PCs, RunnerPCs
  <2> QED BY <1>11, <1>t, <1>c, <2>2, <2>3 DEF NextTask, taskVars, joinVars, localVars, TypeOK
<1>12. ASSUME NEW r \in Runners, Decide(r) PROVE TypeOK'
  BY <1>12, <1>t, <1>c, <1>o DEF Decide, Goto, taskVars, sharedVars, joinVars, localVars,
                                TypeOK, PCs, RunnerPCs, HandlePCs, Flags
<1>13. ASSUME NEW r \in Runners, Parked(r) PROVE TypeOK'
  BY <1>13, <1>t, <1>c, <1>o DEF Parked, Goto, taskVars, sharedVars, joinVars, localVars,
                                TypeOK, PCs, RunnerPCs, HandlePCs, Flags
<1>14. ASSUME NEW r \in Runners, ParkTimeout(r) PROVE TypeOK'
  BY <1>14, <1>t, <1>c, <1>o DEF ParkTimeout, Goto, taskVars, sharedVars, joinVars,
                                localVars, TypeOK, PCs, RunnerPCs, HandlePCs, Flags
<1>15. ASSUME NEW r \in Runners, SetBusy(r) PROVE TypeOK'
  BY <1>15, <1>t, <1>c, <1>o DEF SetBusy, Goto, Loop, taskVars, joinVars, localVars, TypeOK,
                                PCs, RunnerPCs, HandlePCs, Flags
<1>16. ASSUME NEW r \in Runners, Begin(r) PROVE TypeOK'
  <2>1. /\ pc' = [pc EXCEPT ![r] = IF "ABORTED" \in state[task[r]] THEN "abort" ELSE "poll"]
        /\ state' = [state EXCEPT ![task[r]] = (@ \ {"SCHEDULED"}) \cup {"RUNNING"}]
        /\ UNCHANGED <<stage, queue, all, runner, nextClaim, shutDown, token, woken,
                       joinWaker, joinSignal, task, claimed, kept, owed, drain>>
    BY <1>16, <1>t, BeginEffect DEF sharedVars, joinVars, localVars
  <2> QED BY <1>t, <1>c, <2>1 DEF TypeOK, Flags, PCs, RunnerPCs
<1>17. ASSUME NEW r \in Runners, CloneWaker(r) PROVE TypeOK'
  BY <1>17, <1>t, <1>c, <1>o DEF CloneWaker, Cloned, sharedVars, joinVars, localVars,
                                TypeOK, PCs, RunnerPCs, HandlePCs, Flags
<1>18. ASSUME NEW r \in Runners, PollReady(r) PROVE TypeOK'
  BY <1>18, <1>t, <1>c, <1>o DEF PollReady, Goto, sharedVars, joinVars, localVars, TypeOK,
                                PCs, RunnerPCs, HandlePCs, Flags
<1>19. ASSUME NEW r \in Runners, PollPending(r) PROVE TypeOK'
  BY <1>19, <1>t, <1>c, <1>o DEF PollPending, Goto, taskVars, sharedVars, joinVars,
                                localVars, TypeOK, PCs, RunnerPCs, HandlePCs, Flags
<1>20. ASSUME NEW r \in Runners, DropAborted(r) PROVE TypeOK'
  BY <1>20, <1>t, <1>c, <1>o DEF DropAborted, Goto, Consumed, sharedVars, joinVars,
                                localVars, TypeOK, PCs, RunnerPCs, HandlePCs, Flags
<1>21. ASSUME NEW r \in Runners, Yield(r) PROVE TypeOK'
  BY ZenonT(60), <1>21, <1>t, <1>c, <1>o DEF Yield, AfterYield, Goto, Release, Loop, sharedVars,
                                joinVars, localVars, TypeOK, PCs, RunnerPCs, HandlePCs,
                                Flags
<1>22. ASSUME NEW r \in Runners, Finish(r) PROVE TypeOK'
  <2>1. pc[r] = "finish" /\ task[r] \in Tasks
    BY <1>22, <1>t, <1>o DEF Finish
  <2>2. state' \in [Tasks -> SUBSET Flags] /\ joinWaker' \in [Tasks -> BOOLEAN]
    BY <1>22, <1>t, <2>1 DEF Finish, TypeOK, Flags
  <2>3. kept' \in [Runners -> BOOLEAN] /\ owed' \in [Runners -> BOOLEAN]
    BY <1>22, <1>t, <2>1 DEF Finish, TypeOK
  <2>4. pc' \in [Actors -> PCs]
    BY <1>22, <1>t DEF Finish, Goto, TypeOK, PCs, RunnerPCs
  <2> QED BY <1>22, <1>t, <1>c, <2>2, <2>3, <2>4 DEF Finish, TypeOK
<1>23. ASSUME NEW r \in Runners, FinishDrop(r) PROVE TypeOK'
  BY <1>23, <1>t, <1>c, <1>o DEF FinishDrop, FinishedStage, Consumed, Goto, sharedVars,
                                joinVars, localVars, TypeOK, PCs, RunnerPCs, HandlePCs,
                                Flags
<1>24. ASSUME NEW r \in Runners, WakeJoin(r) PROVE TypeOK'
  BY <1>24, <1>t, <1>c, <1>o DEF WakeJoin, Release, Goto, Loop, sharedVars, TypeOK, PCs,
                                RunnerPCs, HandlePCs, Flags
<1>25. ASSUME NEW r \in Runners, Leave(r) PROVE TypeOK'
  BY <1>25, <1>t, <1>c, <1>o DEF Leave, Goto, taskVars, joinVars, localVars, TypeOK, PCs,
                                RunnerPCs, HandlePCs, Flags
<1>26. ASSUME NEW r \in Runners, ShutDown(r) PROVE TypeOK'
  BY <1>26, <1>t, <1>c, <1>o DEF ShutDown, Goto, taskVars, joinVars, TypeOK, PCs, RunnerPCs,
                                HandlePCs, Flags
<1>27. ASSUME NEW r \in Runners, DrainQueue(r) PROVE TypeOK'
  <2>1. queue \in Seq(Tasks) /\ stage' \in [Tasks -> {"none", "future", "output", "consumed",
                                                      "freed", "spilt"}]
    BY <1>27, <1>t DEF DrainQueue, Release, TypeOK
  <2>2. queue' \in Seq(Tasks)
    BY <1>27, <2>1, TailProperty DEF DrainQueue
  <2>3. pc' \in [Actors -> PCs]
    <3>1. pc' = pc \/ pc' = [pc EXCEPT ![r] = "drainall"]
      BY <1>27 DEF DrainQueue, Goto
    <3> QED BY <1>t, <3>1 DEF TypeOK, PCs, RunnerPCs
  <2> QED BY <1>27, <1>t, <1>c, <2>1, <2>2, <2>3 DEF DrainQueue, joinVars, localVars, TypeOK
<1>28. ASSUME NEW r \in Runners, DrainMark(r) PROVE TypeOK'
  <2>1. CASE drain = {}
    BY <1>28, <1>t, <1>c, <2>1 DEF DrainMark, Goto, sharedVars, TypeOK, PCs, RunnerPCs
  <2>2. CASE drain # {}
    <3>1. PICK t \in drain :
            /\ state' = [state EXCEPT ![t] = @ \cup {"COMPLETE"}]
            /\ joinWaker' = [joinWaker EXCEPT ![t] = FALSE]
            /\ drain' = drain \ {t}
            /\ task' = [task EXCEPT ![r] = t]
            /\ pc' = [pc EXCEPT ![r] = "drainstage"]
      BY <1>28, <2>2 DEF DrainMark, Goto
    <3> QED BY <1>28, <1>t, <1>c, <3>1 DEF DrainMark, sharedVars, TypeOK, PCs, RunnerPCs, Flags
  <2> QED BY <2>1, <2>2
<1>29. ASSUME NEW r \in Runners, DrainStage(r) PROVE TypeOK'
  BY <1>29, <1>t, <1>c, <1>o DEF DrainStage, Release, Consumed, Goto, sharedVars, joinVars,
                                localVars, TypeOK, PCs, RunnerPCs, HandlePCs, Flags
<1>30. ASSUME NEW t \in Tasks, JoinPoll(t) PROVE TypeOK'
  BY <1>30, <1>t, <1>c, <1>o DEF JoinPoll, Goto, taskVars, sharedVars, localVars, TypeOK,
                                PCs, RunnerPCs, HandlePCs, Flags
<1>31. ASSUME NEW t \in Tasks, JoinRegister(t) PROVE TypeOK'
  BY ZenonT(60), <1>31, <1>t, <1>c, <1>o DEF JoinRegister, Goto, taskVars, sharedVars, localVars,
                                TypeOK, PCs, RunnerPCs, HandlePCs, Flags
<1>32. ASSUME NEW t \in Tasks, JoinTake(t) PROVE TypeOK'
  BY <1>32, <1>t, <1>c, <1>o DEF JoinTake, Goto, Consumed, sharedVars, joinVars, localVars,
                                TypeOK, PCs, RunnerPCs, HandlePCs, Flags
<1>33. ASSUME NEW t \in Tasks, Abort(t) PROVE TypeOK'
  BY ZenonT(60), <1>33, <1>t, <1>c, <1>o DEF Abort, Asleep, Cloned, Goto, sharedVars, joinVars,
                                localVars, TypeOK, PCs, RunnerPCs, HandlePCs, Flags
<1>34. ASSUME NEW t \in Tasks, DropHandle(t) PROVE TypeOK'
  BY <1>34, <1>t, <1>c, <1>o DEF DropHandle, Goto, taskVars, sharedVars, joinVars,
                                localVars, TypeOK, PCs, RunnerPCs, HandlePCs, Flags
<1>35. ASSUME NEW t \in Tasks, Detach(t) PROVE TypeOK'
  BY <1>35, <1>t, <1>c, <1>o DEF Detach, DetachOwns, Goto, sharedVars, localVars, TypeOK,
                                PCs, RunnerPCs, HandlePCs, Flags
<1>36. ASSUME NEW t \in Tasks, DropOutput(t) PROVE TypeOK'
  BY <1>36, <1>t, <1>c, <1>o DEF DropOutput, Goto, Consumed, sharedVars, joinVars,
                                localVars, TypeOK, PCs, RunnerPCs, HandlePCs, Flags
<1>37. ASSUME NEW t \in Tasks, ReleaseHandle(t) PROVE TypeOK'
  BY <1>37, <1>t, <1>c, <1>o DEF ReleaseHandle, Release, Goto, sharedVars, joinVars,
                                localVars, TypeOK, PCs, RunnerPCs, HandlePCs, Flags
<1>38. CASE UNCHANGED vars
  BY <1>38, <1>t, <1>c, <1>o DEF vars, TypeOK, PCs, RunnerPCs, HandlePCs, Flags
<1> QED BY <1>1, <1>2, <1>3, <1>4, <1>5, <1>6, <1>7, <1>8, <1>9, <1>10, <1>11, <1>12, <1>13,
      <1>14, <1>15, <1>16, <1>17, <1>18, <1>19, <1>20, <1>21, <1>22, <1>23, <1>24, <1>25,
      <1>26, <1>27, <1>28, <1>29, <1>30, <1>31, <1>32, <1>33, <1>34, <1>35, <1>36, <1>37,
      <1>38 DEF Next, ContextStep, RunnerStep, TurnStep, EndStep, PollStep, HandleStep

-----------------------------------------------------------------------------
(* The invariant, and what it is for. *)

\* The executor starts in IInv.
LEMMA InitIInv == Init => IInv
<1> SUFFICES ASSUME Init PROVE IInv
  OBVIOUS
<1>1. /\ Actors = Tasks \cup Contexts \cup Runners /\ None \notin Tasks \cup Runners
      /\ Tasks \cap Contexts = {} /\ Tasks \cap Runners = {} /\ Contexts \cap Runners = {}
      /\ 0 \in Runners /\ MaxWakers \in Nat
  BY ExecutorAssumption DEF Actors, Runners
<1>2. TypeOK
  <2>1. pc \in [Actors -> PCs] /\ task \in [Actors -> Tasks \cup {None}]
    BY <1>1 DEF Init, PCs, RunnerPCs, HandlePCs
  <2>2. /\ state \in [Tasks -> SUBSET Flags] /\ refs \in [Tasks -> Nat]
        /\ wakers \in [Tasks -> 0 .. MaxWakers] /\ queue \in Seq(Tasks)
    BY <1>1 DEF Init
  <2> QED BY <1>1, <2>1, <2>2 DEF Init, TypeOK
<1>3. ToSet(queue) = {} /\ IsInjective(queue)
  BY DEF Init, ToSet, IsInjective
<1>4. /\ \A r \in Runners : pc[r] = "start" /\ task[r] = None
      /\ \A x \in Contexts : pc[x] = "idle" /\ task[x] = None
      /\ \A t \in Tasks : pc[t] = "none" /\ task[t] = t
      /\ \A a \in Actors : claimed[a] = None
  BY <1>1 DEF Init
<1>5. PlacesOK
  BY <1>1, <1>4 DEF PlacesOK, RunnerPCs, HandlePCs, TurnPCs, EndPCs
<1>6. \A a \in Actors : \A t \in Tasks : ~HasTurn(a, t)
  BY <1>1, <1>4 DEF HasTurn, TurnPCs
<1>7. \A t \in Tasks : ~Queued(t) /\ \A r \in Runners : ~Keeps(r, t)
  BY <1>3, <1>4 DEF Queued, Keeps, KeepPCs
<1>8. EntriesOK /\ EndOK /\ KeptOnce /\ OpenKept
  BY <1>1, <1>4, <1>7 DEF Init, EntriesOK, EndOK, EndPCs, KeptOnce, OpenKept
<1>9. TurnsOnce
  BY <1>3, <1>6 DEF TurnsOnce
<1>10. FlagsTell
  BY <1>6, <1>7 DEF Init, FlagsTell, QueueFlags, TurnFlags, RunningFlag, ScheduledFlag
<1>11. HandlesTell
  BY <1>4 DEF Init, HandlesTell, HandleUpPCs
<1>12. RefsAdd
  <2>1. \A t \in Tasks : ~Registered(t) /\ ~Turning(t) /\ ~Handled(t)
    BY <1>4, <1>6, <1>7 DEF Init, Registered, Turning, Handled
  <2> QED BY <2>1 DEF Init, RefsAdd, One
<1>13. StageKept
  BY DEF Init, StageKept
<1> QED BY <1>2, <1>5, <1>8, <1>9, <1>10, <1>11, <1>12, <1>13 DEF IInv

\* IInv holds in every state: each conjunct survives every step, given the others.
THEOREM Inductive == Spec => []IInv
<1>1. IInv /\ [Next]_vars => IInv'
  BY PlacesStep, EntriesStep, EndKept, TurnsStep, KeptStep, OpenStep, FlagsStep, HandlesStep,
     RefsStep, StageStep, TypeStep DEF IInv
<1> QED BY InitIInv, <1>1, PTL DEF Spec

\* Every variable has its type: no count of references or of wakers is negative.
THEOREM TypeCorrect == Spec => []TypeOK
<1>1. IInv => TypeOK
  BY DEF IInv
<1> QED BY <1>1, Inductive, PTL

-----------------------------------------------------------------------------
(* From who has what to how many have it. *)

\* A set of things that are all the same has one of them or none.
LEMMA Solo ==
  ASSUME NEW S, \A x, y \in S : x = y
  PROVE  IsFiniteSet(S) /\ Cardinality(S) = One(S # {})
<1>1. CASE S = {}
  BY <1>1, FS_EmptySet DEF One
<1>2. CASE S # {}
  <2>1. PICK x \in S : S = {x}
    BY <1>2
  <2> QED BY <1>2, <2>1, FS_Singleton DEF One
<1> QED BY <1>1, <1>2

\* The holders that RefsCounted counts, as questions.
InQueue(t) == {i \in DOMAIN queue : queue[i] = t}
Enqueuers(t) == {a \in Contexts \cup Tasks : pc[a] = "enqueue" /\ task[a] = t}
Workers(t) == {r \in Runners : task[r] = t /\ Working(r)}
Users(t) == {r \in Runners : task[r] = t /\ (Working(r) \/ pc[r] = "drainstage")}
Enders(t) == {r \in Runners : task[r] = t /\ pc[r] \in {"finished", "wakejoin"}}

\* Each of them is one at most, and only one of them has the turn.
LEMMA HoldersOnce ==
  ASSUME IInv, NEW t \in Tasks
  PROVE  /\ Cardinality(InQueue(t)) = One(Queued(t))
         /\ Cardinality(Enqueuers(t)) = One(Enqueuers(t) # {})
         /\ Cardinality(Workers(t)) = One(Workers(t) # {})
         /\ Cardinality(Users(t)) = One(Users(t) # {})
         /\ Cardinality(Enders(t)) = One(Enders(t) # {})
         /\ Queued(t) => Enqueuers(t) = {} /\ Workers(t) = {} /\ Enders(t) = {}
         /\ Enqueuers(t) # {} => Workers(t) = {} /\ Enders(t) = {}
         /\ Workers(t) # {} => Enders(t) = {}
         /\ Turning(t) <=> Queued(t) \/ Enqueuers(t) # {} \/ Workers(t) # {} \/ Enders(t) # {}
<1>t. /\ PlacesOK /\ TurnsOnce /\ queue \in Seq(Tasks)
      /\ Actors = Tasks \cup Contexts \cup Runners
      /\ Tasks \cap Contexts = {} /\ Tasks \cap Runners = {} /\ Contexts \cap Runners = {}
  BY Typing DEF IInv
<1>1. (\A i, j \in InQueue(t) : i = j) /\ (Queued(t) <=> InQueue(t) # {})
  BY <1>t DEF TurnsOnce, IsInjective, InQueue, Queued, ToSet
<1>2. \A a \in Enqueuers(t) \cup Workers(t) \cup Enders(t) : a \in Actors /\ HasTurn(a, t)
  BY <1>t DEF Enqueuers, Workers, Enders, Working, HasTurn, TurnPCs
<1>3. \A a, b \in Enqueuers(t) \cup Workers(t) \cup Enders(t) : a = b
  BY <1>t, <1>2 DEF TurnsOnce
<1>4. /\ Enqueuers(t) \cap Workers(t) = {} /\ Enqueuers(t) \cap Enders(t) = {}
      /\ Workers(t) \cap Enders(t) = {}
  BY <1>t DEF Enqueuers, Workers, Enders, Working
<1>5. Queued(t) => Enqueuers(t) \cup Workers(t) \cup Enders(t) = {}
  BY <1>t, <1>2 DEF TurnsOnce
<1>6. ASSUME NEW a \in Actors, HasTurn(a, t)
      PROVE  a \in Enqueuers(t) \cup Workers(t) \cup Enders(t)
  BY <1>t, <1>6 DEF HasTurn, TurnPCs, Enqueuers, Workers, Enders, Working, PlacesOK, RunnerPCs,
                    HandlePCs
<1>7. \A r, s \in Users(t) : r = s
  <2> SUFFICES ASSUME NEW r \in Users(t), NEW s \in Users(t) PROVE r = s
    OBVIOUS
  <2>1. CASE pc[r] = "drainstage" \/ pc[s] = "drainstage"
    BY <1>t, <2>1, Alone DEF Users, EndPCs
  <2>2. CASE pc[r] # "drainstage" /\ pc[s] # "drainstage"
    BY <1>3, <2>2 DEF Users, Workers
  <2> QED BY <2>1, <2>2
<1>8. Turning(t) <=> Queued(t) \/ Enqueuers(t) \cup Workers(t) \cup Enders(t) # {}
  BY <1>2, <1>6 DEF Turning
<1>9. /\ Cardinality(InQueue(t)) = One(InQueue(t) # {})
      /\ Cardinality(Enqueuers(t)) = One(Enqueuers(t) # {})
      /\ Cardinality(Workers(t)) = One(Workers(t) # {})
      /\ Cardinality(Users(t)) = One(Users(t) # {})
      /\ Cardinality(Enders(t)) = One(Enders(t) # {})
  BY <1>1, <1>3, <1>7, Solo
<1>10. /\ Enqueuers(t) # {} => Workers(t) = {} /\ Enders(t) = {}
       /\ Workers(t) # {} => Enders(t) = {}
  <2>1. ASSUME NEW a \in Enqueuers(t), NEW b \in Workers(t) \cup Enders(t) PROVE FALSE
    BY <1>3, <1>4
  <2>2. ASSUME NEW a \in Workers(t), NEW b \in Enders(t) PROVE FALSE
    BY <1>3, <1>4
  <2> QED BY <2>1, <2>2
<1> HIDE DEF InQueue, Enqueuers, Workers, Users, Enders, Queued
<1> QED BY <1>1, <1>5, <1>8, <1>9, <1>10 DEF One

\* The count in a block's header is that of the holders.
LEMMA Counted == IInv => RefsCounted
<1> SUFFICES ASSUME IInv, NEW t \in Tasks PROVE refs[t] = Holders(t)
  BY DEF RefsCounted
<1> DEFINE A == t \in all \cup drain
           D == \E r \in Runners : pc[r] = "drainstage" /\ task[r] = t
           Q == Queued(t)
           E == Enqueuers(t) # {}
           W == Workers(t) # {}
           F == Enders(t) # {}
<1>1. refs[t] = One(A \/ D \/ F) + One(Q \/ E \/ W \/ F) + wakers[t] + One(Handled(t))
  <2>1. Registered(t) <=> A \/ D \/ F
    BY DEF Registered, Keeps, KeepPCs, Enders
  <2>2. Turning(t) <=> Q \/ E \/ W \/ F
    BY HoldersOnce
  <2>3. refs[t] = One(Registered(t)) + One(Turning(t)) + wakers[t] + One(Handled(t))
    BY DEF IInv, RefsAdd
  <2> HIDE DEF A, D, Q, E, W, F
  <2> QED BY <2>1, <2>2, <2>3 DEF One
<1>2. Holders(t) = One(A) + One(Q) + wakers[t] + One(Handled(t)) + One(E) + One(W \/ D) + 2 * One(F)
  <2>1. Holders(t) =
            (IF A THEN 1 ELSE 0) + Cardinality(InQueue(t)) + wakers[t]
          + (IF pc[t] \in {"none", "gone"} THEN 0 ELSE 1)
          + Cardinality(Enqueuers(t)) + Cardinality(Users(t)) + 2 * Cardinality(Enders(t))
    BY DEF Holders, InQueue, Enqueuers, Users, Enders
  <2>2. Users(t) # {} <=> W \/ D
    BY DEF Users, Workers
  <2>3. /\ Cardinality(InQueue(t)) = One(Q) /\ Cardinality(Enqueuers(t)) = One(E)
        /\ Cardinality(Users(t)) = One(Users(t) # {}) /\ Cardinality(Enders(t)) = One(F)
    BY HoldersOnce
  <2>4. One(Users(t) # {}) = One(W \/ D)
    BY <2>2 DEF One
  <2>5. /\ (IF A THEN 1 ELSE 0) = One(A)
        /\ (IF pc[t] \in {"none", "gone"} THEN 0 ELSE 1) = One(Handled(t))
    BY DEF One, Handled
  <2> HIDE DEF A, D, Q, E, W, F
  <2> QED BY <2>1, <2>3, <2>4, <2>5
<1>3. /\ Q => ~E /\ ~W /\ ~F
      /\ E => ~W /\ ~F
      /\ W => ~F
  BY HoldersOnce
<1>4. ~(A /\ (D \/ F)) /\ ~(D /\ (W \/ F))
  <2>1. PlacesOK /\ KeptOnce
    BY DEF IInv
  <2>2. ~(A /\ (D \/ F))
    BY <2>1 DEF KeptOnce, Keeps, KeepPCs, Enders
  <2>3. ~(D /\ (W \/ F))
    BY <2>1, Alone DEF EndPCs, Workers, Working, Enders
  <2> QED BY <2>2, <2>3
<1>5. wakers[t] \in Nat
  BY Typing DEF IInv
<1> HIDE DEF A, D, Q, E, W, F
<1> QED BY <1>1, <1>2, <1>3, <1>4, <1>5 DEF One

\* A task's block is freed with its last holder, wherever that is, and is empty
\* then: the counts in the task headers are right and the stage has an owner.
THEOREM BlocksAreFreed == Spec => []BlocksFreed
<1>1. IInv => BlocksFreed
  BY Counted DEF BlocksFreed, NothingSpilt, IInv, StageKept
<1> QED BY <1>1, Inductive, PTL

\* A task is in one place: its queue link is never used twice, nor is it polled
\* by two runners.
LEMMA TurnsCounted == IInv => QueuedOnce
<1> SUFFICES ASSUME IInv, NEW t \in Tasks
             PROVE  Cardinality(InQueue(t)) + Cardinality(Enqueuers(t))
                    + Cardinality(Workers(t)) <= 1
  BY DEF QueuedOnce, InQueue, Enqueuers, Workers
<1> HIDE DEF InQueue, Enqueuers, Workers, Enders, Users, Queued
<1> QED BY HoldersOnce DEF One

\* A task that is scheduled has its turn coming.
LEMMA TurnsComing == IInv => ScheduledWillRun
<1> SUFFICES ASSUME IInv, NEW t \in Tasks,
                    "SCHEDULED" \in state[t], "COMPLETE" \notin state[t], ~shutDown
             PROVE  \/ \E i \in DOMAIN queue : queue[i] = t
                    \/ \E a \in Contexts \cup Tasks : pc[a] = "enqueue" /\ task[a] = t
                    \/ \E r \in Runners : task[r] = t /\ Working(r)
  BY DEF ScheduledWillRun
<1>1. FlagsTell /\ TypeOK
  BY DEF IInv
<1>2. Turning(t)
  BY <1>1 DEF FlagsTell, ScheduledFlag, Turning
<1>3. Enders(t) = {}
  BY <1>1, Typing DEF Enders, FlagsTell, TurnFlags, HasTurn, TurnPCs
<1>4. Queued(t) \/ Enqueuers(t) # {} \/ Workers(t) # {}
  BY <1>2, <1>3, HoldersOnce
<1> QED BY <1>4 DEF Queued, ToSet, Enqueuers, Workers


-----------------------------------------------------------------------------
(* Runners that are wanted. *)

\* r was unparked, or somebody is about to unpark it.
Wanted(r) == token[r] \/ \E a \in Actors : pc[a] = "unpark" /\ claimed[a] = r

\* Whoever claims a runner unparks it: one that will sleep although it is marked
\* busy, or its future was woken, will be woken itself.
WakeOwed ==
  \A r \in Runners :
    /\ pc[r] \in {"decide", "park"} /\ runner[r] = "busy" => Wanted(r)
    /\ pc[r] = "park" /\ r = Main /\ woken => Wanted(r)

\* A runner is claimed, or its future woken, by one who unparks it next.
LEMMA WakeStep ==
  ASSUME IInv, WakeOwed, [Next]_vars PROVE WakeOwed'
<1>t. /\ pc \in [Actors -> PCs] /\ claimed \in [Actors -> Runners \cup {None}]
      /\ runner \in [Runners -> {"absent", "busy", "idle"}] /\ DOMAIN token = Runners
      /\ FirstIdle \in Runners \cup {None} /\ (Main # None => Main \in Runners)
      /\ Actors = Tasks \cup Contexts \cup Runners /\ None \notin Runners
      /\ Tasks \cap Contexts = {} /\ Tasks \cap Runners = {} /\ Contexts \cap Runners = {}
      /\ IInv /\ TypeOK /\ HandlesTell /\ PlacesOK /\ WakeOwed
  BY Typing DEF IInv
<1>1. ASSUME NEW x \in Contexts, NEW t \in Tasks, Spawn(x, t) PROVE WakeOwed'
  <2>1. /\ pc[x] = "idle" /\ pc[t] = "none" /\ \A a \in Actors \ {x, t} : pc'[a] = pc[a]
        /\ \A a \in Actors \ {x} : claimed'[a] = claimed[a]
        /\ pc'[t] \in {"held", "detach"} /\ UNCHANGED <<token, woken>>
        /\ \A r \in Runners : runner'[r] = IF r = FirstIdle /\ ~shutDown THEN "busy" ELSE runner[r]
    BY <1>1, <1>t, SpawnEffect
  <2>2. FirstIdle = None \/ shutDown \/ (pc'[x] = "unpark" /\ claimed'[x] = FirstIdle)
    BY <1>1, <1>t DEF Spawn, Claim, AfterClaim
  <2> HIDE <1>1
  <2>3. \A r \in Runners : pc'[r] = pc[r] /\ x # r /\ t # r
    BY <1>t, <2>1
  <2>4. \A a \in Actors : pc[a] = "unpark" => pc'[a] = "unpark" /\ claimed'[a] = claimed[a]
    BY <1>t, <2>1
  <2>5. \A r \in Runners : Wanted(r) => Wanted(r)'
    BY <2>1, <2>4 DEF Wanted
  <2>6. \A r \in Runners : r = FirstIdle /\ ~shutDown => Wanted(r)'
    BY <1>t, <2>2 DEF Wanted
  <2> QED BY <1>t, <2>1, <2>3, <2>5, <2>6 DEF WakeOwed
<1>2. ASSUME NEW x \in Contexts, NEW t \in Tasks, Wake(x, t) PROVE WakeOwed'
  BY <1>2, <1>t DEF Wake, SetScheduled, Asleep, Goto, Release, sharedVars, joinVars,
                   localVars, Wanted, WakeOwed
<1>3. ASSUME NEW x \in Contexts, NEW t \in Tasks, WakeByRef(x, t) PROVE WakeOwed'
  BY <1>3, <1>t DEF WakeByRef, SetScheduled, Asleep, Goto, Cloned, sharedVars, joinVars,
                   localVars, Wanted, WakeOwed
<1>4. ASSUME NEW x \in Contexts, NEW t \in Tasks, DropWaker(x, t) PROVE WakeOwed'
  BY <1>4, <1>t DEF DropWaker, Release, sharedVars, joinVars, localVars, Wanted, WakeOwed
<1>5. ASSUME NEW x \in Contexts, WakeMain(x) PROVE WakeOwed'
  <2>1. /\ pc[x] = "idle" /\ pc' = [pc EXCEPT ![x] = "unpark"] /\ Main \in Runners
        /\ claimed' = [claimed EXCEPT ![x] = Main] /\ UNCHANGED <<runner, token>>
    BY <1>5, <1>t DEF WakeMain, Goto, sharedVars
  <2> HIDE <1>5
  <2>2. \A r \in Runners : Wanted(r) => Wanted(r)'
    BY <1>t, <2>1 DEF Wanted
  <2>3. Wanted(Main)' /\ \A r \in Runners : pc'[r] = pc[r]
    BY <1>t, <2>1 DEF Wanted
  <2> QED BY <1>t, <2>1, <2>2, <2>3 DEF WakeOwed
<1>6. ASSUME NEW a \in Actors, Enqueue(a) PROVE WakeOwed'
  <2>1. /\ pc[a] = "enqueue" /\ \A b \in Actors \ {a} : pc'[b] = pc[b] /\ claimed'[b] = claimed[b]
        /\ UNCHANGED <<token, woken>>
        /\ \A r \in Runners : runner'[r] = IF r = FirstIdle /\ ~shutDown THEN "busy" ELSE runner[r]
        /\ FirstIdle = None \/ shutDown \/ (pc'[a] = "unpark" /\ claimed'[a] = FirstIdle)
        /\ pc'[a] \notin {"decide", "park"}
    BY <1>6, <1>t, EnqueueEffect
  <2> HIDE <1>6
  <2>2. \A r \in Runners : pc'[r] \in {"decide", "park"} => pc'[r] = pc[r]
    BY <1>t, <2>1
  <2>4. \A b \in Actors : pc[b] = "unpark" => pc'[b] = "unpark" /\ claimed'[b] = claimed[b]
    BY <1>t, <2>1
  <2>5. \A r \in Runners : Wanted(r) => Wanted(r)'
    BY <2>1, <2>4 DEF Wanted
  <2>6. \A r \in Runners : r = FirstIdle /\ ~shutDown => Wanted(r)'
    BY <1>t, <2>1 DEF Wanted
  <2> QED BY <1>t, <2>1, <2>2, <2>5, <2>6 DEF WakeOwed
<1>7. ASSUME NEW a \in Actors, Unpark(a) PROVE WakeOwed'
  <2>1. /\ pc[a] = "unpark" /\ pc' = [pc EXCEPT ![a] = Resume(a)]
        /\ claimed' = [claimed EXCEPT ![a] = None] /\ UNCHANGED <<runner, woken>>
        /\ token' = [token EXCEPT ![claimed[a]] = TRUE] /\ Resume(a) \notin {"decide", "park"}
    BY <1>7 DEF Unpark, Goto, Resume, Loop, sharedVars
  <2> HIDE <1>7
  <2>2. \A r \in Runners : Wanted(r) => Wanted(r)'
    BY <1>t, <2>1 DEF Wanted
  <2> QED BY <1>t, <2>1, <2>2 DEF WakeOwed
<1>8. ASSUME NEW r \in Runners, Register(r) PROVE WakeOwed'
  BY <1>8, <1>t DEF Register, Goto, Loop, taskVars, joinVars, localVars, Wanted, WakeOwed
<1>9. ASSUME NEW r \in Runners, LookMain(r) PROVE WakeOwed'
  BY <1>9, <1>t DEF LookMain, Goto, taskVars, sharedVars, joinVars, localVars, Wanted,
                   WakeOwed
<1>10. ASSUME NEW r \in Runners, PollMain(r) PROVE WakeOwed'
  BY <1>10, <1>t DEF PollMain, Goto, taskVars, sharedVars, joinVars, localVars, Wanted,
                    WakeOwed
<1>11. ASSUME NEW r \in Runners, NextTask(r) PROVE WakeOwed'
  BY <1>11, <1>t DEF NextTask, Goto, taskVars, joinVars, localVars, Wanted, WakeOwed
<1>12. ASSUME NEW r \in Runners, Decide(r) PROVE WakeOwed'
  BY <1>12, <1>t DEF Decide, Goto, taskVars, sharedVars, joinVars, localVars, Wanted,
                    WakeOwed
<1>13. ASSUME NEW r \in Runners, Parked(r) PROVE WakeOwed'
  <2>1. /\ pc[r] = "park" /\ pc' = [pc EXCEPT ![r] = "busy"] /\ UNCHANGED <<runner, woken, claimed>>
        /\ token' = [token EXCEPT ![r] = FALSE]
    BY <1>13 DEF Parked, Goto, sharedVars
  <2> HIDE <1>13
  <2>2. \A s \in Runners \ {r} : Wanted(s) => Wanted(s)'
    BY <1>t, <2>1 DEF Wanted
  <2> QED BY <1>t, <2>1, <2>2 DEF WakeOwed
<1>14. ASSUME NEW r \in Runners, ParkTimeout(r) PROVE WakeOwed'
  BY <1>14, <1>t DEF ParkTimeout, Goto, taskVars, sharedVars, joinVars, localVars, Wanted,
                    WakeOwed
<1>15. ASSUME NEW r \in Runners, SetBusy(r) PROVE WakeOwed'
  BY <1>15, <1>t DEF SetBusy, Goto, Loop, taskVars, joinVars, localVars, Wanted, WakeOwed
<1>16. ASSUME NEW r \in Runners, Begin(r) PROVE WakeOwed'
  BY <1>16, <1>t, BeginEffect DEF sharedVars, joinVars, localVars, Wanted, WakeOwed
<1>17. ASSUME NEW r \in Runners, CloneWaker(r) PROVE WakeOwed'
  BY <1>17, <1>t DEF CloneWaker, Cloned, sharedVars, joinVars, localVars, Wanted, WakeOwed
<1>18. ASSUME NEW r \in Runners, PollReady(r) PROVE WakeOwed'
  BY <1>18, <1>t DEF PollReady, Goto, sharedVars, joinVars, localVars, Wanted, WakeOwed
<1>19. ASSUME NEW r \in Runners, PollPending(r) PROVE WakeOwed'
  BY <1>19, <1>t DEF PollPending, Goto, taskVars, sharedVars, joinVars, localVars, Wanted,
                    WakeOwed
<1>20. ASSUME NEW r \in Runners, DropAborted(r) PROVE WakeOwed'
  BY <1>20, <1>t DEF DropAborted, Goto, Consumed, sharedVars, joinVars, localVars, Wanted,
                    WakeOwed
<1>21. ASSUME NEW r \in Runners, Yield(r) PROVE WakeOwed'
  BY <1>21, <1>t DEF Yield, AfterYield, Goto, Release, Loop, sharedVars, joinVars,
                    localVars, Wanted, WakeOwed
<1>22. ASSUME NEW r \in Runners, Finish(r) PROVE WakeOwed'
  BY <1>22, <1>t DEF Finish, Goto, Wanted, WakeOwed
<1>23. ASSUME NEW r \in Runners, FinishDrop(r) PROVE WakeOwed'
  BY <1>23, <1>t DEF FinishDrop, FinishedStage, Consumed, Goto, sharedVars, joinVars,
                    localVars, Wanted, WakeOwed
<1>24. ASSUME NEW r \in Runners, WakeJoin(r) PROVE WakeOwed'
  BY <1>24, <1>t DEF WakeJoin, Release, Goto, Loop, sharedVars, Wanted, WakeOwed
<1>25. ASSUME NEW r \in Runners, Leave(r) PROVE WakeOwed'
  BY <1>25, <1>t DEF Leave, Goto, taskVars, joinVars, localVars, Wanted, WakeOwed
<1>26. ASSUME NEW r \in Runners, ShutDown(r) PROVE WakeOwed'
  BY <1>26, <1>t DEF ShutDown, Goto, taskVars, joinVars, Wanted, WakeOwed
<1>27. ASSUME NEW r \in Runners, DrainQueue(r) PROVE WakeOwed'
  BY <1>27, <1>t DEF DrainQueue, Goto, Release, joinVars, localVars, Wanted, WakeOwed
<1>28. ASSUME NEW r \in Runners, DrainMark(r) PROVE WakeOwed'
  BY <1>28, <1>t DEF DrainMark, Goto, sharedVars, Wanted, WakeOwed
<1>29. ASSUME NEW r \in Runners, DrainStage(r) PROVE WakeOwed'
  BY <1>29, <1>t DEF DrainStage, Release, Consumed, Goto, sharedVars, joinVars, localVars,
                    Wanted, WakeOwed
<1>30. ASSUME NEW t \in Tasks, JoinPoll(t) PROVE WakeOwed'
  BY <1>30, <1>t DEF JoinPoll, Goto, taskVars, sharedVars, localVars, Wanted, WakeOwed
<1>31. ASSUME NEW t \in Tasks, JoinRegister(t) PROVE WakeOwed'
  BY <1>31, <1>t DEF JoinRegister, Goto, taskVars, sharedVars, localVars, Wanted, WakeOwed
<1>32. ASSUME NEW t \in Tasks, JoinTake(t) PROVE WakeOwed'
  BY <1>32, <1>t DEF JoinTake, Goto, Consumed, sharedVars, joinVars, localVars, Wanted,
                    WakeOwed
<1>33. ASSUME NEW t \in Tasks, Abort(t) PROVE WakeOwed'
  BY <1>33, <1>t DEF Abort, Asleep, Cloned, Goto, sharedVars, joinVars, localVars, Wanted,
                    WakeOwed
<1>34. ASSUME NEW t \in Tasks, DropHandle(t) PROVE WakeOwed'
  BY <1>34, <1>t DEF DropHandle, Goto, taskVars, sharedVars, joinVars, localVars, Wanted,
                    WakeOwed
<1>35. ASSUME NEW t \in Tasks, Detach(t) PROVE WakeOwed'
  BY <1>35, <1>t DEF Detach, DetachOwns, Goto, sharedVars, localVars, Wanted, WakeOwed
<1>36. ASSUME NEW t \in Tasks, DropOutput(t) PROVE WakeOwed'
  BY <1>36, <1>t DEF DropOutput, Goto, Consumed, sharedVars, joinVars, localVars, Wanted,
                    WakeOwed
<1>37. ASSUME NEW t \in Tasks, ReleaseHandle(t) PROVE WakeOwed'
  BY <1>37, <1>t DEF ReleaseHandle, Release, Goto, sharedVars, joinVars, localVars, Wanted,
                    WakeOwed
<1>38. CASE UNCHANGED vars
  BY <1>38, <1>t DEF vars, Wanted, WakeOwed
<1> QED BY <1>1, <1>2, <1>3, <1>4, <1>5, <1>6, <1>7, <1>8, <1>9, <1>10, <1>11, <1>12, <1>13,
      <1>14, <1>15, <1>16, <1>17, <1>18, <1>19, <1>20, <1>21, <1>22, <1>23, <1>24, <1>25,
      <1>26, <1>27, <1>28, <1>29, <1>30, <1>31, <1>32, <1>33, <1>34, <1>35, <1>36, <1>37,
      <1>38 DEF Next, ContextStep, RunnerStep, TurnStep, EndStep, PollStep, HandleStep

\* A runner that sleeps was left idle, or is about to be unparked: no claim and
\* no wakeup of run_until's future falls between its look and its park.
THEOREM SleepersWake == Spec => []BusyRunnersWake
<1>1. Init => WakeOwed
  BY ExecutorAssumption DEF Init, WakeOwed, Actors
<1>2. IInv /\ WakeOwed /\ [Next]_vars => WakeOwed'
  BY WakeStep
<1>3. WakeOwed => BusyRunnersWake
  BY DEF WakeOwed, Wanted, BusyRunnersWake
<1> QED BY <1>1, <1>2, <1>3, Inductive, PTL DEF Spec


-----------------------------------------------------------------------------
(* Runners for the queue. *)

\* Where a runner will look at the queue before it sleeps.
LookPCs == {"main", "pollmain", "next", "decide", "park", "busy"}
Lookers == {r \in Runners : runner[r] = "busy" /\ pc[r] \in LookPCs}

\* QueueAttended, in these terms.
LEMMA Attended ==
  /\ QueueAttended <=> (IdleRunners # {} => Len(queue) <= Cardinality(Lookers))
  /\ QueueAttended' <=> (IdleRunners' # {} => Len(queue') <= Cardinality(Lookers'))
BY DEF QueueAttended, Lookers, LookPCs

\* There are as many runners as the executor was built for.
LEMMA LookersFinite == IsFiniteSet(Lookers) /\ IsFiniteSet(Lookers')
<1>1. IsFiniteSet(Runners)
  BY ExecutorAssumption, FS_Interval DEF Runners
<1> QED BY <1>1, FS_Subset DEF Lookers

\* A step that queues nothing, and after which who was about to look still is.
LEMMA StillAttended ==
  ASSUME QueueAttended, UNCHANGED queue, queue \in Seq(Tasks),
         \A s \in Runners : runner'[s] = runner[s] \/ runner'[s] = "busy",
         \A s \in Runners : pc[s] \in LookPCs => pc'[s] \in LookPCs
  PROVE  QueueAttended'
<1>1. Lookers \subseteq Lookers' /\ (IdleRunners' # {} => IdleRunners # {})
  BY DEF Lookers, IdleRunners
<1>2. Cardinality(Lookers) <= Cardinality(Lookers') /\ Cardinality(Lookers) \in Nat
      /\ Cardinality(Lookers') \in Nat
  BY <1>1, LookersFinite, FS_Subset, FS_CardinalityType
<1>3. IdleRunners # {} => Len(queue) <= Cardinality(Lookers)
  BY Attended
<1>4. Len(queue) \in Nat
  OBVIOUS
<1> QED BY <1>1, <1>2, <1>3, <1>4, Attended

\* Who queues a task claims an idle runner for it if there is one.
LEMMA ClaimAttends ==
  ASSUME TypeOK, EntriesOK, QueueAttended, NEW t \in Tasks,
         queue' = (IF shutDown THEN queue ELSE Append(queue, t)),
         \A r \in Runners : runner'[r] = IF r = FirstIdle /\ ~shutDown THEN "busy" ELSE runner[r],
         \A r \in Runners : pc[r] \in LookPCs => pc'[r] = pc[r]
  PROVE  QueueAttended'
<1>1. CASE shutDown
  BY <1>1, Typing, StillAttended
<1>2. CASE ~shutDown /\ IdleRunners = {}
  BY <1>2, Typing DEF QueueAttended, IdleRunners
<1>3. CASE ~shutDown /\ IdleRunners # {}
  <2>1. FirstIdle \in Runners /\ runner[FirstIdle] = "idle"
    BY <1>3, FirstIdleProperty DEF IdleRunners
  <2>2. pc[FirstIdle] \in LookPCs /\ FirstIdle \notin Lookers
    BY <2>1 DEF EntriesOK, LookPCs, Lookers
  <2>3. \A r \in Lookers \cup {FirstIdle} :
          r \in Runners /\ runner'[r] = "busy" /\ pc'[r] \in LookPCs
    BY <1>3, <2>1, <2>2 DEF Lookers
  <2>4. Lookers \cup {FirstIdle} \subseteq Lookers'
    BY <2>3 DEF Lookers
  <2>5. Cardinality(Lookers \cup {FirstIdle}) = Cardinality(Lookers) + 1
    BY <2>2, LookersFinite, FS_AddElement
  <2>6. Cardinality(Lookers \cup {FirstIdle}) <= Cardinality(Lookers')
        /\ Cardinality(Lookers) \in Nat /\ Cardinality(Lookers') \in Nat
    BY <2>4, LookersFinite, FS_Subset, FS_CardinalityType
  <2>7. Len(queue) <= Cardinality(Lookers)
    BY <1>3, Attended
  <2>8. Len(queue) \in Nat /\ Len(queue') = Len(queue) + 1
    BY <1>3, Typing
  <2> QED BY <2>5, <2>6, <2>7, <2>8, Attended
<1> QED BY <1>1, <1>2, <1>3

\* One case per action: who takes a task off the queue was about to look.
LEMMA AttendedStep ==
  ASSUME IInv, QueueAttended, [Next]_vars PROVE QueueAttended'
<1>t. /\ pc \in [Actors -> PCs] /\ task \in [Actors -> Tasks \cup {None}]
      /\ queue \in Seq(Tasks) /\ runner \in [Runners -> {"absent", "busy", "idle"}]
      /\ Actors = Tasks \cup Contexts \cup Runners
      /\ Tasks \cap Contexts = {} /\ Tasks \cap Runners = {} /\ Contexts \cap Runners = {}
      /\ IInv /\ TypeOK /\ HandlesTell /\ PlacesOK /\ EntriesOK /\ QueueAttended
  BY Typing DEF IInv
<1>1. ASSUME NEW x \in Contexts, NEW t \in Tasks, Spawn(x, t) PROVE QueueAttended'
  <2>1. /\ pc[x] = "idle" /\ pc[t] = "none" /\ \A a \in Actors \ {x, t} : pc'[a] = pc[a]
        /\ \A r \in Runners : runner'[r] = IF r = FirstIdle /\ ~shutDown THEN "busy" ELSE runner[r]
        /\ queue' = (IF shutDown THEN queue ELSE Append(queue, t))
    BY <1>1, <1>t, SpawnEffect
  <2> HIDE <1>1
  <2>2. \A r \in Runners : pc'[r] = pc[r]
    BY <1>t, <2>1
  <2> QED BY <1>t, <2>1, <2>2, ClaimAttends
<1>2. ASSUME NEW x \in Contexts, NEW t \in Tasks, Wake(x, t) PROVE QueueAttended'
  <2>1. /\ UNCHANGED queue
        /\ \A s \in Runners : runner'[s] = runner[s] \/ runner'[s] = "busy"
        /\ \A s \in Runners : pc[s] \in LookPCs => pc'[s] \in LookPCs
    BY <1>2, <1>t DEF Wake, SetScheduled, Asleep, Goto, Release, sharedVars, joinVars,
                    localVars, LookPCs
  <2> QED BY <1>t, <2>1, StillAttended
<1>3. ASSUME NEW x \in Contexts, NEW t \in Tasks, WakeByRef(x, t) PROVE QueueAttended'
  <2>1. /\ UNCHANGED queue
        /\ \A s \in Runners : runner'[s] = runner[s] \/ runner'[s] = "busy"
        /\ \A s \in Runners : pc[s] \in LookPCs => pc'[s] \in LookPCs
    BY <1>3, <1>t DEF WakeByRef, SetScheduled, Asleep, Goto, Cloned, sharedVars, joinVars,
                    localVars, LookPCs
  <2> QED BY <1>t, <2>1, StillAttended
<1>4. ASSUME NEW x \in Contexts, NEW t \in Tasks, DropWaker(x, t) PROVE QueueAttended'
  <2>1. /\ UNCHANGED queue
        /\ \A s \in Runners : runner'[s] = runner[s] \/ runner'[s] = "busy"
        /\ \A s \in Runners : pc[s] \in LookPCs => pc'[s] \in LookPCs
    BY <1>4, <1>t DEF DropWaker, Release, sharedVars, joinVars, localVars, LookPCs
  <2> QED BY <1>t, <2>1, StillAttended
<1>5. ASSUME NEW x \in Contexts, WakeMain(x) PROVE QueueAttended'
  <2>1. /\ UNCHANGED queue
        /\ \A s \in Runners : runner'[s] = runner[s] \/ runner'[s] = "busy"
        /\ \A s \in Runners : pc[s] \in LookPCs => pc'[s] \in LookPCs
    BY <1>5, <1>t DEF WakeMain, Goto, taskVars, sharedVars, joinVars, localVars, LookPCs
  <2> QED BY <1>t, <2>1, StillAttended
<1>6. ASSUME NEW a \in Actors, Enqueue(a) PROVE QueueAttended'
  <2>1. /\ pc[a] = "enqueue" /\ \A b \in Actors \ {a} : pc'[b] = pc[b]
        /\ \A r \in Runners : runner'[r] = IF r = FirstIdle /\ ~shutDown THEN "busy" ELSE runner[r]
        /\ queue' = (IF shutDown THEN queue ELSE Append(queue, task[a]))
    BY <1>6, <1>t, EnqueueEffect
  <2>2. task[a] \in Tasks
    BY <1>t, <2>1 DEF PlacesOK, TurnPCs
  <2> HIDE <1>6
  <2>3. \A r \in Runners : pc[r] \in LookPCs => pc'[r] = pc[r]
    BY <1>t, <2>1 DEF LookPCs
  <2> QED BY <1>t, <2>1, <2>2, <2>3, ClaimAttends
<1>7. ASSUME NEW a \in Actors, Unpark(a) PROVE QueueAttended'
  <2>1. /\ UNCHANGED queue
        /\ \A s \in Runners : runner'[s] = runner[s] \/ runner'[s] = "busy"
        /\ \A s \in Runners : pc[s] \in LookPCs => pc'[s] \in LookPCs
    BY <1>7, <1>t DEF Unpark, Goto, Resume, Loop, taskVars, sharedVars, joinVars, localVars,
                    LookPCs
  <2> QED BY <1>t, <2>1, StillAttended
<1>8. ASSUME NEW r \in Runners, Register(r) PROVE QueueAttended'
  <2>1. /\ UNCHANGED queue
        /\ \A s \in Runners : runner'[s] = runner[s] \/ runner'[s] = "busy"
        /\ \A s \in Runners : pc[s] \in LookPCs => pc'[s] \in LookPCs
    BY <1>8, <1>t DEF Register, Goto, Loop, taskVars, joinVars, localVars, LookPCs
  <2> QED BY <1>t, <2>1, StillAttended
<1>9. ASSUME NEW r \in Runners, LookMain(r) PROVE QueueAttended'
  <2>1. /\ UNCHANGED queue
        /\ \A s \in Runners : runner'[s] = runner[s] \/ runner'[s] = "busy"
        /\ \A s \in Runners : pc[s] \in LookPCs => pc'[s] \in LookPCs
    BY <1>9, <1>t DEF LookMain, Goto, taskVars, sharedVars, joinVars, localVars, LookPCs
  <2> QED BY <1>t, <2>1, StillAttended
<1>10. ASSUME NEW r \in Runners, PollMain(r) PROVE QueueAttended'
  <2>1. r = Main /\ Main # None /\ UNCHANGED runner /\ runner[r] = "busy"
    BY <1>10, <1>t, ExecutorAssumption DEF PollMain, PlacesOK, EntriesOK, EndPCs, sharedVars
  <2>2. \A s \in Runners : s = r
    BY <2>1, ExecutorAssumption DEF Runners
  <2> QED BY <2>1, <2>2 DEF QueueAttended, IdleRunners
<1>11. ASSUME NEW r \in Runners, NextTask(r) PROVE QueueAttended'
  <2>1. pc[r] = "next" /\ runner[r] = "busy"
    BY <1>11, <1>t DEF NextTask, EntriesOK, EndPCs
  <2>2. CASE queue # <<>>
    <3>1. /\ queue' = Tail(queue) /\ UNCHANGED runner /\ pc' = [pc EXCEPT ![r] = "begin"]
      BY <1>11, <2>2 DEF NextTask, Goto
    <3> HIDE <1>11
    <3>2. r \in Lookers /\ Lookers' = Lookers \ {r}
      BY <1>t, <2>1, <3>1 DEF Lookers, LookPCs
    <3>3. Cardinality(Lookers') = Cardinality(Lookers) - 1
      BY <1>t, <3>2, FS_RemoveElement, LookersFinite
    <3>4. Len(queue') = Len(queue) - 1
      BY <1>t, <2>2, <3>1
    <3>5. Len(queue) \in Nat /\ Cardinality(Lookers) \in Nat
      BY <1>t, LookersFinite, FS_CardinalityType
    <3>6. IdleRunners' = IdleRunners
      BY <3>1 DEF IdleRunners
    <3> QED BY <1>t, <3>3, <3>4, <3>5, <3>6, Attended
  <2>3. CASE queue = <<>>
    <3>1. UNCHANGED queue
      BY <1>11, <2>3 DEF NextTask
    <3>2. Cardinality(Lookers)' \in Nat
      BY LookersFinite, FS_CardinalityType
    <3> QED BY <2>3, <3>1, <3>2, Attended
  <2> QED BY <2>2, <2>3
<1>12. ASSUME NEW r \in Runners, Decide(r) PROVE QueueAttended'
  <2>1. /\ UNCHANGED queue
        /\ \A s \in Runners : runner'[s] = runner[s] \/ runner'[s] = "busy"
        /\ \A s \in Runners : pc[s] \in LookPCs => pc'[s] \in LookPCs
    BY <1>12, <1>t DEF Decide, Goto, taskVars, sharedVars, joinVars, localVars, LookPCs
  <2> QED BY <1>t, <2>1, StillAttended
<1>13. ASSUME NEW r \in Runners, Parked(r) PROVE QueueAttended'
  <2>1. /\ UNCHANGED queue
        /\ \A s \in Runners : runner'[s] = runner[s] \/ runner'[s] = "busy"
        /\ \A s \in Runners : pc[s] \in LookPCs => pc'[s] \in LookPCs
    BY <1>13, <1>t DEF Parked, Goto, taskVars, sharedVars, joinVars, localVars, LookPCs
  <2> QED BY <1>t, <2>1, StillAttended
<1>14. ASSUME NEW r \in Runners, ParkTimeout(r) PROVE QueueAttended'
  <2>1. /\ UNCHANGED queue
        /\ \A s \in Runners : runner'[s] = runner[s] \/ runner'[s] = "busy"
        /\ \A s \in Runners : pc[s] \in LookPCs => pc'[s] \in LookPCs
    BY <1>14, <1>t DEF ParkTimeout, Goto, taskVars, sharedVars, joinVars, localVars, LookPCs
  <2> QED BY <1>t, <2>1, StillAttended
<1>15. ASSUME NEW r \in Runners, SetBusy(r) PROVE QueueAttended'
  <2>1. /\ UNCHANGED queue
        /\ \A s \in Runners : runner'[s] = runner[s] \/ runner'[s] = "busy"
        /\ \A s \in Runners : pc[s] \in LookPCs => pc'[s] \in LookPCs
    BY <1>15, <1>t DEF SetBusy, Goto, Loop, taskVars, joinVars, localVars, LookPCs
  <2> QED BY <1>t, <2>1, StillAttended
<1>16. ASSUME NEW r \in Runners, Begin(r) PROVE QueueAttended'
  <2>1. /\ pc[r] = "begin"
        /\ pc' = [pc EXCEPT ![r] = IF "ABORTED" \in state[task[r]] THEN "abort" ELSE "poll"]
        /\ UNCHANGED <<runner, queue>>
    BY <1>16, <1>t, BeginEffect DEF sharedVars
  <2> HIDE <1>16
  <2>2. \A s \in Runners : pc[s] \in LookPCs => pc'[s] \in LookPCs
    BY <1>t, <2>1 DEF LookPCs
  <2> QED BY <1>t, <2>1, <2>2, StillAttended
<1>17. ASSUME NEW r \in Runners, CloneWaker(r) PROVE QueueAttended'
  <2>1. /\ UNCHANGED queue
        /\ \A s \in Runners : runner'[s] = runner[s] \/ runner'[s] = "busy"
        /\ \A s \in Runners : pc[s] \in LookPCs => pc'[s] \in LookPCs
    BY <1>17, <1>t DEF CloneWaker, Cloned, sharedVars, joinVars, localVars, LookPCs
  <2> QED BY <1>t, <2>1, StillAttended
<1>18. ASSUME NEW r \in Runners, PollReady(r) PROVE QueueAttended'
  <2>1. /\ UNCHANGED queue
        /\ \A s \in Runners : runner'[s] = runner[s] \/ runner'[s] = "busy"
        /\ \A s \in Runners : pc[s] \in LookPCs => pc'[s] \in LookPCs
    BY <1>18, <1>t DEF PollReady, Goto, sharedVars, joinVars, localVars, LookPCs
  <2> QED BY <1>t, <2>1, StillAttended
<1>19. ASSUME NEW r \in Runners, PollPending(r) PROVE QueueAttended'
  <2>1. /\ UNCHANGED queue
        /\ \A s \in Runners : runner'[s] = runner[s] \/ runner'[s] = "busy"
        /\ \A s \in Runners : pc[s] \in LookPCs => pc'[s] \in LookPCs
    BY <1>19, <1>t DEF PollPending, Goto, taskVars, sharedVars, joinVars, localVars, LookPCs
  <2> QED BY <1>t, <2>1, StillAttended
<1>20. ASSUME NEW r \in Runners, DropAborted(r) PROVE QueueAttended'
  <2>1. /\ UNCHANGED queue
        /\ \A s \in Runners : runner'[s] = runner[s] \/ runner'[s] = "busy"
        /\ \A s \in Runners : pc[s] \in LookPCs => pc'[s] \in LookPCs
    BY <1>20, <1>t DEF DropAborted, Goto, Consumed, sharedVars, joinVars, localVars, LookPCs
  <2> QED BY <1>t, <2>1, StillAttended
<1>21. ASSUME NEW r \in Runners, Yield(r) PROVE QueueAttended'
  <2>1. /\ UNCHANGED queue
        /\ \A s \in Runners : runner'[s] = runner[s] \/ runner'[s] = "busy"
        /\ \A s \in Runners : pc[s] \in LookPCs => pc'[s] \in LookPCs
    BY <1>21, <1>t DEF Yield, AfterYield, Goto, Release, Loop, sharedVars, joinVars,
                    localVars, LookPCs
  <2> QED BY <1>t, <2>1, StillAttended
<1>22. ASSUME NEW r \in Runners, Finish(r) PROVE QueueAttended'
  <2>1. /\ UNCHANGED queue
        /\ \A s \in Runners : runner'[s] = runner[s] \/ runner'[s] = "busy"
        /\ \A s \in Runners : pc[s] \in LookPCs => pc'[s] \in LookPCs
    BY <1>22, <1>t DEF Finish, Goto, LookPCs
  <2> QED BY <1>t, <2>1, StillAttended
<1>23. ASSUME NEW r \in Runners, FinishDrop(r) PROVE QueueAttended'
  <2>1. /\ UNCHANGED queue
        /\ \A s \in Runners : runner'[s] = runner[s] \/ runner'[s] = "busy"
        /\ \A s \in Runners : pc[s] \in LookPCs => pc'[s] \in LookPCs
    BY <1>23, <1>t DEF FinishDrop, FinishedStage, Consumed, Goto, sharedVars, joinVars,
                    localVars, LookPCs
  <2> QED BY <1>t, <2>1, StillAttended
<1>24. ASSUME NEW r \in Runners, WakeJoin(r) PROVE QueueAttended'
  <2>1. /\ UNCHANGED queue
        /\ \A s \in Runners : runner'[s] = runner[s] \/ runner'[s] = "busy"
        /\ \A s \in Runners : pc[s] \in LookPCs => pc'[s] \in LookPCs
    BY <1>24, <1>t DEF WakeJoin, Release, Goto, Loop, sharedVars, LookPCs
  <2> QED BY <1>t, <2>1, StillAttended
<1>25. ASSUME NEW r \in Runners, Leave(r) PROVE QueueAttended'
  <2>1. pc[r] = "leave" /\ runner' = [runner EXCEPT ![r] = "absent"]
    BY <1>25 DEF Leave
  <2>2. \A s \in Runners : s = r
    BY <1>t, <2>1, Alone DEF EndPCs
  <2> QED BY <1>t, <2>1, <2>2 DEF QueueAttended, IdleRunners
<1>26. ASSUME NEW r \in Runners, ShutDown(r) PROVE QueueAttended'
  <2>1. /\ UNCHANGED queue
        /\ \A s \in Runners : runner'[s] = runner[s] \/ runner'[s] = "busy"
        /\ \A s \in Runners : pc[s] \in LookPCs => pc'[s] \in LookPCs
    BY <1>26, <1>t DEF ShutDown, Goto, taskVars, joinVars, LookPCs
  <2> QED BY <1>t, <2>1, StillAttended
<1>27. ASSUME NEW r \in Runners, DrainQueue(r) PROVE QueueAttended'
  <2>1. pc[r] = "drainqueue" /\ UNCHANGED runner
    BY <1>27 DEF DrainQueue
  <2>2. runner[r] = "absent" /\ \A s \in Runners : s = r
    BY <1>t, <2>1, Alone DEF EndPCs, EntriesOK
  <2> QED BY <1>t, <2>1, <2>2 DEF QueueAttended, IdleRunners
<1>28. ASSUME NEW r \in Runners, DrainMark(r) PROVE QueueAttended'
  <2>1. /\ UNCHANGED queue
        /\ \A s \in Runners : runner'[s] = runner[s] \/ runner'[s] = "busy"
        /\ \A s \in Runners : pc[s] \in LookPCs => pc'[s] \in LookPCs
    BY <1>28, <1>t DEF DrainMark, Goto, sharedVars, LookPCs
  <2> QED BY <1>t, <2>1, StillAttended
<1>29. ASSUME NEW r \in Runners, DrainStage(r) PROVE QueueAttended'
  <2>1. /\ UNCHANGED queue
        /\ \A s \in Runners : runner'[s] = runner[s] \/ runner'[s] = "busy"
        /\ \A s \in Runners : pc[s] \in LookPCs => pc'[s] \in LookPCs
    BY <1>29, <1>t DEF DrainStage, Release, Consumed, Goto, sharedVars, joinVars, localVars,
                    LookPCs
  <2> QED BY <1>t, <2>1, StillAttended
<1>30. ASSUME NEW t \in Tasks, JoinPoll(t) PROVE QueueAttended'
  <2>1. /\ UNCHANGED queue
        /\ \A s \in Runners : runner'[s] = runner[s] \/ runner'[s] = "busy"
        /\ \A s \in Runners : pc[s] \in LookPCs => pc'[s] \in LookPCs
    BY <1>30, <1>t DEF JoinPoll, Goto, taskVars, sharedVars, localVars, LookPCs
  <2> QED BY <1>t, <2>1, StillAttended
<1>31. ASSUME NEW t \in Tasks, JoinRegister(t) PROVE QueueAttended'
  <2>1. /\ UNCHANGED queue
        /\ \A s \in Runners : runner'[s] = runner[s] \/ runner'[s] = "busy"
        /\ \A s \in Runners : pc[s] \in LookPCs => pc'[s] \in LookPCs
    BY <1>31, <1>t DEF JoinRegister, Goto, taskVars, sharedVars, localVars, LookPCs
  <2> QED BY <1>t, <2>1, StillAttended
<1>32. ASSUME NEW t \in Tasks, JoinTake(t) PROVE QueueAttended'
  <2>1. /\ UNCHANGED queue
        /\ \A s \in Runners : runner'[s] = runner[s] \/ runner'[s] = "busy"
        /\ \A s \in Runners : pc[s] \in LookPCs => pc'[s] \in LookPCs
    BY <1>32, <1>t DEF JoinTake, Goto, Consumed, sharedVars, joinVars, localVars, LookPCs
  <2> QED BY <1>t, <2>1, StillAttended
<1>33. ASSUME NEW t \in Tasks, Abort(t) PROVE QueueAttended'
  <2>1. /\ UNCHANGED queue
        /\ \A s \in Runners : runner'[s] = runner[s] \/ runner'[s] = "busy"
        /\ \A s \in Runners : pc[s] \in LookPCs => pc'[s] \in LookPCs
    BY <1>33, <1>t DEF Abort, Asleep, Cloned, Goto, sharedVars, joinVars, localVars, LookPCs
  <2> QED BY <1>t, <2>1, StillAttended
<1>34. ASSUME NEW t \in Tasks, DropHandle(t) PROVE QueueAttended'
  <2>1. /\ UNCHANGED queue
        /\ \A s \in Runners : runner'[s] = runner[s] \/ runner'[s] = "busy"
        /\ \A s \in Runners : pc[s] \in LookPCs => pc'[s] \in LookPCs
    BY <1>34, <1>t DEF DropHandle, Goto, taskVars, sharedVars, joinVars, localVars, LookPCs
  <2> QED BY <1>t, <2>1, StillAttended
<1>35. ASSUME NEW t \in Tasks, Detach(t) PROVE QueueAttended'
  <2>1. /\ UNCHANGED queue
        /\ \A s \in Runners : runner'[s] = runner[s] \/ runner'[s] = "busy"
        /\ \A s \in Runners : pc[s] \in LookPCs => pc'[s] \in LookPCs
    BY <1>35, <1>t DEF Detach, DetachOwns, Goto, sharedVars, localVars, LookPCs
  <2> QED BY <1>t, <2>1, StillAttended
<1>36. ASSUME NEW t \in Tasks, DropOutput(t) PROVE QueueAttended'
  <2>1. /\ UNCHANGED queue
        /\ \A s \in Runners : runner'[s] = runner[s] \/ runner'[s] = "busy"
        /\ \A s \in Runners : pc[s] \in LookPCs => pc'[s] \in LookPCs
    BY <1>36, <1>t DEF DropOutput, Goto, Consumed, sharedVars, joinVars, localVars, LookPCs
  <2> QED BY <1>t, <2>1, StillAttended
<1>37. ASSUME NEW t \in Tasks, ReleaseHandle(t) PROVE QueueAttended'
  <2>1. /\ UNCHANGED queue
        /\ \A s \in Runners : runner'[s] = runner[s] \/ runner'[s] = "busy"
        /\ \A s \in Runners : pc[s] \in LookPCs => pc'[s] \in LookPCs
    BY <1>37, <1>t DEF ReleaseHandle, Release, Goto, sharedVars, joinVars, localVars, LookPCs
  <2> QED BY <1>t, <2>1, StillAttended
<1>38. CASE UNCHANGED vars
  BY <1>38, <1>t, StillAttended DEF vars
<1> QED BY <1>1, <1>2, <1>3, <1>4, <1>5, <1>6, <1>7, <1>8, <1>9, <1>10, <1>11, <1>12, <1>13,
      <1>14, <1>15, <1>16, <1>17, <1>18, <1>19, <1>20, <1>21, <1>22, <1>23, <1>24, <1>25,
      <1>26, <1>27, <1>28, <1>29, <1>30, <1>31, <1>32, <1>33, <1>34, <1>35, <1>36, <1>37,
      <1>38 DEF Next, ContextStep, RunnerStep, TurnStep, EndStep, PollStep, HandleStep

\* No runner is left idle while tasks queue up behind the others.
LEMMA AlwaysAttended == Spec => []QueueAttended
<1>1. Init => QueueAttended
  BY DEF Init, QueueAttended, IdleRunners
<1>2. IInv /\ QueueAttended /\ [Next]_vars => QueueAttended'
  BY AttendedStep
<1> QED BY <1>1, <1>2, Inductive, PTL DEF Spec


-----------------------------------------------------------------------------
(* Who joins a task, and who has its output. *)

\* A runner that drops the output of a detached task has it to itself, a join
\* waker is there as long as one is needed, and finish() has it to wake; until
\* the executor is dropped, who waits for a finished task will hear.
Settled ==
  /\ \A r \in Runners : \A t \in Tasks :
       task[r] = t /\ pc[r] = "finished" /\ ~kept[r] => pc[t] \in {"release", "gone"}
  /\ \A r \in Runners : owed[r] => pc[r] \in {"finished", "wakejoin"}
  /\ \A t \in Tasks : pc[t] = "pending" /\ "COMPLETE" \notin state[t] => joinWaker[t]
  /\ ~shutDown => JoinerHears

\* No task finishes before it is spawned.
LEMMA NotFinished ==
  ASSUME IInv, NEW t \in Tasks, pc[t] = "none", NEW r \in Runners
  PROVE  ~(task[r] = t /\ pc[r] = "finished")
<1>1. r \in Actors /\ FlagsTell /\ HandlesTell
  BY Typing DEF IInv
<1> QED BY <1>1 DEF FlagsTell, TurnFlags, HasTurn, TurnPCs, HandlesTell

\* One case per action: finish() takes the join waker and looks for the handle in
\* the critical section that sets COMPLETE.
LEMMA SettledStep ==
  ASSUME IInv, Settled, [Next]_vars PROVE Settled'
<1>t. /\ pc \in [Actors -> PCs] /\ task \in [Actors -> Tasks \cup {None}]
      /\ state \in [Tasks -> SUBSET Flags] /\ drain \subseteq Tasks
      /\ DOMAIN kept = Runners /\ DOMAIN owed = Runners
      /\ DOMAIN joinWaker = Tasks /\ DOMAIN joinSignal = Tasks
      /\ Actors = Tasks \cup Contexts \cup Runners /\ None \notin Tasks
      /\ Tasks \cap Contexts = {} /\ Tasks \cap Runners = {} /\ Contexts \cap Runners = {}
      /\ IInv /\ TypeOK /\ HandlesTell /\ PlacesOK /\ FlagsTell /\ EndOK /\ Settled
  BY Typing DEF IInv
<1>1. ASSUME NEW x \in Contexts, NEW t \in Tasks, Spawn(x, t) PROVE Settled'
  <2>1. /\ pc[x] = "idle" /\ pc[t] = "none" /\ \A a \in Actors \ {x, t} : pc'[a] = pc[a]
        /\ pc'[t] \in {"held", "detach"} /\ state' = [state EXCEPT ![t] = state'[t]]
        /\ UNCHANGED <<task, joinWaker, joinSignal, kept, owed, shutDown>>
    BY <1>1, <1>t, SpawnEffect DEF joinVars, localVars
  <2> HIDE <1>1
  <2>2. \A r \in Runners : pc'[r] = pc[r]
    BY <1>t, <2>1
  <2>3. \A u \in Tasks : u # t => pc'[u] = pc[u] /\ state'[u] = state[u]
    BY <1>t, <2>1
  <2>4. \A r \in Runners : ~(task[r] = t /\ pc[r] = "finished")
    BY <1>t, <2>1, NotFinished
  <2> QED BY <1>t, <2>1, <2>2, <2>3, <2>4 DEF Settled, JoinerHears
<1>2. ASSUME NEW x \in Contexts, NEW t \in Tasks, Wake(x, t) PROVE Settled'
  <2>1. /\ (pc'[x] = "finished" => pc[x] = "finished")
        /\ (pc'[x] = "pending" <=> pc[x] = "pending")
        /\ (pc'[x] \in {"finished", "wakejoin"} <=> pc[x] \in {"finished", "wakejoin"})
        /\ \A b \in Actors \ {x} : pc'[b] = pc[b]
        /\ task'[x] = task[x] \/ pc[x] \notin {"finished", "wakejoin"}
        /\ \A b \in Actors \ {x} : task'[b] = task[b]
        /\ \A u \in Tasks : "COMPLETE" \in state'[u] <=> "COMPLETE" \in state[u]
        /\ UNCHANGED <<joinWaker, joinSignal, kept, owed, shutDown>>
    BY <1>2, <1>t DEF Wake, SetScheduled, Asleep, Goto, Release, sharedVars, joinVars,
                    localVars, taskVars
  <2> HIDE <1>2
  <2> QED BY <1>t, <2>1 DEF Settled, JoinerHears
<1>3. ASSUME NEW x \in Contexts, NEW t \in Tasks, WakeByRef(x, t) PROVE Settled'
  <2>1. /\ (pc'[x] = "finished" => pc[x] = "finished")
        /\ (pc'[x] = "pending" <=> pc[x] = "pending")
        /\ (pc'[x] \in {"finished", "wakejoin"} <=> pc[x] \in {"finished", "wakejoin"})
        /\ \A b \in Actors \ {x} : pc'[b] = pc[b]
        /\ task'[x] = task[x] \/ pc[x] \notin {"finished", "wakejoin"}
        /\ \A b \in Actors \ {x} : task'[b] = task[b]
        /\ \A u \in Tasks : "COMPLETE" \in state'[u] <=> "COMPLETE" \in state[u]
        /\ UNCHANGED <<joinWaker, joinSignal, kept, owed, shutDown>>
    BY <1>3, <1>t DEF WakeByRef, SetScheduled, Asleep, Goto, Cloned, sharedVars, joinVars,
                    localVars, taskVars
  <2> HIDE <1>3
  <2> QED BY <1>t, <2>1 DEF Settled, JoinerHears
<1>4. ASSUME NEW x \in Contexts, NEW t \in Tasks, DropWaker(x, t) PROVE Settled'
  <2>1. /\ (pc'[x] = "finished" => pc[x] = "finished")
        /\ (pc'[x] = "pending" <=> pc[x] = "pending")
        /\ (pc'[x] \in {"finished", "wakejoin"} <=> pc[x] \in {"finished", "wakejoin"})
        /\ \A b \in Actors \ {x} : pc'[b] = pc[b]
        /\ task'[x] = task[x] \/ pc[x] \notin {"finished", "wakejoin"}
        /\ \A b \in Actors \ {x} : task'[b] = task[b]
        /\ \A u \in Tasks : "COMPLETE" \in state'[u] <=> "COMPLETE" \in state[u]
        /\ UNCHANGED <<joinWaker, joinSignal, kept, owed, shutDown>>
    BY <1>4, <1>t DEF DropWaker, Release, sharedVars, joinVars, localVars, taskVars
  <2> HIDE <1>4
  <2> QED BY <1>t, <2>1 DEF Settled, JoinerHears
<1>5. ASSUME NEW x \in Contexts, WakeMain(x) PROVE Settled'
  <2>1. /\ (pc'[x] = "finished" => pc[x] = "finished")
        /\ (pc'[x] = "pending" <=> pc[x] = "pending")
        /\ (pc'[x] \in {"finished", "wakejoin"} <=> pc[x] \in {"finished", "wakejoin"})
        /\ \A b \in Actors \ {x} : pc'[b] = pc[b]
        /\ task'[x] = task[x] \/ pc[x] \notin {"finished", "wakejoin"}
        /\ \A b \in Actors \ {x} : task'[b] = task[b]
        /\ \A u \in Tasks : "COMPLETE" \in state'[u] <=> "COMPLETE" \in state[u]
        /\ UNCHANGED <<joinWaker, joinSignal, kept, owed, shutDown>>
    BY <1>5, <1>t DEF WakeMain, Goto, taskVars, sharedVars, joinVars, localVars
  <2> HIDE <1>5
  <2> QED BY <1>t, <2>1 DEF Settled, JoinerHears
<1>6. ASSUME NEW a \in Actors, Enqueue(a) PROVE Settled'
  <2>1. /\ pc[a] = "enqueue" /\ \A b \in Actors \ {a} : pc'[b] = pc[b]
        /\ pc'[a] \in {"main", "next", "idle", "detach", "unpark"}
        /\ task' = [task EXCEPT ![a] = IF a \in Tasks THEN a ELSE None]
        /\ UNCHANGED <<state, joinWaker, joinSignal, kept, owed, shutDown>>
    BY <1>6, <1>t, EnqueueEffect DEF joinVars, localVars
  <2> HIDE <1>6
  <2> QED BY <1>t, <2>1 DEF Settled, JoinerHears
<1>7. ASSUME NEW a \in Actors, Unpark(a) PROVE Settled'
  <2>1. /\ (pc'[a] = "finished" => pc[a] = "finished")
        /\ (pc'[a] = "pending" <=> pc[a] = "pending") /\ pc[a] = "unpark"
        /\ (pc'[a] \in {"finished", "wakejoin"} <=> pc[a] \in {"finished", "wakejoin"})
        /\ \A b \in Actors \ {a} : pc'[b] = pc[b]
        /\ task'[a] = task[a] \/ pc[a] \notin {"finished", "wakejoin"}
        /\ \A b \in Actors \ {a} : task'[b] = task[b]
        /\ \A u \in Tasks : "COMPLETE" \in state'[u] <=> "COMPLETE" \in state[u]
        /\ UNCHANGED <<joinWaker, joinSignal, kept, owed, shutDown>>
    BY <1>7, <1>t DEF Unpark, Goto, Resume, Loop, taskVars, sharedVars, joinVars, localVars
  <2> HIDE <1>7
  <2> QED BY <1>t, <2>1 DEF Settled, JoinerHears
<1>8. ASSUME NEW r \in Runners, Register(r) PROVE Settled'
  <2>1. /\ (pc'[r] = "finished" => pc[r] = "finished")
        /\ (pc'[r] = "pending" <=> pc[r] = "pending")
        /\ (pc'[r] \in {"finished", "wakejoin"} <=> pc[r] \in {"finished", "wakejoin"})
        /\ \A b \in Actors \ {r} : pc'[b] = pc[b]
        /\ task'[r] = task[r] \/ pc[r] \notin {"finished", "wakejoin"}
        /\ \A b \in Actors \ {r} : task'[b] = task[b]
        /\ \A u \in Tasks : "COMPLETE" \in state'[u] <=> "COMPLETE" \in state[u]
        /\ UNCHANGED <<joinWaker, joinSignal, kept, owed, shutDown>>
    BY <1>8, <1>t DEF Register, Goto, Loop, taskVars, joinVars, localVars, sharedVars
  <2> HIDE <1>8
  <2> QED BY <1>t, <2>1 DEF Settled, JoinerHears
<1>9. ASSUME NEW r \in Runners, LookMain(r) PROVE Settled'
  <2>1. /\ (pc'[r] = "finished" => pc[r] = "finished")
        /\ (pc'[r] = "pending" <=> pc[r] = "pending")
        /\ (pc'[r] \in {"finished", "wakejoin"} <=> pc[r] \in {"finished", "wakejoin"})
        /\ \A b \in Actors \ {r} : pc'[b] = pc[b]
        /\ task'[r] = task[r] \/ pc[r] \notin {"finished", "wakejoin"}
        /\ \A b \in Actors \ {r} : task'[b] = task[b]
        /\ \A u \in Tasks : "COMPLETE" \in state'[u] <=> "COMPLETE" \in state[u]
        /\ UNCHANGED <<joinWaker, joinSignal, kept, owed, shutDown>>
    BY <1>9, <1>t DEF LookMain, Goto, taskVars, sharedVars, joinVars, localVars
  <2> HIDE <1>9
  <2> QED BY <1>t, <2>1 DEF Settled, JoinerHears
<1>10. ASSUME NEW r \in Runners, PollMain(r) PROVE Settled'
  <2>1. /\ (pc'[r] = "finished" => pc[r] = "finished")
        /\ (pc'[r] = "pending" <=> pc[r] = "pending")
        /\ (pc'[r] \in {"finished", "wakejoin"} <=> pc[r] \in {"finished", "wakejoin"})
        /\ \A b \in Actors \ {r} : pc'[b] = pc[b]
        /\ task'[r] = task[r] \/ pc[r] \notin {"finished", "wakejoin"}
        /\ \A b \in Actors \ {r} : task'[b] = task[b]
        /\ \A u \in Tasks : "COMPLETE" \in state'[u] <=> "COMPLETE" \in state[u]
        /\ UNCHANGED <<joinWaker, joinSignal, kept, owed, shutDown>>
    BY <1>10, <1>t DEF PollMain, Goto, taskVars, sharedVars, joinVars, localVars
  <2> HIDE <1>10
  <2> QED BY <1>t, <2>1 DEF Settled, JoinerHears
<1>11. ASSUME NEW r \in Runners, NextTask(r) PROVE Settled'
  <2>1. /\ pc[r] = "next" /\ pc'[r] \in {"begin", "decide"}
        /\ \A b \in Actors \ {r} : pc'[b] = pc[b]
        /\ \A b \in Actors \ {r} : task'[b] = task[b]
        /\ UNCHANGED <<state, joinWaker, joinSignal, kept, owed, shutDown>>
    BY <1>11, <1>t DEF NextTask, Goto, taskVars, joinVars, localVars
  <2> HIDE <1>11
  <2> QED BY <1>t, <2>1 DEF Settled, JoinerHears
<1>12. ASSUME NEW r \in Runners, Decide(r) PROVE Settled'
  <2>1. /\ (pc'[r] = "finished" => pc[r] = "finished")
        /\ (pc'[r] = "pending" <=> pc[r] = "pending")
        /\ (pc'[r] \in {"finished", "wakejoin"} <=> pc[r] \in {"finished", "wakejoin"})
        /\ \A b \in Actors \ {r} : pc'[b] = pc[b]
        /\ task'[r] = task[r] \/ pc[r] \notin {"finished", "wakejoin"}
        /\ \A b \in Actors \ {r} : task'[b] = task[b]
        /\ \A u \in Tasks : "COMPLETE" \in state'[u] <=> "COMPLETE" \in state[u]
        /\ UNCHANGED <<joinWaker, joinSignal, kept, owed, shutDown>>
    BY <1>12, <1>t DEF Decide, Goto, taskVars, sharedVars, joinVars, localVars
  <2> HIDE <1>12
  <2> QED BY <1>t, <2>1 DEF Settled, JoinerHears
<1>13. ASSUME NEW r \in Runners, Parked(r) PROVE Settled'
  <2>1. /\ (pc'[r] = "finished" => pc[r] = "finished")
        /\ (pc'[r] = "pending" <=> pc[r] = "pending")
        /\ (pc'[r] \in {"finished", "wakejoin"} <=> pc[r] \in {"finished", "wakejoin"})
        /\ \A b \in Actors \ {r} : pc'[b] = pc[b]
        /\ task'[r] = task[r] \/ pc[r] \notin {"finished", "wakejoin"}
        /\ \A b \in Actors \ {r} : task'[b] = task[b]
        /\ \A u \in Tasks : "COMPLETE" \in state'[u] <=> "COMPLETE" \in state[u]
        /\ UNCHANGED <<joinWaker, joinSignal, kept, owed, shutDown>>
    BY <1>13, <1>t DEF Parked, Goto, taskVars, sharedVars, joinVars, localVars
  <2> HIDE <1>13
  <2> QED BY <1>t, <2>1 DEF Settled, JoinerHears
<1>14. ASSUME NEW r \in Runners, ParkTimeout(r) PROVE Settled'
  <2>1. /\ (pc'[r] = "finished" => pc[r] = "finished")
        /\ (pc'[r] = "pending" <=> pc[r] = "pending")
        /\ (pc'[r] \in {"finished", "wakejoin"} <=> pc[r] \in {"finished", "wakejoin"})
        /\ \A b \in Actors \ {r} : pc'[b] = pc[b]
        /\ task'[r] = task[r] \/ pc[r] \notin {"finished", "wakejoin"}
        /\ \A b \in Actors \ {r} : task'[b] = task[b]
        /\ \A u \in Tasks : "COMPLETE" \in state'[u] <=> "COMPLETE" \in state[u]
        /\ UNCHANGED <<joinWaker, joinSignal, kept, owed, shutDown>>
    BY <1>14, <1>t DEF ParkTimeout, Goto, taskVars, sharedVars, joinVars, localVars
  <2> HIDE <1>14
  <2> QED BY <1>t, <2>1 DEF Settled, JoinerHears
<1>15. ASSUME NEW r \in Runners, SetBusy(r) PROVE Settled'
  <2>1. /\ (pc'[r] = "finished" => pc[r] = "finished")
        /\ (pc'[r] = "pending" <=> pc[r] = "pending")
        /\ (pc'[r] \in {"finished", "wakejoin"} <=> pc[r] \in {"finished", "wakejoin"})
        /\ \A b \in Actors \ {r} : pc'[b] = pc[b]
        /\ task'[r] = task[r] \/ pc[r] \notin {"finished", "wakejoin"}
        /\ \A b \in Actors \ {r} : task'[b] = task[b]
        /\ \A u \in Tasks : "COMPLETE" \in state'[u] <=> "COMPLETE" \in state[u]
        /\ UNCHANGED <<joinWaker, joinSignal, kept, owed, shutDown>>
    BY <1>15, <1>t DEF SetBusy, Goto, Loop, taskVars, joinVars, localVars, sharedVars
  <2> HIDE <1>15
  <2> QED BY <1>t, <2>1 DEF Settled, JoinerHears
<1>16. ASSUME NEW r \in Runners, Begin(r) PROVE Settled'
  <2>1. /\ pc[r] = "begin" /\ pc'[r] \in {"abort", "poll"} /\ \A b \in Actors \ {r} : pc'[b] = pc[b]
        /\ \A u \in Tasks : "COMPLETE" \in state'[u] <=> "COMPLETE" \in state[u]
        /\ UNCHANGED <<task, joinWaker, joinSignal, kept, owed, shutDown>>
    BY <1>16, <1>t, BeginEffect DEF sharedVars, joinVars, localVars
  <2> HIDE <1>16
  <2> QED BY <1>t, <2>1 DEF Settled, JoinerHears
<1>17. ASSUME NEW r \in Runners, CloneWaker(r) PROVE Settled'
  <2>1. /\ (pc'[r] = "finished" => pc[r] = "finished")
        /\ (pc'[r] = "pending" <=> pc[r] = "pending")
        /\ (pc'[r] \in {"finished", "wakejoin"} <=> pc[r] \in {"finished", "wakejoin"})
        /\ \A b \in Actors \ {r} : pc'[b] = pc[b]
        /\ task'[r] = task[r] \/ pc[r] \notin {"finished", "wakejoin"}
        /\ \A b \in Actors \ {r} : task'[b] = task[b]
        /\ \A u \in Tasks : "COMPLETE" \in state'[u] <=> "COMPLETE" \in state[u]
        /\ UNCHANGED <<joinWaker, joinSignal, kept, owed, shutDown>>
    BY <1>17, <1>t DEF CloneWaker, Cloned, sharedVars, joinVars, localVars, taskVars
  <2> HIDE <1>17
  <2> QED BY <1>t, <2>1 DEF Settled, JoinerHears
<1>18. ASSUME NEW r \in Runners, PollReady(r) PROVE Settled'
  <2>1. /\ (pc'[r] = "finished" => pc[r] = "finished")
        /\ (pc'[r] = "pending" <=> pc[r] = "pending")
        /\ (pc'[r] \in {"finished", "wakejoin"} <=> pc[r] \in {"finished", "wakejoin"})
        /\ \A b \in Actors \ {r} : pc'[b] = pc[b]
        /\ task'[r] = task[r] \/ pc[r] \notin {"finished", "wakejoin"}
        /\ \A b \in Actors \ {r} : task'[b] = task[b]
        /\ \A u \in Tasks : "COMPLETE" \in state'[u] <=> "COMPLETE" \in state[u]
        /\ UNCHANGED <<joinWaker, joinSignal, kept, owed, shutDown>>
    BY <1>18, <1>t DEF PollReady, Goto, sharedVars, joinVars, localVars, taskVars
  <2> HIDE <1>18
  <2> QED BY <1>t, <2>1 DEF Settled, JoinerHears
<1>19. ASSUME NEW r \in Runners, PollPending(r) PROVE Settled'
  <2>1. /\ (pc'[r] = "finished" => pc[r] = "finished")
        /\ (pc'[r] = "pending" <=> pc[r] = "pending")
        /\ (pc'[r] \in {"finished", "wakejoin"} <=> pc[r] \in {"finished", "wakejoin"})
        /\ \A b \in Actors \ {r} : pc'[b] = pc[b]
        /\ task'[r] = task[r] \/ pc[r] \notin {"finished", "wakejoin"}
        /\ \A b \in Actors \ {r} : task'[b] = task[b]
        /\ \A u \in Tasks : "COMPLETE" \in state'[u] <=> "COMPLETE" \in state[u]
        /\ UNCHANGED <<joinWaker, joinSignal, kept, owed, shutDown>>
    BY <1>19, <1>t DEF PollPending, Goto, taskVars, sharedVars, joinVars, localVars
  <2> HIDE <1>19
  <2> QED BY <1>t, <2>1 DEF Settled, JoinerHears
<1>20. ASSUME NEW r \in Runners, DropAborted(r) PROVE Settled'
  <2>1. /\ (pc'[r] = "finished" => pc[r] = "finished")
        /\ (pc'[r] = "pending" <=> pc[r] = "pending")
        /\ (pc'[r] \in {"finished", "wakejoin"} <=> pc[r] \in {"finished", "wakejoin"})
        /\ \A b \in Actors \ {r} : pc'[b] = pc[b]
        /\ task'[r] = task[r] \/ pc[r] \notin {"finished", "wakejoin"}
        /\ \A b \in Actors \ {r} : task'[b] = task[b]
        /\ \A u \in Tasks : "COMPLETE" \in state'[u] <=> "COMPLETE" \in state[u]
        /\ UNCHANGED <<joinWaker, joinSignal, kept, owed, shutDown>>
    BY <1>20, <1>t DEF DropAborted, Goto, Consumed, sharedVars, joinVars, localVars, taskVars
  <2> HIDE <1>20
  <2> QED BY <1>t, <2>1 DEF Settled, JoinerHears
<1>21. ASSUME NEW r \in Runners, Yield(r) PROVE Settled'
  <2>1. /\ (pc'[r] = "finished" => pc[r] = "finished")
        /\ (pc'[r] = "pending" <=> pc[r] = "pending")
        /\ (pc'[r] \in {"finished", "wakejoin"} <=> pc[r] \in {"finished", "wakejoin"})
        /\ \A b \in Actors \ {r} : pc'[b] = pc[b]
        /\ task'[r] = task[r] \/ pc[r] \notin {"finished", "wakejoin"}
        /\ \A b \in Actors \ {r} : task'[b] = task[b]
        /\ \A u \in Tasks : "COMPLETE" \in state'[u] <=> "COMPLETE" \in state[u]
        /\ UNCHANGED <<joinWaker, joinSignal, kept, owed, shutDown>>
    BY <1>21, <1>t DEF Yield, AfterYield, Goto, Release, Loop, sharedVars, joinVars,
                    localVars, taskVars
  <2> HIDE <1>21
  <2> QED BY <1>t, <2>1 DEF Settled, JoinerHears
<1>22. ASSUME NEW r \in Runners, Finish(r) PROVE Settled'
  <2>1. PICK t \in Tasks : task[r] = t
    BY <1>22, <1>t DEF Finish, PlacesOK, TurnPCs
  <2>2. /\ pc[r] = "finish" /\ pc' = [pc EXCEPT ![r] = "finished"]
        /\ \A u \in Tasks : u # t => state'[u] = state[u]
        /\ "COMPLETE" \in state'[t]
        /\ kept' = [kept EXCEPT ![r] = "HANDLE" \in state[t]]
        /\ owed' = [owed EXCEPT ![r] = joinWaker[t]]
        /\ \A u \in Tasks : u # t => joinWaker'[u] = joinWaker[u]
        /\ UNCHANGED <<task, joinSignal, shutDown>>
    BY <1>22, <1>t, <2>1 DEF Finish, Goto
  <2> HIDE <1>22
  <2>3. "COMPLETE" \notin state[t] /\ pc[t] # "none"
    BY <1>t, <2>1, <2>2 DEF FlagsTell, TurnFlags, HasTurn, TurnPCs, OpenPCs, HandlesTell
  <2>4. "HANDLE" \in state[t] \/ pc[t] \in {"release", "gone"}
    BY <1>t, <2>3 DEF HandlesTell, HandleUpPCs, PlacesOK, HandlePCs
  <2>5. \A u \in Tasks : pc'[u] = pc[u]
    BY <1>t, <2>2
  <2>6. \A s \in Runners : s # r => pc'[s] = pc[s] /\ kept'[s] = kept[s] /\ owed'[s] = owed[s]
    BY <1>t, <2>2
  <2>7. pc'[r] = "finished" /\ kept'[r] = ("HANDLE" \in state[t]) /\ owed'[r] = joinWaker[t]
    BY <1>t, <2>2
  <2>8. pc[t] = "pending" => joinWaker[t]
    BY <1>t, <2>3 DEF Settled
  <2>9. ~owed[r]
    BY <1>t, <2>2 DEF Settled
  <2>s. (\A u \in Tasks : \A s \in Runners :
          /\ task'[s] = u /\ pc'[s] = "finished" /\ ~kept'[s] => pc'[u] \in {"release", "gone"}
          /\ owed'[s] => pc'[s] \in {"finished", "wakejoin"})
    BY <1>t, <2>1, <2>2, <2>4, <2>5, <2>6, <2>7 DEF Settled
  <2>j. \A u \in Tasks : pc'[u] = "pending" /\ "COMPLETE" \notin state'[u] => joinWaker'[u]
    BY <1>t, <2>2, <2>5 DEF Settled
  <2>k. ~shutDown => \A u \in Tasks : pc'[u] = "pending" /\ "COMPLETE" \in state'[u] =>
           joinSignal'[u] \/ \E s \in Runners : task'[s] = u /\ owed'[s]
    <3>1. SUFFICES ASSUME ~shutDown, NEW u \in Tasks, pc[u] = "pending", "COMPLETE" \in state'[u]
                   PROVE  joinSignal[u] \/ \E s \in Runners : task[s] = u /\ owed'[s]
      BY <2>2, <2>5
    <3>2. CASE u = t
      BY <2>1, <2>7, <2>8, <3>1, <3>2
    <3>3. CASE u # t
      <4>1. joinSignal[u] \/ \E s \in Runners : task[s] = u /\ owed[s]
        BY <1>t, <2>2, <3>1, <3>3 DEF Settled, JoinerHears
      <4> QED BY <2>6, <2>9, <4>1
    <3> QED BY <3>2, <3>3
  <2> QED BY <2>2, <2>s, <2>j, <2>k DEF Settled, JoinerHears
<1>23. ASSUME NEW r \in Runners, FinishDrop(r) PROVE Settled'
  <2>1. /\ (pc'[r] = "finished" => pc[r] = "finished")
        /\ (pc'[r] = "pending" <=> pc[r] = "pending")
        /\ (pc'[r] \in {"finished", "wakejoin"} <=> pc[r] \in {"finished", "wakejoin"})
        /\ \A b \in Actors \ {r} : pc'[b] = pc[b]
        /\ task'[r] = task[r] \/ pc[r] \notin {"finished", "wakejoin"}
        /\ \A b \in Actors \ {r} : task'[b] = task[b]
        /\ \A u \in Tasks : "COMPLETE" \in state'[u] <=> "COMPLETE" \in state[u]
        /\ UNCHANGED <<joinWaker, joinSignal, kept, owed, shutDown>>
    BY <1>23, <1>t DEF FinishDrop, FinishedStage, Consumed, Goto, sharedVars, joinVars,
                    localVars, taskVars
  <2> HIDE <1>23
  <2> QED BY <1>t, <2>1 DEF Settled, JoinerHears
<1>24. ASSUME NEW r \in Runners, WakeJoin(r) PROVE Settled'
  <2>1. PICK t \in Tasks : task[r] = t
    BY <1>24, <1>t DEF WakeJoin, PlacesOK, TurnPCs
  <2>2. /\ pc[r] = "wakejoin" /\ pc' = [pc EXCEPT ![r] = Loop(r)] /\ Loop(r) \in {"main", "next"}
        /\ joinSignal' = [joinSignal EXCEPT ![t] = @ \/ owed[r]]
        /\ task' = [task EXCEPT ![r] = None]
        /\ owed' = [owed EXCEPT ![r] = FALSE] /\ kept' = [kept EXCEPT ![r] = FALSE]
        /\ UNCHANGED <<state, joinWaker, shutDown>>
    BY <1>24, <1>t, <2>1 DEF WakeJoin, Goto, Loop, sharedVars
  <2> HIDE <1>24
  <2>3. \A s \in Runners : s # r => /\ pc'[s] = pc[s] /\ kept'[s] = kept[s] /\ owed'[s] = owed[s]
                                    /\ task'[s] = task[s]
    BY <1>t, <2>2
  <2>4. pc'[r] \in {"main", "next"} /\ ~owed'[r]
    BY <1>t, <2>2
  <2>5. \A u \in Tasks : /\ pc'[u] = pc[u]
                         /\ joinSignal'[u] <=> joinSignal[u] \/ (u = t /\ owed[r])
    BY <1>t, <2>2
  <2> HIDE DEF Loop
  <2> QED BY <1>t, <2>1, <2>2, <2>3, <2>4, <2>5 DEF Settled, JoinerHears
<1>25. ASSUME NEW r \in Runners, Leave(r) PROVE Settled'
  <2>1. /\ (pc'[r] = "finished" => pc[r] = "finished")
        /\ (pc'[r] = "pending" <=> pc[r] = "pending")
        /\ (pc'[r] \in {"finished", "wakejoin"} <=> pc[r] \in {"finished", "wakejoin"})
        /\ \A b \in Actors \ {r} : pc'[b] = pc[b]
        /\ task'[r] = task[r] \/ pc[r] \notin {"finished", "wakejoin"}
        /\ \A b \in Actors \ {r} : task'[b] = task[b]
        /\ \A u \in Tasks : "COMPLETE" \in state'[u] <=> "COMPLETE" \in state[u]
        /\ UNCHANGED <<joinWaker, joinSignal, kept, owed, shutDown>>
    BY <1>25, <1>t DEF Leave, Goto, taskVars, joinVars, localVars, sharedVars
  <2> HIDE <1>25
  <2> QED BY <1>t, <2>1 DEF Settled, JoinerHears
<1>26. ASSUME NEW r \in Runners, ShutDown(r) PROVE Settled'
  <2>1. /\ pc[r] = "shutdown" /\ pc' = [pc EXCEPT ![r] = "drainqueue"] /\ shutDown'
        /\ UNCHANGED <<state, joinWaker, kept, owed, task>>
    BY <1>26 DEF ShutDown, Goto, taskVars, joinVars
  <2> HIDE <1>26
  <2> QED BY <1>t, <2>1 DEF Settled
<1>27. ASSUME NEW r \in Runners, DrainQueue(r) PROVE Settled'
  <2>1. /\ (pc'[r] = "finished" => pc[r] = "finished")
        /\ (pc'[r] = "pending" <=> pc[r] = "pending")
        /\ (pc'[r] \in {"finished", "wakejoin"} <=> pc[r] \in {"finished", "wakejoin"})
        /\ \A b \in Actors \ {r} : pc'[b] = pc[b]
        /\ task'[r] = task[r] \/ pc[r] \notin {"finished", "wakejoin"}
        /\ \A b \in Actors \ {r} : task'[b] = task[b]
        /\ \A u \in Tasks : "COMPLETE" \in state'[u] <=> "COMPLETE" \in state[u]
        /\ UNCHANGED <<joinWaker, joinSignal, kept, owed, shutDown>>
    BY <1>27, <1>t DEF DrainQueue, Goto, Release, joinVars, localVars, taskVars, sharedVars
  <2> HIDE <1>27
  <2> QED BY <1>t, <2>1 DEF Settled, JoinerHears
<1>28. ASSUME NEW r \in Runners, DrainMark(r) PROVE Settled'
  <2>1. /\ pc[r] = "drainall" /\ \A b \in Actors \ {r} : pc'[b] = pc[b]
        /\ pc'[r] \in {"ended", "drainstage"}
        /\ \A b \in Actors \ {r} : task'[b] = task[b]
        /\ UNCHANGED <<kept, owed, shutDown>>
    BY <1>28, <1>t DEF DrainMark, Goto, sharedVars
  <2>2. \A u \in Tasks : "COMPLETE" \notin state'[u] =>
          "COMPLETE" \notin state[u] /\ joinWaker'[u] = joinWaker[u]
    BY <1>28, <1>t DEF DrainMark, Goto, sharedVars
  <2> HIDE <1>28
  <2>3. shutDown
    BY <1>t, <2>1 DEF EndOK
  <2> QED BY <1>t, <2>1, <2>2, <2>3 DEF Settled
<1>29. ASSUME NEW r \in Runners, DrainStage(r) PROVE Settled'
  <2>1. /\ (pc'[r] = "finished" => pc[r] = "finished")
        /\ (pc'[r] = "pending" <=> pc[r] = "pending")
        /\ (pc'[r] \in {"finished", "wakejoin"} <=> pc[r] \in {"finished", "wakejoin"})
        /\ \A b \in Actors \ {r} : pc'[b] = pc[b]
        /\ task'[r] = task[r] \/ pc[r] \notin {"finished", "wakejoin"}
        /\ \A b \in Actors \ {r} : task'[b] = task[b]
        /\ \A u \in Tasks : "COMPLETE" \in state'[u] <=> "COMPLETE" \in state[u]
        /\ UNCHANGED <<joinWaker, joinSignal, kept, owed, shutDown>>
    BY <1>29, <1>t DEF DrainStage, Release, Consumed, Goto, sharedVars, joinVars, localVars,
                    taskVars
  <2> HIDE <1>29
  <2> QED BY <1>t, <2>1 DEF Settled, JoinerHears
<1>30. ASSUME NEW t \in Tasks, JoinPoll(t) PROVE Settled'
  <2>1. /\ pc[t] \in {"held", "pending"} /\ pc'[t] \in {"take", "register"}
        /\ \A b \in Actors \ {t} : pc'[b] = pc[b]
        /\ \A u \in Tasks : u # t => joinSignal'[u] = joinSignal[u]
        /\ UNCHANGED <<state, joinWaker, kept, owed, shutDown, task>>
    BY <1>30, <1>t DEF JoinPoll, Goto, taskVars, sharedVars, localVars
  <2> HIDE <1>30
  <2>2. \A r \in Runners : pc'[r] = pc[r] /\ (task[r] = t => ~(pc[r] = "finished" /\ ~kept[r]))
    BY <1>t, <2>1 DEF Settled
  <2> QED BY <1>t, <2>1, <2>2 DEF Settled, JoinerHears
<1>31. ASSUME NEW t \in Tasks, JoinRegister(t) PROVE Settled'
  <2>1. /\ pc[t] = "register" /\ \A b \in Actors \ {t} : pc'[b] = pc[b]
        /\ \/ pc'[t] = "take"
           \/ pc'[t] = "pending" /\ joinWaker'[t] /\ "COMPLETE" \notin state[t]
        /\ \A u \in Tasks : u # t => joinWaker'[u] = joinWaker[u]
        /\ UNCHANGED <<state, joinSignal, kept, owed, shutDown, task>>
    BY <1>31, <1>t DEF JoinRegister, Goto, taskVars, sharedVars, localVars
  <2> HIDE <1>31
  <2>2. \A r \in Runners : pc'[r] = pc[r] /\ (task[r] = t => ~(pc[r] = "finished" /\ ~kept[r]))
    BY <1>t, <2>1 DEF Settled
  <2> QED BY <1>t, <2>1, <2>2 DEF Settled, JoinerHears
<1>32. ASSUME NEW t \in Tasks, JoinTake(t) PROVE Settled'
  <2>1. /\ pc[t] \in {"take"} /\ pc'[t] \in {"detach", "panicked"}
        /\ \A b \in Actors \ {t} : pc'[b] = pc[b]
        /\ \A u \in Tasks : "COMPLETE" \in state'[u] <=> "COMPLETE" \in state[u]
        /\ UNCHANGED <<joinWaker, joinSignal, kept, owed, shutDown, task>>
    BY <1>32, <1>t DEF JoinTake, Goto, Consumed, sharedVars, joinVars, localVars, taskVars
  <2> HIDE <1>32
  <2>2. \A r \in Runners : pc'[r] = pc[r] /\ (task[r] = t => ~(pc[r] = "finished" /\ ~kept[r]))
    BY <1>t, <2>1 DEF Settled
  <2> QED BY <1>t, <2>1, <2>2 DEF Settled, JoinerHears
<1>33. ASSUME NEW t \in Tasks, Abort(t) PROVE Settled'
  <2>1. /\ pc[t] \in {"held", "pending"} /\ pc'[t] \in {"enqueue", "detach"}
        /\ \A b \in Actors \ {t} : pc'[b] = pc[b]
        /\ \A u \in Tasks : "COMPLETE" \in state'[u] <=> "COMPLETE" \in state[u]
        /\ UNCHANGED <<joinWaker, joinSignal, kept, owed, shutDown, task>>
    BY <1>33, <1>t DEF Abort, Asleep, Cloned, Goto, sharedVars, joinVars, localVars, taskVars
  <2> HIDE <1>33
  <2>2. \A r \in Runners : pc'[r] = pc[r] /\ (task[r] = t => ~(pc[r] = "finished" /\ ~kept[r]))
    BY <1>t, <2>1 DEF Settled
  <2> QED BY <1>t, <2>1, <2>2 DEF Settled, JoinerHears
<1>34. ASSUME NEW t \in Tasks, DropHandle(t) PROVE Settled'
  <2>1. /\ pc[t] \in {"held", "pending"} /\ pc'[t] \in {"detach"}
        /\ \A b \in Actors \ {t} : pc'[b] = pc[b]
        /\ \A u \in Tasks : "COMPLETE" \in state'[u] <=> "COMPLETE" \in state[u]
        /\ UNCHANGED <<joinWaker, joinSignal, kept, owed, shutDown, task>>
    BY <1>34, <1>t DEF DropHandle, Goto, taskVars, sharedVars, joinVars, localVars, taskVars
  <2> HIDE <1>34
  <2>2. \A r \in Runners : pc'[r] = pc[r] /\ (task[r] = t => ~(pc[r] = "finished" /\ ~kept[r]))
    BY <1>t, <2>1 DEF Settled
  <2> QED BY <1>t, <2>1, <2>2 DEF Settled, JoinerHears
<1>35. ASSUME NEW t \in Tasks, Detach(t) PROVE Settled'
  <2>1. /\ pc[t] = "detach" /\ pc'[t] \in {"dropout", "release"}
        /\ \A b \in Actors \ {t} : pc'[b] = pc[b]
        /\ \A u \in Tasks : "COMPLETE" \in state'[u] <=> "COMPLETE" \in state[u]
        /\ \A u \in Tasks : u # t => joinWaker'[u] = joinWaker[u]
        /\ UNCHANGED <<joinSignal, kept, owed, shutDown, task>>
    BY <1>35, <1>t DEF Detach, DetachOwns, Goto, sharedVars, localVars
  <2> HIDE <1>35
  <2>2. \A r \in Runners : pc'[r] = pc[r] /\ (task[r] = t => ~(pc[r] = "finished" /\ ~kept[r]))
    BY <1>t, <2>1 DEF Settled
  <2> QED BY <1>t, <2>1, <2>2 DEF Settled, JoinerHears
<1>36. ASSUME NEW t \in Tasks, DropOutput(t) PROVE Settled'
  <2>1. /\ pc[t] = "dropout" /\ pc'[t] = "release" /\ \A b \in Actors \ {t} : pc'[b] = pc[b]
        /\ UNCHANGED <<state, joinWaker, joinSignal, kept, owed, shutDown, task>>
    BY <1>36, <1>t DEF DropOutput, Goto, Consumed, sharedVars, joinVars, localVars, taskVars
  <2> HIDE <1>36
  <2>2. \A r \in Runners : pc'[r] = pc[r]
    BY <1>t, <2>1
  <2> QED BY <1>t, <2>1, <2>2 DEF Settled, JoinerHears
<1>37. ASSUME NEW t \in Tasks, ReleaseHandle(t) PROVE Settled'
  <2>1. /\ pc[t] = "release" /\ pc'[t] = "gone" /\ \A b \in Actors \ {t} : pc'[b] = pc[b]
        /\ UNCHANGED <<state, joinWaker, joinSignal, kept, owed, shutDown, task>>
    BY <1>37, <1>t DEF ReleaseHandle, Release, Goto, sharedVars, joinVars, localVars, taskVars
  <2> HIDE <1>37
  <2>2. \A r \in Runners : pc'[r] = pc[r]
    BY <1>t, <2>1
  <2> QED BY <1>t, <2>1, <2>2 DEF Settled, JoinerHears
<1>38. CASE UNCHANGED vars
  BY <1>38, <1>t DEF vars, Settled, JoinerHears
<1> QED BY <1>1, <1>2, <1>3, <1>4, <1>5, <1>6, <1>7, <1>8, <1>9, <1>10, <1>11, <1>12, <1>13,
      <1>14, <1>15, <1>16, <1>17, <1>18, <1>19, <1>20, <1>21, <1>22, <1>23, <1>24, <1>25,
      <1>26, <1>27, <1>28, <1>29, <1>30, <1>31, <1>32, <1>33, <1>34, <1>35, <1>36, <1>37,
      <1>38 DEF Next, ContextStep, RunnerStep, TurnStep, EndStep, PollStep, HandleStep

\* It holds in every state.
LEMMA SettledAlways == Spec => []Settled
<1>1. Init => Settled
  BY ExecutorAssumption DEF Init, Settled, JoinerHears, Actors
<1>2. IInv /\ Settled /\ [Next]_vars => Settled'
  BY SettledStep
<1> QED BY <1>1, <1>2, Inductive, PTL DEF Spec

\* Before the executor is dropped nobody shares a task's stage: the runner polls
\* it while it is not complete, and finish() or the handle's owner clears it then.
LEMMA StageOwnedOnce == IInv /\ Settled /\ ~shutDown => StageOwned
<1> SUFFICES ASSUME IInv, Settled, ~shutDown, NEW t \in Tasks
             PROVE  Cardinality(OnStage(t)) <= 1
  BY DEF StageOwned
<1>t. /\ Actors = Tasks \cup Contexts \cup Runners /\ EndOK /\ TurnsOnce /\ FlagsTell
      /\ HandlesTell /\ \A u \in Tasks : task[u] = u
  BY Typing DEF IInv, PlacesOK
<1>1. ASSUME NEW r \in Runners, r \in OnStage(t), task[r] = t,
             pc[r] \in {"poll", "abort", "finished"}
      PROVE  HasTurn(r, t) /\ pc[t] \notin {"take", "dropout"}
  <2>1. HasTurn(r, t)
    BY <1>1 DEF HasTurn, TurnPCs
  <2>2. CASE pc[r] \in {"poll", "abort"}
    BY <1>t, <2>1, <2>2 DEF FlagsTell, TurnFlags, OpenPCs, HandlesTell
  <2>3. CASE pc[r] = "finished" /\ ~kept[r]
    BY <1>1, <2>1, <2>3 DEF Settled
  <2>4. pc[r] \in {"poll", "abort"} \/ (pc[r] = "finished" /\ ~kept[r]) \/ r = t
    BY <1>1 DEF OnStage
  <2>5. r # t
    BY Typing DEF IInv
  <2> QED BY <2>1, <2>2, <2>3, <2>4, <2>5
<1>2. ASSUME NEW a \in OnStage(t)
      PROVE  \/ a = t /\ pc[t] \in {"take", "dropout"}
             \/ a \in Runners /\ task[a] = t /\ pc[a] \in {"poll", "abort", "finished"}
  BY <1>t DEF OnStage, EndOK
<1>3. \A a, b \in OnStage(t) : a = b
  <2> SUFFICES ASSUME NEW a \in OnStage(t), NEW b \in OnStage(t) PROVE a = b
    OBVIOUS
  <2>1. CASE a \in Runners /\ b \in Runners
    <3>1. HasTurn(a, t) /\ HasTurn(b, t)
      BY SMTT(30), <1>1, <1>2, <2>1, Typing DEF IInv
    <3> QED BY <1>t, <2>1, <3>1 DEF TurnsOnce
  <2>2. CASE a \notin Runners \/ b \notin Runners
    BY <1>1, <1>2, <2>2
  <2> QED BY <2>1, <2>2
<1> HIDE DEF OnStage
<1> QED BY <1>3, Solo DEF One

\* A task's block is freed with its last holder, wherever that is, and what it
\* holds is never in two hands, until the executor is dropped.
THEOREM StagesAreOwned == Spec => [](~shutDown => TasksIntact)
<1>1. IInv /\ Settled /\ BlocksFreed => (~shutDown => TasksIntact)
  BY StageOwnedOnce DEF TasksIntact
<1> QED BY <1>1, Inductive, SettledAlways, BlocksAreFreed, PTL

\* No wakeup is lost or taken twice, none waits for a runner that sleeps, and
\* joiners hear of the end of their task, until the executor is dropped.
THEOREM WakeupsAreKept == Spec => [](~shutDown => WakeupsKept)
<1>1. IInv /\ QueueAttended /\ Settled => (~shutDown => WakeupsKept)
  BY TurnsCounted, TurnsComing DEF WakeupsKept, Settled
<1> QED BY <1>1, Inductive, AlwaysAttended, SettledAlways, PTL

\* An executor whose runners all sit in run() is never dropped: there both hold
\* for good.
THEOREM ServedForGood ==
  ASSUME Main = None
  PROVE  Spec => [](TasksIntact /\ WakeupsKept)
<1>1. IInv => ~shutDown
  BY ExecutorAssumption DEF IInv, EndOK, PlacesOK, EndPCs
<1> QED BY <1>1, Inductive, StagesAreOwned, WakeupsAreKept, PTL


-----------------------------------------------------------------------------
(* The turns a task gets. *)

RunPCs == {"poll", "abort", "yield", "finish"}

\* What TaskSpec is told of a task.
Owed(t) == "SCHEDULED" \in state[t]
Run(t) == \E r \in Runners : task[r] = t /\ pc[r] \in RunPCs
Done(t) == "COMPLETE" \in state[t]

\* How it moves when a task is woken, begins or ends a turn, finishes, is dropped.
Moved(t) ==
  \/ Owed(t)' /\ (Run(t)' <=> Run(t)) /\ (Done(t)' <=> Done(t))
  \/ Owed(t) /\ ~Run(t) /\ ~Done(t) /\ ~Owed(t)' /\ Run(t)' /\ ~Done(t)'
  \/ Run(t) /\ ~Run(t)' /\ (Owed(t)' <=> Owed(t)) /\ (Done(t)' <=> Done(t))
  \/ Run(t) /\ ~Run(t)' /\ ~Owed(t)' /\ Done(t)'
  \/ ~Run(t) /\ ~Run(t)' /\ Done(t)' /\ (Owed(t) => Owed(t)')

OneTurn ==
  \/ \A t \in Tasks : (Owed(t)' <=> Owed(t)) /\ (Run(t)' <=> Run(t)) /\ (Done(t)' <=> Done(t))
  \/ \E t \in Tasks :
       /\ Moved(t)
       /\ \A u \in Tasks \ {t} :
            (Owed(u)' <=> Owed(u)) /\ (Run(u)' <=> Run(u)) /\ (Done(u)' <=> Done(u))

\* OneTurn is a step of TaskSpec or none.
LEMMA TurnsMap ==
  ASSUME OneTurn PROVE [Turns!Next]_(Turns!vars)
<1> DEFINE O == [t \in Tasks |-> "SCHEDULED" \in state[t]]
           R == [t \in Tasks |-> \E r \in Runners : /\ task[r] = t
                                     /\ pc[r] \in {"poll", "abort", "yield", "finish"}]
           D == [t \in Tasks |-> "COMPLETE" \in state[t]]
<1>1. /\ O = [t \in Tasks |-> Owed(t)] /\ O' = [t \in Tasks |-> Owed(t)']
      /\ R = [t \in Tasks |-> Run(t)] /\ R' = [t \in Tasks |-> Run(t)']
      /\ D = [t \in Tasks |-> Done(t)] /\ D' = [t \in Tasks |-> Done(t)']
  BY DEF Owed, Run, RunPCs, Done
<1>b. \A t \in Tasks : /\ Owed(t) \in BOOLEAN /\ Run(t) \in BOOLEAN /\ Done(t) \in BOOLEAN
                       /\ Owed(t)' \in BOOLEAN /\ Run(t)' \in BOOLEAN /\ Done(t)' \in BOOLEAN
  BY DEF Owed, Run, Done
<1>2. CASE \A t \in Tasks : (Owed(t)' <=> Owed(t)) /\ (Run(t)' <=> Run(t)) /\ (Done(t)' <=> Done(t))
  <2>1. O' = O /\ R' = R /\ D' = D
    <3> HIDE DEF O, R, D
    <3> QED BY <1>1, <1>b, <1>2
  <2> QED BY <2>1 DEF Turns!vars
<1>3. ASSUME NEW t \in Tasks, Moved(t),
             \A u \in Tasks \ {t} :
               (Owed(u)' <=> Owed(u)) /\ (Run(u)' <=> Run(u)) /\ (Done(u)' <=> Done(u))
      PROVE  Turns!Next
  <2>1. /\ O' = [O EXCEPT ![t] = Owed(t)'] /\ R' = [R EXCEPT ![t] = Run(t)']
        /\ D' = [D EXCEPT ![t] = Done(t)']
    <3> HIDE DEF O, R, D
    <3> QED BY <1>1, <1>b, <1>3
  <2>2. O[t] = Owed(t) /\ R[t] = Run(t) /\ D[t] = Done(t)
    <3> HIDE DEF O, R, D
    <3> QED BY <1>1
  <2>3. /\ (Owed(t)' = Owed(t) => O' = O)
        /\ (Run(t)' = Run(t) => R' = R)
        /\ (Done(t)' = Done(t) => D' = D)
    <3> HIDE DEF O, R, D
    <3> QED BY <1>1, <1>b, <1>3
  <2>4. \/ Turns!Wake(t) \/ Turns!StartTurn(t) \/ Turns!EndTurn(t) \/ Turns!Finish(t)
        \/ Turns!Dropped(t)
    <3>1. CASE Owed(t)' /\ (Run(t)' <=> Run(t)) /\ (Done(t)' <=> Done(t))
      <4>1. O' = [O EXCEPT ![t] = TRUE] /\ R' = R /\ D' = D
        <5> HIDE DEF O, R, D
        <5> QED BY <1>b, <2>1, <2>3, <3>1
      <4> QED BY <4>1 DEF Turns!Wake
    <3>2. CASE Owed(t) /\ ~Run(t) /\ ~Done(t) /\ ~Owed(t)' /\ Run(t)' /\ ~Done(t)'
      <4>1. /\ O[t] /\ ~R[t] /\ ~D[t]
            /\ O' = [O EXCEPT ![t] = FALSE] /\ R' = [R EXCEPT ![t] = TRUE] /\ D' = D
        <5> HIDE DEF O, R, D
        <5> QED BY <1>b, <2>1, <2>2, <2>3, <3>2
      <4> QED BY <4>1 DEF Turns!StartTurn
    <3>3. CASE Run(t) /\ ~Run(t)' /\ (Owed(t)' <=> Owed(t)) /\ (Done(t)' <=> Done(t))
      <4>1. R[t] /\ R' = [R EXCEPT ![t] = FALSE] /\ O' = O /\ D' = D
        <5> HIDE DEF O, R, D
        <5> QED BY <1>b, <2>1, <2>2, <2>3, <3>3
      <4> QED BY <4>1 DEF Turns!EndTurn
    <3>4. CASE Run(t) /\ ~Run(t)' /\ ~Owed(t)' /\ Done(t)'
      <4>1. /\ R[t] /\ R' = [R EXCEPT ![t] = FALSE] /\ O' = [O EXCEPT ![t] = FALSE]
            /\ D' = [D EXCEPT ![t] = TRUE]
        <5> HIDE DEF O, R, D
        <5> QED BY <1>b, <2>1, <2>2, <3>4
      <4> QED BY <4>1 DEF Turns!Finish
    <3>5. CASE ~Run(t) /\ ~Run(t)' /\ Done(t)' /\ (Owed(t) => Owed(t)')
      <4>1. /\ ~R[t] /\ R' = R /\ D' = [D EXCEPT ![t] = TRUE]
            /\ \E o \in {O[t], TRUE} : O' = [O EXCEPT ![t] = o]
        <5> HIDE DEF O, R, D
        <5>1. Owed(t)' = Owed(t) \/ Owed(t)' = TRUE
          BY <1>b, <3>5
        <5> QED BY <1>b, <2>1, <2>2, <2>3, <3>5, <5>1
      <4> QED BY <4>1 DEF Turns!Dropped
    <3> QED BY <1>3, <3>1, <3>2, <3>3, <3>4, <3>5 DEF Moved
  <2> QED BY <2>4 DEF Turns!Next
<1> QED BY <1>2, <1>3 DEF OneTurn

\* Who has the turn is the only one to run the task.
LEMMA RunsAlone ==
  ASSUME IInv, NEW r \in Runners, NEW t \in Tasks, HasTurn(r, t)
  PROVE  /\ \A s \in Runners \ {r} : ~(task[s] = t /\ pc[s] \in RunPCs)
         /\ pc[r] \notin RunPCs => ~Run(t)
<1>1. TurnsOnce /\ Runners \subseteq Actors
  BY Typing DEF IInv
<1>2. ASSUME NEW s \in Runners, task[s] = t, pc[s] \in RunPCs PROVE s = r
  BY <1>1, <1>2 DEF TurnsOnce, HasTurn, TurnPCs, RunPCs
<1> QED BY <1>2 DEF Run

\* One case per action of the executor.
LEMMA EachATurn ==
  ASSUME IInv, [Next]_vars PROVE OneTurn
<1>t. /\ pc \in [Actors -> PCs] /\ task \in [Actors -> Tasks \cup {None}]
      /\ state \in [Tasks -> SUBSET Flags] /\ queue \in Seq(Tasks) /\ drain \subseteq Tasks
      /\ Actors = Tasks \cup Contexts \cup Runners /\ None \notin Tasks
      /\ Tasks \cap Contexts = {} /\ Tasks \cap Runners = {} /\ Contexts \cap Runners = {}
      /\ IInv /\ TypeOK /\ HandlesTell /\ PlacesOK /\ FlagsTell
  BY Typing DEF IInv
<1>1. ASSUME NEW x \in Contexts, NEW t \in Tasks, Spawn(x, t) PROVE OneTurn
  <2>1. /\ pc[x] = "idle" /\ pc[t] = "none" /\ \A a \in Actors \ {x, t} : pc'[a] = pc[a]
        /\ task' = task
        /\ state' = [state EXCEPT ![t] = {"SCHEDULED", "HANDLE"}
                                         \cup IF shutDown THEN {"COMPLETE"} ELSE {}]
    BY <1>1, <1>t, SpawnEffect
  <2> HIDE <1>1
  <2>2. \A r \in Runners : pc'[r] = pc[r]
    BY <1>t, <2>1
  <2>3. \A u \in Tasks : Run(u)' <=> Run(u)
    BY <2>1, <2>2 DEF Run
  <2>4. \A u \in Tasks \ {t} : (Owed(u)' <=> Owed(u)) /\ (Done(u)' <=> Done(u))
    BY <1>t, <2>1 DEF Owed, Done
  <2>5. Owed(t)' /\ (Done(t)' <=> shutDown) /\ ~Done(t)
    BY <1>t, <2>1 DEF Owed, Done, HandlesTell
  <2>6. ~Run(t)
    BY <1>t, <2>1 DEF Run, RunPCs, FlagsTell, TurnFlags, HasTurn, TurnPCs, HandlesTell
  <2> QED BY <2>3, <2>4, <2>5, <2>6 DEF OneTurn, Moved
<1>2. ASSUME NEW x \in Contexts, NEW t \in Tasks, Wake(x, t) PROVE OneTurn
  <2>1. /\ state'[t] \in {state[t] \cup {"SCHEDULED"}, state[t] \cup {"ABORTED", "SCHEDULED"}}
        /\ \A u \in Tasks \ {t} : state'[u] = state[u]
        /\ \A r \in Runners : pc'[r] = pc[r] /\ task'[r] = task[r]
    BY <1>2, <1>t DEF Wake, SetScheduled, Asleep, Goto, Release, sharedVars, joinVars,
                    localVars
  <2> HIDE <1>2
  <2>2. \A u \in Tasks : Run(u)' <=> Run(u)
    BY <2>1 DEF Run
  <2>3. Owed(t)' /\ (Done(t)' <=> Done(t))
    BY <2>1 DEF Owed, Done
  <2>4. \A u \in Tasks \ {t} : (Owed(u)' <=> Owed(u)) /\ (Done(u)' <=> Done(u))
    BY <2>1 DEF Owed, Done
  <2> QED BY <2>2, <2>3, <2>4 DEF OneTurn, Moved
<1>3. ASSUME NEW x \in Contexts, NEW t \in Tasks, WakeByRef(x, t) PROVE OneTurn
  <2>1. /\ state'[t] \in {state[t] \cup {"SCHEDULED"}, state[t] \cup {"ABORTED", "SCHEDULED"}}
        /\ \A u \in Tasks \ {t} : state'[u] = state[u]
        /\ \A r \in Runners : pc'[r] = pc[r] /\ task'[r] = task[r]
    BY <1>3, <1>t DEF WakeByRef, SetScheduled, Asleep, Goto, Cloned, sharedVars, joinVars,
                    localVars
  <2> HIDE <1>3
  <2>2. \A u \in Tasks : Run(u)' <=> Run(u)
    BY <2>1 DEF Run
  <2>3. Owed(t)' /\ (Done(t)' <=> Done(t))
    BY <2>1 DEF Owed, Done
  <2>4. \A u \in Tasks \ {t} : (Owed(u)' <=> Owed(u)) /\ (Done(u)' <=> Done(u))
    BY <2>1 DEF Owed, Done
  <2> QED BY <2>2, <2>3, <2>4 DEF OneTurn, Moved
<1>4. ASSUME NEW x \in Contexts, NEW t \in Tasks, DropWaker(x, t) PROVE OneTurn
  <2>1. /\ pc'[x] \in RunPCs <=> pc[x] \in RunPCs
        /\ \A b \in Actors \ {x} : pc'[b] = pc[b] /\ task'[b] = task[b]
        /\ task'[x] = task[x] \/ pc[x] \notin RunPCs
        /\ \A u \in Tasks : /\ "SCHEDULED" \in state'[u] <=> "SCHEDULED" \in state[u]
                            /\ "COMPLETE" \in state'[u] <=> "COMPLETE" \in state[u]
    BY <1>4, <1>t DEF DropWaker, Release, sharedVars, joinVars, localVars, taskVars, RunPCs
  <2> HIDE <1>4
  <2> QED BY <1>t, <2>1 DEF OneTurn, Run, Owed, Done
<1>5. ASSUME NEW x \in Contexts, WakeMain(x) PROVE OneTurn
  <2>1. /\ pc'[x] \in RunPCs <=> pc[x] \in RunPCs
        /\ \A b \in Actors \ {x} : pc'[b] = pc[b] /\ task'[b] = task[b]
        /\ task'[x] = task[x] \/ pc[x] \notin RunPCs
        /\ \A u \in Tasks : /\ "SCHEDULED" \in state'[u] <=> "SCHEDULED" \in state[u]
                            /\ "COMPLETE" \in state'[u] <=> "COMPLETE" \in state[u]
    BY <1>5, <1>t DEF WakeMain, Goto, taskVars, sharedVars, joinVars, localVars, RunPCs
  <2> HIDE <1>5
  <2>2. \A r \in Runners : pc'[r] = pc[r] /\ task'[r] = task[r]
    BY <1>t, <2>1
  <2> QED BY <2>1, <2>2 DEF OneTurn, Run, Owed, Done
<1>6. ASSUME NEW a \in Actors, Enqueue(a) PROVE OneTurn
  <2>1. /\ pc[a] = "enqueue" /\ \A b \in Actors \ {a} : pc'[b] = pc[b]
        /\ pc'[a] \in {"main", "next", "idle", "detach", "unpark"}
        /\ task' = [task EXCEPT ![a] = IF a \in Tasks THEN a ELSE None] /\ UNCHANGED state
    BY <1>6, <1>t, EnqueueEffect
  <2> HIDE <1>6
  <2> QED BY <1>t, <2>1 DEF OneTurn, Run, Owed, Done, RunPCs
<1>7. ASSUME NEW a \in Actors, Unpark(a) PROVE OneTurn
  <2>1. /\ pc'[a] \in RunPCs <=> pc[a] \in RunPCs
        /\ \A b \in Actors \ {a} : pc'[b] = pc[b] /\ task'[b] = task[b]
        /\ task'[a] = task[a] \/ pc[a] \notin RunPCs
        /\ \A u \in Tasks : /\ "SCHEDULED" \in state'[u] <=> "SCHEDULED" \in state[u]
                            /\ "COMPLETE" \in state'[u] <=> "COMPLETE" \in state[u]
    BY <1>7, <1>t DEF Unpark, Goto, Resume, Loop, taskVars, sharedVars, joinVars, localVars,
                    RunPCs
  <2> HIDE <1>7
  <2> QED BY <1>t, <2>1 DEF OneTurn, Run, Owed, Done
<1>8. ASSUME NEW r \in Runners, Register(r) PROVE OneTurn
  <2>1. /\ pc'[r] \in RunPCs <=> pc[r] \in RunPCs
        /\ \A b \in Actors \ {r} : pc'[b] = pc[b] /\ task'[b] = task[b]
        /\ task'[r] = task[r] \/ pc[r] \notin RunPCs
        /\ \A u \in Tasks : /\ "SCHEDULED" \in state'[u] <=> "SCHEDULED" \in state[u]
                            /\ "COMPLETE" \in state'[u] <=> "COMPLETE" \in state[u]
    BY <1>8, <1>t DEF Register, Goto, Loop, taskVars, joinVars, localVars, sharedVars, RunPCs
  <2> HIDE <1>8
  <2> QED BY <1>t, <2>1 DEF OneTurn, Run, Owed, Done
<1>9. ASSUME NEW r \in Runners, LookMain(r) PROVE OneTurn
  <2>1. /\ pc'[r] \in RunPCs <=> pc[r] \in RunPCs
        /\ \A b \in Actors \ {r} : pc'[b] = pc[b] /\ task'[b] = task[b]
        /\ task'[r] = task[r] \/ pc[r] \notin RunPCs
        /\ \A u \in Tasks : /\ "SCHEDULED" \in state'[u] <=> "SCHEDULED" \in state[u]
                            /\ "COMPLETE" \in state'[u] <=> "COMPLETE" \in state[u]
    BY <1>9, <1>t DEF LookMain, Goto, taskVars, sharedVars, joinVars, localVars, RunPCs
  <2> HIDE <1>9
  <2> QED BY <1>t, <2>1 DEF OneTurn, Run, Owed, Done
<1>10. ASSUME NEW r \in Runners, PollMain(r) PROVE OneTurn
  <2>1. /\ pc'[r] \in RunPCs <=> pc[r] \in RunPCs
        /\ \A b \in Actors \ {r} : pc'[b] = pc[b] /\ task'[b] = task[b]
        /\ task'[r] = task[r] \/ pc[r] \notin RunPCs
        /\ \A u \in Tasks : /\ "SCHEDULED" \in state'[u] <=> "SCHEDULED" \in state[u]
                            /\ "COMPLETE" \in state'[u] <=> "COMPLETE" \in state[u]
    BY <1>10, <1>t DEF PollMain, Goto, taskVars, sharedVars, joinVars, localVars, RunPCs
  <2> HIDE <1>10
  <2> QED BY <1>t, <2>1 DEF OneTurn, Run, Owed, Done
<1>11. ASSUME NEW r \in Runners, NextTask(r) PROVE OneTurn
  <2>1. /\ pc'[r] \in RunPCs <=> pc[r] \in RunPCs
        /\ \A b \in Actors \ {r} : pc'[b] = pc[b] /\ task'[b] = task[b]
        /\ task'[r] = task[r] \/ pc[r] \notin RunPCs
        /\ \A u \in Tasks : /\ "SCHEDULED" \in state'[u] <=> "SCHEDULED" \in state[u]
                            /\ "COMPLETE" \in state'[u] <=> "COMPLETE" \in state[u]
    BY <1>11, <1>t DEF NextTask, Goto, taskVars, joinVars, localVars, sharedVars, RunPCs
  <2> HIDE <1>11
  <2> QED BY <1>t, <2>1 DEF OneTurn, Run, Owed, Done
<1>12. ASSUME NEW r \in Runners, Decide(r) PROVE OneTurn
  <2>1. /\ pc'[r] \in RunPCs <=> pc[r] \in RunPCs
        /\ \A b \in Actors \ {r} : pc'[b] = pc[b] /\ task'[b] = task[b]
        /\ task'[r] = task[r] \/ pc[r] \notin RunPCs
        /\ \A u \in Tasks : /\ "SCHEDULED" \in state'[u] <=> "SCHEDULED" \in state[u]
                            /\ "COMPLETE" \in state'[u] <=> "COMPLETE" \in state[u]
    BY <1>12, <1>t DEF Decide, Goto, taskVars, sharedVars, joinVars, localVars, RunPCs
  <2> HIDE <1>12
  <2> QED BY <1>t, <2>1 DEF OneTurn, Run, Owed, Done
<1>13. ASSUME NEW r \in Runners, Parked(r) PROVE OneTurn
  <2>1. /\ pc'[r] \in RunPCs <=> pc[r] \in RunPCs
        /\ \A b \in Actors \ {r} : pc'[b] = pc[b] /\ task'[b] = task[b]
        /\ task'[r] = task[r] \/ pc[r] \notin RunPCs
        /\ \A u \in Tasks : /\ "SCHEDULED" \in state'[u] <=> "SCHEDULED" \in state[u]
                            /\ "COMPLETE" \in state'[u] <=> "COMPLETE" \in state[u]
    BY <1>13, <1>t DEF Parked, Goto, taskVars, sharedVars, joinVars, localVars, RunPCs
  <2> HIDE <1>13
  <2> QED BY <1>t, <2>1 DEF OneTurn, Run, Owed, Done
<1>14. ASSUME NEW r \in Runners, ParkTimeout(r) PROVE OneTurn
  <2>1. /\ pc'[r] \in RunPCs <=> pc[r] \in RunPCs
        /\ \A b \in Actors \ {r} : pc'[b] = pc[b] /\ task'[b] = task[b]
        /\ task'[r] = task[r] \/ pc[r] \notin RunPCs
        /\ \A u \in Tasks : /\ "SCHEDULED" \in state'[u] <=> "SCHEDULED" \in state[u]
                            /\ "COMPLETE" \in state'[u] <=> "COMPLETE" \in state[u]
    BY <1>14, <1>t DEF ParkTimeout, Goto, taskVars, sharedVars, joinVars, localVars, RunPCs
  <2> HIDE <1>14
  <2> QED BY <1>t, <2>1 DEF OneTurn, Run, Owed, Done
<1>15. ASSUME NEW r \in Runners, SetBusy(r) PROVE OneTurn
  <2>1. /\ pc'[r] \in RunPCs <=> pc[r] \in RunPCs
        /\ \A b \in Actors \ {r} : pc'[b] = pc[b] /\ task'[b] = task[b]
        /\ task'[r] = task[r] \/ pc[r] \notin RunPCs
        /\ \A u \in Tasks : /\ "SCHEDULED" \in state'[u] <=> "SCHEDULED" \in state[u]
                            /\ "COMPLETE" \in state'[u] <=> "COMPLETE" \in state[u]
    BY <1>15, <1>t DEF SetBusy, Goto, Loop, taskVars, joinVars, localVars, sharedVars, RunPCs
  <2> HIDE <1>15
  <2> QED BY <1>t, <2>1 DEF OneTurn, Run, Owed, Done
<1>16. ASSUME NEW r \in Runners, Begin(r) PROVE OneTurn
  <2>1. PICK t \in Tasks : task[r] = t
    BY <1>16, <1>t, BeginEffect
  <2>2. /\ pc[r] = "begin" /\ pc'[r] \in {"abort", "poll"} /\ \A b \in Actors \ {r} : pc'[b] = pc[b]
        /\ "COMPLETE" \notin state[t] /\ "COMPLETE" \notin state'[t]
        /\ "SCHEDULED" \notin state'[t] /\ \A u \in Tasks \ {t} : state'[u] = state[u]
        /\ task' = task
    BY <1>16, <1>t, <2>1, BeginEffect
  <2> HIDE <1>16
  <2>3. HasTurn(r, t)
    BY <2>1, <2>2 DEF HasTurn, TurnPCs
  <2>4. Owed(t) /\ ~Done(t) /\ ~Owed(t)' /\ ~Done(t)'
    BY <1>t, <2>2, <2>3 DEF Owed, Done, FlagsTell, TurnFlags
  <2>5. ~Run(t)
    BY <1>t, <2>2, <2>3, RunsAlone DEF RunPCs
  <2>6. Run(t)' /\ \A u \in Tasks \ {t} : Run(u)' <=> Run(u)
    BY <1>t, <2>1, <2>2 DEF Run, RunPCs
  <2>7. \A u \in Tasks \ {t} : (Owed(u)' <=> Owed(u)) /\ (Done(u)' <=> Done(u))
    BY <2>2 DEF Owed, Done
  <2> QED BY <2>4, <2>5, <2>6, <2>7 DEF OneTurn, Moved
<1>17. ASSUME NEW r \in Runners, CloneWaker(r) PROVE OneTurn
  <2>1. /\ pc'[r] \in RunPCs <=> pc[r] \in RunPCs
        /\ \A b \in Actors \ {r} : pc'[b] = pc[b] /\ task'[b] = task[b]
        /\ task'[r] = task[r] \/ pc[r] \notin RunPCs
        /\ \A u \in Tasks : /\ "SCHEDULED" \in state'[u] <=> "SCHEDULED" \in state[u]
                            /\ "COMPLETE" \in state'[u] <=> "COMPLETE" \in state[u]
    BY <1>17, <1>t DEF CloneWaker, Cloned, sharedVars, joinVars, localVars, taskVars, RunPCs
  <2> HIDE <1>17
  <2> QED BY <1>t, <2>1 DEF OneTurn, Run, Owed, Done
<1>18. ASSUME NEW r \in Runners, PollReady(r) PROVE OneTurn
  <2>1. /\ pc'[r] \in RunPCs <=> pc[r] \in RunPCs
        /\ \A b \in Actors \ {r} : pc'[b] = pc[b] /\ task'[b] = task[b]
        /\ task'[r] = task[r] \/ pc[r] \notin RunPCs
        /\ \A u \in Tasks : /\ "SCHEDULED" \in state'[u] <=> "SCHEDULED" \in state[u]
                            /\ "COMPLETE" \in state'[u] <=> "COMPLETE" \in state[u]
    BY <1>18, <1>t DEF PollReady, Goto, sharedVars, joinVars, localVars, taskVars, RunPCs
  <2> HIDE <1>18
  <2> QED BY <1>t, <2>1 DEF OneTurn, Run, Owed, Done
<1>19. ASSUME NEW r \in Runners, PollPending(r) PROVE OneTurn
  <2>1. /\ pc'[r] \in RunPCs <=> pc[r] \in RunPCs
        /\ \A b \in Actors \ {r} : pc'[b] = pc[b] /\ task'[b] = task[b]
        /\ task'[r] = task[r] \/ pc[r] \notin RunPCs
        /\ \A u \in Tasks : /\ "SCHEDULED" \in state'[u] <=> "SCHEDULED" \in state[u]
                            /\ "COMPLETE" \in state'[u] <=> "COMPLETE" \in state[u]
    BY <1>19, <1>t DEF PollPending, Goto, taskVars, sharedVars, joinVars, localVars, RunPCs
  <2> HIDE <1>19
  <2> QED BY <1>t, <2>1 DEF OneTurn, Run, Owed, Done
<1>20. ASSUME NEW r \in Runners, DropAborted(r) PROVE OneTurn
  <2>1. /\ pc'[r] \in RunPCs <=> pc[r] \in RunPCs
        /\ \A b \in Actors \ {r} : pc'[b] = pc[b] /\ task'[b] = task[b]
        /\ task'[r] = task[r] \/ pc[r] \notin RunPCs
        /\ \A u \in Tasks : /\ "SCHEDULED" \in state'[u] <=> "SCHEDULED" \in state[u]
                            /\ "COMPLETE" \in state'[u] <=> "COMPLETE" \in state[u]
    BY <1>20, <1>t DEF DropAborted, Goto, Consumed, sharedVars, joinVars, localVars, taskVars,
                    RunPCs
  <2> HIDE <1>20
  <2> QED BY <1>t, <2>1 DEF OneTurn, Run, Owed, Done
<1>21. ASSUME NEW r \in Runners, Yield(r) PROVE OneTurn
  <2>1. PICK t \in Tasks : task[r] = t
    BY <1>21, <1>t DEF Yield, PlacesOK, TurnPCs
  <2>2. /\ pc[r] = "yield" /\ pc'[r] \notin RunPCs /\ \A b \in Actors \ {r} : pc'[b] = pc[b]
        /\ \A u \in Tasks : /\ "SCHEDULED" \in state'[u] <=> "SCHEDULED" \in state[u]
                            /\ "COMPLETE" \in state'[u] <=> "COMPLETE" \in state[u]
        /\ \A b \in Actors \ {r} : task'[b] = task[b]
    BY <1>21, <1>t, <2>1 DEF Yield, AfterYield, Goto, Loop, RunPCs
  <2> HIDE <1>21
  <2>3. HasTurn(r, t) /\ Run(t)
    BY <2>1, <2>2 DEF HasTurn, TurnPCs, Run, RunPCs
  <2>4. \A s \in Runners \ {r} : ~(task[s] = t /\ pc[s] \in RunPCs)
    BY <1>t, <2>3, RunsAlone
  <2>5. ~Run(t)' /\ \A u \in Tasks \ {t} : Run(u)' <=> Run(u)
    BY <1>t, <2>1, <2>2, <2>4 DEF Run
  <2>6. \A u \in Tasks : (Owed(u)' <=> Owed(u)) /\ (Done(u)' <=> Done(u))
    BY <2>2 DEF Owed, Done
  <2> QED BY <2>3, <2>5, <2>6 DEF OneTurn, Moved
<1>22. ASSUME NEW r \in Runners, Finish(r) PROVE OneTurn
  <2>1. PICK t \in Tasks : task[r] = t
    BY <1>22, <1>t DEF Finish, PlacesOK, TurnPCs
  <2>2. /\ pc[r] = "finish" /\ pc'[r] = "finished" /\ \A b \in Actors \ {r} : pc'[b] = pc[b]
        /\ "SCHEDULED" \notin state'[t] /\ "COMPLETE" \in state'[t]
        /\ \A u \in Tasks \ {t} : state'[u] = state[u]
        /\ task' = task
    BY <1>22, <1>t, <2>1 DEF Finish, Goto
  <2> HIDE <1>22
  <2>3. HasTurn(r, t) /\ Run(t)
    BY <2>1, <2>2 DEF HasTurn, TurnPCs, Run, RunPCs
  <2>4. \A s \in Runners \ {r} : ~(task[s] = t /\ pc[s] \in RunPCs)
    BY <1>t, <2>3, RunsAlone
  <2>5. ~Run(t)' /\ \A u \in Tasks \ {t} : Run(u)' <=> Run(u)
    BY <1>t, <2>1, <2>2, <2>4 DEF Run, RunPCs
  <2>6. \A u \in Tasks \ {t} : (Owed(u)' <=> Owed(u)) /\ (Done(u)' <=> Done(u))
    BY <2>2 DEF Owed, Done
  <2>7. ~Owed(t)' /\ Done(t)'
    BY <2>2 DEF Owed, Done
  <2> QED BY <2>3, <2>5, <2>6, <2>7 DEF OneTurn, Moved
<1>23. ASSUME NEW r \in Runners, FinishDrop(r) PROVE OneTurn
  <2>1. /\ pc'[r] \in RunPCs <=> pc[r] \in RunPCs
        /\ \A b \in Actors \ {r} : pc'[b] = pc[b] /\ task'[b] = task[b]
        /\ task'[r] = task[r] \/ pc[r] \notin RunPCs
        /\ \A u \in Tasks : /\ "SCHEDULED" \in state'[u] <=> "SCHEDULED" \in state[u]
                            /\ "COMPLETE" \in state'[u] <=> "COMPLETE" \in state[u]
    BY <1>23, <1>t DEF FinishDrop, FinishedStage, Consumed, Goto, sharedVars, joinVars,
                    localVars, taskVars, RunPCs
  <2> HIDE <1>23
  <2> QED BY <1>t, <2>1 DEF OneTurn, Run, Owed, Done
<1>24. ASSUME NEW r \in Runners, WakeJoin(r) PROVE OneTurn
  <2>1. /\ pc'[r] \in RunPCs <=> pc[r] \in RunPCs
        /\ \A b \in Actors \ {r} : pc'[b] = pc[b] /\ task'[b] = task[b]
        /\ task'[r] = task[r] \/ pc[r] \notin RunPCs
        /\ \A u \in Tasks : /\ "SCHEDULED" \in state'[u] <=> "SCHEDULED" \in state[u]
                            /\ "COMPLETE" \in state'[u] <=> "COMPLETE" \in state[u]
    BY <1>24, <1>t DEF WakeJoin, Release, Goto, Loop, sharedVars, taskVars, localVars,
                    joinVars, RunPCs
  <2> HIDE <1>24
  <2> QED BY <1>t, <2>1 DEF OneTurn, Run, Owed, Done
<1>25. ASSUME NEW r \in Runners, Leave(r) PROVE OneTurn
  <2>1. /\ pc'[r] \in RunPCs <=> pc[r] \in RunPCs
        /\ \A b \in Actors \ {r} : pc'[b] = pc[b] /\ task'[b] = task[b]
        /\ task'[r] = task[r] \/ pc[r] \notin RunPCs
        /\ \A u \in Tasks : /\ "SCHEDULED" \in state'[u] <=> "SCHEDULED" \in state[u]
                            /\ "COMPLETE" \in state'[u] <=> "COMPLETE" \in state[u]
    BY <1>25, <1>t DEF Leave, Goto, taskVars, joinVars, localVars, sharedVars, RunPCs
  <2> HIDE <1>25
  <2> QED BY <1>t, <2>1 DEF OneTurn, Run, Owed, Done
<1>26. ASSUME NEW r \in Runners, ShutDown(r) PROVE OneTurn
  <2>1. /\ pc'[r] \in RunPCs <=> pc[r] \in RunPCs
        /\ \A b \in Actors \ {r} : pc'[b] = pc[b] /\ task'[b] = task[b]
        /\ task'[r] = task[r] \/ pc[r] \notin RunPCs
        /\ \A u \in Tasks : /\ "SCHEDULED" \in state'[u] <=> "SCHEDULED" \in state[u]
                            /\ "COMPLETE" \in state'[u] <=> "COMPLETE" \in state[u]
    BY <1>26, <1>t DEF ShutDown, Goto, taskVars, joinVars, sharedVars, localVars, RunPCs
  <2> HIDE <1>26
  <2> QED BY <1>t, <2>1 DEF OneTurn, Run, Owed, Done
<1>27. ASSUME NEW r \in Runners, DrainQueue(r) PROVE OneTurn
  <2>1. /\ pc'[r] \in RunPCs <=> pc[r] \in RunPCs
        /\ \A b \in Actors \ {r} : pc'[b] = pc[b] /\ task'[b] = task[b]
        /\ task'[r] = task[r] \/ pc[r] \notin RunPCs
        /\ \A u \in Tasks : /\ "SCHEDULED" \in state'[u] <=> "SCHEDULED" \in state[u]
                            /\ "COMPLETE" \in state'[u] <=> "COMPLETE" \in state[u]
    BY <1>27, <1>t DEF DrainQueue, Goto, Release, joinVars, localVars, taskVars, sharedVars,
                    RunPCs
  <2> HIDE <1>27
  <2> QED BY <1>t, <2>1 DEF OneTurn, Run, Owed, Done
<1>28. ASSUME NEW r \in Runners, DrainMark(r) PROVE OneTurn
  <2>1. pc[r] = "drainall" /\ pc'[r] \in {"ended", "drainstage"} /\ \A s \in Runners : s = r
    BY <1>28, <1>t, Alone DEF DrainMark, Goto, EndPCs
  <2>2. \A u \in Tasks : ~Run(u) /\ ~Run(u)'
    BY <2>1 DEF Run, RunPCs
  <2>3. CASE drain = {}
    BY <1>28, <2>2, <2>3 DEF DrainMark, OneTurn, Owed, Done
  <2>4. CASE drain # {}
    <3>1. PICK t \in drain : state' = [state EXCEPT ![t] = @ \cup {"COMPLETE"}]
      BY <1>28, <2>4 DEF DrainMark
    <3>2. t \in Tasks /\ \A u \in Tasks \ {t} : (Owed(u)' <=> Owed(u)) /\ (Done(u)' <=> Done(u))
      BY <1>t, <3>1 DEF Owed, Done
    <3>3. Done(t)' /\ (Owed(t)' <=> Owed(t))
      BY <1>t, <3>1, <3>2 DEF Owed, Done
    <3> HIDE <1>28
    <3> QED BY <2>2, <3>2, <3>3 DEF OneTurn, Moved
  <2> QED BY <2>3, <2>4
<1>29. ASSUME NEW r \in Runners, DrainStage(r) PROVE OneTurn
  <2>1. /\ pc'[r] \in RunPCs <=> pc[r] \in RunPCs
        /\ \A b \in Actors \ {r} : pc'[b] = pc[b] /\ task'[b] = task[b]
        /\ task'[r] = task[r] \/ pc[r] \notin RunPCs
        /\ \A u \in Tasks : /\ "SCHEDULED" \in state'[u] <=> "SCHEDULED" \in state[u]
                            /\ "COMPLETE" \in state'[u] <=> "COMPLETE" \in state[u]
    BY <1>29, <1>t DEF DrainStage, Release, Consumed, Goto, sharedVars, joinVars, localVars,
                    taskVars, RunPCs
  <2> HIDE <1>29
  <2> QED BY <1>t, <2>1 DEF OneTurn, Run, Owed, Done
<1>30. ASSUME NEW t \in Tasks, JoinPoll(t) PROVE OneTurn
  <2>1. /\ pc'[t] \in RunPCs <=> pc[t] \in RunPCs
        /\ \A b \in Actors \ {t} : pc'[b] = pc[b] /\ task'[b] = task[b]
        /\ task'[t] = task[t] \/ pc[t] \notin RunPCs
        /\ \A u \in Tasks : /\ "SCHEDULED" \in state'[u] <=> "SCHEDULED" \in state[u]
                            /\ "COMPLETE" \in state'[u] <=> "COMPLETE" \in state[u]
    BY <1>30, <1>t DEF JoinPoll, Goto, taskVars, sharedVars, localVars, joinVars, RunPCs
  <2> HIDE <1>30
  <2> QED BY <1>t, <2>1 DEF OneTurn, Run, Owed, Done
<1>31. ASSUME NEW t \in Tasks, JoinRegister(t) PROVE OneTurn
  <2>1. /\ pc'[t] \in RunPCs <=> pc[t] \in RunPCs
        /\ \A b \in Actors \ {t} : pc'[b] = pc[b] /\ task'[b] = task[b]
        /\ task'[t] = task[t] \/ pc[t] \notin RunPCs
        /\ \A u \in Tasks : /\ "SCHEDULED" \in state'[u] <=> "SCHEDULED" \in state[u]
                            /\ "COMPLETE" \in state'[u] <=> "COMPLETE" \in state[u]
    BY <1>31, <1>t DEF JoinRegister, Goto, taskVars, sharedVars, localVars, joinVars, RunPCs
  <2> HIDE <1>31
  <2> QED BY <1>t, <2>1 DEF OneTurn, Run, Owed, Done
<1>32. ASSUME NEW t \in Tasks, JoinTake(t) PROVE OneTurn
  <2>1. /\ pc'[t] \in RunPCs <=> pc[t] \in RunPCs
        /\ \A b \in Actors \ {t} : pc'[b] = pc[b] /\ task'[b] = task[b]
        /\ task'[t] = task[t] \/ pc[t] \notin RunPCs
        /\ \A u \in Tasks : /\ "SCHEDULED" \in state'[u] <=> "SCHEDULED" \in state[u]
                            /\ "COMPLETE" \in state'[u] <=> "COMPLETE" \in state[u]
    BY <1>32, <1>t DEF JoinTake, Goto, Consumed, sharedVars, joinVars, localVars, taskVars,
                    RunPCs
  <2> HIDE <1>32
  <2> QED BY <1>t, <2>1 DEF OneTurn, Run, Owed, Done
<1>33. ASSUME NEW t \in Tasks, Abort(t) PROVE OneTurn
  <2>1. /\ state'[t] \in {state[t] \cup {"SCHEDULED"}, state[t] \cup {"ABORTED", "SCHEDULED"}}
        /\ \A u \in Tasks \ {t} : state'[u] = state[u]
        /\ \A r \in Runners : pc'[r] = pc[r] /\ task'[r] = task[r]
    BY <1>33, <1>t DEF Abort, Asleep, Cloned, Goto, sharedVars, joinVars, localVars
  <2> HIDE <1>33
  <2>2. \A u \in Tasks : Run(u)' <=> Run(u)
    BY <2>1 DEF Run
  <2>3. Owed(t)' /\ (Done(t)' <=> Done(t))
    BY <2>1 DEF Owed, Done
  <2>4. \A u \in Tasks \ {t} : (Owed(u)' <=> Owed(u)) /\ (Done(u)' <=> Done(u))
    BY <2>1 DEF Owed, Done
  <2> QED BY <2>2, <2>3, <2>4 DEF OneTurn, Moved
<1>34. ASSUME NEW t \in Tasks, DropHandle(t) PROVE OneTurn
  <2>1. /\ pc'[t] \in RunPCs <=> pc[t] \in RunPCs
        /\ \A b \in Actors \ {t} : pc'[b] = pc[b] /\ task'[b] = task[b]
        /\ task'[t] = task[t] \/ pc[t] \notin RunPCs
        /\ \A u \in Tasks : /\ "SCHEDULED" \in state'[u] <=> "SCHEDULED" \in state[u]
                            /\ "COMPLETE" \in state'[u] <=> "COMPLETE" \in state[u]
    BY <1>34, <1>t DEF DropHandle, Goto, taskVars, sharedVars, joinVars, localVars, RunPCs
  <2> HIDE <1>34
  <2> QED BY <1>t, <2>1 DEF OneTurn, Run, Owed, Done
<1>35. ASSUME NEW t \in Tasks, Detach(t) PROVE OneTurn
  <2>1. /\ pc'[t] \in RunPCs <=> pc[t] \in RunPCs
        /\ \A b \in Actors \ {t} : pc'[b] = pc[b] /\ task'[b] = task[b]
        /\ task'[t] = task[t] \/ pc[t] \notin RunPCs
        /\ \A u \in Tasks : /\ "SCHEDULED" \in state'[u] <=> "SCHEDULED" \in state[u]
                            /\ "COMPLETE" \in state'[u] <=> "COMPLETE" \in state[u]
    BY <1>35, <1>t DEF Detach, DetachOwns, Goto, sharedVars, localVars, taskVars, joinVars,
                    RunPCs
  <2> HIDE <1>35
  <2> QED BY <1>t, <2>1 DEF OneTurn, Run, Owed, Done
<1>36. ASSUME NEW t \in Tasks, DropOutput(t) PROVE OneTurn
  <2>1. /\ pc'[t] \in RunPCs <=> pc[t] \in RunPCs
        /\ \A b \in Actors \ {t} : pc'[b] = pc[b] /\ task'[b] = task[b]
        /\ task'[t] = task[t] \/ pc[t] \notin RunPCs
        /\ \A u \in Tasks : /\ "SCHEDULED" \in state'[u] <=> "SCHEDULED" \in state[u]
                            /\ "COMPLETE" \in state'[u] <=> "COMPLETE" \in state[u]
    BY <1>36, <1>t DEF DropOutput, Goto, Consumed, sharedVars, joinVars, localVars, taskVars,
                    RunPCs
  <2> HIDE <1>36
  <2> QED BY <1>t, <2>1 DEF OneTurn, Run, Owed, Done
<1>37. ASSUME NEW t \in Tasks, ReleaseHandle(t) PROVE OneTurn
  <2>1. /\ pc'[t] \in RunPCs <=> pc[t] \in RunPCs
        /\ \A b \in Actors \ {t} : pc'[b] = pc[b] /\ task'[b] = task[b]
        /\ task'[t] = task[t] \/ pc[t] \notin RunPCs
        /\ \A u \in Tasks : /\ "SCHEDULED" \in state'[u] <=> "SCHEDULED" \in state[u]
                            /\ "COMPLETE" \in state'[u] <=> "COMPLETE" \in state[u]
    BY <1>37, <1>t DEF ReleaseHandle, Release, Goto, sharedVars, joinVars, localVars,
                    taskVars, RunPCs
  <2> HIDE <1>37
  <2> QED BY <1>t, <2>1 DEF OneTurn, Run, Owed, Done
<1>38. CASE UNCHANGED vars
  BY <1>38 DEF vars, OneTurn, Run, Owed, Done
<1> QED BY <1>1, <1>2, <1>3, <1>4, <1>5, <1>6, <1>7, <1>8, <1>9, <1>10, <1>11, <1>12, <1>13,
      <1>14, <1>15, <1>16, <1>17, <1>18, <1>19, <1>20, <1>21, <1>22, <1>23, <1>24, <1>25,
      <1>26, <1>27, <1>28, <1>29, <1>30, <1>31, <1>32, <1>33, <1>34, <1>35, <1>36, <1>37,
      <1>38 DEF Next, ContextStep, RunnerStep, TurnStep, EndStep, PollStep, HandleStep

\* The executor gives tasks their turns, and only theirs: one after a wakeup, one
\* for all the wakeups before it, one at a time and none once the task is done.
THEOREM TurnsAsPromised == Spec => Implements
<1>1. Init => Turns!Init
  <2> SUFFICES ASSUME Init PROVE Turns!Init
    OBVIOUS
  <2>1. \A r \in Runners : pc[r] \notin RunPCs
    BY DEF Init, Actors, RunPCs
  <2>2. \A t \in Tasks : ~("SCHEDULED" \in state[t]) /\ ~("COMPLETE" \in state[t]) /\ ~Run(t)
    BY <2>1 DEF Init, Run
  <2>3. \A t \in Tasks : /\ ("SCHEDULED" \in state[t]) = FALSE /\ ("COMPLETE" \in state[t]) = FALSE
                         /\ (\E r \in Runners : /\ task[r] = t
                                /\ pc[r] \in {"poll", "abort", "yield", "finish"}) = FALSE
    BY <2>2 DEF Run, RunPCs
  <2> QED BY ONLY <2>3 DEF Turns!Init
<1>2. IInv /\ [Next]_vars => [Turns!Next]_(Turns!vars)
  BY EachATurn, TurnsMap
<1> QED BY Inductive, <1>1, <1>2, PTL DEF Spec, Implements, Turns!Spec
=============================================================================
