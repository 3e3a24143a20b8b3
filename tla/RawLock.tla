------------------------------ MODULE RawLock ------------------------------
(***************************************************************************)
(* devkit::sync::raw, the lock under Mutex and RwLock.  A lock word that   *)
(* everyone changes with compare-and-swap, and a queue of waiters that     *)
(* belongs to the platform's critical section.  Threads block in park();   *)
(* futures return Pending and are polled again when their waker is woken.  *)
(*                                                                         *)
(* Each action is one atomic access the others can see: a swap of the lock *)
(* word, a load of a waiter's state, a critical section, one wakeup.  The  *)
(* section that grants is cut further: the swap of the word comes first    *)
(* and each picked waiter is unlinked and told in a step of its own.       *)
(***************************************************************************)
EXTENDS Integers, Sequences, FiniteSets, FiniteSetsExt, SequencesExt

CONSTANTS Threads,    \* tasks that block in RawLock::read and RawLock::write
          Futures,    \* LockWait futures, each polled by some executor
          Mortal,     \* the threads that may end
          Modes,      \* how each may lock: for writing alone under a Mutex
          Priority,   \* a locker's task priority, higher is more urgent
          Batch,      \* readers woken in one critical section
          Nobody      \* no locker is in the critical section

Lockers == Threads \cup Futures

ASSUME LockersAssumption ==
  /\ IsFiniteSet(Threads) /\ IsFiniteSet(Futures)
  /\ Threads \cap Futures = {}
  /\ Mortal \subseteq Threads
  /\ Modes \in [Lockers -> SUBSET BOOLEAN]
  /\ Nobody \notin Lockers
  /\ Priority \in [Lockers -> Nat]
  /\ Batch \in Nat \ {0}

VARIABLES word,       \* the lock word
          queue,      \* linked waiters, most urgent first
          pc,         \* where each locker is
          shared,     \* whether it wants the lock for reading
          wst,        \* Waiter::state
          aged,       \* queued for HANDOFF_US since it started to wait
          slot,       \* a future's stored waker: none, current or stale
          signal,     \* a thread's park token; a future's pending wakeup
          crit,       \* the locker granting inside the critical section
          picked,     \* waiters grant() picked and has not unlinked yet
          given,      \* those of them the lock is handed to
          clear,      \* release() still has WRITER to drop
          wakes,      \* the wakeups a releaser took out and still owes
          more,       \* grant() left readers for another batch
          unparking   \* threads held for an unpark not yet delivered

vars == <<word, queue, pc, shared, wst, aged, slot, signal,
          crit, picked, given, clear, wakes, more, unparking>>

PCs == {"idle", "try", "spin", "enqueue", "check", "park", "recheck", "relink",
        "pending", "drop", "dropped", "held", "release", "grant", "wake", "ended"}

\* Enqueued, or let out of the queue without having noticed yet.
WaitPCs == {"check", "park", "recheck", "relink", "pending", "drop", "dropped"}

Words == [writer : BOOLEAN, readers : Nat, parked : BOOLEAN, writerParked : BOOLEAN]

TypeOK ==
  /\ word \in Words
  /\ queue \in Seq(Lockers)
  /\ pc \in [Lockers -> PCs]
  /\ shared \in [Lockers -> BOOLEAN]
  /\ wst \in [Lockers -> {"WAITING", "RETRY", "GRANTED"}]
  /\ aged \in [Lockers -> BOOLEAN]
  /\ slot \in [Futures -> {"none", "current", "stale"}]
  /\ signal \in [Lockers -> BOOLEAN]
  /\ crit \in Lockers \cup {Nobody}
  /\ picked \in SUBSET Lockers
  /\ given \in SUBSET picked
  /\ clear \in [Lockers -> BOOLEAN]
  /\ wakes \in [Lockers -> SUBSET Lockers]
  /\ more \in [Lockers -> BOOLEAN]
  /\ unparking \in Int

Init ==
  /\ word = [writer |-> FALSE, readers |-> 0, parked |-> FALSE, writerParked |-> FALSE]
  /\ queue = <<>>
  /\ pc = [l \in Lockers |-> "idle"]
  /\ shared = [l \in Lockers |-> FALSE]
  /\ wst = [l \in Lockers |-> "WAITING"]
  /\ aged = [l \in Lockers |-> FALSE]
  /\ slot = [f \in Futures |-> "none"]
  /\ signal = [l \in Lockers |-> FALSE]
  /\ crit = Nobody
  /\ picked = {}
  /\ given = {}
  /\ clear = [l \in Lockers |-> FALSE]
  /\ wakes = [l \in Lockers |-> {}]
  /\ more = [l \in Lockers |-> FALSE]
  /\ unparking = 0

-----------------------------------------------------------------------------
(* The lock word. *)

\* Slip: a writer looks at WRITER alone.
FreeForBlindWriter(w, l) == ~w.writer /\ (shared[l] => ~w.writerParked)

\* What try_read and try_write ask of the word, and enqueue again.
FreeFor(w, l) ==
  IF shared[l] THEN ~w.writer /\ ~w.writerParked
               ELSE ~w.writer /\ w.readers = 0

\* Slip: a reader that takes the lock is not counted.
TakenUncounted(w, l) == IF shared[l] THEN w ELSE [w EXCEPT !.writer = TRUE]

Taken(w, l) ==
  IF shared[l] THEN [w EXCEPT !.readers = @ + 1] ELSE [w EXCEPT !.writer = TRUE]

\* The flags a queue calls for.
Flagged(w, q) ==
  [w EXCEPT !.parked = (q # <<>>),
            !.writerParked = (\E i \in DOMAIN q : ~shared[q[i]])]

Goto(l, p) == pc' = [pc EXCEPT ![l] = p]

-----------------------------------------------------------------------------
(* The queue: by priority, first come first within one. *)

\* Slip: past those of the same priority, too.
PositionFirst(q, l) ==
  Max({0} \cup {i \in DOMAIN q : Priority[q[i]] > Priority[l]}) + 1

\* Walking back from the tail past every waiter of lower priority.
Position(q, l) ==
  Max({0} \cup {i \in DOMAIN q : Priority[q[i]] >= Priority[l]}) + 1

\* Slip: unlink() leaves the neighbours' links alone.
WithoutNothing(q, l) == q

Without(q, l) ==
  IF \E i \in DOMAIN q : q[i] = l
  THEN RemoveAt(q, CHOOSE i \in DOMAIN q : q[i] = l)
  ELSE q

Linked(l) == \E i \in DOMAIN queue : queue[i] = l

QueuedWriters == {i \in DOMAIN queue : ~shared[queue[i]]}

\* Slip: a queued writer goes first even while readers have the lock.
PicksOverReaders(w) ==
  IF QueuedWriters # {} THEN {queue[Min(QueuedWriters)]}
  ELSE {queue[i] : i \in {j \in DOMAIN queue : j <= Batch}}

\* A queued writer goes first, once nobody has the lock; otherwise the first
\* readers, a batch at most.
Picks(w) ==
  IF QueuedWriters # {}
  THEN IF ~w.writer /\ w.readers = 0 THEN {queue[Min(QueuedWriters)]} ELSE {}
  ELSE IF ~w.writer THEN {queue[i] : i \in {j \in DOMAIN queue : j <= Batch}} ELSE {}

\* Slip: nobody is handed the lock, however long it has queued.
HandedNever(picks) == {}

\* Those queued for HANDOFF_US get the lock; the others race for it.
Handed(picks) == {w \in picks : aged[w]}

\* Platform::hold for a thread; a future's waker keeps its task alive itself.
AfterHold(w) == IF w \in Threads THEN unparking + 1 ELSE unparking

\* Slip: a writer that gives up leaves the readers it held back to sleep on.
AfterUnlinkQuiet(f) == "idle"

\* A dropped writer may have held readers back.
AfterUnlink(f) == IF shared[f] THEN "idle" ELSE "release"

-----------------------------------------------------------------------------
(* Taking the lock. *)

GrantVars == <<crit, picked, given, clear, wakes, more, unparking>>

\* A locker asks for the lock in either mode; its waiter is new.
Start(l, mode) ==
  /\ pc[l] = "idle"
  /\ Goto(l, "try")
  /\ shared' = [shared EXCEPT ![l] = mode]
  /\ wst' = [wst EXCEPT ![l] = "WAITING"]
  /\ aged' = [aged EXCEPT ![l] = FALSE]
  /\ UNCHANGED <<word, queue, slot, signal, GrantVars>>

\* try_read / try_write.
TryLock(l) ==
  /\ pc[l] = "try"
  /\ \/ /\ FreeFor(word, l)
        /\ word' = Taken(word, l)
        /\ Goto(l, "held")
     \/ /\ ~FreeFor(word, l)
        /\ Goto(l, IF l \in Threads THEN "spin" ELSE "enqueue")
        /\ UNCHANGED word
  /\ UNCHANGED <<queue, shared, wst, aged, slot, signal, GrantVars>>

\* A thread spins while the writer runs on another core, and gives up when it
\* does not or after SPIN_LIMIT rounds.
Spin(t) ==
  /\ pc[t] = "spin"
  /\ \/ FreeFor(word, t) /\ word' = Taken(word, t) /\ Goto(t, "held")
     \/ Goto(t, "enqueue") /\ UNCHANGED word
  /\ UNCHANGED <<queue, shared, wst, aged, slot, signal, GrantVars>>

\* RawLock::enqueue in the critical section: the lock if it is free, else a
\* place in the queue.
Enqueue(l) ==
  /\ pc[l] = "enqueue" /\ crit = Nobody
  /\ \/ /\ FreeFor(word, l)
        /\ word' = Taken(word, l)
        /\ Goto(l, "held")
        /\ slot' = [f \in Futures |-> IF f = l THEN "none" ELSE slot[f]]
        /\ UNCHANGED queue
     \/ /\ ~FreeFor(word, l)
        /\ queue' = InsertAt(queue, Position(queue, l), l)
        /\ word' = [word EXCEPT !.parked = TRUE, !.writerParked = @ \/ ~shared[l]]
        /\ Goto(l, IF l \in Threads THEN "check" ELSE "pending")
        /\ slot' = [f \in Futures |-> IF f = l THEN "current" ELSE slot[f]]
  /\ UNCHANGED <<shared, wst, aged, signal, GrantVars>>

\* A thread looks at its waiter: it has the lock, goes round again, or parks.
Check(t) ==
  /\ pc[t] = "check"
  /\ \/ wst[t] = "GRANTED" /\ Goto(t, "held") /\ UNCHANGED wst
     \/ wst[t] = "RETRY" /\ Goto(t, "enqueue") /\ wst' = [wst EXCEPT ![t] = "WAITING"]
     \/ wst[t] = "WAITING" /\ Goto(t, "park") /\ UNCHANGED wst
  /\ UNCHANGED <<word, queue, shared, aged, slot, signal, GrantVars>>

\* park() returns once unpark() targeted the thread, also before.
Park(t) ==
  /\ pc[t] = "park" /\ signal[t]
  /\ Goto(t, "check")
  /\ signal' = [signal EXCEPT ![t] = FALSE]
  /\ UNCHANGED <<word, queue, shared, wst, aged, slot, GrantVars>>

\* ... and may return spuriously.
ParkSpurious(t) ==
  /\ pc[t] = "park"
  /\ Goto(t, "check")
  /\ UNCHANGED <<word, queue, shared, wst, aged, slot, signal, GrantVars>>

\* The executor polls a pending future; without a wakeup too, when the task it
\* is part of was woken for something else.
Poll(f) ==
  /\ pc[f] = "pending"
  /\ Goto(f, "recheck")
  /\ signal' = [signal EXCEPT ![f] = FALSE]
  /\ UNCHANGED <<word, queue, shared, wst, aged, slot, GrantVars>>

\* poll_lock of a queued future loads the state ...
Recheck(f) ==
  /\ pc[f] = "recheck"
  /\ \/ wst[f] = "GRANTED" /\ Goto(f, "held") /\ UNCHANGED wst
     \/ wst[f] = "RETRY" /\ Goto(f, "try") /\ wst' = [wst EXCEPT ![f] = "WAITING"]
     \/ wst[f] = "WAITING" /\ Goto(f, "relink") /\ UNCHANGED wst
  /\ UNCHANGED <<word, queue, shared, aged, slot, signal, GrantVars>>

\* ... and, while still linked, renews its waker in the critical section.
Relink(f) ==
  /\ pc[f] = "relink" /\ crit = Nobody
  /\ IF Linked(f)
     THEN Goto(f, "pending") /\ slot' = [slot EXCEPT ![f] = "current"]
     ELSE Goto(f, "recheck") /\ UNCHANGED slot
  /\ UNCHANGED <<word, queue, shared, wst, aged, signal, GrantVars>>

\* The future moves to another task, which polls it: the waker it stored wakes
\* the task it left.
Move(f) ==
  /\ pc[f] = "pending"
  /\ slot[f] # "stale"
  /\ slot' = [slot EXCEPT ![f] = IF @ = "none" THEN "none" ELSE "stale"]
  /\ signal' = [signal EXCEPT ![f] = TRUE]
  /\ UNCHANGED <<word, queue, pc, shared, wst, aged, GrantVars>>

\* HANDOFF_US have passed since the locker began to wait.
Age(l) ==
  /\ pc[l] \in WaitPCs \ {"drop", "dropped"}
  /\ ~aged[l]
  /\ aged' = [aged EXCEPT ![l] = TRUE]
  /\ UNCHANGED <<word, queue, pc, shared, wst, slot, signal, GrantVars>>

-----------------------------------------------------------------------------
(* Letting go. *)

\* unlock_write and unlock_read, up to the first atomic access: the lock is
\* let go unless a writer finds a flag set; whoever must wake others goes on.
UnlockStep(l) ==
  IF shared[l]
  THEN /\ word' = [word EXCEPT !.readers = @ - 1]
       /\ Goto(l, IF word.readers = 1 /\ word.parked THEN "release" ELSE "idle")
       /\ UNCHANGED clear
  ELSE IF word.parked \/ word.writerParked
  THEN /\ Goto(l, "release")
       /\ clear' = [clear EXCEPT ![l] = TRUE]
       /\ UNCHANGED word
  ELSE /\ word' = [word EXCEPT !.writer = FALSE]
       /\ Goto(l, "idle")
       /\ UNCHANGED clear

\* A guard is dropped, on whichever task has it.
Unlock(l) ==
  /\ pc[l] = "held"
  /\ UnlockStep(l)
  /\ UNCHANGED <<queue, shared, wst, aged, slot, signal,
                 crit, picked, given, wakes, more, unparking>>

\* grant(): picks waiters, and in one swap drops WRITER, hands the lock to the
\* aged ones and leaves the flags for those that stay queued.
Grant(l) ==
  /\ pc[l] = "release" /\ crit = Nobody
  /\ LET held    == IF clear[l] THEN [word EXCEPT !.writer = FALSE] ELSE word
         picks   == Picks(held)
         handed  == Handed(picks)
         stay    == {i \in DOMAIN queue : queue[i] \notin picks}
     IN /\ word' = [writer |-> held.writer \/ (\E w \in handed : ~shared[w]),
                    readers |-> held.readers + Cardinality({w \in handed : shared[w]}),
                    parked |-> (stay # {}),
                    writerParked |-> (\E i \in stay : ~shared[queue[i]])]
        /\ picked' = picks
        /\ given' = handed
        /\ more' = [more EXCEPT ![l] = /\ Cardinality(picks) = Batch
                                       /\ stay # {}
                                       /\ \A i \in stay : shared[queue[i]]]
  /\ clear' = [clear EXCEPT ![l] = FALSE]
  /\ crit' = l
  /\ Goto(l, "grant")
  /\ UNCHANGED <<queue, shared, wst, aged, slot, signal, wakes, unparking>>

\* Unlinks one picked waiter, takes its wakeup out and tells it; from then on
\* its waiter may be gone.
GrantOne(l, w) ==
  /\ crit = l /\ w \in picked
  /\ queue' = Without(queue, w)
  /\ picked' = picked \ {w}
  /\ given' = given \ {w}
  /\ wst' = [wst EXCEPT ![w] = IF w \in given THEN "GRANTED" ELSE "RETRY"]
  /\ unparking' = AfterHold(w)
  /\ IF w \in Threads \/ slot[w] = "current"
     THEN wakes' = [wakes EXCEPT ![l] = @ \cup {w}]
     ELSE UNCHANGED wakes
  /\ slot' = [f \in Futures |-> IF f = w THEN "none" ELSE slot[f]]
  /\ UNCHANGED <<word, pc, shared, aged, signal, crit, clear, more>>

\* Leaves the critical section.
GrantDone(l) ==
  /\ crit = l /\ picked = {}
  /\ crit' = Nobody
  /\ Goto(l, "wake")
  /\ UNCHANGED <<word, queue, shared, wst, aged, slot, signal,
                 picked, given, clear, wakes, more, unparking>>

\* One wakeup, outside the critical section.
Wake(l, w) ==
  /\ pc[l] = "wake" /\ w \in wakes[l]
  /\ wakes' = [wakes EXCEPT ![l] = @ \ {w}]
  /\ signal' = [signal EXCEPT ![w] = TRUE]
  /\ unparking' = IF w \in Threads THEN unparking - 1 ELSE unparking
  /\ UNCHANGED <<word, queue, pc, shared, wst, aged, slot,
                 crit, picked, given, clear, more>>

\* release() ends, or goes round for the next batch of readers.
WakesDone(l) ==
  /\ pc[l] = "wake" /\ wakes[l] = {}
  /\ Goto(l, IF more[l] THEN "release" ELSE "idle")
  /\ more' = [more EXCEPT ![l] = FALSE]
  /\ UNCHANGED <<word, queue, shared, wst, aged, slot, signal,
                 crit, picked, given, clear, wakes, unparking>>

-----------------------------------------------------------------------------
(* Giving up. *)

\* A pending future is dropped: aborted, timed out, or lost a select.
Cancel(f) ==
  /\ pc[f] = "pending"
  /\ Goto(f, "drop")
  /\ UNCHANGED <<word, queue, shared, wst, aged, slot, signal, GrantVars>>

\* LockWait::drop in the critical section: out of the queue if still in it.
Unlink(f) ==
  /\ pc[f] = "drop" /\ crit = Nobody
  /\ IF Linked(f)
     THEN /\ queue' = Without(queue, f)
          /\ word' = Flagged(word, queue')
          /\ slot' = [slot EXCEPT ![f] = "none"]
          /\ Goto(f, AfterUnlink(f))
     ELSE /\ Goto(f, "dropped")
          /\ UNCHANGED <<queue, word, slot>>
  /\ UNCHANGED <<shared, wst, aged, signal, GrantVars>>

\* Slip: only the wakeup is passed on, not a lock that was handed over.
PassOnWakeupOnly(f) ==
  /\ pc[f] = "dropped"
  /\ Goto(f, "release")
  /\ UNCHANGED <<word, queue, shared, wst, aged, slot, signal, GrantVars>>

\* Passes on the lock it was handed, or the wakeup it would have retried on.
PassOn(f) ==
  /\ pc[f] = "dropped"
  /\ IF wst[f] = "GRANTED"
     THEN UnlockStep(f)
     ELSE Goto(f, "release") /\ UNCHANGED <<word, clear>>
  /\ UNCHANGED <<queue, shared, wst, aged, slot, signal,
                 crit, picked, given, wakes, more, unparking>>

\* A task ends through thread::entry, once no unpark is on its way to any.
End(t) ==
  /\ pc[t] = "idle" /\ t \in Mortal
  /\ unparking = 0
  /\ Goto(t, "ended")
  /\ UNCHANGED <<word, queue, shared, wst, aged, slot, signal, GrantVars>>

-----------------------------------------------------------------------------
ThreadStep(t) == Spin(t) \/ Check(t) \/ Park(t) \/ ParkSpurious(t) \/ End(t)

FutureStep(f) ==
  Poll(f) \/ Recheck(f) \/ Relink(f) \/ Move(f) \/ Cancel(f) \/ Unlink(f) \/ PassOn(f)

LockerStep(l) ==
  \/ \E mode \in Modes[l] : Start(l, mode)
  \/ TryLock(l) \/ Enqueue(l) \/ Age(l) \/ Unlock(l)
  \/ Grant(l) \/ GrantDone(l) \/ WakesDone(l)
  \/ \E w \in Lockers : GrantOne(l, w) \/ Wake(l, w)

Next ==
  \/ \E l \in Lockers : LockerStep(l)
  \/ \E t \in Threads : ThreadStep(t)
  \/ \E f \in Futures : FutureStep(f)

Spec == Init /\ [][Next]_vars

\* What a running locker does next, and what it does in the critical section.
StepsOn(l) ==
  \/ TryLock(l) \/ Unlock(l) \/ GrantDone(l) \/ WakesDone(l)
  \/ \E w \in Lockers : GrantOne(l, w) \/ Wake(l, w)
  \/ l \in Threads /\ (Spin(l) \/ Check(l) \/ Park(l))
  \/ l \in Futures /\ ((signal[l] /\ Poll(l)) \/ Recheck(l) \/ PassOn(l))

EntersSection(l) ==
  Enqueue(l) \/ Grant(l) \/ (l \in Futures /\ (Relink(l) \/ Unlink(l)))

\* Running tasks keep running, the platform delivers wakeups, time passes, and
\* whoever has the lock drops its guard.  The critical section is entered by
\* one core at a time and never for long, so nobody is shut out of it for good.
Fairness ==
  \A l \in Lockers : WF_vars(StepsOn(l)) /\ SF_vars(EntersSection(l)) /\ SF_vars(Age(l))

FairSpec == Spec /\ Fairness

-----------------------------------------------------------------------------
(* Properties. *)

\* The lockers the lock word counts: those with a guard, those it was handed
\* to, and a writer whose release has not reached the word yet.
Owns(l) ==
  \/ pc[l] = "held"
  \/ l \in given
  \/ pc[l] \in WaitPCs /\ wst[l] = "GRANTED"
  \/ pc[l] = "release" /\ clear[l]

WriteOwners == {l \in Lockers : Owns(l) /\ ~shared[l]}
ReadOwners  == {l \in Lockers : Owns(l) /\ shared[l]}

\* A writer excludes everyone else, whether it swapped the word itself or was
\* handed the lock while parked, pending or being dropped.
Exclusion ==
  /\ \A k, l \in WriteOwners : k = l
  /\ WriteOwners # {} => ReadOwners = {}

\* The word counts exactly the owners, so that no release underflows it and no
\* handed-over lock is lost with a dropped future.
WordCountsOwners ==
  /\ word.writer <=> WriteOwners # {}
  /\ word.readers = Cardinality(ReadOwners)

\* Outside the critical section the flags say what the queue holds: a stale
\* flag would keep readers out for good, a missing one would strand waiters.
FlagsMatchQueue ==
  crit = Nobody => /\ word.parked <=> queue # <<>>
                   /\ word.writerParked <=> QueuedWriters # {}

\* The lock word tells the truth of owners and waiters alike.
WordMatches == WordCountsOwners /\ FlagsMatchQueue

\* A waiter is linked once, and while it is linked or picked its owner is
\* still waiting on it: its memory is the stack frame or the pinned future of
\* that owner.  One that still waits is linked.
WaitersLinked ==
  /\ \A i, j \in DOMAIN queue : queue[i] = queue[j] => i = j
  /\ \A i \in DOMAIN queue : pc[queue[i]] \in WaitPCs /\ wst[queue[i]] = "WAITING"
  /\ picked \subseteq {queue[i] : i \in DOMAIN queue}
  /\ \A l \in Lockers : pc[l] \in WaitPCs /\ wst[l] = "WAITING" => Linked(l)

\* The queue is in order: a waiter stands behind nobody of lower priority ...
QueueByPriority ==
  \A i, j \in DOMAIN queue : i < j => Priority[queue[i]] >= Priority[queue[j]]

\* k stands before l in the queue.
Ahead(k, l) == \E i, j \in DOMAIN queue : i < j /\ queue[i] = k /\ queue[j] = l

\* ... and within one priority who came first stays first: nobody is overtaken
\* while both wait, not by a newcomer either, whoever else comes, is let out or
\* gives up.
QueueInTurn ==
  /\ []QueueByPriority
  /\ [][\A k, l \in Lockers :
          /\ Linked(k) /\ Linked(k)' /\ Linked(l)' /\ k # l
          /\ IF Linked(l) THEN Ahead(k, l) ELSE Priority[k] >= Priority[l]
          => Ahead(k, l)']_vars

\* Whenever waiters are queued for a lock they could have, because nobody has
\* it or because all of them and all its owners are readers, somebody is on the
\* way who will look at the queue or take the lock.
NoLostWakeup ==
  /\ queue # <<>> /\ WriteOwners = {}
  /\ ReadOwners = {} \/ QueuedWriters = {}
  =>
    \E l \in Lockers :
      \/ pc[l] \in {"try", "spin", "enqueue", "release", "grant"}
      \/ pc[l] = "wake" /\ more[l]
      \/ pc[l] \in WaitPCs /\ wst[l] = "RETRY"

\* A waiter let out of the queue that sleeps has been signalled or is about to
\* be, with the waker the executor polls it by.
ReleasedAreWoken ==
  \A l \in Lockers :
    pc[l] \in {"park", "pending"} /\ wst[l] # "WAITING" =>
      signal[l] \/ \E r \in Lockers : l \in wakes[r]

\* No unpark is ever owed to a task that has ended.
EndedNotUnparked == \A r \in Lockers : \A w \in wakes[r] : pc[w] # "ended"

\* Every wakeup that is due is under way, and under way to a living task.
WakeupsLand == ReleasedAreWoken /\ EndedNotUnparked

\* No waiter is forgotten: not in the queue, and not once it is let out.
WaitersServed == NoLostWakeup /\ WakeupsLand

\* RawLock implements the abstract lock.
Abstract == INSTANCE RwLockSpec WITH writers <- WriteOwners, readers <- ReadOwners
Implements == Abstract!Spec

Wants(l) == pc[l] \in WaitPCs \cup {"try", "spin", "enqueue"}

\* A writer that asks for the lock gets it or gives up, however many come after
\* it: the hand-over after HANDOFF_US ends the race with new lockers.  (A locker
\* that asks keeps its mode, so that to ask for ever is all there is to exclude.)
MayWrite == {l \in Lockers : FALSE \in Modes[l]}
WriterServed == \A l \in MayWrite : []<>(shared[l] \/ ~Wants(l))
=============================================================================
