------------------------------ MODULE Mailbox -------------------------------
(***************************************************************************)
(* Values handed to a thread in block_on: Signal and oneshot               *)
(* (src/libs/devkit/src/executor/sync.rs and oneshot.rs) under the main    *)
(* future of a LocalExecutor (mod.rs), parked on the thread's notification *)
(* (module Notify), which the locks it blocks on use too.                  *)
(*                                                                         *)
(* The future polls the oneshot, then the signal, then perhaps a timer, as *)
(* the network's next_event does with its frames and its kick.  What it    *)
(* got it handles, which may need a lock; then it waits again, or block_on *)
(* returns and a later one begins with a new waker.  Its executor runs no  *)
(* tasks; what others do to it shows as an unpark.                         *)
(*                                                                         *)
(* A step is a critical section, a load or store of Main::woken, or a call *)
(* of Notify.                                                              *)
(***************************************************************************)
EXTENDS Notify

CONSTANTS
  Signallers,   \* tasks and interrupts that signal
  Sender,       \* who holds the oneshot's sender
  Granter,      \* who unlocks what the thread waits for
  MaxSignals,   \* bound: values signalled
  MaxMains      \* bound: calls of block_on

Actors == Signallers \cup {Sender, Granter}
MailboxAssumption ==
  /\ Sender \notin Signallers /\ Granter \notin Signallers /\ Sender # Granter
  /\ MaxSignals \in Nat /\ MaxMains \in Nat \ {0}
ASSUME MailboxAssumption

VARIABLES
  at,          \* the thread's place
  main,        \* the Main of its present block_on; 0 before the first
  woken,       \* its Main::woken; nobody reads that of a past one
  kick,        \* the Signal: its value, 0 for none, and whose waker it keeps
  shot,        \* the State of the oneshot
  lock,        \* the lock the thread blocks on: "free", "wanted" or "granted"
  call,        \* what each of the others is about to do for the thread
  signalled,   \* the newest value of the signal
  fate         \* the oneshot's value: "new", "unsent" for good, "sent", or "settled":
               \* taken, returned to its sender, or dropped by the receiver

mailVars == <<at, main, woken, kick, shot, lock, call, signalled, fate>>
vars == <<mailVars, notifyVars>>

Idle == [at |-> "idle", main |-> 0]

Init ==
  /\ NotifyInit
  /\ at = "out" /\ main = 0 /\ woken = FALSE
  /\ kick = [value |-> 0, waker |-> 0]
  /\ shot = [value |-> FALSE, waker |-> 0, sender |-> TRUE, receiver |-> TRUE]
  /\ lock = "free" /\ call = [a \in Actors |-> Idle]
  /\ signalled = 0 /\ fate = "new"

-----------------------------------------------------------------------------
\* wake_copy of the waker found, once the critical section is left.
WakeCopy(waker) == IF waker = 0 THEN Idle ELSE [at |-> "store", main |-> waker]

\* Signal::signal.
Signal(s) ==
  /\ call[s] = Idle /\ signalled < MaxSignals
  /\ signalled' = signalled + 1
  /\ kick' = [kick EXCEPT !.value = signalled + 1]
  /\ call' = [call EXCEPT ![s] = WakeCopy(kick.waker)]
  /\ UNCHANGED <<at, main, woken, shot, lock, fate, notifyVars>>

\* Signal::try_take, by another task.
TryTake ==
  /\ kick.value # 0 /\ kick' = [kick EXCEPT !.value = 0]
  /\ UNCHANGED <<at, main, woken, shot, lock, call, signalled, fate, notifyVars>>

\* Sender::send.  Slip: nobody looks whether the receiver is there.
SendIf(accepted) ==
  /\ call[Sender] = Idle /\ shot.sender /\ fate = "new"
  /\ IF accepted
     THEN /\ shot' = [shot EXCEPT !.value = TRUE]
          /\ fate' = "sent"
          /\ call' = [call EXCEPT ![Sender] = WakeCopy(shot.waker)]
     ELSE fate' = "settled" /\ UNCHANGED <<shot, call>>
  /\ UNCHANGED <<at, main, woken, kick, lock, signalled, notifyVars>>
SendAnyway == SendIf(TRUE)
Send == SendIf(shot.receiver)

\* The sender's drop, at the end of send or instead of it.
DropSender ==
  /\ call[Sender] = Idle /\ shot.sender
  /\ shot' = [shot EXCEPT !.sender = FALSE]
  /\ call' = [call EXCEPT ![Sender] = WakeCopy(shot.waker)]
  /\ fate' = IF fate = "new" THEN "unsent" ELSE fate
  /\ UNCHANGED <<at, main, woken, kick, lock, signalled, notifyVars>>

\* The main waker: woken is stored, then the thread unparked.
Store(a) ==
  /\ call[a].at = "store"
  /\ woken' = (woken \/ call[a].main = main)
  /\ call' = [call EXCEPT ![a].at = "unpark"]
  /\ UNCHANGED <<at, main, kick, shot, lock, signalled, fate, notifyVars>>

\* TaskPark::unpark, and the lock's.
Unpark(a) ==
  /\ call[a].at = "unpark"
  /\ Notify(IF a = Granter THEN "lock" ELSE "executor")
  /\ call' = [call EXCEPT ![a] = Idle]
  /\ UNCHANGED <<at, main, woken, kick, shot, lock, signalled, fate>>

\* The lock is handed over, and its waiter unparked afterwards.
Grant ==
  /\ call[Granter] = Idle /\ lock = "wanted"
  /\ lock' = "granted"
  /\ call' = [call EXCEPT ![Granter].at = "unpark"]
  /\ UNCHANGED <<at, main, woken, kick, shot, signalled, fate, notifyVars>>

\* Somebody gave the executor a task.
Disturb == Notify("executor") /\ UNCHANGED mailVars

-----------------------------------------------------------------------------
Goto(place) == at' = place

\* block_on: Main::woken is true at first.
Enter ==
  /\ at = "out" /\ main < MaxMains
  /\ main' = main + 1 /\ woken' = TRUE
  /\ Goto("swap")
  /\ UNCHANGED <<kick, shot, lock, call, signalled, fate, notifyVars>>

Swap ==
  /\ at = "swap"
  /\ woken' = FALSE
  /\ Goto(IF woken THEN "shot" ELSE "turn")
  /\ UNCHANGED <<main, kick, shot, lock, call, signalled, fate, notifyVars>>

\* Receiver::poll; who got an answer drops it.
PollShot ==
  /\ at = "shot"
  /\ IF ~shot.receiver THEN Goto("kick") /\ UNCHANGED <<shot, fate>>
     ELSE IF shot.value
     THEN shot' = [shot EXCEPT !.value = FALSE] /\ fate' = "settled" /\ Goto("drop")
     ELSE IF ~shot.sender
     THEN Goto("drop") /\ UNCHANGED <<shot, fate>>
     ELSE shot' = [shot EXCEPT !.waker = main] /\ Goto("kick") /\ UNCHANGED fate
  /\ UNCHANGED <<main, woken, kick, lock, call, signalled, notifyVars>>

\* The receiver's drop, with an answer or without.
DropReceiver ==
  /\ at = "drop" \/ (at = "handle" /\ shot.receiver)
  /\ shot' = [shot EXCEPT !.receiver = FALSE, !.value = FALSE, !.waker = 0]
  /\ fate' = IF shot.value THEN "settled" ELSE fate
  /\ Goto("handle")
  /\ UNCHANGED <<main, woken, kick, lock, call, signalled, notifyVars>>

\* Signal::wait's poll, and the timer's, whose time may have come.  Slip: a
\* waker that is kept already stays.
PollKickKeeping(waker) ==
  /\ at = "kick"
  /\ IF kick.value # 0
     THEN kick' = [kick EXCEPT !.value = 0] /\ Goto("handle")
     ELSE kick' = [kick EXCEPT !.waker = waker] /\ (Goto("turn") \/ Goto("handle"))
  /\ UNCHANGED <<main, woken, shot, lock, call, signalled, fate, notifyVars>>
PollKickOnce == PollKickKeeping(IF kick.waker = 0 THEN main ELSE kick.waker)
PollKick == PollKickKeeping(main)

\* The caller goes on with what it got: it waits again, locks, or returns.
Handle ==
  /\ at = "handle"
  /\ \/ Goto("shot") /\ UNCHANGED lock
     \/ Goto("out") /\ UNCHANGED lock
     \/ lock' = "wanted" /\ Goto("lock")
  /\ UNCHANGED <<main, woken, kick, shot, call, signalled, fate, notifyVars>>

\* The blocked locker looks at its waiter's state before each park.
Locked ==
  /\ at = "lock" /\ lock = "granted"
  /\ lock' = "free" /\ Goto("shot")
  /\ UNCHANGED <<main, woken, kick, shot, call, signalled, fate, notifyVars>>
ParkLock ==
  /\ at = "lock" /\ lock = "wanted"
  /\ WaitNotify("lock", Forever) /\ Goto("lockpark")
  /\ UNCHANGED <<main, woken, kick, shot, lock, call, signalled, fate>>

\* turn, without tasks: a timer that is due wakes the main future; a thread
\* whose main was not woken parks, until a timer if there is one.
Fire ==
  /\ at = "turn" /\ ~woken
  /\ woken' = TRUE
  /\ Notify("executor")
  /\ UNCHANGED <<at, main, kick, shot, lock, call, signalled, fate>>
Turn ==
  /\ at = "turn"
  /\ IF woken THEN Goto("swap") /\ UNCHANGED notifyVars
     ELSE Goto("park") /\ \E t \in Lengths \cup {Forever} : WaitNotify("executor", t)
  /\ UNCHANGED <<main, woken, kick, shot, lock, call, signalled, fate>>

\* In wait_notify; a park that ends sends the thread to look again.
Parked ==
  /\ at \in {"park", "lockpark"} /\ WaitStep
  /\ at' = IF wait'.at # "elsewhere" THEN at ELSE IF at = "park" THEN "swap" ELSE "lock"
  /\ UNCHANGED <<main, woken, kick, shot, lock, call, signalled, fate>>

-----------------------------------------------------------------------------
Thread ==
  \/ Swap \/ PollShot \/ PollKick \/ Handle \/ Locked \/ ParkLock
  \/ Turn \/ Parked
Wake(a) == Store(a) \/ Unpark(a)
Time == Tick /\ UNCHANGED mailVars

Next ==
  \/ Thread \/ Enter \/ DropReceiver \/ Fire
  \/ \E a \in Actors : Wake(a)
  \/ \E s \in Signallers : Signal(s)
  \/ TryTake \/ Send \/ DropSender \/ Grant \/ Disturb \/ Time

Spec == Init /\ [][Next]_vars

\* The thread goes on, what was begun is finished, locks are unlocked, time
\* passes.  Nothing for signals, sends and other unparks.
Fairness ==
  /\ WF_vars(Thread \/ (at = "drop" /\ DropReceiver)) /\ WF_vars(Grant) /\ WF_vars(Time)
  /\ \A a \in Actors : WF_vars(Wake(a))
  /\ WF_vars(fate # "new" /\ DropSender)
FairSpec == Spec /\ Fairness

-----------------------------------------------------------------------------
MailTypeOK ==
  /\ at \in {"out", "swap", "shot", "drop", "kick", "handle", "lock", "lockpark",
             "turn", "park"}
  /\ main \in 0 .. MaxMains /\ woken \in BOOLEAN
  /\ kick \in [value : 0 .. MaxSignals, waker : 0 .. MaxMains]
  /\ shot \in [value : BOOLEAN, waker : 0 .. MaxMains, sender : BOOLEAN, receiver : BOOLEAN]
  /\ lock \in {"free", "wanted", "granted"} /\ signalled \in 0 .. MaxSignals
  /\ call \in [Actors -> [at : {"idle", "store", "unpark"}, main : 0 .. MaxMains]]
  /\ fate \in {"new", "sent", "unsent", "settled"}

\* Type invariant.  The thread is in wait_notify when it parks, and only then.
TypeOK ==
  /\ NotifyTypeOK /\ MailTypeOK
  /\ at \in {"park", "lockpark"} <=> wait.at # "elsewhere"

\* "One value from any task to async code. Each side sees the other go"
\* (oneshot.rs:36): the value is in the channel from the time it is sent until
\* it is settled, and never in one whose receiver has gone; and a receiver that
\* goes with an answer either has the value or will never be sent one.
MailKept ==
  /\ shot.value <=> fate = "sent"
  /\ shot.value => shot.receiver
  /\ at = "drop" => fate \in {"unsent", "settled"}

\* Wakeups of the two kinds do not meet.
Implements == Tokens!Spec

\* What is signalled or sent, the sender's end and a lock granted all reach the
\* thread that waits for them, though block_on comes and goes, wakers go stale
\* and wakeups of one kind come during waits for the other: each stays until the
\* thread has it, and none stays for ever.
MailHeard ==
  /\ []<>(kick.value = 0 \/ at = "out")
  /\ []<>((~shot.value /\ shot.sender) \/ ~shot.receiver \/ at = "out")
  /\ []<>(lock = "free")
  /\ WaitsEnd
=============================================================================
