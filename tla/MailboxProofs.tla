--------------------------- MODULE MailboxProofs ----------------------------
(***************************************************************************)
(* The wakeups of a thread are tokens, one of each kind, and a oneshot     *)
(* keeps its value for whoever is to have it: proofs about Mailbox, for    *)
(* any number of signallers, signals, calls of block_on and any lengths of *)
(* waits.                                                                  *)
(***************************************************************************)
EXTENDS Mailbox, TLAPS

\* Only a timed wait looks at the clock.
Looking == wait.at = "look" => wait.ticks # Forever

\* A sender that has gone has decided about the value.
SenderDecided == ~shot.sender => fate # "new"

\* The inductive invariant.
IInv == TypeOK /\ Looking /\ MailKept /\ SenderDecided

\* The places of a thread in a wait.
Parks == {"park", "lockpark"}

-----------------------------------------------------------------------------
(* The notification. *)

\* What wait_notify does keeps its record well formed; with it a wait is over
\* or goes on for the same bit.
LEMMA WaitStepTypes ==
  ASSUME NotifyTypeOK, Looking, WaitStep
  PROVE  NotifyTypeOK' /\ Looking'
<1> USE NotifyAssumption DEF NotifyAssumption, NotifyTypeOK, Looking, Places, Kinds, Elsewhere
<1>1. CASE Clear
  <2> USE <1>1 DEF Clear, ClearBits
  <2>1. CASE wait.bit \in value
    BY <2>1
  <2>2. CASE wait.bit \notin value /\ wait.ticks = Forever
    BY <2>2
  <2>3. CASE wait.bit \notin value /\ wait.ticks # Forever
    BY <2>3
  <2> QED BY <2>1, <2>2, <2>3
<1>2. CASE Look
  <2>1. wait.ticks \in Nat /\ wait.passed \in Nat /\ wait.passed <= wait.ticks
    BY <1>2 DEF Look, LookFor
  <2>2. CASE wait.passed >= wait.ticks
    BY <1>2, <2>2 DEF Look, LookFor
  <2>3. CASE ~(wait.passed >= wait.ticks)
    <3>1. wait.ticks - wait.passed + 0 \in Nat /\ wait.ticks - wait.passed + 0 <= wait.ticks
      BY <2>1, <2>3
    <3>2. wait' = [wait EXCEPT !.at = "rest", !.left = wait.ticks - wait.passed + 0]
      BY <1>2, <2>3 DEF Look, LookFor
    <3> QED BY <1>2, <2>1, <3>1, <3>2 DEF Look, LookFor
  <2> QED BY <2>2, <2>3
<1>3. CASE Rest
  BY <1>3 DEF Rest
<1>4. CASE Wakes
  BY <1>4 DEF Wakes
<1> QED BY <1>1, <1>2, <1>3, <1>4 DEF WaitStep

\* Time counts the ticks of a timed wait, up to its length, and what is left of
\* its sleep down to zero.
LEMMA TickTypes ==
  ASSUME NotifyTypeOK, Looking, Tick
  PROVE  NotifyTypeOK' /\ Looking' /\ wait'.at = wait.at
<1> USE NotifyAssumption DEF NotifyAssumption, NotifyTypeOK, Looking, Places, Kinds
<1> DEFINE passed == Counted(wait.passed)
           left == IF wait.at = "asleep" /\ wait.left > 0 THEN wait.left - 1 ELSE wait.left
<1>1. /\ wait.ticks \in Nat /\ wait.passed \in Nat /\ wait.left \in Nat
      /\ wait.passed <= wait.ticks /\ wait.left <= wait.ticks
  BY DEF Tick
<1>2. passed \in Nat /\ passed <= wait.ticks /\ left \in Nat /\ left <= wait.ticks
  BY <1>1 DEF Counted
<1>3. wait' = [wait EXCEPT !.passed = passed, !.left = left]
  BY DEF Tick
<1> HIDE DEF passed, left
<1> QED BY <1>1, <1>2, <1>3 DEF Tick

\* An unpark sets a bit and leaves the wait alone.
LEMMA NotifyTypes ==
  ASSUME NotifyTypeOK, Looking, NEW k \in Kinds, Notify(k)
  PROVE  NotifyTypeOK' /\ Looking'
BY DEF NotifyTypeOK, Looking, Notify

\* A wait begins with its bit and no tick passed.
LEMMA WaitNotifyTypes ==
  ASSUME NotifyTypeOK, NEW k \in Kinds, NEW t \in Lengths \cup {Forever}, WaitNotify(k, t)
  PROVE  NotifyTypeOK' /\ Looking' /\ wait'.at = "clear"
BY NotifyAssumption DEF NotifyAssumption, NotifyTypeOK, Looking, WaitNotify, Places, Kinds

-----------------------------------------------------------------------------
(* The steps of Mailbox, by what they are to the notification. *)

ParkStep ==
  \/ UNCHANGED notifyVars /\ (at' \in Parks <=> at \in Parks)
  \/ (\E k \in Kinds : Notify(k)) /\ at' = at
  \/ /\ at \notin Parks /\ at' \in Parks
     /\ \E k \in Kinds, t \in Lengths \cup {Forever} : WaitNotify(k, t)
  \/ WaitStep /\ at \in Parks /\ (at' \in Parks <=> wait'.at # "elsewhere")
  \/ Tick /\ at' = at

\* Every step is one of those.
LEMMA ParkSteps == ASSUME Next PROVE ParkStep
<1> USE DEF ParkStep, Parks, Kinds
<1>1. CASE Enter \/ DropReceiver \/ TryTake \/ Send \/ DropSender \/ Grant
  BY <1>1 DEF Enter, DropReceiver, TryTake, Send, SendIf, DropSender, Grant, Goto
<1>2. CASE Swap \/ PollShot \/ PollKick \/ Handle \/ Locked
  BY <1>2 DEF Swap, PollShot, PollKick, PollKickKeeping, Handle, Locked, Goto
<1>3. CASE ParkLock \/ Turn
  BY <1>3 DEF ParkLock, Turn, Goto
<1>4. CASE Parked
  BY <1>4 DEF Parked
<1>5. CASE Fire \/ Disturb
  BY <1>5 DEF Fire, Disturb, mailVars
<1>6. ASSUME NEW a \in Actors, Wake(a) PROVE ParkStep
  BY <1>6 DEF Wake, Store, Unpark
<1>7. ASSUME NEW s \in Signallers, Signal(s) PROVE ParkStep
  BY <1>7 DEF Signal
<1>8. CASE Time
  BY <1>8 DEF Time, mailVars
<1> QED BY <1>1, <1>2, <1>3, <1>4, <1>5, <1>6, <1>7, <1>8 DEF Next, Thread

\* The notification's part of the invariant holds after each of them.
LEMMA NotifyStep ==
  ASSUME IInv, [Next]_vars
  PROVE  /\ NotifyTypeOK' /\ Looking'
         /\ (at' \in Parks <=> wait'.at # "elsewhere")
<1> USE DEF IInv, TypeOK, Parks
<1>1. CASE UNCHANGED notifyVars /\ (at' \in Parks <=> at \in Parks)
  BY <1>1 DEF notifyVars, NotifyTypeOK, Looking
<1>2. ASSUME NEW k \in Kinds, Notify(k), at' = at
      PROVE  NotifyTypeOK' /\ Looking' /\ (at' \in Parks <=> wait'.at # "elsewhere")
  BY <1>2, NotifyTypes DEF Notify
<1>3. ASSUME NEW k \in Kinds, NEW t \in Lengths \cup {Forever}, WaitNotify(k, t),
             at' \in Parks
      PROVE  NotifyTypeOK' /\ Looking' /\ (at' \in Parks <=> wait'.at # "elsewhere")
  BY <1>3, WaitNotifyTypes
<1>4. CASE WaitStep /\ (at' \in Parks <=> wait'.at # "elsewhere")
  BY <1>4, WaitStepTypes
<1>5. CASE Tick /\ at' = at
  BY <1>5, TickTypes
<1>6. CASE UNCHANGED vars
  BY <1>6, <1>1 DEF vars, mailVars
<1> QED BY <1>1, <1>2, <1>3, <1>4, <1>5, <1>6, ParkSteps DEF ParkStep

-----------------------------------------------------------------------------
(* The mail. *)

\* What a call in progress and a oneshot's state look like.
Calls == [at : {"idle", "store", "unpark"}, main : 0 .. MaxMains]

Shots == [value : BOOLEAN, waker : 0 .. MaxMains, sender : BOOLEAN, receiver : BOOLEAN]

\* A wake begins as a store or not at all, and goes on as an unpark.
LEMMA CallTypes ==
  /\ \A w \in 0 .. MaxMains : WakeCopy(w) \in Calls
  /\ \A c \in Calls : [c EXCEPT !.at = "unpark"] \in Calls
  /\ Idle \in Calls
BY MailboxAssumption DEF MailboxAssumption, Calls, WakeCopy, Idle

\* Every step keeps the mail well typed.
LEMMA MailTypeStep ==
  ASSUME IInv, [Next]_vars
  PROVE  MailTypeOK'
<1> USE MailboxAssumption, CallTypes
        DEF MailboxAssumption, IInv, TypeOK, MailTypeOK, Calls, Shots, Goto
<1>1. CASE Enter
  BY <1>1 DEF Enter
<1>2. CASE DropReceiver
  <2>1. shot' \in Shots
    <3>1. shot' = [shot EXCEPT !.receiver = FALSE, !.value = FALSE, !.waker = 0]
      BY <1>2 DEF DropReceiver
    <3>2. shot \in Shots /\ 0 \in 0 .. MaxMains
      OBVIOUS
    <3> QED BY ONLY <3>1, <3>2 DEF Shots
  <2>2. fate' \in {"new", "sent", "unsent", "settled"}
    BY <1>2 DEF DropReceiver
  <2> QED BY <1>2, <2>1, <2>2 DEF DropReceiver
<1>3. CASE TryTake \/ Grant \/ Disturb \/ Time
  BY <1>3 DEF TryTake, Grant, Disturb, Time, Actors, mailVars
<1>4. CASE Send \/ DropSender
  <2>1. call' \in [Actors -> Calls]
    BY <1>4 DEF Send, SendIf, DropSender, Actors
  <2>2. shot' \in Shots
    <3>1. \/ shot' = shot
          \/ shot' = [shot EXCEPT !.value = TRUE]
          \/ shot' = [shot EXCEPT !.sender = FALSE]
      BY <1>4 DEF Send, SendIf, DropSender
    <3>2. shot \in Shots
      OBVIOUS
    <3> QED BY ONLY <3>1, <3>2 DEF Shots
  <2>3. fate' \in {"new", "sent", "unsent", "settled"}
    BY <1>4 DEF Send, SendIf, DropSender
  <2> QED BY <1>4, <2>1, <2>2, <2>3 DEF Send, SendIf, DropSender
<1>5. CASE Swap \/ PollShot
  BY ZenonT(60), <1>5 DEF Swap, PollShot
<1>6. CASE PollKick \/ Handle \/ Locked \/ ParkLock
  BY <1>6 DEF PollKick, PollKickKeeping, Handle, Locked, ParkLock
<1>7. CASE Turn \/ Fire \/ Parked
  BY <1>7 DEF Turn, Fire, Parked
<1>8. ASSUME NEW a \in Actors, Wake(a) PROVE MailTypeOK'
  <2>1. call' \in [Actors -> Calls]
    BY <1>8 DEF Wake, Store, Unpark
  <2>2. woken' \in BOOLEAN
    BY <1>8 DEF Wake, Store, Unpark
  <2> QED BY <1>8, <2>1, <2>2 DEF Wake, Store, Unpark
<1>9. ASSUME NEW s \in Signallers, Signal(s) PROVE MailTypeOK'
  BY <1>9 DEF Signal, Actors
<1>10. CASE UNCHANGED vars
  BY <1>10 DEF vars, mailVars
<1> QED BY <1>1, <1>2, <1>3, <1>4, <1>5, <1>6, <1>7, <1>8, <1>9, <1>10 DEF Next, Thread

\* Only the oneshot's two ends and its receiver's polls touch its value.
LEMMA ShotStep ==
  ASSUME IInv, [Next]_vars
  PROVE  MailKept' /\ SenderDecided'
<1> USE DEF IInv, TypeOK, MailTypeOK, MailKept, SenderDecided, Goto
<1>1. CASE Send
  BY <1>1 DEF Send, SendIf
<1>2. CASE DropSender
  BY <1>2 DEF DropSender
<1>3. CASE PollShot
  BY <1>3 DEF PollShot
<1>4. CASE DropReceiver
  BY <1>4 DEF DropReceiver
<1>5. CASE Enter \/ TryTake \/ Grant \/ Disturb \/ Time
  BY <1>5 DEF Enter, TryTake, Grant, Disturb, Time, mailVars
<1>6. CASE Swap \/ PollKick \/ Handle \/ Locked \/ ParkLock
  BY <1>6 DEF Swap, PollKick, PollKickKeeping, Handle, Locked, ParkLock
<1>7. CASE Turn \/ Fire \/ Parked
  BY <1>7 DEF Turn, Fire, Parked
<1>8. ASSUME NEW a \in Actors, Wake(a) PROVE MailKept' /\ SenderDecided'
  BY <1>8 DEF Wake, Store, Unpark
<1>9. ASSUME NEW s \in Signallers, Signal(s) PROVE MailKept' /\ SenderDecided'
  BY <1>9 DEF Signal
<1>10. CASE UNCHANGED vars
  BY <1>10 DEF vars, mailVars
<1> QED BY <1>1, <1>2, <1>3, <1>4, <1>5, <1>6, <1>7, <1>8, <1>9, <1>10 DEF Next, Thread

-----------------------------------------------------------------------------
(* The theorems. *)

\* IInv is inductive: it holds of every reachable state.
THEOREM Inductive == Spec => []IInv
<1>1. Init => IInv
  <2> SUFFICES ASSUME Init PROVE IInv
    OBVIOUS
  <2>1. MailTypeOK
    <3>1. /\ kick \in [value : 0 .. MaxSignals, waker : 0 .. MaxMains]
          /\ shot \in Shots /\ main \in 0 .. MaxMains /\ signalled \in 0 .. MaxSignals
      BY MailboxAssumption DEF MailboxAssumption, Init, Shots
    <3>2. call \in [Actors -> Calls]
      BY CallTypes DEF Init
    <3> QED BY <3>1, <3>2 DEF Init, MailTypeOK, Calls, Shots
  <2>2. NotifyTypeOK /\ Looking
    <3>1. wait.at = "elsewhere" /\ wait.bit = None /\ wait.ticks = 0 /\ wait.passed = 0
          /\ wait.left = 0 /\ value = {} /\ ~pending /\ pending \in BOOLEAN
      BY DEF Init, NotifyInit, Elsewhere
    <3>2. wait \in [at : Places, bit : Kinds \cup {None}, ticks : Lengths \cup {0, Forever},
                    passed : Nat, left : Nat \cup {Forever}]
      BY DEF Init, NotifyInit, Elsewhere, Places
    <3>3. value \subseteq Kinds /\ pending \in BOOLEAN
      BY <3>1
    <3>4. wait.at = "elsewhere" <=> wait.bit = None
      BY <3>1
    <3>5. wait.ticks # Forever =>
            wait.passed <= wait.ticks /\ wait.left \in Nat /\ wait.left <= wait.ticks
      BY <3>1
    <3>6. Looking
      BY <3>1 DEF Looking
    <3> QED BY <3>2, <3>3, <3>4, <3>5, <3>6 DEF NotifyTypeOK
  <2>3. MailKept /\ SenderDecided
    BY DEF Init, MailKept, SenderDecided
  <2> QED BY <2>1, <2>2, <2>3 DEF Init, NotifyInit, Elsewhere, IInv, TypeOK
<1>2. IInv /\ [Next]_vars => IInv'
  BY NotifyStep, MailTypeStep, ShotStep DEF IInv, TypeOK, Parks
<1> QED BY <1>1, <1>2, PTL DEF Spec

\* Every reachable state is well typed: a thread parks in wait_notify only, and
\* no wait counts beyond its ticks or sleeps longer than them.
THEOREM TypeCorrect == Spec => []TypeOK
BY Inductive, PTL DEF IInv

\* A oneshot has its value from the time it is sent until it is settled, never
\* without a receiver, and no receiver leaves an answer open (oneshot.rs:36).
THEOREM AnswersKept == Spec => []MailKept
BY Inductive, PTL DEF IInv

\* The one notification of a thread is a token for each kind of wakeup: what
\* wait_notify and its callers do to it is what TokenSpec allows.
THEOREM WakeupsAreTokens == Spec => Implements
<1> USE NotifyAssumption DEF NotifyAssumption, Remaining
<1>1. Init => Tokens!Init
  BY DEF Init, NotifyInit, Elsewhere, Tokens!Init
<1>2. ASSUME IInv, [Next]_vars PROVE [Tokens!Next]_(Tokens!vars)
  <2> USE <1>2 DEF IInv, TypeOK, NotifyTypeOK, Tokens!vars
  <2>1. CASE UNCHANGED notifyVars
    BY <2>1 DEF notifyVars
  <2>2. ASSUME NEW k \in Kinds, Notify(k) PROVE Tokens!Give(k)
    BY <2>2 DEF Notify, Tokens!Give
  <2>3. ASSUME at \notin Parks, NEW k \in Kinds, NEW t \in Lengths \cup {Forever},
               WaitNotify(k, t)
        PROVE  Tokens!Wait(k)
    BY <2>3 DEF WaitNotify, Parks, Tokens!Wait
  <2>4. CASE Clear
    <3>1. CASE wait.bit \in value
      BY <2>4, <3>1 DEF Clear, ClearBits, Elsewhere, Tokens!Next, Tokens!Take, Tokens!Ends
    <3>2. CASE wait.bit \notin value
      BY <2>4, <3>2 DEF Clear, ClearBits
    <3> QED BY <3>1, <3>2
  <2>5. CASE Look
    <3>1. CASE wait.passed >= wait.ticks
      BY <2>5, <3>1 DEF Look, LookFor, Looking, Elsewhere, Tokens!Next, Tokens!GiveUp, Tokens!Ends
    <3>2. CASE ~(wait.passed >= wait.ticks)
      BY <2>5, <3>2 DEF Look, LookFor
    <3> QED BY <3>1, <3>2
  <2>6. CASE Rest \/ Wakes
    BY <2>6 DEF Rest, Wakes
  <2>7. CASE Tick
    <3>1. CASE wait.passed < wait.ticks
      BY <2>7, <3>1 DEF Tick, Counted, Tokens!Next, Tokens!Tick
    <3>2. CASE ~(wait.passed < wait.ticks)
      BY <2>7, <3>2 DEF Tick, Counted
    <3> QED BY <3>1, <3>2
  <2>8. CASE UNCHANGED vars
    BY <2>8, <2>1 DEF vars
  <2> QED BY <1>2, <2>1, <2>2, <2>3, <2>4, <2>5, <2>6, <2>7, <2>8, ParkSteps
          DEF ParkStep, WaitStep, Tokens!Next
<1> QED BY Inductive, <1>1, <1>2, PTL DEF Spec, Implements, Tokens!Spec
=============================================================================
