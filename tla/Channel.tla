------------------------------- MODULE Channel -------------------------------
(***************************************************************************)
(* devkit::executor::channel (src/libs/devkit/src/executor/sync.rs): a     *)
(* bounded queue into async code.  Send futures wait for room in a linked  *)
(* list, the one receiver leaves its waker in the queue, and interrupts    *)
(* only try_send.                                                          *)
(*                                                                         *)
(* A step is one critical section, or one wake of the copies taken in it:  *)
(* between the two everybody else may run.  A waker is the pair of the     *)
(* end it was made for and the task that polled it (its home); the         *)
(* executor's promise, one poll after a wake, is the set woken.            *)
(***************************************************************************)
EXTENDS Naturals, Sequences, SequencesExt, FiniteSets

CONSTANTS
  Senders,      \* tasks that send(v).await, one future at a time
  Interrupts,   \* contexts that only try_send
  Receiver,     \* the one receiving end
  Homes,        \* the tasks an end may be polled from
  Movers,       \* the ends that move from task to task
  Capacity,
  MaxSends,     \* bound: how many values each producer offers
  None

ASSUME ChannelAssumption ==
  /\ Capacity \in Nat \ {0} /\ MaxSends \in [Senders \cup Interrupts -> Nat]
  /\ Movers \subseteq Senders \cup {Receiver} /\ Homes # {} /\ None \notin Homes
  /\ Senders \cap Interrupts = {} /\ Receiver \notin Senders \cup Interrupts

Producers == Senders \cup Interrupts
Actors == Producers \cup {Receiver}
Ends == Senders \cup {Receiver}
Wakers == Ends \X Homes
Values == UNION {{p} \X (1..MaxSends[p]) : p \in Producers}

VARIABLES
  items,        \* Queue::items
  closed,       \* Queue::closed
  receiver,     \* Queue::receiver: the home of the stored waker, or None
  senders,      \* Queue::senders: the list, first waiter first
  waker,        \* SendNode::waker of each sender's future, or None
  future,       \* is there a send future: "none" or "live"
  recv,         \* the receiver: "idle", "looked", "parked" or "gone"
  offered,      \* values each producer has offered
  home,         \* the task that polls each end
  woken,        \* wakers whose task is to be polled
  copies,       \* waker copies an actor took and has still to wake
  fate          \* what became of each value

vars == <<items, closed, receiver, senders, waker, future, recv, offered, home,
          woken, copies, fate>>

Init ==
  /\ items = <<>> /\ closed = FALSE /\ receiver = None
  /\ senders = <<>> /\ waker = [s \in Senders |-> None]
  /\ future = [s \in Senders |-> "none"] /\ recv = "idle"
  /\ offered = [p \in Producers |-> 0]
  /\ home = [e \in Ends |-> CHOOSE h \in Homes : TRUE] /\ woken = {}
  /\ copies = [a \in Actors |-> <<>>]
  /\ fate = [v \in Values |-> "new"]

-----------------------------------------------------------------------------
Room == Len(items) < Capacity
Value(p) == <<p, offered[p]>>

\* The copies of the wakers found: that of the receiver, that of a list's head.
ReceiverCopy == IF receiver = None THEN <<>> ELSE <<<<Receiver, receiver>>>>
HeadCopy(list) == IF list = <<>> THEN <<>> ELSE <<<<Head(list), waker[Head(list)]>>>>

First(s) == senders # <<>> /\ Head(senders) = s
Unlinked(s) ==
  IF s \in ToSet(senders)
  THEN RemoveAt(senders, CHOOSE i \in DOMAIN senders : senders[i] = s)
  ELSE senders
Linked(s) == IF waker[s] = None THEN Append(senders, s) ELSE senders

\* Slips: one value too many; a push after the receiver has gone.
TakesOneMore == ~closed /\ Len(items) <= Capacity
TakesClosed == Room

\* Chan::push: the queue refuses a value when it is full or closed.
Takes == ~closed /\ Room

\* wake_copy, once the critical section is left.
WakeCopy(a) ==
  /\ copies[a] # <<>>
  /\ woken' = woken \cup {Head(copies[a])}
  /\ copies' = [copies EXCEPT ![a] = Tail(@)]
  /\ UNCHANGED <<items, closed, receiver, senders, waker, future, recv, offered,
                 home, fate>>

-----------------------------------------------------------------------------
\* Sender::try_send.
TrySend(i) ==
  /\ copies[i] = <<>> /\ offered[i] < MaxSends[i]
  /\ offered' = [offered EXCEPT ![i] = @ + 1]
  /\ LET v == <<i, offered[i] + 1>>
     IN  \/ /\ Takes
            /\ items' = Append(items, v) /\ fate' = [fate EXCEPT ![v] = "queued"]
            /\ copies' = [copies EXCEPT ![i] = ReceiverCopy]
         \/ /\ ~Takes
            /\ fate' = [fate EXCEPT ![v] = "returned"] /\ UNCHANGED <<items, copies>>
  /\ UNCHANGED <<closed, receiver, senders, waker, future, recv, home, woken>>

\* Sender::send: a future, polled first by the task that made it.
Send(s) ==
  /\ copies[s] = <<>> /\ future[s] = "none" /\ offered[s] < MaxSends[s]
  /\ offered' = [offered EXCEPT ![s] = @ + 1]
  /\ future' = [future EXCEPT ![s] = "live"]
  /\ woken' = woken \cup {<<s, home[s]>>}
  /\ UNCHANGED <<items, closed, receiver, senders, waker, recv, home, copies, fate>>

\* A future that does not wait yet is as good as first in the list.
MayPush(s) ==
  \/ closed
  \/ (waker[s] = None \/ First(s)) /\ Room

\* The next waiter is woken too while there is room, or all at a close.
NextCopy(list, queue) == IF Len(queue) < Capacity THEN HeadCopy(list) ELSE <<>>

\* SendFuture::poll, by the task that was woken for it or for another reason.
PollReady(s) ==
  /\ MayPush(s)
  /\ senders' = Unlinked(s) /\ waker' = [waker EXCEPT ![s] = None]
  /\ future' = [future EXCEPT ![s] = "none"]
  /\ items' = IF Takes THEN Append(items, Value(s)) ELSE items
  /\ fate' = [fate EXCEPT ![Value(s)] = IF Takes THEN "queued" ELSE "dropped"]
  /\ copies' = [copies EXCEPT ![s] =
                  (IF Takes THEN ReceiverCopy ELSE <<>>) \o NextCopy(Unlinked(s), items')]

PollPending(s) ==
  /\ ~MayPush(s)
  /\ senders' = Linked(s) /\ waker' = [waker EXCEPT ![s] = home[s]]
  /\ UNCHANGED <<items, future, fate, copies>>

PollSend(s) ==
  /\ copies[s] = <<>> /\ future[s] = "live"
  /\ woken' = woken \ {<<s, home[s]>>}
  /\ PollReady(s) \/ PollPending(s)
  /\ UNCHANGED <<closed, receiver, recv, offered, home>>

\* Slip: the head goes and tells nobody.
NoTurnCopy(s) == <<>>

\* SendFuture::drop before it was ready: the head hands its turn on.
TurnCopy(s) == IF First(s) THEN HeadCopy(Unlinked(s)) ELSE <<>>

DropSend(s) ==
  /\ copies[s] = <<>> /\ future[s] = "live"
  /\ future' = [future EXCEPT ![s] = "none"]
  /\ senders' = Unlinked(s) /\ waker' = [waker EXCEPT ![s] = None]
  /\ fate' = [fate EXCEPT ![Value(s)] = "dropped"]
  /\ copies' = [copies EXCEPT ![s] = TurnCopy(s)]
  /\ UNCHANGED <<items, closed, receiver, recv, offered, home, woken>>

-----------------------------------------------------------------------------
Waiting == recv \in {"idle", "parked"}

\* try_recv, called by itself or by recv's poll: the first value, and a
\* copy of the first sender's waker.
Pop ==
  /\ items # <<>>
  /\ items' = Tail(items) /\ fate' = [fate EXCEPT ![Head(items)] = "taken"]
  /\ copies' = [copies EXCEPT ![Receiver] = HeadCopy(senders)]
  /\ recv' = "idle"

TryRecv ==
  /\ copies[Receiver] = <<>> /\ recv = "idle"
  /\ Pop
  /\ UNCHANGED <<closed, receiver, senders, waker, future, offered, home, woken>>

\* recv's poll: try_recv, and on an empty queue a second look ...
PollRecv ==
  /\ copies[Receiver] = <<>> /\ Waiting
  /\ woken' = woken \ {<<Receiver, home[Receiver]>>}
  /\ \/ Pop
     \/ items = <<>> /\ recv' = "looked" /\ UNCHANGED <<items, fate, copies>>
  /\ UNCHANGED <<closed, receiver, senders, waker, future, offered, home>>

\* Slip: the waker is left without the second look.
ParkBlind ==
  /\ receiver' = home[Receiver] /\ recv' = "parked"
  /\ UNCHANGED <<items, fate, copies>>

\* ... that leaves the waker when the queue is still empty.
Park ==
  /\ items = <<>>
  /\ receiver' = home[Receiver] /\ recv' = "parked"
  /\ UNCHANGED <<items, fate, copies>>

SecondLook ==
  /\ recv = "looked"
  /\ Park \/ (Pop /\ UNCHANGED receiver)
  /\ UNCHANGED <<closed, senders, waker, future, offered, home, woken>>

\* recv's future dropped: nothing to undo, the stored waker stays.
DropRecv ==
  /\ recv = "parked" /\ recv' = "idle"
  /\ UNCHANGED <<items, closed, receiver, senders, waker, future, offered, home,
                 woken, copies, fate>>

\* Receiver::drop.
Close ==
  /\ copies[Receiver] = <<>> /\ recv = "idle"
  /\ closed' = TRUE /\ recv' = "gone" /\ receiver' = None
  /\ items' = <<>>
  /\ fate' = [v \in Values |-> IF v \in ToSet(items) THEN "dropped" ELSE fate[v]]
  /\ copies' = [copies EXCEPT ![Receiver] = HeadCopy(senders)]
  /\ UNCHANGED <<senders, waker, future, offered, home, woken>>

\* A pending future, or the receiver, moves to another task, which polls it.
Move(e) ==
  /\ copies[e] = <<>>
  /\ IF e = Receiver THEN recv = "parked" ELSE waker[e] # None
  /\ \E h \in Homes \ {home[e]} :
       /\ home' = [home EXCEPT ![e] = h]
       /\ woken' = woken \cup {<<e, h>>}
  /\ UNCHANGED <<items, closed, receiver, senders, waker, future, recv, offered,
                 copies, fate>>

-----------------------------------------------------------------------------
SenderStep(s) == Send(s) \/ PollSend(s) \/ DropSend(s)
ReceiverStep == TryRecv \/ PollRecv \/ SecondLook \/ DropRecv \/ Close

Next ==
  \/ \E s \in Senders : SenderStep(s)
  \/ \E i \in Interrupts : TrySend(i)
  \/ ReceiverStep
  \/ \E a \in Actors : WakeCopy(a)
  \/ \E e \in Movers : Move(e)

Spec == Init /\ [][Next]_vars

\* The executor polls what was woken, actors finish what they began, and the
\* receiving task calls recv again while the receiver lives.
PollWoken(s) == <<s, home[s]>> \in woken /\ PollSend(s)
RecvAgain == (recv = "parked" => <<Receiver, home[Receiver]>> \in woken) /\ PollRecv

Fairness ==
  /\ \A s \in Senders : WF_vars(PollWoken(s))
  /\ \A a \in Actors : WF_vars(WakeCopy(a))
  /\ WF_vars(RecvAgain) /\ WF_vars(SecondLook)

FairSpec == Spec /\ Fairness

-----------------------------------------------------------------------------
TypeOK ==
  /\ items \in Seq(Values) /\ Len(items) <= Capacity
  /\ closed \in BOOLEAN /\ receiver \in Homes \cup {None}
  /\ senders \in Seq(Senders) /\ waker \in [Senders -> Homes \cup {None}]
  /\ future \in [Senders -> {"none", "live"}]
  /\ recv \in {"idle", "looked", "parked", "gone"}
  /\ offered \in [Producers -> Nat] /\ \A p \in Producers : offered[p] <= MaxSends[p]
  /\ home \in [Ends -> Homes] /\ woken \subseteq Wakers
  /\ copies \in [Actors -> Seq(Wakers)]
  /\ fate \in [Values -> {"new", "queued", "taken", "returned", "dropped"}]

\* The wake of end e's present task has happened, or an actor carries its copy.
Coming(e) ==
  LET w == <<e, home[e]>> IN w \in woken \/ \E a \in Actors : w \in ToSet(copies[a])

\* The first waiting sender is never left asleep beside room, nor with the
\* receiver gone: whoever made the room, gave the turn up or closed the
\* channel has woken it, or is about to, in the task it waits in now.
HeadSenderWoken == senders # <<>> /\ (closed \/ Room) => Coming(Head(senders))

\* The receiver never sleeps on a value: it saw it, or its pusher wakes the
\* task it waits in now.
ReceiverWoken == recv = "parked" /\ items # <<>> => Coming(Receiver)

\* The list holds the nodes of the pending futures, each once: a future that
\* ended or was dropped leaves no node behind in the list.
SendersPending ==
  /\ IsInjective(senders)
  /\ ToSet(senders) = {s \in Senders : waker[s] # None}
  /\ \A s \in ToSet(senders) : future[s] = "live"

\* No end of the channel is left asleep, and no dead sender is woken instead.
EndsWoken == HeadSenderWoken /\ ReceiverWoken /\ SendersPending

\* The values do what the abstract channel lets them do.
Abstract == INSTANCE ChannelSpec WITH buf <- items, gone <- closed
Implements == Abstract!Spec

\* A send that waits gets its room or learns of the close: turns dropped by
\* others, and values slipped in by interrupts, do not strand it.
SendEnds == \A s \in Senders : []<>(future[s] # "live")

=============================================================================
