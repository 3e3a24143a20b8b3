------------------------------- MODULE Timers --------------------------------
(***************************************************************************)
(* The executor's timers (src/libs/devkit/src/executor/timer.rs) and the   *)
(* runners' turn around them (mod.rs): tasks link timers with a wrapping   *)
(* deadline, a runner wakes what is due before each task it runs and       *)
(* before it parks, and parks no longer than the next deadline it saw.     *)
(*                                                                         *)
(* Critical sections are single steps; a wake, with its enqueue and        *)
(* unpark (module Executor takes them apart), is one step too.  The clock  *)
(* may tick between any two steps, so a poll lasts any time.  It shows     *)
(* Span values; left counts the ticks to each timer's due time without    *)
(* wrapping, so that the two can be compared.                              *)
(***************************************************************************)
EXTENDS Integers, Sequences, SequencesExt, FiniteSets, FiniteSetsExt

CONSTANTS
  Tasks,
  Callers,    \* tasks that wait for more than their timers: timeouts, events
  NumRunners,
  Span,       \* values of the tick counter, 2^32 in the code
  Sleeps,     \* lengths the tasks sleep for
  Slack,      \* bound: ticks that pass between reading the clock and its use
  None

Half == Span \div 2

ASSUME TimersAssumption ==
  /\ NumRunners \in Nat \ {0} /\ Span \in Nat /\ Span = 2 * Half /\ Half > 1
  /\ Slack \in 1..(Half - 1)
  /\ Sleeps \subseteq 0..(Span - 1) /\ Callers \subseteq Tasks /\ IsFiniteSet(Tasks)
  /\ None \notin Tasks \cup 0..(Span - 1)

Runners == 0..(NumRunners - 1)

VARIABLES
  now,        \* Park::now
  timers,     \* Shared::timers, the list of linked nodes, by task
  deadline,   \* Node::deadline
  armed,      \* tasks that hold a timer polled at least once
  left,       \* ticks to the end of the sleep, negative once it has passed
  queue,      \* the executor's run queue
  scheduled,  \* tasks with SCHEDULED set
  nextClaim,  \* Shared::next_claim
  runner      \* each runner's place in its loop, its locals, idle and token

vars == <<now, timers, deadline, armed, left, queue, scheduled, nextClaim, runner>>

Loop == [at |-> "next", task |-> None, now |-> 0, wait |-> None, rest |-> None,
         idle |-> FALSE, token |-> FALSE]

Init ==
  /\ now \in 0..(Span - 1)
  /\ timers = <<>> /\ deadline = [t \in Tasks |-> 0]
  /\ armed = {} /\ left = [t \in Tasks |-> 0]
  /\ queue = SetToSeq(Tasks) /\ scheduled = Tasks /\ nextClaim = 0
  /\ runner = [r \in Runners |-> Loop]

-----------------------------------------------------------------------------
\* Wrapping subtraction, and `deadline.wrapping_sub(now) as i32 <= 0`.
Minus(a, b) == (a - b) % Span

\* Slip: the two are compared as they stand.
PassedUnwrapped(t, d) == d <= t
Reached(t, d) == Minus(d, t) = 0 \/ Minus(d, t) >= Half

Running == {runner[r].task : r \in Runners} \ {None}
Without(t) ==
  IF t \in ToSet(timers)
  THEN RemoveAt(timers, CHOOSE i \in DOMAIN timers : timers[i] = t)
  ELSE timers

\* claim_idle: the next idle runner in turn, which the wake unparks.
Turn(r) == (r - nextClaim + NumRunners) % NumRunners
Idle == {r \in Runners : runner[r].idle}
FirstIdle == CHOOSE r \in Idle : \A o \in Idle : Turn(r) <= Turn(o)

Claimed(rs) ==
  IF Idle = {} THEN rs
  ELSE [rs EXCEPT ![FirstIdle] = [@ EXCEPT !.idle = FALSE, !.token = TRUE]]
ClaimedNext == IF Idle = {} THEN nextClaim ELSE (FirstIdle + 1) % NumRunners

\* enqueue, which leaves the runners as rs says.
Enqueue(t, rs) ==
  /\ queue' = Append(queue, t)
  /\ runner' = Claimed(rs) /\ nextClaim' = ClaimedNext

\* Slip: a wake of a running task is lost.
WakeAsleep(t, rs) ==
  IF t \in scheduled \cup Running
  THEN runner' = rs /\ UNCHANGED <<scheduled, queue, nextClaim>>
  ELSE scheduled' = scheduled \cup {t} /\ Enqueue(t, rs)

\* wake: a task that runs is queued by its runner when its poll is over.
Wake(t, rs) ==
  /\ scheduled' = scheduled \cup {t}
  /\ IF t \in scheduled \cup Running
     THEN runner' = rs /\ UNCHANGED <<queue, nextClaim>>
     ELSE Enqueue(t, rs)

\* On to the next place; the clock read is kept only where it is used.
Go(r, place) == [runner EXCEPT ![r] = [@ EXCEPT !.at = place, !.now = 0]]

-----------------------------------------------------------------------------
\* Inner::next, and the clock read for fire_timers that follows: a task off
\* the queue, or the runner is marked idle.
TakeTask(r) ==
  /\ runner[r].at = "next"
  /\ runner' = [runner EXCEPT ![r] =
       [@ EXCEPT !.at = "look",
                 !.task = IF queue = <<>> THEN None ELSE Head(queue),
                 !.idle = queue = <<>>]]
  /\ queue' = IF queue = <<>> THEN queue ELSE Tail(queue)
  /\ UNCHANGED <<now, timers, deadline, armed, left, scheduled, nextClaim>>

Look(r) ==
  /\ runner[r].at = "look"
  /\ runner' = [runner EXCEPT ![r] = [@ EXCEPT !.at = "fire", !.now = now]]
  /\ UNCHANGED <<now, timers, deadline, armed, left, queue, scheduled, nextClaim>>

\* fire_timers: takes the first due node off the list and wakes it ...
Due(r) == {i \in DOMAIN timers : Reached(runner[r].now, deadline[timers[i]])}

FireDue(r) ==
  /\ runner[r].at = "fire"
  /\ \E i \in Due(r) :
       /\ \A j \in Due(r) : i <= j
       /\ timers' = RemoveAt(timers, i)
       /\ Wake(timers[i], runner)
  /\ UNCHANGED <<now, deadline, armed, left>>

\* ... and, when none is, has the ticks to the next deadline.
NextDue(r) ==
  IF timers = <<>> THEN None
  ELSE Min({Minus(deadline[t], runner[r].now) : t \in ToSet(timers)})

\* Slip: no wait at all.
ForgetsWait(r) == None
Waits(r) == NextDue(r)

FireDone(r) ==
  /\ runner[r].at = "fire" /\ Due(r) = {}
  /\ IF runner[r].task = None
     THEN /\ runner' = [runner EXCEPT ![r] = [@ EXCEPT !.at = "park", !.wait = Waits(r)]]
          /\ UNCHANGED scheduled
     ELSE \* run_task: SCHEDULED is cleared as the poll begins
          /\ runner' = Go(r, "poll")
          /\ scheduled' = scheduled \ {runner[r].task}
  /\ UNCHANGED <<now, timers, deadline, armed, left, queue, nextClaim>>

\* Park::park(wait): the ticks count from here, not from the look.
Park(r) ==
  /\ runner[r].at = "park"
  /\ runner' = [runner EXCEPT ![r] = [@ EXCEPT !.at = "parked", !.now = 0, !.wait = None,
                                            !.rest = runner[r].wait]]
  /\ UNCHANGED <<now, timers, deadline, armed, left, queue, scheduled, nextClaim>>

\* park returns on the token, at its timeout, or for nothing; set_busy.
Unparked(r) ==
  [runner EXCEPT ![r] = [@ EXCEPT !.at = "next", !.token = FALSE, !.idle = FALSE,
                                  !.rest = None]]
ParkEnds(r) ==
  /\ runner[r].at = "parked"
  /\ runner' = Unparked(r)
  /\ UNCHANGED <<now, timers, deadline, armed, left, queue, scheduled, nextClaim>>

-----------------------------------------------------------------------------
\* A task's poll.  Timer::poll reads the clock; its first poll fixes the
\* deadline.  Slip: the sum is not wrapped.
DeadlineUnwrapped(n) == now + n
DeadlineIn(n) == (now + n) % Span

PollTimer(r, t, d) ==
  /\ deadline' = [deadline EXCEPT ![t] = d]
  /\ runner' = [runner EXCEPT ![r] = [@ EXCEPT !.at = "timer", !.now = now]]
  /\ UNCHANGED <<now, timers, queue, scheduled, nextClaim>>

FirstPoll(r) ==
  LET t == runner[r].task
  IN  /\ runner[r].at = "poll" /\ t \notin armed
      /\ \E n \in Sleeps :
           /\ left' = [left EXCEPT ![t] = n]
           /\ PollTimer(r, t, DeadlineIn(n))
      /\ armed' = armed \cup {t}

PollAgain(r) ==
  LET t == runner[r].task
  IN  /\ runner[r].at = "poll" /\ t \in armed
      /\ PollTimer(r, t, deadline[t]) /\ UNCHANGED <<armed, left>>

\* unlink_timer, and the timer is gone: it has resolved, or was dropped.
Unlink(t) == timers' = Without(t)
DropTimer(t) ==
  /\ Unlink(t) /\ armed' = armed \ {t}
  /\ left' = [left EXCEPT ![t] = 0] /\ deadline' = [deadline EXCEPT ![t] = 0]

TimerReady(r) ==
  LET t == runner[r].task
  IN  /\ runner[r].at = "timer" /\ Reached(runner[r].now, deadline[t])
      /\ DropTimer(t)
      /\ runner' = Go(r, "poll")
      /\ UNCHANGED <<now, queue, scheduled, nextClaim>>

\* link_timer: a node already in the list only takes the new waker.
Link(t) == IF t \in ToSet(timers) THEN timers ELSE <<t>> \o timers

TimerPending(r) ==
  LET t == runner[r].task
  IN  /\ runner[r].at = "timer" /\ ~Reached(runner[r].now, deadline[t])
      /\ timers' = Link(t)
      /\ runner' = Go(r, "polled")
      /\ UNCHANGED <<now, deadline, armed, left, queue, scheduled, nextClaim>>

\* The future under a timeout, or another branch, is ready first.
DropArmed(r) ==
  LET t == runner[r].task
  IN  /\ runner[r].at = "poll" /\ t \in armed \cap Callers
      /\ DropTimer(t)
      /\ UNCHANGED <<now, queue, scheduled, nextClaim, runner>>

\* The task waits for something else, without a timer.
PollOther(r) ==
  /\ runner[r].at = "poll" /\ runner[r].task \in Callers \ armed
  /\ runner' = Go(r, "polled")
  /\ UNCHANGED <<now, timers, deadline, armed, left, queue, scheduled, nextClaim>>

\* The end of run_task: a task woken meanwhile is queued again.
Polled(r) ==
  LET t == runner[r].task
      back == [runner EXCEPT ![r] = [@ EXCEPT !.at = "next", !.task = None]]
  IN  /\ runner[r].at = "polled"
      /\ IF t \in scheduled THEN Enqueue(t, back)
         ELSE runner' = back /\ UNCHANGED <<queue, nextClaim>>
      /\ UNCHANGED <<now, timers, deadline, armed, left, scheduled>>

-----------------------------------------------------------------------------
\* Anything else a caller waits for wakes it.
Event(t) ==
  /\ Wake(t, runner)
  /\ UNCHANGED <<now, timers, deadline, armed, left>>

\* What keeps wrapping ticks comparable: no timer is passed by half the
\* clock's range, and a runner uses what it read within Slack ticks.
Prompt ==
  /\ \A t \in armed : left[t] > 1 - Half
  /\ \A r \in Runners :
       runner[r].at \in {"fire", "timer", "park"} => Minus(now, runner[r].now) < Slack

Tick ==
  /\ Prompt
  /\ now' = (now + 1) % Span
  /\ left' = [t \in Tasks |-> IF t \in armed THEN left[t] - 1 ELSE 0]
  /\ runner' = [r \in Runners |->
       IF runner[r].rest \in {None, 0} THEN runner[r]
       ELSE [runner[r] EXCEPT !.rest = @ - 1]]
  /\ UNCHANGED <<timers, deadline, armed, queue, scheduled, nextClaim>>

RunnerStep(r) ==
  \/ TakeTask(r) \/ Look(r) \/ FireDue(r) \/ FireDone(r) \/ Park(r)
  \/ FirstPoll(r) \/ PollAgain(r) \/ TimerReady(r) \/ TimerPending(r)
  \/ DropArmed(r) \/ PollOther(r) \/ Polled(r)

Next ==
  \/ \E r \in Runners : RunnerStep(r) \/ ParkEnds(r)
  \/ \E t \in Callers : Event(t)
  \/ Tick

Spec == Init /\ [][Next]_vars

\* Runners go on, the clock runs, and a park ends at its timeout or token.
ParkOver(r) == (runner[r].token \/ runner[r].rest = 0) /\ ParkEnds(r)

FairSpec ==
  /\ Spec /\ WF_vars(Tick)
  /\ \A r \in Runners : WF_vars(RunnerStep(r)) /\ WF_vars(ParkOver(r))

-----------------------------------------------------------------------------
Places == {"next", "look", "fire", "park", "parked", "poll", "timer", "polled"}
Ticks == 0..(Span - 1)
RunnerStates ==
  [at : Places, task : Tasks \cup {None}, now : Ticks, wait : Ticks \cup {None},
   rest : Ticks \cup {None}, idle : BOOLEAN, token : BOOLEAN]

TypeOK ==
  /\ now \in Ticks /\ deadline \in [Tasks -> Ticks]
  /\ timers \in Seq(Tasks) /\ armed \subseteq Tasks
  /\ left \in [Tasks -> (1 - Half)..(Span - 1)]
  /\ queue \in Seq(Tasks) /\ scheduled \subseteq Tasks /\ nextClaim \in Runners
  /\ runner \in [Runners -> RunnerStates]

\* A sleep never ends early, also when the tick counter wraps under it.
NeverEarly ==
  [][\A r \in Runners : TimerReady(r) => left[runner[r].task] <= 0]_vars

\* The list holds the nodes of live timers, each once: what a finished or
\* dropped timer leaves behind would be a dangling pointer.
LinkedLive == IsInjective(timers) /\ ToSet(timers) \subseteq armed

\* The runner has its sight on the timer of t: it will look again before it
\* sleeps, or sleeps no longer than to its due time, by the clock it looked at.
Covers(r, t) ==
  LET wait == IF runner[r].at = "park" THEN runner[r].wait ELSE runner[r].rest
  IN  \/ runner[r].at \notin {"park", "parked"}
      \/ runner[r].token
      \/ wait # None /\ (wait = 0 \/ wait <= left[t] + Slack)

\* No linked timer is left to a sleep that does not know of it.
TimersCovered == \A t \in ToSet(timers) : \E r \in Runners : Covers(r, t)

\* The list knows the timers that are waited for, and a runner knows the list.
TimersKept == LinkedLive /\ TimersCovered

\* Every sleep ends.
SleepEnds == \A t \in Tasks : []<>(t \notin armed)
=============================================================================
