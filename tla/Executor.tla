------------------------------ MODULE Executor ------------------------------
(***************************************************************************)
(* devkit::executor: tasks, run queue, runners, wakers and join handles.   *)
(*                                                                         *)
(* A task block holds the future, then its output; its state word has one  *)
(* bit per flag and is changed by atomic operations outside the critical   *)
(* section too.  Runners take tasks off the queue and poll them.  Contexts *)
(* are whatever else wakes, spawns and drops wakers: other tasks, cores,   *)
(* interrupts, timers, and the code of a future while it is polled (a      *)
(* runner stands still at "poll" meanwhile).  Each task is also the name   *)
(* of the owner of its JoinHandle, an actor of its own.                    *)
(*                                                                         *)
(* Each action is one atomic access the others can see: an operation on a  *)
(* state word, a critical section, an access to the stage, an unpark.      *)
(***************************************************************************)
EXTENDS Integers, Sequences, FiniteSets, FiniteSetsExt, SequencesExt

CONSTANTS Tasks,        \* the tasks that are spawned, each once
          Detached,     \* those whose handle is dropped at once
          NumRunners,   \* tasks that run the executor, slots 0 .. NumRunners - 1
          Contexts,
          Main,         \* the runner in run_until, which only a LocalExecutor has
                        \* and thus alone, or None when all are in run()
          MaxWakers,    \* bound on the clones of a task's waker alive at once
          None

Runners == 0 .. NumRunners - 1

ASSUME ExecutorAssumption ==
  /\ IsFiniteSet(Tasks) /\ IsFiniteSet(Contexts) /\ Detached \subseteq Tasks
  /\ NumRunners \in Nat \ {0} /\ NumRunners <= 8
  /\ Tasks \cap Contexts = {} /\ Tasks \cap Runners = {} /\ Contexts \cap Runners = {}
  /\ None \notin Tasks \cup Contexts \cup Runners
  /\ Main \in Runners \cup {None} /\ (Main # None => NumRunners = 1)
  /\ MaxWakers \in Nat

VARIABLES state,       \* Header::state, the set of flags that are up
          refs,        \* Header::refs
          stage,       \* what the task block holds
          wakers,      \* clones of its waker held outside the executor
          queue,       \* the run queue
          all,         \* the tasks the executor will have to drop
          runner,      \* Shared::runners: absent, busy or idle
          nextClaim,   \* where claim_idle starts to look
          shutDown,
          token,       \* a runner's Park was unparked
          woken,       \* Main::woken
          joinWaker,   \* the task's join waker is stored
          joinSignal,  \* the owner of the handle was woken
          pc,
          task,        \* the task a runner or a context works on
          claimed,     \* the runner an actor has to unpark
          kept,        \* finish() saw a handle
          owed,        \* finish() took a join waker to wake
          drain        \* the registry list shut_down took and walks

vars == <<state, refs, stage, wakers, queue, all, runner, nextClaim, shutDown, token,
          woken, joinWaker, joinSignal, pc, task, claimed, kept, owed, drain>>

taskVars   == <<state, refs, stage, wakers>>
sharedVars == <<queue, all, runner, nextClaim, shutDown>>
joinVars   == <<joinWaker, joinSignal>>
localVars  == <<kept, owed, drain>>

Flags  == {"SCHEDULED", "RUNNING", "COMPLETE", "ABORTED", "HANDLE"}
Actors == Tasks \cup Contexts \cup Runners

RunnerPCs  == {"start", "main", "pollmain", "next", "decide", "park", "busy",
               "begin", "poll", "abort", "yield", "finish", "finished", "wakejoin",
               "leave", "shutdown", "drainqueue", "drainall", "drainstage", "ended"}
HandlePCs  == {"none", "held", "register", "pending", "take", "detach", "dropout",
               "release", "gone", "panicked"}
PCs == RunnerPCs \cup HandlePCs \cup {"idle", "enqueue", "unpark"}

TypeOK ==
  /\ state \in [Tasks -> SUBSET Flags]
  /\ refs \in [Tasks -> Nat]
  /\ stage \in [Tasks -> {"none", "future", "output", "consumed", "freed", "spilt"}]
  /\ wakers \in [Tasks -> 0 .. MaxWakers]
  /\ queue \in Seq(Tasks)
  /\ all \in SUBSET Tasks
  /\ runner \in [Runners -> {"absent", "busy", "idle"}]
  /\ nextClaim \in Runners
  /\ shutDown \in BOOLEAN
  /\ token \in [Runners -> BOOLEAN]
  /\ woken \in BOOLEAN
  /\ joinWaker \in [Tasks -> BOOLEAN]
  /\ joinSignal \in [Tasks -> BOOLEAN]
  /\ pc \in [Actors -> PCs]
  /\ task \in [Actors -> Tasks \cup {None}]
  /\ claimed \in [Actors -> Runners \cup {None}]
  /\ kept \in [Runners -> BOOLEAN]
  /\ owed \in [Runners -> BOOLEAN]
  /\ drain \in SUBSET Tasks

Init ==
  /\ state = [t \in Tasks |-> {}]
  /\ refs = [t \in Tasks |-> 0]
  /\ stage = [t \in Tasks |-> "none"]
  /\ wakers = [t \in Tasks |-> 0]
  /\ queue = <<>>
  /\ all = {}
  /\ runner = [r \in Runners |-> "absent"]
  /\ nextClaim = 0
  /\ shutDown = FALSE
  /\ token = [r \in Runners |-> FALSE]
  /\ woken = TRUE
  /\ joinWaker = [t \in Tasks |-> FALSE]
  /\ joinSignal = [t \in Tasks |-> FALSE]
  /\ pc = [a \in Actors |-> IF a \in Runners THEN "start"
                            ELSE IF a \in Contexts THEN "idle" ELSE "none"]
  /\ task = [a \in Actors |-> IF a \in Tasks THEN a ELSE None]
  /\ claimed = [a \in Actors |-> None]
  /\ kept = [r \in Runners |-> FALSE]
  /\ owed = [r \in Runners |-> FALSE]
  /\ drain = {}

-----------------------------------------------------------------------------
(* Helpers. *)

Goto(a, p) == pc' = [pc EXCEPT ![a] = p]

\* Where a runner goes round.
Loop(r) == IF r = Main THEN "main" ELSE "next"

\* Where an actor goes on after it queued a task or unparked a runner.
Resume(a) == IF a \in Runners THEN Loop(a) ELSE IF a \in Contexts THEN "idle" ELSE "detach"

\* n references to t are dropped; the last one frees the block, and with it
\* what the stage still holds.
Release(t, n, st) ==
  /\ refs' = [refs EXCEPT ![t] = @ - n]
  /\ stage' = IF refs[t] # n THEN st
              ELSE [st EXCEPT ![t] = IF @ = "consumed" THEN "freed" ELSE "spilt"]

\* Slip: a clone is not counted.
ClonedFree(t) == refs

Cloned(t) == [refs EXCEPT ![t] = @ + 1]

Consumed(t) == [stage EXCEPT ![t] = "consumed"]

IdleRunners == {r \in Runners : runner[r] = "idle"}

\* The idle runners in the order claim_idle looks at them.
Turn(r) == (r - nextClaim + NumRunners) % NumRunners

\* The idle runner claim_idle takes: the first one from nextClaim on.
FirstIdle ==
  IF IdleRunners = {} THEN None
  ELSE CHOOSE r \in IdleRunners : \A o \in IdleRunners : Turn(r) <= Turn(o)

\* Inner::push.
Pushed(t) == Append(queue, t)

\* claim_idle: an idle runner, now marked busy, that the actor will unpark.
Claim(a) ==
  /\ claimed' = [claimed EXCEPT ![a] = FirstIdle]
  /\ runner' = [r \in Runners |-> IF r = FirstIdle THEN "busy" ELSE runner[r]]
  /\ nextClaim' = IF FirstIdle = None THEN nextClaim ELSE (FirstIdle + 1) % NumRunners

AfterClaim(a) == IF FirstIdle = None THEN Resume(a) ELSE "unpark"

\* Slip: a wakeup while the task is being polled queues it at once.
AsleepOrRunning(flags) == flags \cap {"SCHEDULED", "COMPLETE"} = {}

\* Whoever sets SCHEDULED queues the task, unless it is queued already, or runs
\* and will be queued by its runner, or is done.
Asleep(flags) == flags \cap {"SCHEDULED", "RUNNING", "COMPLETE"} = {}

-----------------------------------------------------------------------------
(* Spawning and waking, from any context. *)

\* The handle is kept or dropped.
Spawned(t) == IF t \in Detached THEN "detach" ELSE "held"

\* Inner::spawn.  References: the registry's, the queue's, the handle's.  An
\* executor that was dropped drops the future here.
Spawn(x, t) ==
  /\ pc[x] = "idle" /\ stage[t] = "none"
  /\ state' = [state EXCEPT ![t] = {"SCHEDULED", "HANDLE"}
                                   \cup IF shutDown THEN {"COMPLETE"} ELSE {}]
  /\ IF shutDown
     THEN /\ stage' = Consumed(t)
          /\ refs' = [refs EXCEPT ![t] = 1]
          /\ pc' = [pc EXCEPT ![t] = Spawned(t)]
          /\ UNCHANGED <<queue, all, runner, nextClaim, claimed>>
     ELSE /\ stage' = [stage EXCEPT ![t] = "future"]
          /\ refs' = [refs EXCEPT ![t] = 3]
          /\ pc' = [pc EXCEPT ![t] = Spawned(t), ![x] = AfterClaim(x)]
          /\ all' = all \cup {t}
          /\ queue' = Pushed(t)
          /\ Claim(x)
  /\ UNCHANGED <<wakers, shutDown, token, woken, joinVars, task, localVars>>

\* What waking a task does to its state word; whether the waker then queues it.
SetScheduled(a, t) ==
  /\ state' = [state EXCEPT ![t] = @ \cup {"SCHEDULED"}]
  /\ Goto(a, IF Asleep(state[t]) THEN "enqueue" ELSE "idle")
  /\ task' = [task EXCEPT ![a] = IF Asleep(state[t]) THEN t ELSE None]

\* A waker is woken by value: its reference goes to the queue or is dropped.
Wake(x, t) ==
  /\ pc[x] = "idle" /\ wakers[t] > 0
  /\ wakers' = [wakers EXCEPT ![t] = @ - 1]
  /\ SetScheduled(x, t)
  /\ IF Asleep(state[t]) THEN UNCHANGED <<refs, stage>> ELSE Release(t, 1, stage)
  /\ UNCHANGED <<sharedVars, token, woken, joinVars, claimed, localVars>>

\* ... or by reference, as interrupts do.
WakeByRef(x, t) ==
  /\ pc[x] = "idle" /\ wakers[t] > 0
  /\ SetScheduled(x, t)
  /\ refs' = IF Asleep(state[t]) THEN Cloned(t) ELSE refs
  /\ UNCHANGED <<stage, wakers, sharedVars, token, woken, joinVars, claimed, localVars>>

DropWaker(x, t) ==
  /\ pc[x] = "idle" /\ wakers[t] > 0
  /\ wakers' = [wakers EXCEPT ![t] = @ - 1]
  /\ Release(t, 1, stage)
  /\ UNCHANGED <<state, sharedVars, token, woken, joinVars, pc, task, claimed, localVars>>

\* Slip: the runner is not unparked.
WakeMainQuietly(x) ==
  /\ pc[x] = "idle" /\ Main # None /\ pc[Main] # "start"
  /\ woken' = TRUE
  /\ UNCHANGED <<taskVars, sharedVars, token, joinVars, pc, task, claimed, localVars>>

\* Wakes run_until's future.
WakeMain(x) ==
  /\ pc[x] = "idle" /\ Main # None /\ pc[Main] # "start"
  /\ woken' = TRUE
  /\ claimed' = [claimed EXCEPT ![x] = Main]
  /\ Goto(x, "unpark")
  /\ UNCHANGED <<taskVars, sharedVars, token, joinVars, task, localVars>>

\* enqueue(): a task woken outside its run, or by its own runner after it.
Enqueue(a) ==
  /\ pc[a] = "enqueue"
  /\ IF shutDown
     THEN /\ Release(task[a], 1, stage)
          /\ Goto(a, Resume(a))
          /\ UNCHANGED <<queue, runner, nextClaim, claimed>>
     ELSE /\ queue' = Pushed(task[a])
          /\ Claim(a)
          /\ Goto(a, AfterClaim(a))
          /\ UNCHANGED <<refs, stage>>
  /\ task' = [task EXCEPT ![a] = IF a \in Tasks THEN a ELSE None]
  /\ UNCHANGED <<state, wakers, all, shutDown, token, woken, joinVars, localVars>>

Unpark(a) ==
  /\ pc[a] = "unpark"
  /\ token' = [token EXCEPT ![claimed[a]] = TRUE]
  /\ claimed' = [claimed EXCEPT ![a] = None]
  /\ Goto(a, Resume(a))
  /\ UNCHANGED <<taskVars, sharedVars, woken, joinVars, task, localVars>>

-----------------------------------------------------------------------------
(* A runner. *)

Register(r) ==
  /\ pc[r] = "start"
  /\ runner' = [runner EXCEPT ![r] = "busy"]
  /\ Goto(r, Loop(r))
  /\ UNCHANGED <<taskVars, queue, all, nextClaim, shutDown, token, woken, joinVars,
                 task, claimed, localVars>>

\* run_until looks whether its own future was woken ...
LookMain(r) ==
  /\ pc[r] = "main"
  /\ woken' = FALSE
  /\ Goto(r, IF woken THEN "pollmain" ELSE "next")
  /\ UNCHANGED <<taskVars, sharedVars, token, joinVars, task, claimed, localVars>>

\* ... and polls it; when it is done the runner leaves and the executor is
\* dropped, as block_on does.
PollMain(r) ==
  /\ pc[r] = "pollmain"
  /\ \E p \in {"next", "leave"} : Goto(r, p)
  /\ UNCHANGED <<taskVars, sharedVars, token, woken, joinVars, task, claimed, localVars>>

\* Inner::next: a task off the queue, or the runner is idle.  Timers fire after
\* it, woken like everything else by contexts.
NextTask(r) ==
  /\ pc[r] = "next"
  /\ IF queue # <<>>
     THEN /\ task' = [task EXCEPT ![r] = Head(queue)]
          /\ queue' = Tail(queue)
          /\ Goto(r, "begin")
          /\ UNCHANGED runner
     ELSE /\ runner' = [runner EXCEPT ![r] = "idle"]
          /\ Goto(r, "decide")
          /\ UNCHANGED <<queue, task>>
  /\ UNCHANGED <<taskVars, all, nextClaim, shutDown, token, woken, joinVars,
                 claimed, localVars>>

\* A runner in run_until does not park once its future was woken.
Decide(r) ==
  /\ pc[r] = "decide"
  /\ Goto(r, IF r = Main /\ woken THEN "busy" ELSE "park")
  /\ UNCHANGED <<taskVars, sharedVars, token, woken, joinVars, task, claimed, localVars>>

\* Park::park returns after unpark(), also before it was called ...
Parked(r) ==
  /\ pc[r] = "park" /\ token[r]
  /\ token' = [token EXCEPT ![r] = FALSE]
  /\ Goto(r, "busy")
  /\ UNCHANGED <<taskVars, sharedVars, woken, joinVars, task, claimed, localVars>>

\* ... or when the next timer is due.
ParkTimeout(r) ==
  /\ pc[r] = "park" /\ ~token[r]
  /\ Goto(r, "busy")
  /\ UNCHANGED <<taskVars, sharedVars, token, woken, joinVars, task, claimed, localVars>>

SetBusy(r) ==
  /\ pc[r] = "busy"
  /\ runner' = [runner EXCEPT ![r] = "busy"]
  /\ Goto(r, Loop(r))
  /\ UNCHANGED <<taskVars, queue, all, nextClaim, shutDown, token, woken, joinVars,
                 task, claimed, localVars>>

-----------------------------------------------------------------------------
(* run_task. *)

\* Slip: SCHEDULED stays up while the task runs.
Started(flags) == flags \cup {"RUNNING"}

\* Taking the task off the queue makes room for the next wakeup.
Begun(flags) == (flags \ {"SCHEDULED"}) \cup {"RUNNING"}

\* Slip: an aborted task is polled like any other.
TurnPolls(flags) == "poll"

\* What the runner does with the task in its turn.
TurnFor(flags) == IF "ABORTED" \in flags THEN "abort" ELSE "poll"

Begin(r) ==
  LET t == task[r] IN
  /\ pc[r] = "begin"
  /\ state' = [state EXCEPT ![t] = Begun(@)]
  /\ IF "COMPLETE" \in state[t]
     THEN /\ Release(t, 1, stage)
          /\ task' = [task EXCEPT ![r] = None]
          /\ Goto(r, Loop(r))
     ELSE /\ Goto(r, TurnFor(state[t]))
          /\ UNCHANGED <<refs, stage, task>>
  /\ UNCHANGED <<wakers, sharedVars, token, woken, joinVars, claimed, localVars>>

\* The future clones its waker and leaves it with somebody.
CloneWaker(r) ==
  LET t == task[r] IN
  /\ pc[r] = "poll" /\ wakers[t] < MaxWakers
  /\ wakers' = [wakers EXCEPT ![t] = @ + 1]
  /\ refs' = Cloned(t)
  /\ UNCHANGED <<state, stage, sharedVars, token, woken, joinVars, pc, task, claimed,
                 localVars>>

PollReady(r) ==
  /\ pc[r] = "poll"
  /\ stage' = [stage EXCEPT ![task[r]] = "output"]
  /\ Goto(r, "finish")
  /\ UNCHANGED <<state, refs, wakers, sharedVars, token, woken, joinVars, task, claimed,
                 localVars>>

PollPending(r) ==
  /\ pc[r] = "poll"
  /\ Goto(r, "yield")
  /\ UNCHANGED <<taskVars, sharedVars, token, woken, joinVars, task, claimed, localVars>>

\* The future of an aborted task is dropped instead of polled.
DropAborted(r) ==
  /\ pc[r] = "abort"
  /\ stage' = Consumed(task[r])
  /\ Goto(r, "finish")
  /\ UNCHANGED <<state, refs, wakers, sharedVars, token, woken, joinVars, task, claimed,
                 localVars>>

\* Whether the runner has to queue the task it polled.
AfterYield(flags) == "SCHEDULED" \in flags

Yield(r) ==
  LET t == task[r] IN
  /\ pc[r] = "yield"
  /\ state' = [state EXCEPT ![t] = @ \ {"RUNNING"}]
  /\ IF AfterYield(state[t])
     THEN Goto(r, "enqueue") /\ UNCHANGED <<refs, stage, task>>
     ELSE /\ Release(t, 1, stage)
          /\ task' = [task EXCEPT ![r] = None]
          /\ Goto(r, Loop(r))
  /\ UNCHANGED <<wakers, sharedVars, token, woken, joinVars, claimed, localVars>>

\* finish() in the critical section.
Finish(r) ==
  LET t == task[r] IN
  /\ pc[r] = "finish"
  /\ state' = [state EXCEPT ![t] = (@ \ {"RUNNING", "SCHEDULED"}) \cup {"COMPLETE"}]
  /\ kept' = [kept EXCEPT ![r] = "HANDLE" \in state[t]]
  /\ owed' = [owed EXCEPT ![r] = joinWaker[t]]
  /\ joinWaker' = [joinWaker EXCEPT ![t] = FALSE]
  /\ all' = all \ {t}
  /\ Goto(r, "finished")
  /\ UNCHANGED <<refs, stage, wakers, queue, runner, nextClaim, shutDown, token, woken,
                 joinSignal, task, claimed, drain>>

\* Nobody will take the output of a detached task.
FinishedStage(t, handle) == IF handle THEN stage ELSE Consumed(t)

FinishDrop(r) ==
  /\ pc[r] = "finished"
  /\ stage' = FinishedStage(task[r], kept[r])
  /\ Goto(r, "wakejoin")
  /\ UNCHANGED <<state, refs, wakers, sharedVars, token, woken, joinVars, task, claimed,
                 localVars>>

\* The join waker is woken, and the registry's and the runner's references go.
WakeJoin(r) ==
  LET t == task[r] IN
  /\ pc[r] = "wakejoin"
  /\ joinSignal' = [joinSignal EXCEPT ![t] = @ \/ owed[r]]
  /\ Release(t, 2, stage)
  /\ task' = [task EXCEPT ![r] = None]
  /\ owed' = [owed EXCEPT ![r] = FALSE]
  /\ kept' = [kept EXCEPT ![r] = FALSE]
  /\ Goto(r, Loop(r))
  /\ UNCHANGED <<state, wakers, sharedVars, token, woken, joinWaker, claimed, drain>>

-----------------------------------------------------------------------------
(* The executor is dropped. *)

Leave(r) ==
  /\ pc[r] = "leave"
  /\ runner' = [runner EXCEPT ![r] = "absent"]
  /\ Goto(r, "shutdown")
  /\ UNCHANGED <<taskVars, queue, all, nextClaim, shutDown, token, woken, joinVars,
                 task, claimed, localVars>>

\* shut_down takes the queue and the registry; the queue's references are
\* dropped first, and none is the last.
ShutDown(r) ==
  /\ pc[r] = "shutdown"
  /\ shutDown' = TRUE
  /\ drain' = all
  /\ all' = {}
  /\ Goto(r, "drainqueue")
  /\ UNCHANGED <<taskVars, queue, runner, nextClaim, token, woken, joinVars, task,
                 claimed, kept, owed>>

DrainQueue(r) ==
  /\ pc[r] = "drainqueue"
  /\ IF queue = <<>>
     THEN Goto(r, "drainall") /\ UNCHANGED <<queue, refs, stage>>
     ELSE /\ queue' = Tail(queue)
          /\ Release(Head(queue), 1, stage)
          /\ UNCHANGED pc
  /\ UNCHANGED <<state, wakers, all, runner, nextClaim, shutDown, token, woken, joinVars,
                 task, claimed, localVars>>

\* Each task is marked complete in the critical section ...
DrainMark(r) ==
  /\ pc[r] = "drainall"
  /\ IF drain = {}
     THEN Goto(r, "ended") /\ UNCHANGED <<state, joinWaker, task, drain>>
     ELSE \E t \in drain :
            /\ state' = [state EXCEPT ![t] = @ \cup {"COMPLETE"}]
            /\ joinWaker' = [joinWaker EXCEPT ![t] = FALSE]
            /\ drain' = drain \ {t}
            /\ task' = [task EXCEPT ![r] = t]
            /\ Goto(r, "drainstage")
  /\ UNCHANGED <<refs, stage, wakers, sharedVars, token, woken, joinSignal, claimed,
                 kept, owed>>

\* ... its future dropped outside of it, and its join waker dropped unwoken.
DrainStage(r) ==
  LET t == task[r] IN
  /\ pc[r] = "drainstage"
  /\ Release(t, 1, Consumed(t))
  /\ task' = [task EXCEPT ![r] = None]
  /\ Goto(r, "drainall")
  /\ UNCHANGED <<state, wakers, sharedVars, token, woken, joinVars, claimed, localVars>>

-----------------------------------------------------------------------------
(* The owner of a JoinHandle. *)

\* JoinHandle::poll, first or after a wakeup, looks at the state word ...
JoinPoll(t) ==
  /\ pc[t] \in {"held", "pending"}
  /\ Goto(t, IF "COMPLETE" \in state[t] THEN "take" ELSE "register")
  /\ joinSignal' = [joinSignal EXCEPT ![t] = FALSE]
  /\ UNCHANGED <<taskVars, sharedVars, token, woken, joinWaker, task, claimed, localVars>>

\* ... and registers in the critical section, unless the task finished since.
JoinRegister(t) ==
  /\ pc[t] = "register"
  /\ IF "COMPLETE" \in state[t]
     THEN Goto(t, "take") /\ UNCHANGED joinWaker
     ELSE Goto(t, "pending") /\ joinWaker' = [joinWaker EXCEPT ![t] = TRUE]
  /\ UNCHANGED <<taskVars, sharedVars, token, woken, joinSignal, task, claimed, localVars>>

\* take_output panics when the executor was dropped first.
JoinTake(t) ==
  /\ pc[t] = "take"
  /\ Goto(t, IF stage[t] = "output" THEN "detach" ELSE "panicked")
  /\ stage' = Consumed(t)
  /\ UNCHANGED <<state, refs, wakers, sharedVars, token, woken, joinVars, task, claimed,
                 localVars>>

\* JoinHandle::abort; its clone of the reference goes to the queue.
Abort(t) ==
  /\ pc[t] \in {"held", "pending"}
  /\ state' = [state EXCEPT ![t] = @ \cup {"ABORTED", "SCHEDULED"}]
  /\ IF Asleep(state[t])
     THEN /\ refs' = Cloned(t)
          /\ Goto(t, "enqueue")
     ELSE Goto(t, "detach") /\ UNCHANGED refs
  /\ UNCHANGED <<stage, wakers, sharedVars, token, woken, joinVars, task, claimed, localVars>>

DropHandle(t) ==
  /\ pc[t] \in {"held", "pending"}
  /\ Goto(t, "detach")
  /\ UNCHANGED <<taskVars, sharedVars, token, woken, joinVars, task, claimed, localVars>>

\* Slip: detach drops the output, finished or not.
DetachDrops(flags) == TRUE

\* Whether detach is left with the output to drop.
DetachOwns(flags) == "COMPLETE" \in flags

\* detach() in the critical section; what it may drop it drops outside.
Detach(t) ==
  /\ pc[t] = "detach"
  /\ state' = [state EXCEPT ![t] = @ \ {"HANDLE"}]
  /\ joinWaker' = [joinWaker EXCEPT ![t] = FALSE]
  /\ Goto(t, IF DetachOwns(state[t]) THEN "dropout" ELSE "release")
  /\ UNCHANGED <<refs, stage, wakers, sharedVars, token, woken, joinSignal, task, claimed,
                 localVars>>

DropOutput(t) ==
  /\ pc[t] = "dropout"
  /\ stage' = Consumed(t)
  /\ Goto(t, "release")
  /\ UNCHANGED <<state, refs, wakers, sharedVars, token, woken, joinVars, task, claimed,
                 localVars>>

ReleaseHandle(t) ==
  /\ pc[t] = "release"
  /\ Release(t, 1, stage)
  /\ Goto(t, "gone")
  /\ UNCHANGED <<state, wakers, sharedVars, token, woken, joinVars, task, claimed, localVars>>

-----------------------------------------------------------------------------
ContextStep(x) ==
  \/ WakeMain(x)
  \/ \E t \in Tasks : Spawn(x, t) \/ Wake(x, t) \/ WakeByRef(x, t) \/ DropWaker(x, t)

TurnStep(r) ==
  \/ Register(r) \/ LookMain(r) \/ NextTask(r) \/ Decide(r) \/ Parked(r) \/ SetBusy(r)
  \/ Begin(r) \/ DropAborted(r) \/ Yield(r) \/ Finish(r) \/ FinishDrop(r) \/ WakeJoin(r)

EndStep(r) == Leave(r) \/ ShutDown(r) \/ DrainQueue(r) \/ DrainMark(r) \/ DrainStage(r)

\* What a future decides while it is polled.
PollStep(r) == PollReady(r) \/ PollPending(r)

RunnerStep(r) ==
  \/ TurnStep(r) \/ EndStep(r) \/ PollStep(r)
  \/ PollMain(r) \/ CloneWaker(r) \/ ParkTimeout(r)

HandleStep(t) ==
  \/ JoinPoll(t) \/ JoinRegister(t) \/ JoinTake(t) \/ Abort(t) \/ DropHandle(t)
  \/ Detach(t) \/ DropOutput(t) \/ ReleaseHandle(t)

Next ==
  \/ \E x \in Contexts : ContextStep(x)
  \/ \E r \in Runners : RunnerStep(r)
  \/ \E t \in Tasks : HandleStep(t)
  \/ \E a \in Actors : Enqueue(a) \/ Unpark(a)

Spec == Init /\ [][Next]_vars

\* Runners run, a poll returns (that of run_until's own future too), and who is
\* about to queue a task or to unpark a runner does.
Fairness ==
  /\ \A r \in Runners :
       WF_vars(TurnStep(r) \/ EndStep(r) \/ PollStep(r) \/ PollMain(r) \/ Enqueue(r) \/ Unpark(r))
  /\ \A a \in Contexts \cup (Tasks \ Detached) : WF_vars(Enqueue(a) \/ Unpark(a))

FairSpec == Spec /\ Fairness

-----------------------------------------------------------------------------
(* Properties. *)

Working(r) == pc[r] \in {"begin", "poll", "abort", "yield", "finish", "enqueue"}

\* Who refers to the block of t: the registry, the queue, the wakers outside,
\* the handle, and whoever has taken one of these references over.
Holders(t) ==
    (IF t \in all \cup drain THEN 1 ELSE 0)
  + Cardinality({i \in DOMAIN queue : queue[i] = t})
  + wakers[t]
  + (IF pc[t] \in {"none", "gone"} THEN 0 ELSE 1)
  + Cardinality({a \in Contexts \cup Tasks : pc[a] = "enqueue" /\ task[a] = t})
  + Cardinality({r \in Runners : task[r] = t /\ (Working(r) \/ pc[r] = "drainstage")})
  + 2 * Cardinality({r \in Runners : task[r] = t /\ pc[r] \in {"finished", "wakejoin"}})

\* Every reference is somebody's and everybody's is counted: the block is freed
\* with the last holder, neither while one is left nor never.
RefsCounted == \A t \in Tasks : refs[t] = Holders(t)

\* Freeing a block drops neither a future nor an output: the last reference may
\* go on any task, far from the executor.
NothingSpilt == \A t \in Tasks : stage[t] # "spilt"

\* Who accesses the stage of t, without any lock.
OnStage(t) ==
  {r \in Runners : /\ task[r] = t
                   /\ \/ pc[r] \in {"poll", "abort", "drainstage"}
                      \/ pc[r] = "finished" /\ ~kept[r]}
  \cup {a \in {t} : pc[a] \in {"take", "dropout"}}

\* One at a time: the flags of the state word decide who may.
StageOwned == \A t \in Tasks : Cardinality(OnStage(t)) <= 1

\* A task's block is freed with its last holder, and is empty by then.
BlocksFreed == RefsCounted /\ NothingSpilt

\* ... and what it holds is never in two hands before.
TasksIntact == BlocksFreed /\ StageOwned

\* A task is in one place at most, the queue, on its way to it or with a
\* runner: its one queue link is never used twice, nor is it polled by two.
QueuedOnce ==
  \A t \in Tasks :
      Cardinality({i \in DOMAIN queue : queue[i] = t})
    + Cardinality({a \in Contexts \cup Tasks : pc[a] = "enqueue" /\ task[a] = t})
    + Cardinality({r \in Runners : task[r] = t /\ Working(r)}) <= 1

\* A wakeup is never lost: a task with SCHEDULED up is queued, about to be, or
\* with a runner that will look at the flag again.
ScheduledWillRun ==
  \A t \in Tasks :
    "SCHEDULED" \in state[t] /\ "COMPLETE" \notin state[t] /\ ~shutDown =>
      \/ \E i \in DOMAIN queue : queue[i] = t
      \/ \E a \in Contexts \cup Tasks : pc[a] = "enqueue" /\ task[a] = t
      \/ \E r \in Runners : task[r] = t /\ Working(r)

\* A runner that sleeps was left idle, or is about to be unparked.
BusyRunnersWake ==
  \A r \in Runners :
    pc[r] = "park" /\ (runner[r] = "busy" \/ (r = Main /\ woken)) =>
      token[r] \/ \E a \in Actors : pc[a] = "unpark" /\ claimed[a] = r

\* No runner is left idle while tasks queue up behind the others: each of them
\* has a runner of its own that is about to look at the queue.
QueueAttended ==
  IdleRunners # {} =>
    Len(queue) <= Cardinality({r \in Runners :
      runner[r] = "busy" /\ pc[r] \in {"main", "pollmain", "next", "decide", "park", "busy"}})

\* Who awaits a finished task has been woken or is about to be: "awaiting one
\* of them panics" once the executor was dropped, rather than waiting on.
JoinerHears ==
  \A t \in Tasks :
    pc[t] = "pending" /\ "COMPLETE" \in state[t] =>
      joinSignal[t] \/ \E r \in Runners : task[r] = t /\ owed[r]

\* Nobody who is woken is forgotten: a task has one way to its next turn,
\* neither none nor two, a runner for it, and its joiner hears of its end.
WakeupsKept == QueuedOnce /\ ScheduledWillRun /\ QueueAttended /\ JoinerHears

\* A future is dropped by a runner, "on the owning executor", never by whoever
\* holds its handle or a waker.
FutureStaysHome ==
  [][\A t \in Tasks :
       stage[t] = "future" /\ stage'[t] # "future" =>
         \E r \in Runners : r \in OnStage(t) /\ pc'[r] # pc[r]]_vars

\* The executor implements TaskSpec: tasks get their turns, and only theirs.
Turns == INSTANCE TaskSpec WITH
  owed    <- [t \in Tasks |-> "SCHEDULED" \in state[t]],
  running <- [t \in Tasks |-> \E r \in Runners : /\ task[r] = t
                 /\ pc[r] \in {"poll", "abort", "yield", "finish"}],
  done    <- [t \in Tasks |-> "COMPLETE" \in state[t]]
Implements == Turns!Spec

\* A woken task gets its turn, and one aborted through its handle comes to an
\* end, whatever it was doing: neither flag stays up on a task that goes on.
TasksGoOn ==
  /\ \A t \in Tasks : []<>("SCHEDULED" \notin state[t] \/ "COMPLETE" \in state[t])
  /\ \A t \in Tasks \ Detached : []<>("ABORTED" \notin state[t] \/ "COMPLETE" \in state[t])
=============================================================================
