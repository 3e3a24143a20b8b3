# TLA+ models of esp-devkit

esp-devkit is a Rust and C workspace for ESP32 boards: an async executor and
locks of its own, an IP stack, drivers, a UI, media and audio libraries, and a
host simulator. This directory holds TLA+ specifications of the parts whose
correctness depends on the order in which things happen, the TLC models that
check them, and TLAPS proofs. Paths below are relative to `src/`.

Contents

1. [The system](#1-the-system)
2. [What is modelled](#2-what-is-modelled)
3. [The lock](#3-the-lock-rawlock)
4. [The executor](#4-the-executor-executor)
5. [The channel](#5-the-channel-channel)
6. [The timers](#6-the-timers-timers)
7. [The media buffer](#7-the-media-buffer-buffer)
8. [TCP](#8-tcp-tcp)
9. [The coprocessor link](#9-the-coprocessor-link-hosted-coprocessor)
10. [Mail and parks](#10-mail-and-parks-mailbox-notify)
11. [Runs, bounds and fairness](#11-runs-bounds-and-fairness)
12. [Proofs](#12-proofs)
13. [What the code does that its documentation does not say](#13-what-the-code-does-that-its-documentation-does-not-say)
14. [Plan](#14-plan)
15. [Not modelled](#15-not-modelled)

## 1. The system

Everything asynchronous on the device runs on `libs/devkit`: tasks are polled
by runners, wait on channels, timers and locks, and are woken by other tasks,
other cores and interrupts. `libs/idf` supplies what that crate leaves to a
platform: a critical section, park and unpark on FreeRTOS notifications, the
tick counter. The other crates are services built from tasks of that executor.

| part | state it keeps | operations | who it meets | what is hard |
|---|---|---|---|---|
| `devkit::sync` (`sync/raw.rs`, `mutex.rs`, `rwlock.rs`) | one lock word, an intrusive queue of waiters on stacks and in futures | try, block, await, unlock, drop of a waiting future | the platform's critical section and park/unpark | the word changes by CAS outside the section; hand-over to a waiter that is giving up; readers woken in batches; a thread that ends while an unpark is on its way |
| `devkit::executor` tasks and runners (`executor/mod.rs`, `task.rs`) | a state word and a reference count per task, run queue, registry, runner slots | spawn, wake, clone and drop of wakers, run, join, abort, detach, shut down | wakers are held by everyone, interrupts included | wake racing with poll and completion; a runner about to park; the join waker; dropping the executor under live handles |
| executor timers (`executor/timer.rs`) | a linked list of nodes with 32-bit deadlines | poll, drop, fire, wait of the runners | runs inside every runner's loop | the counter wraps; firing races with drop; a runner parks on what it saw earlier |
| executor channel (`executor/sync.rs`) | ring, closed flag, receiver's waker, list of waiting senders | send, try_send, recv, try_recv, drop of either end or of a send future | tasks and interrupts | turn and waker handed on by a dropped future; values slipped in by interrupts; a close |
| `Signal`, `oneshot` (`executor/sync.rs`, `oneshot.rs`) | one value, one waker | signal, wait, send, drop | interrupts, drivers | value and waker change hands under a lock, the wake is outside |
| `idf` (`libs/idf`) | notification bits, thread handles, queues, NVS | park, unpark, ticks, threads, files | the SDK | notification bits shared by several users of one task |
| `devkit_net` TCP (`tcp.rs`, `ring.rs`, `tcp_socket.rs`) | control blocks: state, sequence numbers, rings, out-of-order ranges, timers | connect, listen, accept, read, write, shutdown, abort, input, timers, output | the stack's lock, sockets' wakers, the link | loss, duplication, reordering; sequence numbers wrap; zero window; simultaneous close; a retransmission timeout that rewinds |
| `devkit_net` UDP, ARP, fragments, DNS, DHCP | sockets, cache entries, reassembly slots, leases | send, receive, resolve, acquire, renew, rebind, decline | one task each beside the stack's task | late answers to earlier questions, retries, leases running out |
| `devkit_net` Wi-Fi manager (`wifi_manager/mod.rs`) | wanted and present network, scan results, stored credentials | connect, disconnect, scan, reconnect | driver events, NVS | events of a connection given up meanwhile |
| `bsp_rs` esp_hosted (`driver/esp_hosted/transport.rs`, `rpc.rs`, `sdio.rs`) | lanes of buffers, tokens and counters of the coprocessor | start, send, receive, remote call | two tasks of its own, callers, the coprocessor | credit read by both tasks; calls that answer after their timeout; a start that tries again; transfers that fail unnoticed |
| coprocessor firmware (`firmware/esp_hosted_enhanced/coprocessor`) | receive buffers, control buffers, a request under assembly, queues | boot, receive, answer | four tasks and the SDIO driver | buffers handed from task to task and counted by the host; data that blocks behind the radio |
| `bsp_rs` audio, touch, IMU, display | stream state, device registers | open, start, stop, read | drivers' interrupts and tasks | start and stop racing with a transfer |
| `usb_host_rs` (`dwc2/mod.rs`, `host.rs`, `device.rs`, `watch.rs`) | one root port, device, pipes, queued transfers, watches | enumerate, claim, transfer, cancel, unplug | the controller's interrupt completes transfers | cancel racing with completion; unplug in the middle; buffers the controller still writes |
| `media_engine` (`ppa`, `jpeg`) | two hardware queues of jobs that borrow pixels | queue, wait, drop | the engines' interrupts | a job dropped while the engine runs |
| `devkit_media` buffer (`buffer.rs`) | chunks, pins, cursor, window, slots | read, seek, view, read ahead | a reader and a read-ahead task | a chunk is filled without the lock while the window moves |
| `devkit_media` demuxers | position in a file | parse | the buffer | none concurrent: input formats |
| `devkit_audio` graph and fifo | nodes, positions, ring | push, pull, flush, seek | an audio task and a control task | flush and end of stream racing with the pull |
| `devkit_audio` codecs, `devkit_image`, `devkit_gfx`, `devkit_compression`, `devkit_crypto` | decoder state | decode, draw, inflate, sign | none | arithmetic only |
| `devkit_ui` (`tree.rs`, `nav.rs`, `app.rs`, `presenter.rs`) | widget tree, screens, presenters, animations | build, event, navigate, animate, draw | one UI task; tasks of components | a screen replaced during its own transition; component tasks that outlive it |
| host tools, simulator, C libraries, boards, firmware, docs | | | | see [Not modelled](#15-not-modelled) |

The interactions that matter for what follows:

- *Calls under the critical section.* The lock's queue, the run queue, the
  timer list and the join waker all change inside one process-wide critical
  section (`Platform::critical` or `Park::critical`); nothing in it blocks, and
  wakes are always made after leaving it. That gap between "taken out" and
  "woken" is where most hazards live, so every model has it as a step of its own.
- *Atomic words outside of it.* The lock word and the task's state word and
  reference count change by single atomic operations at any time.
- *Wakers.* A waker taken from a structure may belong to a task that no longer
  polls that future. A future may move between tasks; the models keep the
  waker's task apart from the future's present one.
- *Park tokens.* `unpark` before `park` makes the park return at once; a park
  may also return for nothing.

What makes each modelled part correct, in a line: the lock excludes, counts its
owners and loses no waiter; a task has one turn at a time, one for the wakeups
before it, and its block is freed once and empty; a linked timer is always
looked at in time and unlinked before its memory goes; no end of a channel
sleeps beside a value, room or a close meant for it; a view shows the bytes of
its place in the file for as long as it lives; a connection delivers the bytes
written, in order, their end after them, and owes nothing without a timer; the
link to the coprocessor loses no buffer, invents no credit and hands each answer
to its own caller; a thread's wakeups of one kind neither eat nor hide those of
the other.

## 2. What is modelled

| module | kind | models |
|---|---|---|
| `RwLockSpec` | abstract specification | what Mutex and RwLock promise |
| `RawLock` | detailed | `devkit/src/sync/raw.rs` |
| `TaskSpec` | abstract specification | what the executor promises a task |
| `Executor` | detailed | `devkit/src/executor/mod.rs`, `task.rs` |
| `ChannelSpec` | abstract specification | what a channel promises about values |
| `Channel` | detailed | the channel of `devkit/src/executor/sync.rs` |
| `Timers` | detailed | `devkit/src/executor/timer.rs` with the runners' loop |
| `Buffer` | detailed | `devkit_media/src/buffer.rs` with its read-ahead task |
| `StreamSpec` | abstract specification | what a connection promises its ends |
| `Tcp` | detailed | `devkit_net/src/tcp.rs`, one connection between two stacks |
| `LinkSpec` | abstract specification | what the link to the coprocessor promises a packet |
| `Coprocessor` | detailed | the far end: `coprocessor/main/transport.c`, `serial.c`, `rpc.c` |
| `Hosted` | detailed, extends `Coprocessor` | `esp_hosted/transport.rs`, `rpc.rs`, and the two ends together |
| `TokenSpec` | abstract specification | what a thread's wakeups promise it: a token for each kind |
| `Notify` | detailed | `idf/src/thread.rs` over the notification calls of `idf_compat/src/freertos_task.c` |
| `Mailbox` | detailed, extends `Notify` | `Signal` of `executor/sync.rs`, `oneshot.rs`, `block_on` of `executor/mod.rs`, and the wait for a lock on the same word |
| `MC...` | instances | constants' values for TLC, one module per detailed module |
| `RawLockProofs` | proofs | theorems about `RawLock`: exclusion and refinement; the order and the service of waiters |
| `ExecutorProofs` | proofs | theorems about `Executor`: its inductive invariant; what follows for blocks, wakeups and turns |
| `TimersProofs` | proofs | theorems about `Timers` |
| `ChannelProofs` | proofs | theorems about `Channel` |
| `MailboxProofs` | proofs | theorems about `Mailbox` and `Notify` |
| `HostedProofs` | proofs | theorems about `Hosted` and `Coprocessor` |
| `BufferProofs` | proofs | theorems about `Buffer` |
| `TcpProofs` | proofs | theorems about `Tcp` |

Conventions. A step is one access that other actors can see: one atomic
operation, one critical section, one wakeup. Code that only touches locals is
folded into the step before it. Where a step takes two accesses together, the section
of its module says which and why nobody can tell (`FireDue` in 6, `Reset`,
`StoreTokens`, `Call` in 9). `pc` names the place in the code an actor has
reached. Names follow the source where TLA+ allows. A definition headed by a
comment that begins with *Slip* is a plausible mistake in the definition after
it; it is used by no specification. It is there to show that the properties
notice: putting it in place of the definition makes TLC report the property.

Interrupts and other cores need no treatment of their own: between two steps of
an actor any other actor may take any number of steps.

## 3. The lock (`RawLock`)

`RawLock` is the word and queue under `Mutex` and `RwLock`, for threads that
block (`RawLock::read`, `write`) and for futures (`LockWait`).

| state | in the code |
|---|---|
| `word` | the atomic lock word: `WRITER`, reader count, `PARKED`, `WRITER_PARKED` |
| `queue`, `wst`, `aged`, `slot` | the linked waiters, `Waiter::state`, its age against `HANDOFF_US`, its stored waker (`current` or, after the future moved, `stale`) |
| `crit`, `picked`, `given` | the releaser inside the critical section, what `grant` picked and has not told yet |
| `wakes`, `more`, `clear` | the batch of wakers taken out, whether another batch follows, whether `WRITER` is still to be dropped |
| `signal`, `unparking` | a thread's park token or a future's wakeup; the holds that keep a thread from ending |

`Start`, `TryLock`, `Spin`, `Enqueue`, `Check`, `Park`, `ParkSpurious` follow a
blocking locker; `Poll`, `Recheck`, `Relink`, `Move`, `Cancel`, `Unlink`,
`PassOn` a future. `Unlock`, `Grant`, `GrantOne`, `GrantDone`, `Wake`,
`WakesDone` are `unlock_*` and `release`, cut at each access others can see:
`grant` swaps the word first, then unlinks and tells its picks one by one, and
a waiter may read `GRANTED` and return while the others are still being
unlinked. `End` is a thread that leaves through `idf`'s `thread::entry`, which
waits for holds to go.

A locker's mode is chosen anew at each `Start` out of its `Modes`; a `Mutex` is
the case in which those are `{FALSE}`, writing, for everybody.
`Age` may happen at any moment of a wait, which covers every clock. Reader
counts are unbounded naturals: the code's 29 bits would need as many tasks.

Properties worth their name: `WordMatches` (the word counts exactly the owners,
among them those that were handed the lock and do not know yet, and its flags
say what is queued), `WaitersServed` (a lock that queued waiters could have is
never without somebody on the way to it; who was let out of the queue is
signalled through the waker of the task it is in now; and nobody unparks a
thread that ended), `QueueInTurn` (the queue is sorted by priority, and of two
waiters of one priority who came first stays ahead while both wait),
`WaitersLinked` (no node outlives its frame or future), `Implements`, and the
liveness `WriterServed`.

Only writers are promised service. A reader can be passed for ever by a
succession of writers, each queued before the one in front lets go: `grant`
prefers a queued writer (`raw.rs:330`) and hand-over after `HANDOFF_US` applies
to the waiter picked, so this is the code's choice and not a defect of the model.

## 4. The executor (`Executor`)

Tasks, runners, contexts (whoever wakes, spawns and drops wakers) and owners of
join handles are actors. The state word is a set of flags, changed by single
operations: `Wake`, `WakeByRef`, `Begin`, `Yield`, `Finish`, `Abort`, `Detach`.
`refs` is the reference count; `stage` what the task block holds, `spilt` when
the last reference frees a block that still holds a future or an output.
`Enqueue` is the critical section that pushes the task and claims an idle
runner; `Unpark` follows it outside. `NextTask`, `Decide`, `Parked`,
`ParkTimeout`, `SetBusy` are the runner's loop: a runner marks itself idle in
the section in which it finds the queue empty, and parks later. `LookMain`,
`PollMain`, `Leave` belong to `run_until`; when its future is done the executor
is dropped (`ShutDown`, `DrainQueue`, `DrainMark`, `DrainStage`), while wakers
and handles live on. `run_until` is a method of `LocalExecutor`, whose one runner
is the caller; hence the assumption that there is one runner when there is a `Main`.

`TaskSpec` is what a task is promised: a turn only after a wakeup, one turn at
a time, one turn for all wakeups before it, none once it is done. `Implements`
checks it step by step.

`TasksIntact` says that references equal holders, that nothing is freed with
something in it, and that at most one actor is in a task's stage.
`WakeupsKept` has four parts: `QueuedOnce` (a task's single queue link is used
once), `ScheduledWillRun` and `QueueAttended` (no wakeup is lost, and no runner
idles while more tasks are queued than runners are about to look), `JoinerHears`
(a finished task's joiner is woken). `BusyRunnersWake` says that no claimed runner
sleeps on, `TasksGoOn` that every scheduled task gets its turn and every aborted
one ends, as liveness. `FutureStaysHome`, that only runners drop futures, is
violated when the executor is dropped (see
[13](#13-what-the-code-does-that-its-documentation-does-not-say)), and
`TasksIntact` with it; the latter is therefore checked in a pool that stays,
`executor_join`.

Not in this module: timers (own module), `idf`'s implementation of `Park`,
allocation of the block, panics in a poll (the code aborts), and
`LocalExecutor::run_ready` (`mod.rs:433-450`). That is the loop of `run` with the park
left to the caller: it sets its runner busy, runs what is ready, and returns with the
runner idle. Its steps are those of `run` up to `Decide` and from `SetBusy` on, but
whether the caller comes back when its `park` is unparked is a duty of the caller, and
a program's, not the executor's.

## 5. The channel (`Channel`)

`items`, `closed`, `receiver`, `senders` are the fields of `Queue`; `waker` is
the node of a send future. `TrySend`, `PollSend`, `DropSend`, `TryRecv`,
`PollRecv`, `SecondLook`, `DropRecv`, `Close` are the critical sections of the
functions of that name; each takes copies of wakers (`copies`) and `WakeCopy`
wakes them one by one afterwards. Send futures and the receiver may move
between tasks (`Move`): `home` is the task that polls, and a waker is a pair of
end and home, so a copy taken before the move wakes the wrong task.

`ChannelSpec` promises that each value is accepted once or handed back, that
accepted ones come out once and in order, and that none is accepted after the
receiver has gone. `EndsWoken` says that neither the first waiting sender nor
the receiver is left asleep beside something meant for it, and that a finished
or dropped future leaves no node behind. `SendEnds` is the
liveness of `send(v).await`.

## 6. The timers (`Timers`)

Two views of time are kept apart: `now` and `deadline` wrap at `Span` as the
code's `u32` does at 2^32, while `left` counts the true ticks to the end of each
sleep. `Reached` is the signed comparison of `timer.rs:17`. A runner reads the
clock (`Look`), fires what is due (`FireDue`, one node each), computes its
wait (`FireDone`), parks (`Park`) and returns on its token, at the timeout, or
for nothing (`ParkEnds`). A task's poll is cut in two: it reads the clock, then
resolves or links its node. `Callers` are tasks that wait for other things as
well: they may drop an armed timer (a timeout whose future was ready) and are
woken by events. `Tick` may come between any two steps.

`FireDue` takes the section that unlinks a node (`timer.rs:176-188`) and the wake of
its task (`timer.rs:190`) together. In between the code has the waker in a local
variable. What another actor may do then is poll the task (it finds its deadline
reached, or was dropped meanwhile) and let it go on; the wake comes later and schedules
the task once more for nothing. Tasks that are polled for nothing are there anyway:
`Callers` are woken by events at any moment.

`NeverEarly` and `SleepEnds` say that a sleep ends, and not early, across the
wrap; that no wake of a sleeper is lost is part of the second. `TimersKept` says
that a dropped timer's node is out of the list, and that for every linked timer
there is a runner that will look again before sleeping or sleeps no longer than
the timer needs.

`Prompt` is the one assumption on time: a value read from the clock is used
within `Slack` ticks and no timer is overdue by half the counter's range. In the
code that is 2^31 ticks, about 25 days at 1 ms.

## 7. The media buffer (`Buffer`)

A demuxer reads a file through a ring of chunks that a task of its own fills
ahead of the cursor, and hands out views: slices of the ring that pin the chunks
under them, or of a bounce area when the range crosses the ring's end. The state
lock is dropped for every file access and for the copy to the bounce area.

| state | in the code |
|---|---|
| `cursor`, `win`, `want`, `readahead`, `interrupted`, `ioError`, `pins`, `bouncePins` | the fields of `State`; `win` is `base` (in chunks), `head` and `filled` |
| `slots`, `bounce` | which chunk of the file each piece of memory holds; `None` while it is written and once nothing may rely on it |
| `views` | the views alive, their range and the slots they pin |
| `io`, `filePos` | the io lock and the file's position under it |
| `pc`, `op` | the reader: its call, the range it wants, and the window as it was when the copy began |
| `fpc`, `fill` | the read-ahead task: the chunk it reads and the slot it reads it into |

`Read`, `View`, `ViewAt` begin a call; `ReadRound` and `ViewRound` are one turn
of `wait_for`'s loop with what follows it under the lock; `CopyChunk` runs
without the lock, `CopyDone` takes it again. `Choose` and `FillEnd` are the two
sections of `fill_next`, with the file access between them. `Seek` is the
reader's between calls, and another task's during a copy, the case the comment in
`view_locked` pins the chunks for. The semaphores `wake` and `data` only cut
short a wait of 20 ms, so waits end at any time and the semaphores have no state.

`BytesRight` says that the window is the file's, chunk by chunk, that every
living view still lies on its bytes, and that nobody reads the file from another
one's position. `PinsHold` is the comment over `unsafe impl Send` and that no pin
is lost or left behind. `WaiterFed` says that whoever waits waits for something:
a chunk on its way, one that read-ahead has both room and reason to fetch, or a
view that somebody holds (the README of the crate warns of that one).

Left out: the windowed reads of a direct arena, which has no read-ahead and no
views, `read_alloc`, and bytes within a unit. Whether a wait does end is not
checked as liveness: views held for ever may stop it, as documented.

## 8. TCP (`Tcp`)

Two stacks hold one connection between them: a client that connects and a server
with a listener. A stack is behind one lock, so a step is one call into it: an
application's call, a segment, the timers. The network keeps the last few
segments each end sent, with how many others were sent since, and may deliver any
of them, any number of times, so segments are lost, repeated, late and out of order.

| state | in the code |
|---|---|
| `tcb` | each end's `Tcb`: state, the four send numbers (`una`, `nxt`, `max`, `base`), the receive side (`rnxt`, `adv`), rings, ranges put aside, flags. `rx` holds the bytes to be read, `tx` the number of bytes held for sending |
| `asm` | `Assembler` with the ring's free part: which offsets hold which byte |
| `rtx`, `ackAt`, `persist`, `closeAt`, `linkRetry` | whether the timer of that name is armed |
| `listening`, `ready` | the `Listener` and its queue |
| `net`, `refusals` | segments on their way; how often a link was full |
| `hist` | not in the code: what each end wrote, took and ended, for the properties and for `StreamSpec` |

The functions of the code are operators from one record of work to the next
(`w`: the control block, the segments sent, the room left on the link), with
their names: `Output` is `tcp_output` with its loop, `SendTcp` is `send_tcp`,
`Acked`, `Data`, `Process`, `SynSentInput`, `TimersGo` likewise. The actions are
the calls: `Connect`, `Accept`, `Unlisten`, `Write`, `Read`, `Shutdown`,
`Release`, `Input`, `Timers`.

Abstractions:

- *Time.* A timer is armed or not and may go off whenever it is, several at
  once. So every race of a timeout with a late answer is there, and intervals,
  round-trip times and backoff are not.
- *Congestion window.* Its growth is left out: output goes by any value in
  `Cwnds`.
- *Bytes* are their numbers in the stream; a byte read from beyond the ring's
  content is `None`, which no property lets through.
- *Link.* A step may meet a link with room for a number of segments out of
  `Rooms`; `MaxRefusals` bounds such steps. `HandshakeMeetsFullLink` says whether
  that may happen to the segments that open a connection (section 13).
- *Lifetimes.* A segment that was sent may arrive at any later time, where a real
  network drops it in the end. The numbers of one stream and of the window after it
  therefore cover less than half of the range (`TcpAssumption`), as those that are on
  their way together do in the code, or an old segment would pass for a new one.
- *One connection per end.* Whoever comes later finds the backlog full.
- *Half-close.* `Shutdown` is taken once all was written and acknowledged;
  `Release` ends the stream at any moment, which is the same code with the
  application gone.

`Implements` is the refinement of `StreamSpec`: an end takes only what the other
wrote, in order, and sees the end of the stream after all of it and only if it was
ended. `StreamIntact` looks at the bytes themselves, those put aside included.
`NothingForgotten` says that no duty is left without a timer: bytes unsent,
segments unacknowledged, an end of stream not yet sent, an acknowledgement put
off, a state that only time ends, a connection the application let go of. It
stands in for liveness, which would need a network that in the end delivers and
applications that in the end read: with it, whatever is owed is tried again until
it is answered or given up. Its part `EndHeard` relates the two ends: whoever has come
to FIN-WAIT-2 or TIME-WAIT, and so will send nothing again, has a peer that took every
byte and the end behind them.

Left out: ICMP errors, keepalive, window scaling, failed allocations, several
connections, a chosen local port (only the tests connect from one). Both ends in
`Callers` reach a simultaneous open, and there `EndHeard` fails (section 13). With windows of two bytes the assembler never holds
two ranges.

## 9. The coprocessor link (`Hosted`, `Coprocessor`)

On boards without a radio the Wi-Fi stack runs on a second chip behind SDIO. The
host's packets wait in two lanes, control and data, each with buffers of its own;
`tx_task` writes them when the coprocessor has a receive buffer, `rx_task` reads
what the coprocessor offers, and calls wait for their answers. `Coprocessor` is
the firmware at the far end, in one variable, `cp`; `Hosted` extends it with the
host and is the two together.

| state | in the code |
|---|---|
| `free`, `queue`, `held` | each lane's pool, its queue, and the packet `tx_task` took out to look at |
| `pending`, `batch` | the semaphore `tx_task` sleeps on; the packets of the next transfer |
| `link` | the `Transport`'s atomics and `ready_signal`: `tokens`, `txCount`, `rxCount`, `aggregates`, `ready` |
| `rx` | `rx_task`'s copy of the registers and the rest of the stream it reads |
| `rpc` | the `Client`: `done`, `pending`, `response`; the call that has `call_lock` and the part of it sent next |
| `tries`, `failures`, `sent` | attempts of `start` while it runs; transfers that failed; data put in |
| `cp.loaded`, `cp.tokens` | receive buffers the SDIO hardware has, and the register that counts all it was ever given |
| `cp.inbox`, `cp.dataQueue`, `cp.serial`, `cp.rpcQueue` | transfers before `rx_task`; those handed to `data_task`; the chunks of a request so far; whole requests before `rpc_task` |
| `cp.free`, `cp.sending`, `cp.shown`, `cp.length`, `cp.interrupt` | control buffers; messages at the driver; those offered to the host, with the length register and the interrupt that announce them |

`TxPut`, `TxGive` are a packet's way in; `Peek`, `Reserve`, `Pick`, `Fill`,
`Await`, `Write` the loop of `tx_task`, with `Ask` and `Query` where `have_tokens`
reads the register: its look at what is known and its answer from the coprocessor are
two steps, and `rx_task` may store in between. `ReadStatus`, `StoreTokens`, `Fetch`,
`OnInit`, `Open` are the loop of `rx_task`, and `Match`, `Clear`, `Hand`, `Done` the
look-up and the three stores of `deliver`; `Call`, `Answered`,
`TimeOut` a remote call; `Reset`, `Connect`, `Notify`, `Started`,
`StartTimesOut` the attempts of `start`. `WriteFails`, `ReadFails`,
`ConnectFails`, `NotifyFails` are SDIO commands that fail; the code logs the
first two and goes on. The coprocessor's steps are those of its four tasks:
`CtrlTask`, `HandleCtrl` with `PassOn`, `HandleData`, `Reply`.

`LinkSpec` promises that each lane's packets are handled once and in the order
they were put in, and that a failed transfer takes only neighbours with it;
`Implements` checks that of the whole path, from a sender's `put` to the
coprocessor's handlers. `BuffersKept` says that every buffer of both sides is in
exactly one place. `CreditsKept` has two parts. `CountsAgree`: what the coprocessor
counts less what the host counts is always the number of its free receive buffers,
whatever failed, wrapped or began again, so a look at the register is never wrong. And
a step by which data gets at the buffers left to control packets, in transfers of one
packet, begins where the *stored* count promises more buffers than there are.
`CallsStayMatched`: a call that was not woken and is not about to be is the pending
one, so that it can still be answered, whatever answers to others were handed over,
early or late. `CallsEnd` says that `start` ends and that, when no transfer failed and
data has not taken the last receive buffers, a call is answered even if `data_task`
never gives back what it holds.

Two promises of the source are stated and *not* kept (section 13): `ReserveKept`, "Data
leaves the last receive buffers on the slave to control traffic" (`transport.rs:217`),
and `AnswersMatch`, that an answer is never "handed to the next caller"
(`rpc.rs:5-7`). `hosted_races` is the run that shows both broken: `SomePromiseKept` is
their disjunction, so the state that violates it has data in the reserve and a caller
with the wrong answer. Nothing else is assumed there: no failure, no restart, no
aggregated transfer.

Abstractions:

- *Lengths* are in halves of a buffer: a chunk that others follow fills one, two
  others share one. Streams to the host are counted in messages.
- *To the host* go the INIT event and answers. Data and event packets to the host
  use the same stream and no credit of their own.
- *Failed looks* at a register are made again on the next turn of the code's
  loops, so they are left out; failed transfers lose what they carried.
- *`INIT_TIMEOUT`* passes only when no INIT is on its way.
- *Stores taken together.* `Reset` has all of `start`'s stores (`transport.rs:387-392`)
  in one step: no other task is between two accesses then, nothing is queued and the
  coprocessor says nothing (`StartPlace` in `HostedProofs` proves it). `StoreTokens` has
  the store of the tokens, `clear_int` and the reading of `rx_bytes` (346-352): the
  coprocessor offers nothing new until what it offered is fetched, and only `rx_task`
  and `start` write `rx_bytes`. `Call` empties `done` and `response` and sets
  `pending_uid` (`rpc.rs:104-106`): a store of `deliver` that falls between two of them
  leaves what it leaves before the first or after the last.
- *Refused writes.* A transfer written to a coprocessor without a receive buffer fails
  (`WriteFails`) and counts as a failure beyond `MaxFailures`, which bounds the others.

## 10. Mail and parks (`Mailbox`, `Notify`)

Every park of the system, of an executor or of a lock, ends in one FreeRTOS task
notification: a word with a bit for each user and, beside it, one flag that
something came. `Notify` is that word with `wait_notify` (`idf/src/thread.rs`),
which makes of a wait for the flag a wait for one bit: it clears the bit, looks
at the clock, rests, and begins again.

| state | in the code |
|---|---|
| `value`, `pending` | `ntf_value` as the set of its bits, `ntf_pending` |
| `wait` | the thread's place in `wait_notify`, its bit, its ticks, the ticks that passed and those it was told to sleep |
| `at`, `main`, `woken` | the thread's place, which `block_on` it is in, `Main::woken` |
| `kick` | a `Signal`: its value and the `block_on` whose waker it keeps |
| `shot`, `fate` | a oneshot's `State`; what became of its value |
| `lock` | the lock the thread blocks on between two polls |
| `call` | what each other actor is about to do: store to `woken`, then unpark |

`Mailbox` puts a thread on it that waits in `block_on` for a oneshot, a `Signal`
and a timer, as the network's `next_event` does, and that may need a lock before
it waits again; it may leave `block_on` and come back, which makes the wakers it
left behind stale. `Signal`, `TryTake`, `Send`, `DropSender`, `Grant` belong to
others, `Store` and `Unpark` finish what they began; `Disturb` is an unpark for
a task of the executor. `Swap`, `PollShot`, `PollKick`, `Handle`, `Turn`, `Fire`
are the thread's loop.

`TokenSpec` promises one token for each kind of wakeup: given any number of
times, kept until the thread waits for that kind, taken by no other wait, and no
wait gives up before its ticks are over. `Implements` is the refinement: each
bit is a token. It is what lets `RawLock` and `Timers` treat a park as a token of
their own. `MailKept` is the doc of `oneshot.rs`, that each side sees the other
go: a value is in the channel from `send` until it is taken, refused or dropped,
never in one whose receiver has gone, and a receiver that leaves with an answer
either has the value or will never be sent one. `MailHeard` is the liveness: a
signalled value, a sent value, a sender's end and a granted lock all reach the
thread, and waits end (`WaitsEnd`) by their token or their time, whatever comes
of the other kind meanwhile.

Abstractions: the executor has no tasks (module `Executor` has them); nobody reads
the `woken` of a past `block_on`, so it is not kept; the lock is reduced to what
its waiter sees, wanted and granted; waits are shorter than the range of the tick
count. The notification calls are those of the simulator's kernel, whose
semantics are the device's.

## 11. Runs, bounds and fairness

| run | instance | question | states |
|---|---|---|---|
| `rawlock_rw` | two threads (one more urgent, one mortal), one future, batches of one; the future writes, one thread reads, the mortal one does either | all of the lock: safety, the order of the queue, that it implements `RwLockSpec`, that a writer is served | 0.17 million |
| `executor_join` | two runners, one task with a handle, two contexts, two wakers | references, stage, join waker, abort and detach at any moment; one place for the task, a turn for every wakeup, no runner idles beside work | 1.3 million |
| `executor_main` | one runner in `run_until`, two tasks, one detached | the shut down, turns as `TaskSpec` has them, progress | 0.8 million |
| `executor_drop_race` | one runner in `run_until`, one task with a handle | expected to fail: who drops the future | small |
| `channel` | two senders, an interrupt, capacity two, one sender and the receiver moving between two tasks | all of the channel | 0.4 million |
| `timers` | two runners, one sleeper and one caller, a clock of six values | all of the timers | 0.35 million |
| `buffer` | a file of three chunks of two units, the last one partial; a ring of four, read-ahead of one; two views | the bytes seen, the pins, what waits are for | 1.0 million |
| `tcp` | three bytes from the client, windows and segments of two, numbers that wrap, one retransmission, one full link | the stream, its end, no duty without a timer, who is done was heard | 0.18 million |
| `tcp_full_link` | the same, the handshake may meet the full link | expected to fail: whether output goes on | small |
| `hosted` | one control and two data buffers on the host, two receive and two control buffers on the coprocessor, requests of two and of one packet, two data packets, one failure | the link from its start on: buffers, credit, matching calls, order, progress | 0.86 million |
| `hosted_races` | the same with four data packets, one attempt of `start`, no failure and no aggregated transfers | expected to fail: a stale store of tokens and a late answer, together | 0.5 million up to there |
| `mailbox` | one signaller with two values, one oneshot, one lock, two calls of `block_on`, waits of one tick or for ever | all of the mailbox and the parks under it | 0.36 million |

Why the bounds are enough for the interesting cases:

- *Lock.* Three lockers give a releaser, a waiter that is being told and one
  that overtakes; two of different priority make the queue's order matter;
  a batch of one (4 in the code) makes every two waiting readers need a second
  batch. The thread that may end shows what the holds are for. `f1` only writes, `t2`
  only reads and `t1` does either: with every locker free to do both, the safety
  properties pass as well, in a run too long to repeat every time. `t1` and `f1` are of
  one priority, so one can overtake the other.
  `VIEW` counts states as one that differ only in variables nobody reads before they
  are written: the age and the state of a waiter whose locker waits on none, and the
  mode of a locker that is idle or has ended (`Start` sets all three). What the
  properties say of the states is the same too.
- *Executor.* Two runners are enough for a claim to go wrong, two contexts for two
  wakes of one task at once; `executor_main` has two tasks, so the queue has an
  order there. (Two runners with two tasks and one context, 11.3 million states,
  pass the same properties as `executor_join` in a run too long to repeat every
  time.) `MaxWakers` bounds the clones alive at a time; a clone and
  the queue's reference are enough for every order of releases. The eight runner
  slots of the code become `NumRunners`.
- *Channel.* The interrupt can fill the channel alone, each sender offers one
  value, so the channel is full with both senders waiting, and a dropped head has
  a successor. `MaxSends` bounds the number of values.
- *Timers.* With `Span` = 6 the counter wraps during most sleeps, `Half` = 3
  leaves room for a sleep of one and a slack of one. `Slack` is the bound on how
  stale a clock value is when used.

- *Buffer.* Two units to a chunk give ranges that begin inside one chunk and end
  in the next; three chunks let the window slide and put a view more than half the
  ring (`RingChunks` / 2) ahead of the cursor; a ring of four is the smallest that
  `Buffer::open` accepts for a bounce area of one. Two views overlap on a slot and
  one waits for the other's bounce area. `MaxRead` of two crosses a chunk's end, and
  so do views of two units (`ViewLengths`), which also lie within one chunk, at the
  partial end of the file, or past half the ring.
  While it is interrupted the reader asks for nothing more: its task is about to
  be joined (README of the crate).

- *TCP.* Three bytes through rings of two fill the window, so it closes, is
  probed and opens; segments of two with writes of one give segments that overlap
  when sent again; numbers that begin two below the wrap wrap with the SYN and the
  first bytes. Two segments of the client in transit overtake each other and leave
  a gap; one retransmission is the timeout that rewinds, the next one gives up.
  `Space` = 16 is the smallest power of two in which twice the windows fit, as
  2^32 is far above. `DupAcks` and `Ranges` are 1 (3 and 4 in the code), so that a
  fast retransmission happens. A larger instance (rings of three, writes of one to
  three bytes, 4.7 million states) passes as well.

- *Hosted.* Two receive buffers, one of them reserved for control (10 and 2 in the
  code), are the smallest number at which data, a reserve and a transfer beyond
  the reserve can meet; the request of two packets is one the coprocessor puts
  together, the second call is the one a late answer could meet. One control
  buffer makes the call, the configuration and the reassembly contend for it. Both
  counters wrap at 4: twelve bits in the code, above the number of buffers as here.
  Two attempts of `start` and one failure give a restart under two running tasks.
  `hosted_races` has four data packets: enough to bring the host's count past a stale
  one, and one more that is written on the strength of it. In `hosted` a `VIEW` counts
  states as one whose counters (tokens, transfers, lengths) stand in the same relation
  modulo their span: the code only takes differences, and where it sets some to zero,
  in `Reset`, the others follow at `Connect` or are in no use. It also leaves out
  `response`, which only `AnswersMatch` reads. Without it the run has 1.9 million states.
- *Mailbox.* Two signalled values and two calls of `block_on` give a waker that is
  stale and a value that comes while it is; one lock beside one park gives each bit
  the chance to arrive in a wait for the other. A tick of one is a wait that ends
  before, while or after the thread rests.

Symmetry is used in `buffer`, over its views; it checks no liveness and its
invariants are symmetric. Deadlock is checked in `rawlock_rw` and in
`tcp`; in the others the system may stop: all tasks done, all values offered,
an executor dropped, the connection of `tcp_full_link` hung, the bounds of
`hosted`, `hosted_races` and `mailbox` used up.

Most liveness is stated as `[]<>`: what is owed (a flag, a value, a sleep, a wait) stays
until it is settled, so that saying it is settled again and again is saying that it
never stays for ever.

Fairness, and why the code justifies it:

- *Lock.* Weak fairness of every step of a running locker: FreeRTOS runs ready
  tasks. `Enqueue`, `Grant`, `Relink`, `Unlink` need the critical section, which
  is a spinlock held for a bounded time, hence strong fairness: a core that
  spins gets it. `Age` is time passing during a wait; a wait goes on through retries,
  in and out of the queue, and so does its age, hence strong fairness, too. `Unlock` is fair because a
  guard is dropped in the end; a program that never drops one starves others by
  itself. No fairness for `Start`, `Cancel`, `Move` or `ParkSpurious`: nobody
  needs to lock again, and parks need not end for nothing. A future is polled
  only when signalled.
- *Executor.* Runners run, polls return, and whoever is about to queue a task
  or unpark a runner does. There is none for contexts, handles or
  `ParkTimeout`: liveness must not lean on the next timer to hide a lost unpark.
- *Channel.* Woken futures are polled (the executor's promise, shown by
  `Executor`), actors finish what they began, the receiving task calls `recv`
  again. Nothing for senders' drops, interrupts or moves.
- *TCP.* None: its properties are safety, see section 8.
- *Hosted.* Every task of both sides goes on: they are FreeRTOS and executor tasks
  that block only on what the model has as guards. There is none for calls and data,
  which nobody has to send, for `data_task`, which the radio may hold up, for
  failures, and for `TimeOut`: a call that ended only because its time was over
  would hide a lost packet.
- *Mailbox.* The thread goes on, what another actor began is finished, a lock that
  is wanted is unlocked in the end (section 3), time passes. There is none for
  signals, sends, leaving a sender (except after `send`, which consumes it) and
  `Disturb`: nothing may depend on the next unpark to hide a lost one.
- *Timers.* Runners step, the clock ticks, a park ends at its timeout or token;
  spurious ends are not counted on.

Every property of every passing run has a mutant in `PROJECT.json`: a slip that
makes TLC find that property violated in that run.

## 12. Proofs

### The lock

`RawLockProofs` proves about `RawLock`, for every set of threads and futures, every
assignment of priorities and of modes and every batch size:

| theorem | states |
|---|---|
| `Inductive` | `Spec => []IInv` |
| `TypeCorrect` | `Spec => []TypeOK` |
| `LockExcludes` | `Spec => []Exclusion` |
| `WordIsTheState` | `Spec => []WordMatches` |
| `LinkedWaitersLive` | `Spec => []WaitersLinked` |
| `LockIsALock` | `Spec => Implements`, the refinement of `RwLockSpec` |
| `QueueSorted` | `Spec => QueueInTurn` |
| `NobodyForgotten` | `Spec => []WaitersServed` |

The only assumption is `LockersAssumption` of `RawLock`, which TLC evaluates in
every run of the module: finitely many lockers, threads are not futures,
priorities are naturals, a batch is at least one.

`Exclusion` is not inductive. Whether a locker owns the lock depends on where it
is and on what others have done to its waiter, so the invariant has to say:

- `SectionOK`: who is in the critical section is at `grant`, and something is
  picked or given only while somebody is there;
- `ClearOK`: only a writer on its way to `release` still has `WRITER` to drop;
- `FreshOK`: a waiter's state is `WAITING` before it is queued (a leftover
  `GRANTED` would make an owner of a locker that has nothing);
- `WaitersLinked`: queue and program counters agree on who waits, each once;
- `WordCountsOwners` and `FlagsOK`: the word is exactly the owners and, outside
  the section, the queue. Exclusion itself then follows from the guards on the
  word.

`IInv` is their conjunction with `TypeOK` and `Exclusion`. The proof has one
lemma per group of actions; under each, one step per conjunct the action can
disturb. `Grant` is the hard case: within one step the word drops a writer and
takes on those handed the lock, and the count of read owners must grow by the
cardinality of what was given. The lemmas at the head of the module have the facts
about sequences (insertion and removal keep a duplicate-free list duplicate free and
change its range by one element) that the queue's steps cite.

`LockIsALock` maps each step to a step of `RwLockSpec` or to nothing. `Unlock`, and
`PassOn` of a dropped future that had been handed the lock, release; a `Grant` whose
releaser still had `WRITER` is a hand-over, writer out and next owners in at once. A
step that makes an owner finds by `WordCountsOwners` that the abstract lock is free.

`WaitersServed` needs an invariant of its own, `SInv`, on top of `IInv`. Its core is
`Attended`, which says of the lock word alone when somebody must be on the way: if the
word shows waiters and no owner that stands against them, some locker is about to
release, is between two batches, or is a *writer* that will try. A reader on its way
does not count, since it may find `WRITER_PARKED` and queue. That makes the claim
survive the swap of the word at the beginning of `grant`. The rest is about wakeups:
a future's stored waker is its own or the executor polls it anyway (`WakersStored`),
a waiter that was let out has its wakeup under way (`WakeupsLand`), and `unparking`
is the number of unparks owed, each owed by one releaser (`UnparkingCounts`), so that
a thread which waits for it to be zero cannot be unparked after its end.

`QueueInTurn` says of states that the queue is sorted, and of steps that nobody passes
anybody. `QueueStep` reduces every step to one of three: the queue is as it was, a
locker is put at its `Position`, or one is taken out. Sortedness is a part of `SInv`;
`TurnsStep` shows for each of the three that of two who stay the order stays, and that
a newcomer comes behind all those as urgent (`PositionProperty`).

### The executor

`ExecutorProofs` proves about `Executor`, for all sets of tasks and
contexts and every number of runners, under `ExecutorAssumption`:

| theorem | states |
|---|---|
| `Inductive` | `Spec => []IInv` |
| `TypeCorrect` | `Spec => []TypeOK` |
| `BlocksAreFreed` | `Spec => []BlocksFreed`: references are holders, nothing is spilt, shut down or not |
| `StagesAreOwned` | `Spec => [](~shutDown => TasksIntact)` |
| `WakeupsAreKept` | `Spec => [](~shutDown => WakeupsKept)` |
| `ServedForGood` | if `Main = None`, `Spec => [](TasksIntact /\ WakeupsKept)` |
| `SleepersWake` | `Spec => []BusyRunnersWake` |
| `TurnsAsPromised` | `Spec => Implements`, the refinement of `TaskSpec` |

`~shutDown` is not there for convenience: once the executor is dropped the stage has
two users and joiners are not told, as the code has it (section 13), so the two
invariants are false then. `ServedForGood` is the case of the run `executor_join`: an
executor whose runners all sit in `run()` is never dropped.

The properties count: references, queue entries, runners. `IInv` does not; it says who
has what. A task has one turn (in the queue, or in one actor's hands: `TurnsOnce`), one
place in the registry (`KeptOnce`), and its flags tell which turn that is
(`FlagsTell`); `RefsAdd` then makes the reference count a sum of four terms, each zero
or one but for the wakers, and a step has only to say which term it moves (`Gain`, with
the other tasks' untouched, `Others`). Cardinalities come in at the end, where the
holders of one kind are shown to be at most one. `StageKept` is what frees a block
empty: whatever a stage holds has an `Owner`, who still has a reference.

On top of it, `WakeOwed`: a runner that will sleep although it was claimed, or although
its future was woken, has its token or an unpark on the way. `QueueAttended` is proved
by counting runners that will look before they sleep, `Lookers`, against the queue:
`Enqueue` claims one more for the task it adds, and a runner goes idle only in the
section in which it finds the queue empty. `Settled` follows the join
waker and the output from `finish()` to the joiner.

The refinement reads `TaskSpec`'s variables off the state word; every step of the
executor is a step of at most one task's turn (`Moved`), and the shut down, which marks
a task complete between two turns, is the last disjunct.

### The timers

`TimersProofs` proves about `Timers`, for every set of tasks, number of runners, range of
the counter and slack below half of it:

| theorem | states |
|---|---|
| `Inductive` | `Spec => []IInv` |
| `TypeCorrect` | `Spec => []TypeOK` |
| `TimersNotForgotten` | `Spec => []TimersKept` |
| `SleepsLast` | if all sleeps are shorter than `Half`, `Spec => NeverEarly` |

from `TimersAssumption`. The hypothesis of `SleepsLast` is the limit of the comparison in
`timer.rs:17`: a longer sleep is over at its first poll (section 13), so without it the
property is false. `Prompt`, in the guard of `Tick`, is assumed as in the runs.

`TimersKept` asks for four things of the invariant. `TasksApart`: a task is in the queue
once or with one runner, so that the timer a poll drops is nobody else's, and no other
runner holds what it read for it. `ClocksAgree` ties the two views of time, the wrapped
deadline and the ticks that are left. `ReadsFresh` bounds the age of what a runner read
from the clock. `Known` is `TimersCovered` with the slack not yet used up: when a wait is
computed it is no longer than what is left and the age of the reading (`WaitProperty`),
each tick takes one off the first and adds one to the second, and only in the park does
the age become `Slack`. A runner whose wait is older than a link does not know of that
timer, but the runner that links it is in a poll, and computes its own wait after that.

`NeverEarly` needs `ShortSleeps` besides: what is left of a sleep stays below `Half`, also
with the age of the reading a poll compares. `ReachedProperty` has the arithmetic: within
these bounds the signed comparison of wrapped numbers says what the true ones say. With
sleeps beyond the bound only the first half of it holds, which is why `TimersKept` has no
such hypothesis.

### The channel

`ChannelProofs` proves about `Channel`, for all senders, interrupts and tasks, every
capacity and every number of sends:

| theorem | states |
|---|---|
| `Inductive` | `Spec => []IInv` |
| `TypeCorrect` | `Spec => []TypeOK` |
| `NoEndSleeps` | `Spec => []EndsWoken` |
| `ValuesPass` | `Spec => Implements`, the refinement of `ChannelSpec` |

`EndsWoken` is not inductive because wakers are copies: the copy that a step takes may
name a task that no longer polls that end. `WakersHome` repairs it: a stored waker
names the polling task, unless that task was or is about to be woken, in which case it
polls and stores anew. `ReceiverPlace` is for the second look of `recv`, `ValuesNew` for
the refinement: a value in the queue is there once and has no other fate, so that
taking the first takes the oldest accepted. Of the capacity the proof says that the
ring never holds more, so a push in an interrupt does not allocate.

### The mailbox

`MailboxProofs` proves about `Mailbox`, for every set of signallers, any number of
signals and of calls of `block_on`, and any lengths of waits:

| theorem | states |
|---|---|
| `Inductive` | `Spec => []IInv` |
| `TypeCorrect` | `Spec => []TypeOK` |
| `AnswersKept` | `Spec => []MailKept` |
| `WakeupsAreTokens` | `Spec => Implements`, the refinement of `TokenSpec` |

from `NotifyAssumption` (lengths are naturals, `Forever` is no number, `None` no
kind) and `MailboxAssumption` (the actors are different, the bounds are naturals),
which TLC evaluates in the run `mailbox`.

The type invariant carries the refinement: it says that the thread is in
`wait_notify` exactly when its place says so, and that a timed wait never counts
beyond its ticks, so that a wait whose time is over has nothing left and only such a
one gives up. `Looking` adds that a wait for ever never looks at the clock, whose
difference would be no number. `MailKept` needs `SenderDecided`, that a sender
which has gone has sent, been refused or left its value unsent. `ParkSteps` sorts the
actions by what they are to the notification, and both the invariant and the
refinement go through its five cases.

### The coprocessor link

`HostedProofs` proves about `Hosted`, for any numbers of buffers on either side, tokens
to count modulo, requests and chunks of them, attempts and failures:

| theorem | states |
|---|---|
| `Inductive` | `Spec => []IInv` |
| `TypeCorrect` | `Spec => []TypeOK` |
| `BuffersStay` | `Spec => []BuffersKept` |
| `CallsMatched` | `Spec => []CallsStayMatched` |
| `CreditsStay` | `Spec => CreditsKept` |

None has a hypothesis: the invariant holds with `rx_task`'s late stores and with calls
that give up at any moment.

`BuffersKept` itself needs little but types, were it not for restarts: `Connect` boots
the coprocessor with full pools, and the host does not begin anew. `StartPlace` shows
why nothing is counted twice: `start` resets a coprocessor only while nothing was sent
to it (`Untouched`) and nothing is on its way from it (`Silent`). That in turn needs to
know that an attempt ends only without an INIT under way, that the configuration is
sent only after an INIT, and that others send only when `start` is done. `RxPlace`,
`TxPlace` and `SendersPlace` say what each task has in hand at each place.

`CallsStayMatched` is inductive given these: only `Call` and `Clear` write `pending`
while a call is under way, and from `Clear` on `rx_task` is handing over until `Done`,
which wakes whoever calls by then.

`CountsAgree` is inductive, too, modulo `TokenSpan`, which is why `TokenSpan > RxBufNum`
is assumed (4096 and 10 in the code). A failed transfer is not counted and takes no
buffer, so nothing moves; a restart has both counts begin together, as `Untouched` says
that the coprocessor has all its buffers. The other part of `CreditsKept`, about steps,
follows data from the look in `Reserve` or `Ask` to the write: a look that is not
deceived finds more than the reserve, no other task takes receive buffers, so what was
enough at the look is enough at the write. `SinglePlace` says that a coprocessor that
does not take several packets in a transfer gets one.

### The media buffer

`BufferProofs` proves about `Buffer`, for any sizes of the file, its chunks, the ring and
the bounce area, and any finite set of views:

| theorem | states |
|---|---|
| `Inductive` | `Spec => []IInv` |
| `TypeCorrect` | `Spec => []TypeOK` |
| `BytesAreRight` | `Spec => []BytesRight` |
| `PinsAreHeld` | `Spec => []PinsHold` |
| `WaitersAreFed` | `Spec => []WaiterFed` |

from `BufferAssumption`, whose bound on the ring (two bounce areas and a chunk, or two
read-ahead depths) is what `Buffer::open` allocates.

Three facts carry the argument. The slot after the window, `Next(win)`, stays where it is
when chunks are dropped from the front and when the window is begun anew; only the end of
a fill moves it. So the slot that read-ahead chose under the lock is still the next one
when its file access is over (`FillOK`), whatever the reader did to the window meanwhile.
New pins are only put on slots of the window, so that slot is never pinned, and a slot
that is pinned keeps its chunk (`PinnedStays`): this is what the bytes of a living view
rest on, since the window may have moved on from under it. And the bounce area is free
before it is written (`bouncePins` is 0 or 1), and what is copied into it comes from
slots that the copy has pinned (`CopyOK`), so a seek during the copy changes nothing.

The arithmetic of the ring is in lemmas of its own: which slot a chunk of the window has
(`SlotProperty`), that different chunks have different slots, and that the chunks a view
spans lie in a row unless they cross the ring's end (`InARow`). `PlacesOK` says what the
reader has in hand at each place.

### TCP

`TcpProofs` proves about `Tcp`, for any ring sizes, segment and congestion windows,
initial numbers, lengths of the streams, numbers of ranges, retries and segments in
transit, with and without full links and simultaneous opens:

| theorem | states |
|---|---|
| `Inductive` | `Spec => []IInv` |
| `TypeCorrect` | `Spec => []TypeOK` |
| `StreamsIntact` | `Spec => []StreamIntact` |
| `StreamsAsPromised` | `Spec => Implements`, the refinement of `StreamSpec` |
| `NothingIsForgotten` | `OneCaller => (Spec => []NothingForgotten)` |

from `TcpAssumption`: the range is even, and twice a stream, the peer's window and three
numbers more fit into it. `OneCaller` says that a link takes the segments of a handshake
(`~HandshakeMeetsFullLink`) and that not both ends connect (`Callers # Ends`). The
code guarantees neither, and `NothingIsForgotten` is false without either: the two
disagreements of section 13, a full link and two callers, are the counterexamples. What
the theorem adds is that nothing else goes wrong: every other full link, loss,
repetition and race of timers is covered.

A comparison of sequence numbers says nothing by itself. The proof replaces each by its
position `At(e, s)`, the distance from the initial number of its stream, and shows that
every number that is ever compared is less than half of the range (`BelowHalf`), so that
the signed comparison is that of positions. `Sender` orders the four send numbers between
the bytes that were settled and those written; `Receiver` says that the next number is
that of the first byte not taken, and that what is to be read and what was put aside are
the bytes around it. `SegOK` is what is known of a segment however late it comes: its
bytes are those of its numbers, its FIN is the end of the stream, and it acknowledges
nothing that was not taken. It only mentions what grows (`Grown`), so a segment in transit
stays right whatever happens meanwhile, and arrival needs no history.

Two corners of the code are in the invariant because without them it is not inductive. A
SYN whose retransmission was refused leaves `nxt` behind `una` (section 13): the first
disjunct of `n < u`. And a FIN sent from `SynReceived` may carry the initial number when
the SYN was rewound; its position is 0, and only if nothing was written.

A step is a chain of operators on the record of work, and each has a lemma that it keeps
`WorkOK` (`SendTcpProperty` to `TimersGoProperty`). The loop of `tcp_output` is a
recursive function of the number of rounds; that the function exists and has the value
of a round after the one before is proved first (`RoundsProperty`), and the rounds keep
`WorkOK` one by one. `Goes` lists what a step does to the streams, and the refinement reads
`StreamSpec`'s action off it.

The last theorem needs a second invariant, `AllTended`, proved on top of the first.
`NothingForgotten` itself is far from inductive: that a connection let go of has a timer
in LAST-ACK, say, rests on its end not being acknowledged, hence on what the peer took,
hence on what `fin_seq` stands for. `Tended` says how far the end of the stream has got in
each state and which timer what is not acknowledged has; it holds between any two calls of
a step. `Rested` is what `tcp_output` adds when it returns (what is unsent has a timer, or
the link is to tell of room; an acknowledgement that is due waits for the link only), and
holds between the steps. Each operator has a lemma that it keeps `Tended` (`MindedSent` to
`RewoundMinded`) and each that ends in output one that it reaches `Rested`
(`OutputReposes` to `TimersGoReposes`); an operator that changes nothing of this is `Calm`.
Of segments nothing is known beyond `IInv` but that only a caller sends a SYN without an
acknowledgement (`Asks`).

### What is model-checked only

- Liveness (`WriterServed`, `TasksGoOn`, `SendEnds`, `SleepEnds`, `CallsEnd`,
  `MailHeard`): fairness and `ENABLED` are outside the prover's reach.
- `Implements` of the link: what is in transit is a concatenation of lists of lists
  filtered by lane, that is recursion over data, and the induction that would unfold it
  is outside the prover's reach. The invariants of the link are proved.
- `FutureStaysHome`, `SomePromiseKept` with both of its parts, and TCP's
  `NothingForgotten` without `OneCaller`, are false (section 13).

Every other invariant and action property that a run checks is stated by a theorem.

No module of the project declares a RECURSIVE operator.

## 13. What the code does that its documentation does not say

Four disagreements have a run (`findings` in `PROJECT.json`):

- `executor_drop_race`. `shut_down` sets `COMPLETE` inside the critical section
  and drops the future outside of it (`executor/mod.rs:311-315`). A join handle
  polled elsewhere sees `COMPLETE` in between and takes the stage
  (`task.rs:246-261`), so the future is dropped on the handle's task, at the same
  time as `shut_down` drops it. `task.rs:106` says that what is left of a future
  is dropped "on the owning executor".
- `tcp_full_link`. The SYN times out: `snd_nxt` is rewound to `iss`
  (`tcp.rs:1303`) and the SYN sent again, but the link has no room, so `snd_nxt`
  stays there (`tcp.rs:1145-1148`). The answer to the first SYN arrives before
  room does. It moves `snd_una` past `iss` and leaves `snd_nxt` behind it
  (`tcp.rs:1033`, in `SynReceived` 930; `tcp_acked` would have moved it, 1054).
  From then on the bytes in flight are 2^32 - 1: no window is ever left, no
  persist timer starts, and what the application writes is never sent.
  `devkit_net/README.md:121` says that output "stops at the segment the link
  refused and goes on once it has room". The run `tcp` therefore has a link that
  does not refuse the segments that open.

- `hosted_races`, *a stale store*. `rx_task` reads the tokens with the other registers
  (`transport.rs:342`) and stores them later (346); between the two `tx_task` may have
  read newer ones and used them (192-194, 238). When it has written all the buffers the
  older value tells of and more, the difference wraps (188), `have_tokens` promises
  almost 2^12 buffers, and the check at 219 lets data through. `transport.rs:217` says
  that data "leaves the last receive buffers on the slave to control traffic".
- `hosted_races`, *a late answer*. `deliver` compares the uid first and clears it,
  stores the answer and gives the semaphore afterwards (`rpc.rs:149-152`); when the call
  times out in between and the next one begins, the next one is woken with the answer of
  the one before. `rpc.rs:5-7` says that such an answer is "dropped instead of being
  handed to the next caller".

The last state of `hosted_races` breaks both of these promises, each by its own race: in
the trace TLC prints, data packets go out while `rx_task` still has the tokens it read
before them, it stores these, and the last data packet is written to the buffer left to
control packets; the first call gives up between `Clear` and `Hand` of its answer, and
the second is woken with it. (A call that begins between `Hand` and `Done` would be
woken with nothing and fail; `AnswersMatch` lets that pass.)

Two disagreements that a change of the given configurations shows:

- *Two callers.* Two ends connect to each other at once, and one that has got the
  other's SYN is let go of before its own SYN was acknowledged: the connect future is
  dropped (`tcp_socket.rs:127-128`). It goes to FIN-WAIT-1 (`tcp.rs:733`), where
  `tcp_output` has no more SYNs to send; when the timer rewinds `snd_nxt` to `iss`
  (`tcp.rs:1303`) the FIN goes out with the number of the SYN, `fin_seq` becomes that
  number (`tcp.rs:1190`), and the acknowledgement of the SYN passes for one of the FIN
  (`tcp.rs:1052`). The end is in FIN-WAIT-2 then, from where a later retransmission may
  still save it; where the peer's FIN came first it is in TIME-WAIT, nothing is sent again,
  and the peer never hears the end. `devkit_net/docs/protocols.md:93` says "Simultaneous
  open is handled", and `tcp.rs:741` that a connection let go of "closes in the
  background"; the test, `tests/tcp.rs:446`, loses nothing and lets go of neither end. With
  `Callers = {a, b}` TLC reports `NothingForgotten` in the run `tcp`. It takes a peer that
  connects to the very port this end connects from, which the public calls pick at random.
- *The reserve.* "Data leaves the last receive buffers on the slave to control
  traffic" (`transport.rs:217`), but data that is copied in behind a control packet
  makes that transfer data_task's too, and control packets need no reserve
  (`transport.rs:217-229`). Data that the radio holds up may then hold every receive
  buffer, the reserve included, when the coprocessor takes several packets in a
  transfer. `INVARIANT ReserveKept` with `Aggregating = {TRUE}` in `MCHosted_races.cfg`
  shows it without any race; `CreditsKept` speaks of transfers of single packets.

Seen while reading, without a run:

- A runner computes its wait before it parks, and linking a timer unparks nobody. A
  runner that parked earlier, with nothing linked, sleeps past a timer linked later;
  when the runner that would have looked is taken by a long poll, the timer is
  overdue with a runner idle. `docs/rust.md:427-429` says that runners wait no longer
  than the next timer. `TimersKept` counts a runner in a poll as one that will look.
- A view that lies in the ring in one piece moves the cursor but not the copy
  `tell()` returns (`devkit_media/src/buffer.rs:409-411`; the copied view stores
  both, 455-458). The demuxers seek after every view, which hides it; `skip()`
  after a view would start from the old position.
- `wake` in an interrupt may drop the last reference to a task and free it there:
  the copy of the waker that `Signal::signal` or a oneshot's `send` took
  (`executor/sync.rs:30-31`) outlives the section, in which the task may have ended
  on another core.
- The coprocessor's reassembly (`serial.c`) drops or misreads a request whose chunks
  were lost in a failed transfer; the host then waits for its timeout.
- A call's timeout begins when its last chunk is in: waiting for a buffer of the
  control lane has none.
- The data buffers of the coprocessor (24 of 1536 bytes) hold more than
  `RX_STREAM_MAX`, 32 KiB; a stream beyond it would be skipped unread.
- A new send future that finds room takes it although others wait
  (`executor/sync.rs:219`); the order among waiters that line 182 and
  `docs/rust.md:434` speak of is that of the list.
- Dropping an executor drops join wakers unwoken (`executor/mod.rs:313-316`): a
  task that awaited a handle before the drop is not woken to panic as
  `docs/rust.md:425` says of awaiting it. `JoinerHears` is therefore stated for a
  pool whose executor is not dropped (`executor_join`).
- A sleep of 2^31 ticks or more is over at its first poll (`executor/timer.rs:18`);
  `idf`'s `ticks()` saturates a long duration to a value beyond it
  (`idf/src/executor.rs:98-100`).
- `now_us` wraps after 71 minutes (`sync/raw.rs:322`): a waiter queued that long
  looks young again for 2 ms. `Age` in the model only grows.

## 14. Plan

In order of importance; each line is a module and what it is for.

1. `RawLock`, `Executor`, `Channel`, `Timers`, `Buffer`, `Tcp`, `Hosted` with
   `Coprocessor`, `Mailbox` with `Notify`: done as described above.
2. Proofs. Done: the lock with its queue and `RwLockSpec`; the executor with
   `TaskSpec`; the channel with `ChannelSpec`; the mailbox with `TokenSpec`; buffers,
   answers and credit of the coprocessor link; `TimersKept` and `NeverEarly` of the
   timers; bytes, pins and waiters of the media buffer; the streams of a TCP connection
   with `StreamSpec`, its timers and its end.
3. Left of `Tcp`: an instance whose assembler holds several ranges, which needs more
   segments in transit and fewer other events. The proofs cover them.
4. Further candidates once these stand: `Dhcp` (late answers, leases), `UsbPipe`
   (cancel against completion), `Navigator` (transitions), `Graph` (flush and end
   of stream).

## 15. Not modelled

- *Pure functions on data*: codecs, image and pixel loops, compression,
  cryptography, container parsers, text layout. Their correctness is arithmetic
  over large inputs, which tests with reference files cover and a model checker
  does not.
- *Register traffic*: C drivers, board definitions, panel and sensor
  initialisation. Sequential, and its counterpart is hardware.
- *Wrappers*: `libs/idf` but for the park and its notification, `idf_compat` but
  for the kernel's calls under it, the C++ frameworks over LVGL and the SDK. They
  forward calls. The queues and semaphores of the kernel are taken as what they
  are in the modules that use them.
- *Under and above the coprocessor link*: the SDIO commands of `sdio.rs`, what the
  firmware's Wi-Fi, Bluetooth and update handlers do for a request.
- *Host tools and firmware*: command line, resource generation, demonstrations.
- *Earlier C and C++ libraries* (`audio_framework`, `media_framework`,
  `image_framework`, `ui_framework`) have Rust successors; those are planned
  where they are concurrent.
- The parts listed as planned in section 14: UI navigation, audio graph, network
  services, USB.

`PROJECT.json` has the component list with a status for each, the map from
definitions to source lines, and the list of hazards with the properties that
cover them.
