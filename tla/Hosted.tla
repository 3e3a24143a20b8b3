------------------------------- MODULE Hosted --------------------------------
(***************************************************************************)
(* The host's end of the esp-hosted link, with the coprocessor's:          *)
(* src/libs/bsp_rs/src/driver/esp_hosted/transport.rs and rpc.rs.          *)
(*                                                                         *)
(* Packets wait in two lanes, each with buffers of its own.  tx_task takes *)
(* control before data, fills a transfer up with what else fits if the     *)
(* coprocessor takes that, and writes it when the coprocessor has a        *)
(* receive buffer; data alone is to leave it CtrlTokens more.  rx_task     *)
(* reads what is offered and hands answers to the one call under way.      *)
(* start resets the coprocessor until its INIT event comes.                *)
(*                                                                         *)
(* A step is one operation that another task can see: a buffer taken and   *)
(* put in, or a transfer written and its buffer freed, are one each, as    *)
(* nobody waits for what lies between.  What a task read is not what it    *)
(* finds when it acts on it: a look at the tokens and a store of them, an  *)
(* answer's match and each store of its hand-over are steps of their own.  *)
(* poll_sleep is the time between two looks at the tokens.                 *)
(***************************************************************************)
EXTENDS Coprocessor

CONSTANTS
  CtrlBufNum, TxBufNum,   \* 4 and 8 in the code
  CtrlTokens,             \* CTRL_TOKENS, 2 in the code
  StartAttempts,
  MaxData,        \* bound: data packets sent
  MaxFailures     \* bound: transfers that fail, those aside that find no receive buffer

HostedAssumption ==
  /\ CtrlBufNum \in Nat \ {0} /\ TxBufNum \in Nat \ {0} /\ CtrlTokens \in Nat
  /\ CtrlTokens < RxBufNum /\ StartAttempts \in Nat \ {0}
  /\ MaxData \in Nat /\ MaxFailures \in Nat
ASSUME HostedAssumption

VARIABLES
  pc,        \* of every task
  free,      \* each lane's free buffers
  queue,     \* each lane's queue
  held,      \* tx_task's held: what it took out of a queue to look at
  pending,   \* the semaphore tx_task waits on
  batch,     \* tx_task's item: the packets of the next transfer
  link,      \* the Transport's atomics and ready_signal
  rx,        \* rx_task's status and what is left of its stream
  rpc,       \* the Client and the call that has its call_lock
  sent,      \* data packets put in
  tries,     \* attempts of start, while it runs
  failures   \* transfers that failed

hostVars == <<pc, free, queue, held, pending, batch, link, rx, rpc, sent, tries, failures>>
vars == <<hostVars, cp>>
lanes == <<free, queue, held, pending>>

Senders == {"call", "net", "rx"}
BufNum == [l \in Lanes |-> IF l = "ctrl" THEN CtrlBufNum ELSE TxBufNum]

\* Lengths in halves of BUF_SIZE: a chunk that others follow fills a buffer.
BufSize == 2
Full(p) == p.lane = "ctrl" /\ p.number \in Requests /\ p.part < Chunks[p.number]
Length(p) == IF Full(p) THEN 2 ELSE 1
Total(packets) == Len(packets) + Cardinality({i \in DOMAIN packets : Full(packets[i])})

Init ==
  /\ pc = [start |-> "reset", tx |-> "peek", rx |-> "off", call |-> "idle", net |-> "put"]
  /\ free = BufNum
  /\ queue = [l \in Lanes |-> <<>>] /\ held = [l \in Lanes |-> <<>>]
  /\ pending = 0 /\ batch = <<>>
  /\ link = [ready |-> FALSE, signal |-> 0, aggregates |-> FALSE,
             tokens |-> 0, txCount |-> 0, rxCount |-> 0]
  /\ rx = [tokens |-> 0, length |-> 0, stream |-> <<>>]
  /\ rpc = [uid |-> 0, part |-> 1, done |-> 0, pending |-> 0, response |-> 0]
  /\ sent = 0 /\ tries = 0 /\ failures = 0
  /\ \E a \in Aggregating : cp = Booted(a)

Goto(task, place) == pc' = [pc EXCEPT ![task] = place]

-----------------------------------------------------------------------------
\* A packet on its way in: tx_get and tx_put, for the call's chunks, for data
\* of the network stack or the test channel, and for send_slave_config.  Data
\* that gets no buffer in time is refused, and changes nothing.
PacketOf(s) ==
  CASE s = "call" -> Chunk(rpc.uid, rpc.part)
    [] s = "net"  -> Data(sent + 1)
    [] s = "rx"   -> Config

TxPut(s) ==
  LET p == PacketOf(s)
  IN  /\ pc[s] = "put" /\ free[p.lane] > 0
      /\ s = "net" => pc["start"] = "done" /\ sent < MaxData
      /\ free' = [free EXCEPT ![p.lane] = @ - 1]
      /\ queue' = [queue EXCEPT ![p.lane] = Append(@, p)]
      /\ Goto(s, "give")
      /\ UNCHANGED <<held, pending, batch, link, rx, rpc, sent, tries, failures, cp>>

\* The semaphore is full when it counts all buffers.
Given == IF pending < CtrlBufNum + TxBufNum THEN pending + 1 ELSE pending

TxGive(s) ==
  /\ pc[s] = "give"
  /\ pending' = Given
  /\ CASE s = "call" -> /\ IF rpc.part < Chunks[rpc.uid]
                           THEN rpc' = [rpc EXCEPT !.part = @ + 1] /\ Goto(s, "put")
                           ELSE UNCHANGED rpc /\ Goto(s, "await")
                        /\ UNCHANGED sent
       [] s = "net"  -> sent' = sent + 1 /\ Goto(s, "put") /\ UNCHANGED rpc
       [] s = "rx"   -> Goto(s, "open") /\ UNCHANGED <<sent, rpc>>
  /\ UNCHANGED <<free, queue, held, batch, link, rx, tries, failures, cp>>

-----------------------------------------------------------------------------
\* tx_task.  have_tokens compares what is known and, where that is not enough,
\* asks the coprocessor: what rx_task stores before the answer is overwritten.
Available(tokens) == (tokens - link.txCount) % TokenSpan
Known(need) == Available(link.tokens) >= need

AskFor(need, found, again) ==
  /\ link' = [link EXCEPT !.tokens = cp.tokens]
  /\ Goto("tx", IF Available(cp.tokens) >= need THEN found ELSE again)
  /\ UNCHANGED <<lanes, batch, rx, rpc, sent, tries, failures, cp>>

\* peek: what a lane has first, in held or in its queue.
First(l) ==
  IF held[l] # <<>> \/ queue[l] = <<>> THEN held[l] ELSE <<Head(queue[l])>>
Peeked(S) ==
  [l \in Lanes |->
     IF l \in S /\ held[l] = <<>> /\ queue[l] # <<>> THEN Tail(queue[l]) ELSE queue[l]]

\* Slip: a control packet, too, waits until there are buffers left for others.
Looks ==
  /\ pc["tx"] = "peek"
  /\ held' = [l \in Lanes |-> First(l)]
  /\ queue' = Peeked(Lanes)
  /\ UNCHANGED <<free, pending, batch, link, rx, rpc, sent, tries, failures, cp>>
PeekReserving ==
  Looks /\ Goto("tx", IF \E l \in Lanes : First(l) # <<>> THEN "reserve" ELSE "sleep")
Peek ==
  /\ Looks
  /\ Goto("tx", IF First("ctrl") # <<>> THEN "pick"
                ELSE IF First("data") # <<>> THEN "reserve" ELSE "sleep")

Sleep ==
  /\ pc["tx"] = "sleep" /\ pending > 0
  /\ pending' = pending - 1
  /\ Goto("tx", "peek")
  /\ UNCHANGED <<free, queue, held, batch, link, rx, rpc, sent, tries, failures, cp>>

\* No control packet was there: data leaves receive buffers to those to come.
\* Slip: one too few.
DataNeedsLess == CtrlTokens
DataNeeds == 1 + CtrlTokens
Reserve ==
  /\ pc["tx"] = "reserve"
  /\ Goto("tx", IF Known(DataNeeds) THEN "pick" ELSE "ask")
  /\ UNCHANGED <<lanes, batch, link, rx, rpc, sent, tries, failures, cp>>
Ask == pc["tx"] = "ask" /\ AskFor(DataNeeds, "pick", "peek")

\* pop: the first lane whose first packet fits.  Slips: it need not fit; what
\* does not fit goes back behind the others.
FitsAnyhow(l, room) == First(l) # <<>>
Fits(l, room) == First(l) # <<>> /\ Length(First(l)[1]) <= room
Popped(room) == IF Fits("ctrl", room) THEN {"ctrl"} ELSE {l \in {"data"} : Fits(l, room)}
PopPutsBack(room) ==
  /\ queue' = [l \in Lanes |-> IF l \in Popped(room) THEN Peeked(Lanes)[l]
                               ELSE Peeked(Lanes)[l] \o First(l)]
  /\ held' = [l \in Lanes |-> <<>>]
Pop(room) ==
  LET peeked == IF Popped(room) = {"ctrl"} THEN {"ctrl"} ELSE Lanes
  IN  /\ queue' = Peeked(peeked)
      /\ held' = [l \in Lanes |-> IF l \in Popped(room) THEN <<>>
                                  ELSE IF l \in peeked THEN First(l) ELSE held[l]]

Pick ==
  /\ pc["tx"] = "pick"
  /\ Pop(BufSize)
  /\ \E l \in Popped(BufSize) : batch' = First(l)
  /\ Goto("tx", IF link.aggregates THEN "fill" ELSE "await")
  /\ UNCHANGED <<free, pending, link, rx, rpc, sent, tries, failures, cp>>

\* While the coprocessor takes several packets in a transfer (EXT_CAP_RX_AGGR):
\* the next packet that fits is copied into the transfer, its buffer freed.
Fill ==
  LET room == BufSize - Total(batch)
  IN  /\ pc["tx"] = "fill"
      /\ Pop(room)
      /\ IF Popped(room) = {}
         THEN Goto("tx", "await") /\ UNCHANGED <<batch, free>>
         ELSE \E l \in Popped(room) :
                /\ batch' = batch \o First(l)
                /\ free' = [free EXCEPT ![l] = @ + 1]
                /\ UNCHANGED pc
      /\ UNCHANGED <<pending, link, rx, rpc, sent, tries, failures, cp>>

\* A transfer takes one receive buffer: it is never longer than BUF_SIZE.
Await ==
  /\ pc["tx"] = "await" /\ ~Known(1)
  /\ Goto("tx", "query")
  /\ UNCHANGED <<lanes, batch, link, rx, rpc, sent, tries, failures, cp>>
Query == pc["tx"] = "query" /\ AskFor(1, "write", "await")

\* It is written, and the first packet's buffer freed.
\* Slip: the buffer is counted to the lane of the packet copied last.
WrittenFrom(p) ==
  /\ \/ pc["tx"] = "await" /\ Known(1)
     \/ pc["tx"] = "write"
  /\ free' = [free EXCEPT ![p.lane] = @ + 1]
  /\ batch' = <<>>
  /\ Goto("tx", "peek")
  /\ UNCHANGED <<queue, held, pending, rx, rpc, sent, tries>>

WriteEndsOther == WrittenFrom(batch[Len(batch)])
WriteEnds == WrittenFrom(batch[1])

Counted == [link EXCEPT !.txCount = (@ + 1) % TokenSpan]
Write ==
  /\ WriteEnds
  /\ cp.loaded > 0 /\ cp' = Written(batch)
  /\ link' = Counted
  /\ UNCHANGED failures

\* Nothing arrives, and nobody is told: a command failed, as one does that
\* finds no receive buffer.
\* Slip: counted all the same.
LinkAfterFailureCounted == Counted
LinkAfterFailure == link
WriteFails ==
  /\ WriteEnds
  /\ cp.loaded = 0 \/ failures < MaxFailures
  /\ failures' = failures + 1
  /\ link' = LinkAfterFailure
  /\ UNCHANGED cp

-----------------------------------------------------------------------------
\* rx_task.
ReadStatus ==
  /\ pc["rx"] = "wait" /\ cp.interrupt
  /\ rx' = [rx EXCEPT !.tokens = cp.tokens, !.length = cp.length]
  /\ Goto("rx", "store")
  /\ UNCHANGED <<lanes, batch, link, rpc, sent, tries, failures, cp>>

\* The tokens, clear_int, and whether there is something to read: no more than
\* the control buffers hold, which RX_STREAM_MAX has room for.
Unread == (rx.length - link.rxCount) % LengthSpan
StoreTokens ==
  /\ pc["rx"] = "store"
  /\ link' = [link EXCEPT !.tokens = rx.tokens]
  /\ rx' = [rx EXCEPT !.tokens = 0]
  /\ cp' = [cp EXCEPT !.interrupt = FALSE]
  /\ Goto("rx", IF Unread > 0 THEN "fetch" ELSE "wait")
  /\ UNCHANGED <<lanes, batch, rpc, sent, tries, failures>>

Advanced == [link EXCEPT !.rxCount = (@ + Unread) % LengthSpan]
Fetch ==
  /\ pc["rx"] = "fetch"
  /\ rx' = [rx EXCEPT !.stream = cp.shown, !.length = 0]
  /\ link' = Advanced /\ cp' = Fetched
  /\ Goto("rx", "dispatch")
  /\ UNCHANGED <<lanes, batch, rpc, sent, tries, failures>>

ReadFails ==
  /\ pc["rx"] = "fetch" /\ failures < MaxFailures
  /\ failures' = failures + 1
  /\ link' = Advanced /\ cp' = Fetched
  /\ Goto("rx", "wait")
  /\ UNCHANGED <<lanes, batch, rx, rpc, sent, tries>>

\* dispatch_stream goes on to the next message.
Handled == [rx EXCEPT !.stream = Tail(@)]
Then(stream) == Goto("rx", IF stream = <<>> THEN "wait" ELSE "dispatch")

\* on_priv: the coprocessor's INIT event; its configuration follows.
OnInit ==
  /\ pc["rx"] = "dispatch" /\ rx.stream[1] = INIT
  /\ link' = [link EXCEPT !.aggregates = cp.aggregates]
  /\ Goto("rx", "put")
  /\ UNCHANGED <<lanes, batch, rx, rpc, sent, tries, failures, cp>>

Open ==
  /\ pc["rx"] = "open"
  /\ link' = [link EXCEPT !.ready = TRUE, !.signal = 1]
  /\ rx' = Handled
  /\ Then(rx'.stream)
  /\ UNCHANGED <<lanes, batch, rpc, sent, tries, failures, cp>>

\* deliver: an answer is looked up by the call under way ...
\* Slips: any answer is taken for its own; the call is no longer pending
\* whatever came.
MatchWith(wanted, others) ==
  /\ pc["rx"] = "dispatch" /\ rx.stream[1] # INIT
  /\ IF rx.stream[1] \in wanted
     THEN Goto("rx", "clear") /\ UNCHANGED <<rx, rpc>>
     ELSE rx' = Handled /\ Then(rx'.stream) /\ rpc' = others
  /\ UNCHANGED <<lanes, batch, link, sent, tries, failures, cp>>
MatchClears == MatchWith({rpc.pending}, [rpc EXCEPT !.pending = 0])
Match == MatchWith({rpc.pending}, rpc)

\* ... and handed over, by three stores, to the call there is by then.
Clear ==
  /\ pc["rx"] = "clear"
  /\ rpc' = [rpc EXCEPT !.pending = 0]
  /\ Goto("rx", "hand")
  /\ UNCHANGED <<lanes, batch, link, rx, sent, tries, failures, cp>>

Hand ==
  /\ pc["rx"] = "hand"
  /\ rpc' = [rpc EXCEPT !.response = rx.stream[1]]
  /\ Goto("rx", "done")
  /\ UNCHANGED <<lanes, batch, link, rx, sent, tries, failures, cp>>

Done ==
  /\ pc["rx"] = "done"
  /\ rpc' = [rpc EXCEPT !.done = 1]
  /\ rx' = Handled
  /\ Then(rx'.stream)
  /\ UNCHANGED <<lanes, batch, link, sent, tries, failures, cp>>

-----------------------------------------------------------------------------
\* Client::call, by whoever holds call_lock, on a link that start brought up;
\* send_serial puts in the chunks.
Call ==
  /\ pc["call"] = "idle" /\ pc["start"] = "done" /\ rpc.uid < Len(Chunks)
  /\ LET uid == rpc.uid + 1
     IN  rpc' = [rpc EXCEPT !.uid = uid, !.done = 0, !.response = 0, !.pending = uid]
  /\ Goto("call", "put")
  /\ UNCHANGED <<lanes, batch, link, rx, sent, tries, failures, cp>>

\* The call ends, and takes what it finds.
Close ==
  /\ rpc' = [rpc EXCEPT !.pending = 0, !.part = 1, !.done = 0, !.response = 0]
  /\ Goto("call", "idle")
  /\ UNCHANGED <<lanes, batch, link, rx, sent, tries, failures, cp>>

Answered == pc["call"] = "await" /\ rpc.done = 1 /\ Close
TimeOut == pc["call"] = "await" /\ rpc.done = 0 /\ Close

-----------------------------------------------------------------------------
\* start, with tx_task spawned before its first attempt.
Reset ==
  /\ pc["start"] = "reset"
  /\ tries' = tries + 1
  /\ link' = [link EXCEPT !.rxCount = 0, !.txCount = 0, !.tokens = 0,
                          !.aggregates = FALSE, !.signal = 0]
  /\ Goto("start", "connect")
  /\ UNCHANGED <<lanes, batch, rx, rpc, sent, failures, cp>>

NextAttempt == IF tries < StartAttempts THEN "reset" ELSE "failed"

\* The coprocessor boots anew; rx_task is spawned when it first responds.
Connect ==
  /\ pc["start"] = "connect"
  /\ cp' = Booted(cp.aggregates)
  /\ pc' = [pc EXCEPT !["start"] = "notify", !["rx"] = IF @ = "off" THEN "wait" ELSE @]
  /\ UNCHANGED <<lanes, batch, link, rx, rpc, sent, tries, failures>>

ConnectFails ==
  /\ pc["start"] = "connect" /\ failures < MaxFailures
  /\ failures' = failures + 1
  /\ cp' = Booted(cp.aggregates)
  /\ Goto("start", NextAttempt)
  /\ UNCHANGED <<lanes, batch, link, rx, rpc, sent, tries>>

\* H2S_OPEN_DATA_PATH.
Notify ==
  /\ pc["start"] = "notify"
  /\ cp' = [cp EXCEPT !.opening = TRUE]
  /\ Goto("start", "await")
  /\ UNCHANGED <<lanes, batch, link, rx, rpc, sent, tries, failures>>

NotifyFails ==
  /\ pc["start"] = "notify" /\ failures < MaxFailures
  /\ failures' = failures + 1
  /\ Goto("start", "await")
  /\ UNCHANGED <<lanes, batch, link, rx, rpc, sent, tries, cp>>

Started ==
  /\ pc["start"] = "await" /\ link.signal = 1
  /\ link' = [link EXCEPT !.signal = 0]
  /\ tries' = 0
  /\ Goto("start", "done")
  /\ UNCHANGED <<lanes, batch, rx, rpc, sent, failures, cp>>

\* INIT_TIMEOUT is long: it passes only when the INIT event is not under way.
InitUnderWay ==
  \/ cp.opening \/ INIT \in ToSet(cp.sending \o cp.shown \o rx.stream)
  \/ pc["rx"] \in {"put", "give", "open"}
StartTimesOut ==
  /\ pc["start"] = "await" /\ link.signal = 0 /\ ~InitUnderWay
  /\ Goto("start", NextAttempt)
  /\ UNCHANGED <<lanes, batch, link, rx, rpc, sent, tries, failures, cp>>

-----------------------------------------------------------------------------
TxStep ==
  \/ Peek \/ Sleep \/ Reserve \/ Ask \/ Pick \/ Fill \/ Await \/ Query
  \/ Write \/ WriteFails
RxStep ==
  \/ ReadStatus \/ StoreTokens \/ Fetch \/ ReadFails \/ OnInit \/ Open
  \/ Match \/ Clear \/ Hand \/ Done
Send(s) == TxPut(s) \/ TxGive(s)
StartStep ==
  \/ Reset \/ Connect \/ ConnectFails \/ Notify \/ NotifyFails \/ Started \/ StartTimesOut
CpStep == CtrlStep /\ UNCHANGED hostVars
DataStep == HandleData /\ UNCHANGED hostVars

Next ==
  \/ TxStep \/ RxStep \/ StartStep \/ CpStep \/ DataStep
  \/ Call \/ Answered \/ TimeOut
  \/ \E s \in Senders : Send(s)

Spec == Init /\ [][Next]_vars

\* Every task goes on but those that make calls and send data, and data_task,
\* which may keep what it has.  No call is saved by giving up.
Fairness ==
  /\ WF_vars(TxStep) /\ WF_vars(RxStep \/ Send("rx"))
  /\ WF_vars(StartStep \/ Send("call") \/ Answered) /\ WF_vars(pc["net"] = "give" /\ Send("net"))
  /\ WF_vars(CtrlTask /\ UNCHANGED hostVars)
  /\ WF_vars(RxTask /\ UNCHANGED hostVars) /\ WF_vars(Reply /\ UNCHANGED hostVars)
FairSpec == Spec /\ Fairness

-----------------------------------------------------------------------------
\* Type invariant.
Tasks ==
  [start : {"reset", "connect", "notify", "await", "done", "failed"},
   tx : {"peek", "sleep", "reserve", "ask", "pick", "fill", "await", "query", "write"},
   rx : {"off", "wait", "store", "fetch", "dispatch", "put", "give", "open",
         "clear", "hand", "done"},
   call : {"idle", "put", "give", "await"}, net : {"put", "give"}]
LinkStates ==
  [ready : BOOLEAN, signal : 0 .. 1, aggregates : BOOLEAN, tokens : 0 .. (TokenSpan - 1),
   txCount : 0 .. (TokenSpan - 1), rxCount : 0 .. (LengthSpan - 1)]
RxStates ==
  [tokens : 0 .. (TokenSpan - 1), length : 0 .. (LengthSpan - 1), stream : Seq(Messages)]
RpcStates ==
  [uid : {0} \cup Requests, part : Nat \ {0}, done : 0 .. 1,
   pending : Messages, response : Messages]
OfLane(l) == {p \in Packets : p.lane = l}
LanesTyped ==
  /\ {queue, held} \subseteq [Lanes -> Seq(Packets)]
  /\ \A l \in Lanes :
       /\ {queue[l], held[l]} \subseteq Seq(OfLane(l))
       /\ Len(queue[l]) <= BufNum[l] /\ Len(held[l]) <= 1
TypeOK ==
  /\ CpTypeOK
  /\ pc \in Tasks /\ link \in LinkStates /\ rx \in RxStates /\ rpc \in RpcStates
  /\ free \in [Lanes -> Nat] /\ \A l \in Lanes : free[l] <= BufNum[l]
  /\ LanesTyped
  /\ pending \in 0 .. (CtrlBufNum + TxBufNum)
  /\ batch \in Seq(Packets) /\ Total(batch) <= BufSize
  /\ sent \in 0 .. MaxData /\ tries \in 0 .. StartAttempts /\ failures \in Nat

\* Every buffer is in one place of its lane, so that putting one in or giving
\* one back never waits; and so are the coprocessor's of both kinds.
Taken(l) ==
  Len(queue[l]) + Len(held[l]) + (IF batch # <<>> /\ batch[1].lane = l THEN 1 ELSE 0)
BuffersKept ==
  /\ \A l \in Lanes : free[l] + Taken(l) = BufNum[l]
  /\ cp.loaded + Len(cp.inbox) + Len(cp.dataQueue) = RxBufNum
  /\ cp.free + Len(cp.sending) + Len(cp.shown) = CpCtrlBufNum

\* What a look at the coprocessor's tokens tells is right: as many transfers may
\* follow as it has receive buffers, whatever failed and wrapped and however
\* often start began again.
CountsAgree == Available(cp.tokens) = cp.loaded

\* What is stored may not be: rx_task stores what it read before tx_task wrote.
CountSound == Available(link.tokens) <= cp.loaded

\* "Data leaves the last receive buffers on the slave to control traffic"
\* (transport.rs:217).
ReserveKept == DataBuffers <= RxBufNum - CtrlTokens

\* Data that tx_task has at hand is data it may send, and so was what it sent.
Spared ==
  /\ ReserveKept
  /\ pc["tx"] = "pick" => held["ctrl"] # <<>> \/ cp.loaded > CtrlTokens
  /\ batch # <<>> /\ batch[1].lane = "data" => cp.loaded > CtrlTokens

\* The host's count agrees with the coprocessor's; and it takes a stored count
\* that promises too much for data in transfers of one packet to get at the
\* receive buffers left to control packets.
CreditsKept ==
  /\ []CountsAgree
  /\ [][~cp.aggregates /\ Spared /\ CountSound => Spared']_vars

\* "a response whose uid does not match the pending request is dropped instead
\* of being handed to the next caller" (rpc.rs:5): who is woken finds the answer
\* to its own request, or none.
AnswersMatch ==
  pc["call"] = "await" /\ rpc.done = 1 => rpc.response \in {0, rpc.uid}

\* The code keeps neither promise: rx_task may store tokens it read long ago,
\* and hand an answer to a call that began after its match.  A state in which
\* this does not hold is one in which both are broken.
SomePromiseKept == ReserveKept \/ AnswersMatch

\* A call that nobody has woken, and nobody is about to wake, still matches its
\* answer: an answer handed over too late costs the next call its own, but
\* never leaves it to wait for nothing.
HandingOver == pc["rx"] \in {"clear", "hand", "done"}
CallsStayMatched ==
  pc["call"] # "idle" /\ rpc.done = 0 /\ ~HandingOver => rpc.pending = rpc.uid

\* start comes to an end, and without failures a call is answered even if the
\* coprocessor keeps the data it has, unless that fills the receive buffers left
\* to control packets: no packet is left behind by a task that sleeps.
CallsEnd ==
  []<>(/\ pc["start"] \in {"done", "failed"}
       /\ pc["call"] = "idle" \/ failures > 0 \/ ~ReserveKept)

\* What each lane has in transit, the oldest first.
OnLane(packets, l) == SelectSeq(packets, LAMBDA p : p.lane = l)
Transit ==
  [l \in Lanes |->
     OnLane(FlattenSeq(cp.dataQueue \o cp.inbox) \o batch, l) \o held[l] \o queue[l]]
Link == INSTANCE LinkSpec WITH transit <- Transit
Implements == Link!Spec
=============================================================================
