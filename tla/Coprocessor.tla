----------------------------- MODULE Coprocessor -----------------------------
(***************************************************************************)
(* The firmware at the far end of the esp-hosted link:                     *)
(* src/firmware/esp_hosted_enhanced/coprocessor/main, transport.c with     *)
(* what serial.c and rpc.c do with control packets.                        *)
(*                                                                         *)
(* The host writes a transfer into one receive buffer.  rx_task handles    *)
(* its control packets and, if it also holds data, passes it on to         *)
(* data_task, which may keep it; then the buffer is loaded again, which    *)
(* raises the token count the host reads.  To the host go the INIT event   *)
(* and answers, each in one of the control buffers.                        *)
(*                                                                         *)
(* A packet is its lane, its number and its part: in the control lane      *)
(* number 0 is the host's configuration and number u a chunk of request u. *)
(* A message to the host is the number of the request it answers, or INIT. *)
(***************************************************************************)
EXTENDS Integers, Sequences, FiniteSets, SequencesExt

CONSTANTS
  RxBufNum,       \* RX_BUF_NUM, 10 in the code
  CpCtrlBufNum,   \* CTRL_BUF_NUM
  QueueDepth,     \* QUEUE_DEPTH of rpc.c
  TokenSpan,      \* of the token count, TOKEN_MASK + 1
  LengthSpan,     \* of the length register, PKT_LEN_MASK + 1, in messages
  Chunks,         \* packets of each request
  Aggregating     \* whether it takes transfers of several packets: the choices

CoprocessorAssumption ==
  /\ RxBufNum \in Nat \ {0} /\ CpCtrlBufNum \in Nat \ {0} /\ QueueDepth \in Nat \ {0}
  /\ TokenSpan \in Nat /\ TokenSpan > RxBufNum
  /\ LengthSpan \in Nat /\ LengthSpan > CpCtrlBufNum
  /\ Chunks \in Seq(Nat \ {0})
  /\ Aggregating \subseteq BOOLEAN
ASSUME CoprocessorAssumption

VARIABLE cp

Lanes == {"ctrl", "data"}
Requests == DOMAIN Chunks
INIT == 0
Messages == {INIT} \cup Requests

Config == [lane |-> "ctrl", number |-> 0, part |-> 1]
Chunk(u, k) == [lane |-> "ctrl", number |-> u, part |-> k]
Data(n) == [lane |-> "data", number |-> n, part |-> 1]

RequestChunks == UNION {{Chunk(u, k) : k \in 1 .. Chunks[u]} : u \in Requests}
Packets ==
  {Config} \cup RequestChunks \cup [lane : {"data"}, number : Nat \ {0}, part : {1}]

\* Whether a buffer holds packets of a lane.
Holds(packets, l) == \E i \in DOMAIN packets : packets[i].lane = l

\* After transport_init.
Booted(aggregates) ==
  [aggregates |-> aggregates,
   loaded |-> RxBufNum,              \* receive buffers the hardware has
   tokens |-> RxBufNum % TokenSpan,  \* TOKEN_RDATA: those it ever had
   inbox |-> <<>>,                   \* transfers received, rx_task's first
   dataQueue |-> <<>>,               \* s_data_queue, data_task's first
   serial |-> <<>>,                  \* s_rx_buf: the chunks of a request so far
   rpcQueue |-> <<>>,                \* s_queue, rpc_task's request first
   free |-> CpCtrlBufNum,            \* s_ctrl_free
   opening |-> FALSE,                \* ctrl_task is notified
   sending |-> <<>>,                 \* queued to the driver
   shown |-> <<>>,                   \* offered to the host
   length |-> 0,                     \* PKT_LEN: what was ever offered
   interrupt |-> FALSE]

\* sdio_slave_recv_load_buf.
Loaded(c) == [c EXCEPT !.loaded = @ + 1, !.tokens = (@ + 1) % TokenSpan]

\* The driver offers all it has once the host fetched what it offered before.
Offered(c) ==
  IF c.shown # <<>> \/ c.sending = <<>> THEN c
  ELSE [c EXCEPT !.shown = c.sending, !.sending = <<>>,
                 !.length = (@ + Len(c.sending)) % LengthSpan, !.interrupt = TRUE]

\* transport_send of a control message: the buffer, then the driver's queue.
Sends(c, message) == Offered([c EXCEPT !.free = @ - 1, !.sending = Append(@, message)])

\* ctrl_task: the INIT event.  The Event_ESPInit of on_open, which only goes
\* to rpc.rs's on_event, is left out.
CtrlTask ==
  /\ cp.opening /\ cp.free > 0
  /\ cp' = [Sends(cp, INIT) EXCEPT !.opening = FALSE]

\* What the last chunk makes of those before it: a request if they are its
\* chunks, none without its first one, and either if chunks were lost in
\* between, as its length then decides.
Whole(chunks) == chunks = [k \in 1 .. Chunks[chunks[1].number] |-> Chunk(chunks[1].number, k)]
Decoded(chunks) ==
  IF Whole(chunks) THEN {chunks[1].number}
  ELSE IF chunks[1].part # 1 THEN {0}
  ELSE {0, chunks[1].number}

\* rx_task is through with a buffer's control packets: one with data is
\* data_task's, another is loaded again.
Passed(c) ==
  LET packets == Head(c.inbox)
      rest == [c EXCEPT !.inbox = Tail(@)]
  IN  IF Holds(packets, "ctrl") THEN c
      ELSE IF packets = <<>> THEN Loaded(rest)
      ELSE [rest EXCEPT !.dataQueue = Append(@, packets)]

PassOn == cp.inbox # <<>> /\ ~Holds(Head(cp.inbox), "ctrl") /\ cp' = Passed(cp)

\* It handles the first of them: on_priv, serial_on_packet with deliver and
\* rpc_on_message, which waits for room.
Handle(i) ==
  LET p == Head(cp.inbox)[i]
      chunks == Append(cp.serial, p)
      rest == Passed([cp EXCEPT !.inbox[1] = RemoveAt(@, i)])
  IN  IF p = Config THEN cp' = rest
      ELSE IF p.part < Chunks[p.number] THEN cp' = [rest EXCEPT !.serial = chunks]
      ELSE \E u \in Decoded(chunks) :
             /\ u # 0 => Len(cp.rpcQueue) <= QueueDepth
             /\ cp' = [rest EXCEPT !.serial = <<>>,
                                   !.rpcQueue = IF u = 0 THEN @ ELSE Append(@, u)]

HandleCtrl ==
  /\ cp.inbox # <<>>
  /\ \E i \in DOMAIN Head(cp.inbox) :
       /\ Head(cp.inbox)[i].lane = "ctrl"
       /\ \A j \in 1 .. i - 1 : Head(cp.inbox)[j].lane # "ctrl"
       /\ Handle(i)

\* data_task is through with a packet: the driver took it, or it waited long
\* enough for it.
HandleData ==
  /\ cp.dataQueue # <<>>
  /\ cp' = IF Len(Head(cp.dataQueue)) > 1
            THEN [cp EXCEPT !.dataQueue[1] = Tail(@)]
            ELSE Loaded([cp EXCEPT !.dataQueue = Tail(@)])

\* rpc_task answers the request it took.
Reply ==
  /\ cp.rpcQueue # <<>> /\ cp.free > 0
  /\ cp' = [Sends(cp, Head(cp.rpcQueue)) EXCEPT !.rpcQueue = Tail(@)]

\* Every step but data_task's.
RxTask == HandleCtrl \/ PassOn
CtrlStep == CtrlTask \/ RxTask \/ Reply

\* What the host does at the other end of the bus: a write fills a receive
\* buffer, a read empties what is offered and tx_done_task gives it back.
Written(packets) == [cp EXCEPT !.loaded = @ - 1, !.inbox = Append(@, packets)]
Fetched == Offered([cp EXCEPT !.shown = <<>>, !.free = @ + Len(cp.shown)])

-----------------------------------------------------------------------------
CpStates ==
  [aggregates : Aggregating, opening : BOOLEAN, interrupt : BOOLEAN,
   loaded : 0 .. RxBufNum, tokens : 0 .. (TokenSpan - 1),
   inbox : Seq(Seq(Packets)), dataQueue : Seq(Seq(Packets)),
   serial : Seq(RequestChunks), rpcQueue : Seq(Requests),
   free : 0 .. CpCtrlBufNum, sending : Seq(Messages), shown : Seq(Messages),
   length : 0 .. (LengthSpan - 1)]
CpTypeOK == cp \in CpStates /\ Len(cp.rpcQueue) <= QueueDepth + 1

\* The buffers with data in them.
WithData(buffers) == {i \in DOMAIN buffers : Holds(buffers[i], "data")}
DataBuffers == Cardinality(WithData(cp.inbox)) + Cardinality(WithData(cp.dataQueue))
=============================================================================
