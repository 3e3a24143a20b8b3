-------------------------------- MODULE Tcp ----------------------------------
(***************************************************************************)
(* One TCP connection of devkit_net (src/libs/devkit_net/src/tcp.rs)       *)
(* between two stacks, over a network that loses, duplicates and reorders  *)
(* segments, and links that may be full.                                   *)
(*                                                                         *)
(* A step is one call into a stack under its lock: an application's call,  *)
(* a segment that arrives, or the timers.  The operators that make up a    *)
(* step work on a record w: the control block t, what it has done to the   *)
(* two streams h, and the segments sent so far.  Sequence numbers are      *)
(* modulo Space; a byte is its number in its stream.                       *)
(*                                                                         *)
(* A timer is armed or not, and may go off whenever it is.  The congestion *)
(* window only decides how much goes out at once: any value of Cwnds.      *)
(***************************************************************************)
EXTENDS Integers, Sequences, FiniteSets, FiniteSetsExt, Functions

CONSTANTS
  Client, Server,
  Space,         \* of sequence numbers, 2^32 in the code
  Iss,           \* each end's initial sequence number
  RxRing, TxRing,    \* each end's Buffers
  Mss,
  NoDelay,       \* whether the applications set it
  Ranges,        \* of the Assembler, 4 in the code
  DupAcks,       \* to a fast retransmission, 3 in the code
  MaxRetries, MaxSynRetries,
  Cwnds,         \* bound: the congestion windows, in bytes
  Rooms,         \* bound: segments a link that fills in a step still takes
  MaxRefusals,   \* bound: steps of each end that meet a full link
  HandshakeMeetsFullLink,   \* whether it may refuse those that open
  InTransit,     \* bound: segments of each end that may still arrive
  ToWrite,       \* bound: bytes each end writes
  Pieces,        \* bound: the sizes of its writes and reads
  Callers,       \* the ends that connect
  HalfClosers,   \* bound: the ends that shut down before they let go
  Patient,       \* bound: the ends that let go last
  None

Ends == {Client, Server}
Peer(e) == IF e = Client THEN Server ELSE Client

\* A stream and the window after it are less than half of the range: segments
\* stay in transit for ever here, so a number must not come round again.
TcpAssumption ==
  /\ Client # Server
  /\ Space \in Nat /\ (\E n \in 2 .. Space : Space = 2 * n) /\ None \notin 0 .. (Space - 1)
  /\ Iss \in [Ends -> 0 .. (Space - 1)]
  /\ RxRing \in [Ends -> Nat \ {0}] /\ TxRing \in [Ends -> Nat \ {0}]
  /\ ToWrite \in [Ends -> Nat] /\ Pieces \subseteq Nat \ {0}
  /\ Callers \subseteq Ends /\ HalfClosers \subseteq Ends /\ Patient \subseteq Ends
  /\ \A e \in Ends : 2 * (ToWrite[e] + RxRing[Peer(e)] + 3) <= Space
  /\ Mss \in Nat \ {0} /\ Cwnds \subseteq Nat \ (0 .. (Mss - 1)) /\ Rooms \subseteq Nat
  /\ MaxRefusals \in [Ends -> Nat]
  /\ HandshakeMeetsFullLink \in BOOLEAN /\ NoDelay \in BOOLEAN
  /\ Ranges \in Nat \ {0} /\ DupAcks \in Nat \ {0}
  /\ InTransit \in [Ends -> Nat \ {0}]
  /\ MaxRetries \in Nat /\ MaxSynRetries \in Nat
ASSUME TcpAssumption

VARIABLES
  tcb,        \* each end's connection, or None
  hist,       \* what it has done to the streams, for what is claimed of them
  listening,  \* whether the server's Listener is there
  net,        \* the last segments each end has sent, which may arrive: how many others since
  refusals    \* steps that met a full link

vars == <<tcb, hist, listening, net, refusals>>

-----------------------------------------------------------------------------
\* Numbers, and sequence numbers.
Lesser(m, n) == IF m <= n THEN m ELSE n
Greater(m, n) == IF m >= n THEN m ELSE n
Left(m, n) == IF m >= n THEN m - n ELSE 0
Plus(a, n) == (a + n) % Space
Diff(a, b) == (a - b) % Space
Lt(a, b) == Diff(a, b) >= Space \div 2
Le(a, b) == a = b \/ Lt(a, b)

States == {"SynSent", "SynReceived", "Established", "FinWait1", "FinWait2", "CloseWait",
           "Closing", "LastAck", "TimeWait", "Closed"}
Synchronized(t) == t.state \notin {"SynSent", "SynReceived", "Closed"}

NoAsm == [o \in {} |-> 0]

NewTcb(e, state) ==
  [state |-> state, listener |-> FALSE, ready |-> FALSE, released |-> FALSE,
   error |-> FALSE,
   rxRing |-> RxRing[e], rx |-> <<>>, asm |-> NoAsm, txRing |-> TxRing[e], tx |-> 0,
   iss |-> Iss[e], una |-> Iss[e], nxt |-> Iss[e], max |-> Iss[e], base |-> Plus(Iss[e], 1),
   wnd |-> 0, wl1 |-> 0, wl2 |-> 0, maxWnd |-> 0, rnxt |-> 0, adv |-> 0,
   finQueued |-> FALSE, finSent |-> FALSE, finSeq |-> None, finReceived |-> FALSE,
   rtx |-> FALSE, retries |-> 0, ackAt |-> FALSE, ackNow |-> FALSE, unacked |-> 0,
   probe |-> FALSE, persist |-> FALSE, linkRetry |-> FALSE, closeAt |-> FALSE,
   dupacks |-> 0, recover |-> None]

InFlight(t) == Diff(t.nxt, t.una)
Unsent(t) ==
  IF t.finSent THEN 0
  ELSE IF Lt(t.nxt, t.base) THEN t.tx
  ELSE Left(t.tx, Diff(t.nxt, t.base))
Advance(t, to) == [t EXCEPT !.nxt = to, !.max = IF Lt(t.max, to) THEN to ELSE t.max]
RxFree(t) == t.rxRing - Len(t.rx)

\* Tcb::window: the right edge moves only by a worthwhile step.
Step(t) == Lesser(t.rxRing \div 2, Mss)
Grew(t) == RxFree(t) >= Diff(t.adv, t.rnxt) + Step(t)
Edge(t) ==
  LET adv == IF Lt(t.adv, t.rnxt) THEN t.rnxt ELSE t.adv
  IN  IF Grew([t EXCEPT !.adv = adv]) THEN Plus(t.rnxt, RxFree(t)) ELSE adv

CloseWith(t, error) ==
  [t EXCEPT !.state = "Closed", !.error = @ \/ error,
            !.rtx = FALSE, !.ackAt = FALSE, !.persist = FALSE, !.closeAt = FALSE]

-----------------------------------------------------------------------------
\* What is under way in a step: c is the congestion window in it, and how many
\* segments a full link still takes, or None.
Conditions == [cwnd : Cwnds, room : Rooms \cup {None}]
Work(e, c) ==
  [e |-> e, t |-> tcb[e], h |-> hist[e], out |-> <<>>, sent |-> TRUE, full |-> FALSE,
   cwnd |-> c.cwnd, room |-> c.room]
Room(w) ==
  \/ w.room = None \/ Len(w.out) < w.room
  \/ w.t # None /\ ~Synchronized(w.t) /\ ~HandshakeMeetsFullLink
On(w, t) == [w EXCEPT !.t = t]

Flags == [syn : BOOLEAN, fin : BOOLEAN, rst : BOOLEAN, acks : BOOLEAN]
SYN == [syn |-> TRUE, fin |-> FALSE, rst |-> FALSE, acks |-> FALSE]
ACK == [syn |-> FALSE, fin |-> FALSE, rst |-> FALSE, acks |-> TRUE]
RST == [syn |-> FALSE, fin |-> FALSE, rst |-> TRUE, acks |-> FALSE]

Segment(seq, ack, flags, data, wnd) ==
  [seq |-> seq, ack |-> ack, flags |-> flags, data |-> data, wnd |-> wnd]
SegLen(s) == Len(s.data) + (IF s.flags.syn THEN 1 ELSE 0) + (IF s.flags.fin THEN 1 ELSE 0)

\* Ring::read_at: what lies beyond the held bytes is whatever was there.
Bytes(w, offset, n) ==
  [i \in 1 .. n |-> IF offset + i <= w.t.tx THEN w.h.settled + offset + i - 1 ELSE None]

\* send_tcp; the window is worked out even when the link has no room.
SendTcp(w, seq, flags, offset, n) ==
  LET t == [w.t EXCEPT !.adv = Edge(w.t)]
      seg == Segment(seq, IF flags.acks THEN t.rnxt ELSE 0, flags, Bytes(w, offset, n),
                     Diff(t.adv, t.rnxt))
  IN  IF ~Room(w) THEN [w EXCEPT !.t = t, !.sent = FALSE, !.full = TRUE]
      ELSE [w EXCEPT !.t = IF flags.acks
                           THEN [t EXCEPT !.ackNow = FALSE, !.ackAt = FALSE, !.unacked = 0]
                           ELSE t,
                     !.out = Append(@, seg), !.sent = TRUE]

\* send_reset, for a segment nobody wants.
SendReset(w, seg) ==
  LET reply == IF seg.flags.acks THEN Segment(seg.ack, 0, RST, <<>>, 0)
               ELSE Segment(0, Plus(seg.seq, SegLen(seg)), [RST EXCEPT !.acks = TRUE], <<>>, 0)
  IN  IF Room(w) THEN [w EXCEPT !.out = Append(@, reply)]
      ELSE [w EXCEPT !.full = TRUE]

\* worth_sending.
WorthSending(t, n) ==
  /\ n > 0
  /\ IF n >= Mss \/ t.probe THEN TRUE
     ELSE IF n = Unsent(t) THEN InFlight(t) = 0 \/ NoDelay
     ELSE n * 2 >= t.maxWnd

\* One round of tcp_output's loop: the next segment, if one goes out.
SendNext(w) ==
  LET t      == w.t
      unsent == Unsent(t)
      window == Left(Lesser(t.wnd, w.cwnd), InFlight(t))
      n      == Lesser(Lesser(unsent, Mss), IF t.probe THEN Greater(window, 1) ELSE window)
      fin    == t.finQueued /\ n = unsent
      w1     == SendTcp(w, t.nxt, [ACK EXCEPT !.fin = fin], Diff(t.nxt, t.base), n)
      t1     == Advance(w1.t, Plus(t.nxt, n + (IF fin THEN 1 ELSE 0)))
  IN  IF ~w.sent \/ t.finSent \/ ~(fin \/ WorthSending(t, n)) THEN w
      ELSE IF ~w1.sent THEN w1
      ELSE On(w1, [t1 EXCEPT !.finSeq = IF fin THEN Plus(t.nxt, n) ELSE @,
                             !.finSent = @ \/ fin, !.probe = FALSE, !.rtx = TRUE])

Retry(w) == [w EXCEPT !.t.linkRetry = TRUE]

OutputSyn(w) ==
  LET w1 == SendTcp(w, w.t.iss, [SYN EXCEPT !.acks = w.t.state = "SynReceived"], 0, 0)
  IN  IF w.t.nxt # w.t.iss THEN w
      ELSE IF ~w1.sent THEN Retry(w1)
      ELSE On(w1, [Advance(w1.t, Plus(w.t.iss, 1)) EXCEPT !.rtx = TRUE])

\* The acknowledgement that is due, and the persist timer.
Probing(t) == IF Unsent(t) > 0 /\ InFlight(t) = 0 THEN [t EXCEPT !.persist = TRUE] ELSE t
OutputAck(w) ==
  LET w1 == SendTcp(w, w.t.nxt, ACK, 0, 0)
      w2 == IF ~w.t.ackNow THEN w ELSE IF w1.sent THEN w1 ELSE Retry(w1)
  IN  On(w2, Probing(w2.t))

\* The loop: what was sent after so many rounds.
Rounds(w) ==
  LET after[i \in Nat] == IF i = 0 THEN w ELSE SendNext(after[i - 1]) IN after

\* tcp_output.
Output(w) ==
  LET w0 == [w EXCEPT !.t.linkRetry = FALSE, !.sent = TRUE]
      w1 == Rounds(w0)[w.t.tx + 1]
  IN  IF w.t.state = "Closed" THEN w0
      ELSE IF ~Synchronized(w.t) THEN OutputSyn(w0)
      ELSE IF ~w1.sent THEN Retry(w1)
      ELSE OutputAck(w1)

AckNow(w) == Output([w EXCEPT !.t.ackNow = TRUE])

Abort(w) ==
  LET w1 == SendTcp(w, w.t.nxt, [RST EXCEPT !.acks = TRUE], 0, 0)
      w2 == IF Synchronized(w.t) \/ w.t.state = "SynReceived" THEN w1 ELSE w
  IN  On(w2, CloseWith(w2.t, FALSE))

-----------------------------------------------------------------------------
\* A segment arrives.
OnSyn(t, seg) ==
  [t EXCEPT !.rnxt = Plus(seg.seq, 1), !.adv = Plus(seg.seq, 1),
            !.wnd = seg.wnd, !.maxWnd = seg.wnd, !.wl1 = seg.seq, !.wl2 = seg.ack]

SynSentInput(w, seg) ==
  LET t     == w.t
      ackOk == Lt(t.una, seg.ack) /\ Le(seg.ack, t.max)
      opened == [OnSyn(t, seg) EXCEPT !.una = seg.ack, !.state = "Established",
                                      !.rtx = FALSE, !.retries = 0]
  IN  IF seg.flags.acks /\ ~ackOk THEN IF seg.flags.rst THEN w ELSE SendReset(w, seg)
      ELSE IF seg.flags.rst THEN IF seg.flags.acks THEN On(w, CloseWith(t, TRUE)) ELSE w
      ELSE IF ~seg.flags.syn THEN w
      ELSE IF ~seg.flags.acks
           THEN Output(On(w, [OnSyn(t, seg) EXCEPT !.state = "SynReceived", !.nxt = t.iss]))
      ELSE AckNow(On(w, opened))

\* A SYN that was seen already, in a simultaneous open.
Trimmed(t, seg) ==
  IF t.state = "SynReceived" /\ seg.flags.syn /\ Plus(seg.seq, 1) = t.rnxt /\ ~t.listener
  THEN [seg EXCEPT !.seq = t.rnxt, !.flags.syn = FALSE] ELSE seg

Acceptable(t, seg) ==
  LET window == RxFree(t)
      len    == SegLen(seg)
      In(seq) == Le(t.rnxt, seq) /\ Lt(seq, Plus(t.rnxt, window))
  IN  IF len = 0 THEN IF window = 0 THEN seg.seq = t.rnxt ELSE In(seg.seq)
      ELSE window > 0 /\ (In(seg.seq) \/ In(Plus(seg.seq, len - 1)))

ResetBy(t) ==
  LET t1 == IF t.state = "SynReceived" THEN [t EXCEPT !.released = @ \/ t.listener] ELSE t
  IN  CloseWith(t1, t.state \in {"Established", "FinWait1", "FinWait2", "CloseWait"})

Establish(t, seg) ==
  [t EXCEPT !.state = "Established", !.una = seg.ack, !.wnd = seg.wnd,
            !.maxWnd = Greater(@, seg.wnd), !.wl1 = seg.seq, !.wl2 = seg.ack,
            !.rtx = FALSE, !.retries = 0, !.ready = t.listener]

RetransmitFirst(w) ==
  LET offset == Diff(w.t.una, w.t.base)
      n      == Lesser(Left(w.t.tx, offset), Mss)
  IN  IF n > 0 THEN SendTcp(w, w.t.una, ACK, offset, n) ELSE w

\* tcp_acked.
Forgotten(t, ack) == IF Lt(t.base, ack) THEN Lesser(Diff(ack, t.base), t.tx) ELSE 0
FinAcked(t, ack) == t.finSeq # None /\ Lt(t.finSeq, ack)

AckedClose(t) ==
  CASE t.state = "FinWait1" -> [t EXCEPT !.state = "FinWait2", !.closeAt = @ \/ t.released]
    [] t.state = "Closing"  -> [t EXCEPT !.state = "TimeWait"]
    [] t.state = "LastAck"  -> CloseWith(t, FALSE)
    [] OTHER -> t

Acked(w, ack) ==
  LET t    == w.t
      gone == Forgotten(t, ack)
      t1   == [t EXCEPT !.tx = @ - gone, !.base = Plus(@, gone), !.una = ack,
                        !.nxt = IF Lt(@, ack) THEN ack ELSE @,
                        !.finSent = @ \/ FinAcked(t, ack), !.retries = 0,
                        !.rtx = ack # t.max, !.persist = FALSE, !.dupacks = 0,
                        !.recover = IF @ # None /\ Le(@, ack) THEN None ELSE @]
      w1   == [w EXCEPT !.t = t1, !.h.settled = @ + gone]
      w2   == IF t1.recover # None THEN RetransmitFirst(w1) ELSE w1
  IN  IF FinAcked(t, ack) THEN On(w2, AckedClose(w2.t)) ELSE w2

Duplicate(t, seg) ==
  /\ seg.ack = t.una /\ seg.data = <<>> /\ ~seg.flags.fin /\ seg.wnd = t.wnd /\ t.una # t.max

DuplicateAck(w) ==
  LET n == Lesser(w.t.dupacks, DupAcks) + 1
      t == [w.t EXCEPT !.dupacks = n]
  IN  IF n = DupAcks /\ t.recover = None
      THEN RetransmitFirst(On(w, [t EXCEPT !.recover = t.nxt])) ELSE On(w, t)

UpdateWindow(t, seg) ==
  IF Lt(t.wl1, seg.seq) \/ (t.wl1 = seg.seq /\ Le(t.wl2, seg.ack))
  THEN [t EXCEPT !.wnd = seg.wnd, !.maxWnd = Greater(@, seg.wnd), !.wl1 = seg.seq, !.wl2 = seg.ack,
                 !.persist = @ /\ seg.wnd = 0]
  ELSE t

\* Assembler::add and take_front, as the offsets held; adjacent ones merge.
Runs(held) == Cardinality({o \in held : (o - 1) \notin held})
Added(asm, start, data) ==
  LET new == [o \in start .. (start + Len(data) - 1) |-> data[o - start + 1]]
      all == [o \in DOMAIN asm \cup DOMAIN new |-> IF o \in DOMAIN new THEN new[o] ELSE asm[o]]
  IN  IF Runs(DOMAIN all) <= Ranges THEN all ELSE asm
Front(asm) == Min({n \in 0 .. Cardinality(DOMAIN asm) : n \notin DOMAIN asm})
TakenFront(asm) ==
  LET n == Front(asm) IN [o \in {i - n : i \in DOMAIN asm \ (0 .. (n - 1))} |-> asm[o + n]]

\* Where a segment's bytes go, how many of them came before, and those kept.
Start(t, seg) == IF Lt(seg.seq, t.rnxt) THEN 0 ELSE Diff(seg.seq, t.rnxt)
Skip(t, seg) == IF Lt(seg.seq, t.rnxt) THEN Diff(t.rnxt, seg.seq) ELSE 0
KeptLen(t, seg) == Lesser(Len(seg.data) - Skip(t, seg), Left(RxFree(t), Start(t, seg)))

\* Slips: keeps more than there is room for; keeps the wrong end.
KeptWhole(t, seg) == SubSeq(seg.data, Skip(t, seg) + 1, Len(seg.data))
KeptFront(t, seg) == SubSeq(seg.data, 1, KeptLen(t, seg))
Kept(t, seg) == SubSeq(seg.data, Skip(t, seg) + 1, Skip(t, seg) + KeptLen(t, seg))

\* tcp_data.
Data(w, seg) ==
  LET t    == w.t
      asm  == IF Kept(t, seg) = <<>> THEN t.asm ELSE Added(t.asm, Start(t, seg), Kept(t, seg))
      n    == Front(asm)
      rest == TakenFront(asm)
      t1   == [t EXCEPT !.asm = rest, !.rx = @ \o [i \in 1 .. n |-> asm[i - 1]],
                        !.rnxt = Plus(@, n)]
      t2   == IF Start(t, seg) > 0 \/ n = 0 \/ rest # NoAsm THEN [t1 EXCEPT !.ackNow = TRUE]
              ELSE IF t.unacked >= 1 THEN [t1 EXCEPT !.unacked = 2, !.ackNow = TRUE]
              ELSE [t1 EXCEPT !.unacked = 1, !.ackAt = TRUE]
  IN  IF Skip(t, seg) >= Len(seg.data) THEN [w EXCEPT !.t.ackNow = TRUE]
      ELSE [w EXCEPT !.t = t2, !.h.took = @ + n]

\* Slip: the end of the stream is taken before what precedes it.
FinDueEarly(t, seg) == seg.flags.fin /\ ~t.finReceived
FinDue(t, seg) ==
  seg.flags.fin /\ Plus(seg.seq, Len(seg.data)) = t.rnxt /\ ~t.finReceived

FinArrives(w, seg) ==
  LET t    == w.t
      next == CASE t.state = "Established" -> "CloseWait"
                [] t.state = "FinWait1" -> IF FinAcked(t, t.una) THEN "TimeWait" ELSE "Closing"
                [] t.state = "FinWait2" -> "TimeWait"
                [] OTHER -> t.state
  IN  IF FinDue(t, seg)
      THEN [w EXCEPT !.t = [t EXCEPT !.rnxt = Plus(@, 1), !.finReceived = TRUE, !.ackNow = TRUE,
                                     !.state = next],
                     !.h.ended = TRUE]
      ELSE w

Lingering(t) == IF t.state = "TimeWait" THEN [t EXCEPT !.closeAt = TRUE, !.rtx = FALSE] ELSE t

\* The part of tcp_process after the handshake's and the tests.
Acknowledged(w, seg) ==
  LET t  == w.t
      w1 == IF seg.wnd = 0 THEN [w EXCEPT !.t.retries = 0] ELSE w
      w2 == IF Lt(t.una, seg.ack) THEN Acked(w1, seg.ack)
            ELSE IF Duplicate(t, seg) THEN DuplicateAck(w1) ELSE w1
      w3 == On(w2, UpdateWindow(w2.t, seg))
      w4 == IF seg.data # <<>> /\ w3.t.state \in {"Established", "FinWait1", "FinWait2"}
            THEN Data(w3, seg) ELSE w3
      w5 == FinArrives(w4, seg)
  IN  IF Lt(t.max, seg.ack) \/ Lt(seg.ack, (t.una - t.maxWnd) % Space) THEN AckNow(w)
      ELSE Output(On(w5, Lingering(w5.t)))

\* tcp_process.
Process(w, seg0) ==
  LET t   == w.t
      seg == Trimmed(t, seg0)
      opening == t.state = "SynReceived"
  IN  IF t.state = "SynSent" THEN SynSentInput(w, seg0)
      ELSE IF ~Acceptable(t, seg) THEN IF seg.flags.rst THEN w ELSE AckNow(w)
      ELSE IF seg.flags.rst
           THEN IF seg.seq # t.rnxt THEN AckNow(w) ELSE On(w, ResetBy(t))
      ELSE IF seg.flags.syn THEN AckNow(w)
      ELSE IF ~seg.flags.acks THEN w
      ELSE IF opening /\ ~(Lt(t.una, seg.ack) /\ Le(seg.ack, t.max)) THEN SendReset(w, seg)
      ELSE Acknowledged(IF opening THEN On(w, Establish(t, seg)) ELSE w, seg)

-----------------------------------------------------------------------------
\* with_tcb: a released connection lets go of its memory, and of its slot.
Settled(t) ==
  LET t1 == IF t.state = "TimeWait" /\ t.released
            THEN [t EXCEPT !.rx = <<>>, !.rxRing = 0, !.tx = 0, !.txRing = 0] ELSE t
  IN  IF t.state = "Closed" /\ t.released THEN None ELSE t1

\* The network keeps the last segments: it may deliver one again or late, after
\* others, and loses one it never delivers.
Carried(e, out) ==
  LET Newer(seg) ==
        {out[j] : j \in {k \in DOMAIN out : \A i \in DOMAIN out : out[i] = seg => i < k}}
        \cup {old \in DOMAIN net[e] : seg \notin Range(out) /\ net[e][old] < net[e][seg]}
      all == DOMAIN net[e] \cup Range(out)
  IN  [seg \in {s \in all : Cardinality(Newer(s)) < InTransit[e]} |-> Cardinality(Newer(seg))]

Done(e, c, w) ==
  /\ c.room # None => refusals[e] < MaxRefusals[e] /\ w.full
  /\ refusals' = IF w.full THEN [refusals EXCEPT ![e] = @ + 1] ELSE refusals
  /\ tcb' = [tcb EXCEPT ![e] = IF w.t = None THEN None ELSE Settled(w.t)]
  /\ hist' = [hist EXCEPT ![e] = w.h]
  /\ net' = [net EXCEPT ![e] = Carried(e, w.out)]

Init ==
  /\ tcb = [e \in Ends |-> None]
  /\ hist = [e \in Ends |-> [opened |-> FALSE, wrote |-> 0, shut |-> FALSE, took |-> 0,
                             ended |-> FALSE, settled |-> 0]]
  /\ listening = TRUE
  /\ net = [e \in Ends |-> [seg \in {} |-> 0]] /\ refusals = [e \in Ends |-> 0]

\* Bound: an end has one connection; whoever comes later finds the backlog full.
Opening(w, t) == Output([w EXCEPT !.t = t, !.h.opened = TRUE])

Connect(e, c) ==
  /\ e \in Callers /\ ~hist[e].opened
  /\ Done(e, c, Opening(Work(e, c), NewTcb(e, "SynSent")))
  /\ UNCHANGED listening

PassiveOpen(w, seg) ==
  IF w.h.opened THEN w
  ELSE Opening(w, [OnSyn(NewTcb(w.e, "SynReceived"), seg) EXCEPT !.listener = TRUE])

\* tcp_input.
Received(w, seg) ==
  IF w.t # None /\ w.t.state # "Closed" THEN Process(w, seg)
  ELSE IF seg.flags = SYN /\ w.e = Server /\ listening THEN PassiveOpen(w, seg)
  ELSE IF seg.flags.rst THEN w ELSE SendReset(w, seg)

Input(e, c) ==
  /\ \E seg \in DOMAIN net[Peer(e)] : Done(e, c, Received(Work(e, c), seg))
  /\ UNCHANGED listening

Accept ==
  /\ listening
  /\ tcb[Server] # None /\ tcb[Server].ready
  /\ tcb' = [tcb EXCEPT ![Server].listener = FALSE, ![Server].ready = FALSE]
  /\ UNCHANGED <<hist, listening, net, refusals>>

\* Bound: not once the connection was accepted, which it does not concern.
Unlisten(c) ==
  /\ listening
  /\ hist[Server].opened => tcb[Server] # None /\ tcb[Server].listener
  /\ listening' = FALSE
  /\ IF tcb[Server] # None /\ tcb[Server].listener
     THEN Done(Server, c, Abort([Work(Server, c) EXCEPT !.t.released = TRUE, !.t.listener = FALSE,
                                                        !.t.ready = FALSE]))
     ELSE UNCHANGED <<tcb, hist, net, refusals>>

\* The application's calls, while it has the connection.
Owned(e) == tcb[e] # None /\ ~tcb[e].listener /\ ~tcb[e].released

Write(e, size, c) ==
  LET w == Work(e, c)
      n == Lesser(Lesser(size, w.t.txRing - w.t.tx), ToWrite[e] - w.h.wrote)
  IN  /\ Owned(e)
      /\ ~w.t.error /\ ~w.t.finQueued /\ w.t.state \in {"Established", "CloseWait"}
      /\ n > 0
      /\ Done(e, c, Output([w EXCEPT !.t.tx = @ + n, !.h.wrote = @ + n]))
      /\ UNCHANGED listening

Read(e, size, c) ==
  LET w == Work(e, c)
      n == Lesser(size, Len(w.t.rx))
      t == [w.t EXCEPT !.rx = SubSeq(@, n + 1, Len(@))]
  IN  /\ Owned(e) /\ n > 0
      /\ Done(e, c, IF Synchronized(t) /\ Grew(t) THEN AckNow(On(w, t)) ELSE On(w, t))
      /\ UNCHANGED listening

ShutDown(w) ==
  LET shut == [w EXCEPT !.t.finQueued = TRUE, !.h.shut = TRUE]
  IN  IF w.t.finQueued THEN w
      ELSE IF w.t.state = "SynSent" THEN On(w, CloseWith(w.t, FALSE))
      ELSE IF w.t.state \in {"SynReceived", "Established"}
           THEN Output([shut EXCEPT !.t.state = "FinWait1"])
      ELSE IF w.t.state = "CloseWait" THEN Output([shut EXCEPT !.t.state = "LastAck"])
      ELSE w

\* Bound: once all it writes was acknowledged; Release ends a stream any time.
Shutdown(e, c) ==
  /\ e \in HalfClosers /\ Owned(e) /\ hist[e].wrote = ToWrite[e] /\ tcb[e].tx = 0
  /\ Done(e, c, ShutDown(Work(e, c)))
  /\ UNCHANGED listening

\* Slip: a peer that never ends its stream is awaited for ever.
AwaitedForEver(t) == t
Awaited(t) == IF t.state = "FinWait2" THEN [t EXCEPT !.closeAt = TRUE] ELSE t

\* Bound: a patient end lets go once nothing more comes or once it has shut down.
Leaves(e) ==
  e \in Patient => tcb[e].finReceived \/ tcb[e].finQueued \/ tcb[e].state = "Closed"

Release(e, c) ==
  LET w  == [Work(e, c) EXCEPT !.t.released = TRUE]
      w1 == ShutDown(w)
      w2 == On(w1, Awaited(w1.t))
  IN  /\ Owned(e) /\ Leaves(e)
      /\ Done(e, c, IF w.t.rx # <<>> \/ w.t.state = "SynSent" THEN Abort(w) ELSE w2)
      /\ UNCHANGED listening

-----------------------------------------------------------------------------
\* tcp_poll and tcp_timers, with every timer that is due, and tcp_link_ready.
Armed(t) ==
  {timer \in {"rtx", "ackAt", "persist", "closeAt", "linkRetry"} : t[timer]}

GivenUp(t) == CloseWith([t EXCEPT !.released = @ \/ t.listener], TRUE)
Rewound(t) ==
  [t EXCEPT !.retries = @ + 1, !.dupacks = 0, !.recover = None, !.nxt = t.una,
            !.finSent = FALSE, !.rtx = TRUE]

TimersGo(w, due) ==
  LET t  == w.t
      t1 == IF "rtx" \in due THEN Rewound(t) ELSE t
      t2 == IF "ackAt" \in due THEN [t1 EXCEPT !.ackNow = TRUE] ELSE t1
      t3 == IF "persist" \in due THEN [t2 EXCEPT !.persist = FALSE, !.probe = Unsent(t2) > 0] ELSE t2
  IN  IF "closeAt" \in due THEN On(w, CloseWith(t, FALSE))
      ELSE IF "rtx" \in due
              /\ t.retries + 1 > (IF Synchronized(t) THEN MaxRetries ELSE MaxSynRetries)
           THEN On(w, GivenUp(t))
      ELSE Output(On(w, t3))

Timers(e, c) ==
  /\ tcb[e] # None
  /\ \E due \in SUBSET Armed(tcb[e]) : due # {} /\ Done(e, c, TimersGo(Work(e, c), due))
  /\ UNCHANGED listening

-----------------------------------------------------------------------------
Next ==
  \/ Accept
  \/ \E c \in Conditions :
       \/ Unlisten(c)
       \/ \E e \in Ends :
            \/ Connect(e, c)
            \/ \E size \in Pieces : Write(e, size, c)
            \/ \E size \in Pieces : Read(e, size, c)
            \/ Shutdown(e, c)
            \/ Release(e, c)
            \/ Input(e, c)
            \/ Timers(e, c)

Spec == Init /\ [][Next]_vars
-----------------------------------------------------------------------------
\* Type invariant.
SeqNums == 0 .. (Space - 1)
ByteNums == 0 .. (Max({ToWrite[e] : e \in Ends}) - 1)
Windows == 0 .. Max(Range(RxRing))
Segments ==
  [seq : SeqNums, ack : SeqNums, flags : Flags, data : Seq(ByteNums), wnd : Windows]
Asms == UNION {[o -> ByteNums] : o \in SUBSET (1 .. Max(Range(RxRing)))}
Retries == 0 .. Max({MaxRetries, MaxSynRetries})
Dups == 0 .. (DupAcks + 1)
MaybeSeqNums == SeqNums \cup {None}
Tcbs ==
  [state : States, listener : BOOLEAN, ready : BOOLEAN, released : BOOLEAN, error : BOOLEAN,
   rxRing : Nat, rx : Seq(ByteNums), asm : Asms, txRing : Nat, tx : Nat, iss : SeqNums,
   una : SeqNums, nxt : SeqNums, max : SeqNums, base : SeqNums, wnd : Windows, wl1 : SeqNums,
   wl2 : SeqNums, maxWnd : Windows, rnxt : SeqNums, adv : SeqNums, finQueued : BOOLEAN,
   finSent : BOOLEAN, finSeq : MaybeSeqNums, finReceived : BOOLEAN, rtx : BOOLEAN,
   retries : Retries, ackAt : BOOLEAN, ackNow : BOOLEAN, unacked : 0 .. 2, probe : BOOLEAN,
   persist : BOOLEAN, linkRetry : BOOLEAN, closeAt : BOOLEAN, dupacks : Dups,
   recover : MaybeSeqNums]
NoneAssumption == None \notin Tcbs
ASSUME NoneAssumption

TypeOK ==
  /\ \A e \in Ends :
       /\ tcb[e] = None \/ tcb[e] \in Tcbs
       /\ tcb[e] # None => Len(tcb[e].rx) <= tcb[e].rxRing /\ tcb[e].tx <= tcb[e].txRing
       /\ DOMAIN net[e] \subseteq Segments
       /\ \A seg \in DOMAIN net[e] : net[e][seg] \in 0 .. (InTransit[e] - 1)
  /\ listening \in BOOLEAN /\ DOMAIN refusals = Ends

\* What waits to be read and what was put aside are the bytes of those numbers
\* the peer wrote, whatever was lost, sent again, cut or merged on the way.
StreamIntact ==
  \A e \in Ends : tcb[e] # None =>
    LET t == tcb[e] took == hist[e].took
    IN  /\ \A i \in DOMAIN t.rx : t.rx[i] = took - Len(t.rx) + i - 1
        /\ \A o \in DOMAIN t.asm : t.asm[o] = took + o

\* While bytes wait to be sent, something makes output run again: README.md
\* says that it "goes on once it has room", and a window that opens is probed
\* for.
OutputGoesOn ==
  \A e \in Ends : tcb[e] # None /\ Synchronized(tcb[e]) /\ Unsent(tcb[e]) > 0 =>
    tcb[e].rtx \/ tcb[e].persist \/ tcb[e].linkRetry

\* Whoever waits in FIN-WAIT-2 or TIME-WAIT for the rest of the connection, or
\* for its time to run out, has been heard to the end: the peer took every byte
\* and the end after them, so nothing is left that would have to be sent again.
EndHeard ==
  \A e \in Ends : tcb[e] # None /\ tcb[e].state \in {"FinWait2", "TimeWait"} =>
    hist[Peer(e)].ended /\ hist[Peer(e)].took = hist[e].wrote

\* Nothing the stack owes is left without a timer: bytes to send, what was
\* sent and not acknowledged, an acknowledgement put off, a state that only
\* time ends, and a connection the application let go of; and an end that will
\* send nothing again was heard out.
NothingForgotten ==
  /\ OutputGoesOn /\ EndHeard
  /\ \A e \in Ends : tcb[e] # None =>
       LET t == tcb[e]
       IN  /\ t.una # t.max /\ t.state # "Closed" => t.rtx \/ t.linkRetry
           /\ t.finQueued /\ ~t.finSent /\ Synchronized(t) => t.rtx \/ t.linkRetry \/ t.persist
           /\ t.ackNow /\ Synchronized(t) => t.linkRetry
           /\ t.unacked > 0 /\ Synchronized(t) => t.ackAt \/ t.linkRetry
           /\ t.state = "TimeWait" => t.closeAt
           /\ t.released => t.rtx \/ t.linkRetry \/ t.persist \/ t.closeAt

\* What the connection promises its ends.
Streams == INSTANCE StreamSpec WITH pipe <- hist
Implements == Streams!Spec
=============================================================================
